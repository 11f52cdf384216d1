---------------------------- MODULE Transactions ----------------------------
(***************************************************************************)
(* Transactions on a pooled connection.  Reserved, the exclusive handle    *)
(* that Pool::acquire returns, guesses from the text of the statements it  *)
(* runs whether a transaction is open (TxState), and its destructor spawns *)
(* a ROLLBACK when it believes so and rollback_on_drop was asked for.  The *)
(* connection goes back to the pool at once, so that the next holder may   *)
(* be using it before that ROLLBACK is queued.                             *)
(*                                                                         *)
(* One connection, reserved by one holder after the other; the tasks of a  *)
(* holder share `&Reserved'.  The connection is what Dispatcher shows it   *)
(* to be: requests are served in the order in which they were queued, an   *)
(* answer reaches the call with its id or nobody, and a connection that    *)
(* dies fails every call on it.  Left out are the Query and the stream     *)
(* made on a Reserved: they have a handle of their own, and may send       *)
(* requests after the Reserved was dropped.                                *)
(***************************************************************************)
EXTENDS Naturals, Sequences, FiniteSets

CONSTANTS
  Holders,    \* reservations of the connection; each happens once
  Tasks,      \* tasks of one holder that use its &Reserved
  Sql,        \* statements they run, as sequences of words
  Vias,       \* ways they run them, see observes
  MaxCalls,   \* bound: statements run in all
  NoHolder

ASSUME TransactionsAssumption ==
  /\ MaxCalls \in Nat /\ NoHolder \notin Holders
  /\ Vias \subseteq {"Reserved", "Reserved_opts", "Executor", "Executor_opts", "Job"}

VARIABLES
  stage,             \* where each holder is
  rollback_on_drop,  \* the field of each holder's Reserved
  tx_state,          \* Reserved::tx_state
  call,              \* the statement each task is awaiting
  calls,             \* ids drawn so far
  spawned,           \* holders whose ROLLBACK task has not run yet
  queue,             \* requests on their way to the daemon
  conn,              \* the connection
  tx,                \* external: the holder whose transaction is open
  upset              \* history: what has come in the way of the tracking

vars == <<stage, rollback_on_drop, tx_state, call, calls, spawned, queue, conn, tx, upset>>
-----------------------------------------------------------------------------
TxState == {"NotStarted", "Started", "Closed"}

NoCall == [id |-> 0, sql |-> << >>, observed |-> FALSE, answer |-> "none"]
Ping(h)        == [op |-> "ping", by |-> h, id |-> 0, sql |-> << >>]
Statement(h, id, sql) == [op |-> "sql", by |-> h, id |-> id, sql |-> sql]
Rollback(h)    == [op |-> "drop", by |-> h, id |-> 0, sql |-> <<"ROLLBACK">>]

Call    == [id : 0..MaxCalls, sql : Sql \cup {<< >>}, observed : BOOLEAN, answer : {"none", "ok", "err"}]
Request == {Ping(h) : h \in Holders} \cup {Rollback(h) : h \in Holders}
             \cup {Statement(h, id, sql) : h \in Holders, id \in 1..MaxCalls, sql \in Sql}

(* late: an earlier holder's ROLLBACK was not queued before this holder's  *)
(* recycle ping.  strayed: a transaction of an earlier holder was open to  *)
(* begin with; or a future was dropped with its statement under way; or a  *)
(* statement went past observe_sql; or two were under way at once; or      *)
(* observe_sql takes one for something else than the daemon does; or an    *)
(* answer was not what happened; or the drop found no runtime.             *)
Upset == {"late", "strayed"}

TypeOK ==
  /\ stage \in [Holders -> {"waiting", "recycling", "held", "dropped"}]
  /\ rollback_on_drop \in [Holders -> BOOLEAN]
  /\ tx_state \in [Holders -> TxState]
  /\ call \in [Tasks -> Call]
  /\ calls \in 0..MaxCalls
  /\ spawned \subseteq Holders
  /\ queue \in Seq(Request)
  /\ conn \in {"up", "down"}
  /\ tx \in Holders \cup {NoHolder}
  /\ upset \in [Holders -> SUBSET Upset]

Init ==
  /\ stage = [h \in Holders |-> "waiting"]
  /\ rollback_on_drop = [h \in Holders |-> FALSE]
  /\ tx_state = [h \in Holders |-> "NotStarted"]
  /\ call = [t \in Tasks |-> NoCall]
  /\ calls = 0
  /\ spawned = {}
  /\ queue = << >>
  /\ conn = "up"
  /\ tx = NoHolder
  /\ upset = [h \in Holders |-> {}]

Free   == \A h \in Holders : stage[h] \notin {"recycling", "held"}
Busy   == {t \in Tasks : call[t].id # 0}
Queued(r) == \E k \in 1..Len(queue) : queue[k] = r

-----------------------------------------------------------------------------
(* Words compare without regard to case; anything else is another word.    *)
eq_ignore_ascii_case(word, keyword) ==
  word = keyword \/ word \in (CASE keyword = "BEGIN"    -> {"begin"}
                                [] keyword = "COMMIT"   -> {"commit"}
                                [] keyword = "ROLLBACK" -> {"rollback"})

(* Mutant of observe_sql: keeps the word instead of what it means.         *)
observe_sql_Word(state, sql) == IF sql = << >> THEN state ELSE Head(sql)

first_word(sql) == IF sql = << >> THEN "" ELSE Head(sql)

(* Reserved::observe_sql looks at the first word.                          *)
observe_sql(state, sql) ==
  LET head == first_word(sql)
  IN  IF eq_ignore_ascii_case(head, "BEGIN") THEN "Started"
      ELSE IF eq_ignore_ascii_case(head, "COMMIT") \/ eq_ignore_ascii_case(head, "ROLLBACK")
           THEN "Closed"
      ELSE state

(* execute, execute_with and the _opts methods of Reserved observe what    *)
(* they run, and so do the _opts methods of Executor for Reserved; its     *)
(* execute and execute_with go to Job::execute, as `&**conn' does.         *)
observes(via) == via \in {"Reserved", "Reserved_opts", "Executor_opts"}

(* External: what the daemon makes of a statement.                         *)
effect(sql) ==
  CASE sql \in {<<"BEGIN">>, <<"begin">>, <<"BEGIN;">>} -> "begin"
    [] sql \in {<<"COMMIT">>, <<"commit">>, <<"COMMIT;">>} -> "end"
    [] sql \in {<<"ROLLBACK">>, <<"rollback">>, <<"ROLLBACK;">>} -> "end"
    [] OTHER -> "none"

(* The first word does not tell what the statement does: a terminator      *)
(* sticks to it, or what follows it matters.                               *)
Misread(sql) ==
  (effect(sql) # "none") # (first_word(sql) \in {"BEGIN", "begin", "COMMIT", "commit", "ROLLBACK", "rollback"})

Upsets(h, what) == upset' = [upset EXCEPT ![h] = @ \cup what]
-----------------------------------------------------------------------------
(* Pool::acquire: the idle connection is taken out of its slot and         *)
(* JobManager::recycle pings it.                                           *)
Acquire(h) ==
  /\ stage[h] = "waiting" /\ Free /\ conn = "up"
  /\ stage' = [stage EXCEPT ![h] = "recycling"]
  /\ queue' = Append(queue, Ping(h))
  /\ Upsets(h, IF spawned # {} THEN {"late"} ELSE {})
  /\ UNCHANGED <<rollback_on_drop, tx_state, call, calls, spawned, conn, tx>>

(* The pong has come (its request has left the queue): Reserved::new, and  *)
(* the caller opts in to rollback_on_drop or not.                          *)
NewReserved(h) ==
  /\ stage[h] = "recycling" /\ conn = "up" /\ ~Queued(Ping(h))
  /\ stage' = [stage EXCEPT ![h] = "held"]
  /\ \E armed \in BOOLEAN : rollback_on_drop' = [rollback_on_drop EXCEPT ![h] = armed]
  /\ tx_state' = [tx_state EXCEPT ![h] = "NotStarted"]
  /\ Upsets(h, IF tx # NoHolder THEN {"strayed"} ELSE {})
  /\ UNCHANGED <<call, calls, spawned, queue, conn, tx>>

(* The ping fails: the connection leaves the pool.                         *)
RecycleFails(h) ==
  /\ stage[h] = "recycling" /\ conn = "down"
  /\ stage' = [stage EXCEPT ![h] = "dropped"]
  /\ UNCHANGED <<rollback_on_drop, tx_state, call, calls, spawned, queue, conn, tx, upset>>

(* A statement through the reservation: execute and its variants, begin,   *)
(* commit, rollback, the Executor trait, or the escape hatch.              *)
Execute(h, t, sql, via) ==
  /\ stage[h] = "held" /\ t \notin Busy /\ calls < MaxCalls
  /\ calls' = calls + 1
  /\ call' = [call EXCEPT ![t] = [id |-> calls + 1, sql |-> sql, observed |-> observes(via),
                                  answer |-> IF conn = "up" THEN "none" ELSE "err"]]
  /\ queue' = IF conn = "up" THEN Append(queue, Statement(h, calls + 1, sql)) ELSE queue
  /\ Upsets(h, IF observes(via) /\ Busy = {} /\ ~Misread(sql) THEN {} ELSE {"strayed"})
  /\ UNCHANGED <<stage, rollback_on_drop, tx_state, spawned, conn, tx>>

(* Mutant of Return: observes a statement that failed.                     *)
ReturnObservesAll(h, t) ==
  /\ stage[h] = "held" /\ call[t].answer # "none"
  /\ tx_state' = [tx_state EXCEPT ![h] = IF call[t].observed THEN observe_sql(@, call[t].sql)
                                         ELSE @]
  /\ call' = [call EXCEPT ![t] = NoCall]
  /\ UNCHANGED <<stage, rollback_on_drop, calls, spawned, queue, conn, tx, upset>>

(* It resolves; a tracked one is observed if it is Ok.                     *)
Return(h, t) ==
  /\ stage[h] = "held" /\ call[t].answer # "none"
  /\ tx_state' = [tx_state EXCEPT ![h] = IF call[t].observed /\ call[t].answer = "ok"
                                         THEN observe_sql(@, call[t].sql) ELSE @]
  /\ call' = [call EXCEPT ![t] = NoCall]
  /\ UNCHANGED <<stage, rollback_on_drop, calls, spawned, queue, conn, tx, upset>>

(* Its future is dropped: the request stays where it is, and is not        *)
(* observed, not even if its answer is there.                              *)
Cancel(h, t) ==
  /\ stage[h] = "held" /\ t \in Busy
  /\ call' = [call EXCEPT ![t] = NoCall]
  /\ Upsets(h, {"strayed"})
  /\ UNCHANGED <<stage, rollback_on_drop, tx_state, calls, spawned, queue, conn, tx>>

(* Mutant of DropReserved: TxState is not asked.                           *)
DropReservedAlways(h) ==
  /\ stage[h] = "held" /\ Busy = {}
  /\ spawned' = IF rollback_on_drop[h] THEN spawned \cup {h} ELSE spawned
  /\ stage' = [stage EXCEPT ![h] = "dropped"]
  /\ UNCHANGED <<rollback_on_drop, tx_state, call, calls, queue, conn, tx, upset>>

(* Mutant of DropReserved: the ROLLBACK is not spawned.                    *)
DropReservedNever(h) ==
  /\ stage[h] = "held" /\ Busy = {}
  /\ stage' = [stage EXCEPT ![h] = "dropped"]
  /\ UNCHANGED <<rollback_on_drop, tx_state, call, calls, spawned, queue, conn, tx, upset>>

(* Drop for Reserved; futures borrow the Reserved, so none is left.  The   *)
(* Object goes back to the pool with it.                                   *)
DropReserved(h) ==
  /\ stage[h] = "held" /\ Busy = {}
  /\ spawned' = IF rollback_on_drop[h] /\ tx_state[h] = "Started"
                THEN spawned \cup {h} ELSE spawned
  /\ stage' = [stage EXCEPT ![h] = "dropped"]
  /\ UNCHANGED <<rollback_on_drop, tx_state, call, calls, queue, conn, tx, upset>>

(* Drop for Reserved outside of a runtime: spawn_best_effort does nothing. *)
DropOffRuntime(h) ==
  /\ stage[h] = "held" /\ Busy = {}
  /\ stage' = [stage EXCEPT ![h] = "dropped"]
  /\ Upsets(h, {"strayed"})
  /\ UNCHANGED <<rollback_on_drop, tx_state, call, calls, spawned, queue, conn, tx>>

(* Mutant of QueueRollback: the task ends without having queued anything.  *)
QueueRollbackLost(h) ==
  /\ h \in spawned
  /\ spawned' = spawned \ {h}
  /\ UNCHANGED <<stage, rollback_on_drop, tx_state, call, calls, queue, conn, tx, upset>>

(* The spawned task runs: its ROLLBACK is queued, or fails with the        *)
(* connection; nobody looks at the answer.                                 *)
QueueRollback(h) ==
  /\ h \in spawned
  /\ spawned' = spawned \ {h}
  /\ queue' = IF conn = "up" THEN Append(queue, Rollback(h)) ELSE queue
  /\ UNCHANGED <<stage, rollback_on_drop, tx_state, call, calls, conn, tx, upset>>
-----------------------------------------------------------------------------
(* External: the daemon and its transaction.                               *)

(* BEGIN in a transaction is refused.                                      *)
Applies(r) == effect(r.sql) # "begin" \/ tx = NoHolder

AfterStatement(r) == CASE effect(r.sql) = "begin" -> r.by
                       [] effect(r.sql) = "end"   -> NoHolder
                       [] OTHER                   -> tx

Answered(r, answer) ==
  call' = [t \in Tasks |-> IF r.id # 0 /\ call[t].id = r.id /\ r.op = "sql"
                           THEN [call[t] EXCEPT !.answer = answer] ELSE call[t]]

Serving ==
  /\ queue' = Tail(queue)
  /\ UNCHANGED <<stage, rollback_on_drop, tx_state, calls, spawned, conn>>

(* It runs a statement and says so.                                        *)
Serve(r) ==
  /\ Serving
  /\ IF Applies(r) THEN tx' = AfterStatement(r) /\ Answered(r, "ok")
                   ELSE tx' = tx /\ Answered(r, "err")
  /\ UNCHANGED upset

(* It refuses a statement and says so.  COMMIT and ROLLBACK succeed.       *)
Refuse(r) ==
  /\ r.op = "sql" /\ effect(r.sql) # "end"
  /\ Serving
  /\ tx' = tx /\ Answered(r, "err")
  /\ UNCHANGED upset

(* It runs a statement and its answer is not understood, or it refuses one *)
(* with a failure in the shape of a result, which is taken for Ok(Rows).   *)
Misreport(r) ==
  /\ r.op = "sql"
  /\ Serving
  /\ \/ Applies(r) /\ tx' = AfterStatement(r) /\ Answered(r, "err")
     \/ tx' = tx /\ Answered(r, "ok")
  /\ Upsets(r.by, {"strayed"})

Daemon == queue # << >> /\ LET r == Head(queue) IN Serve(r) \/ Refuse(r) \/ Misreport(r)

(* The connection dies, and the daemon's job with it.                      *)
ConnDown ==
  /\ conn = "up"
  /\ conn' = "down"
  /\ queue' = << >>
  /\ tx' = NoHolder
  /\ call' = [t \in Tasks |-> IF t \in Busy /\ call[t].answer = "none"
                              THEN [call[t] EXCEPT !.answer = "err"] ELSE call[t]]
  /\ UNCHANGED <<stage, rollback_on_drop, tx_state, calls, spawned, upset>>
-----------------------------------------------------------------------------
Next ==
  \/ \E h \in Holders :
       \/ Acquire(h) \/ NewReserved(h) \/ RecycleFails(h) \/ DropReserved(h)
       \/ DropOffRuntime(h) \/ QueueRollback(h)
       \/ \E t \in Tasks : \/ \E sql \in Sql, via \in Vias : Execute(h, t, sql, via)
                           \/ Return(h, t) \/ Cancel(h, t)
  \/ Daemon \/ ConnDown

Spec == Init /\ [][Next]_vars

(* Spawned tasks are polled, and the daemon serves what it is sent.        *)
FairSpec == /\ Spec
            /\ \A h \in Holders : WF_vars(QueueRollback(h))
            /\ WF_vars(Daemon)
-----------------------------------------------------------------------------
(* Properties.                                                             *)

(* Between two statements of a holder whose statements were all seen for   *)
(* what they are, and to whom nothing was left behind, TxState is right    *)
(* about the daemon: Started if and only if the transaction is open.       *)
TrackingExact ==
  \A h \in Holders :
    stage[h] = "held" /\ conn = "up" /\ Busy = {} /\ upset[h] = {} =>
      /\ tx \in {NoHolder, h}
      /\ (tx_state[h] = "Started") <=> (tx = h)

(* For such a holder the destructor fires ROLLBACK exactly when it was     *)
(* asked to and the daemon still has the transaction open: never after a   *)
(* COMMIT or on a connection that is in no transaction.                    *)
RollbackExactly ==
  [][\A h \in Holders :
       stage[h] = "held" /\ stage'[h] = "dropped" /\ conn = "up" /\ upset'[h] = {} =>
         (h \in spawned' <=> rollback_on_drop[h] /\ tx = h)]_vars

(* A statement of h is served while the transaction of g is open, although *)
(* g asked for rollback_on_drop and its tracking was right.                *)
Intrudes(h, g) ==
  /\ queue # << >> /\ Head(queue).op = "sql" /\ Head(queue).by = h /\ queue' = Tail(queue)
  /\ g # h /\ tx = g /\ rollback_on_drop[g] /\ upset[g] = {}

(* When the ROLLBACK of the previous holder was queued before the recycle  *)
(* ping, which waits for its pong, the next holder never works inside the  *)
(* transaction the previous one forgot.                                    *)
CleanHandOver ==
  [][\A h, g \in Holders : Intrudes(h, g) => "late" \in upset[h]]_vars

(* reserved.rs: the reservation is for "preserving exclusive transactional *)
(* access", and rollback_on_drop "provides safety against forgotten        *)
(* COMMIT/ROLLBACK": no other holder's statement runs in a transaction     *)
(* that rollback_on_drop is to end.                                        *)
ExclusiveTransaction ==
  [][\A h, g \in Holders : ~Intrudes(h, g)]_vars

(* A transaction that was forgotten is ended, by the ROLLBACK or with the  *)
(* connection.                                                             *)
ForgottenRolledBack ==
  \A h \in Holders :
    (stage[h] = "dropped" /\ rollback_on_drop[h] /\ upset[h] = {}) ~> (tx # h)
=============================================================================
