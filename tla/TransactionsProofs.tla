------------------------- MODULE TransactionsProofs -------------------------
(***************************************************************************)
(* Proofs about Transactions, for any holders, tasks, statements and ways  *)
(* to run them, and any number of calls.                                   *)
(***************************************************************************)
EXTENDS Transactions, TLAPS

-----------------------------------------------------------------------------
(* The inductive invariant.                                                *)

(* The connection is checked out once at a time; futures borrow the        *)
(* Reserved, so there are none without it; only they have answers.         *)
Active(h) == stage[h] \in {"recycling", "held"}

Exclusive ==
  /\ \A h, g \in Holders : Active(h) /\ Active(g) => h = g
  /\ (\A h \in Holders : stage[h] # "held") => Busy = {}
  /\ \A t \in Tasks : call[t].answer # "none" => t \in Busy

(* A dead connection holds no request and no transaction.                  *)
DownIsEmpty == conn = "down" => queue = << >> /\ tx = NoHolder

(* While a holder that is not late waits for its pong, nothing follows its *)
(* ping in the queue and no ROLLBACK is about to.                          *)
QuietRecycle ==
  \A h \in Holders : stage[h] = "recycling" /\ "late" \notin upset[h] =>
    /\ spawned = {}
    /\ queue = << >> \/ queue[Len(queue)] = Ping(h)

(* TxState is right about the daemon.                                      *)
Exact(h, state) == tx \in {NoHolder, h} /\ (state = "Started" <=> tx = h)

(* What a holder whose tracking was not upset has under way: nothing; one  *)
(* statement, alone in the queue; or its answer, still to be observed.     *)
UnderWay(h) ==
  \/ Busy = {} /\ queue = << >> /\ Exact(h, tx_state[h])
  \/ \E t \in Tasks :
       /\ Busy = {t} /\ call[t].observed /\ ~Misread(call[t].sql)
       /\ \/ /\ call[t].answer = "none"
             /\ queue = <<Statement(h, call[t].id, call[t].sql)>>
             /\ Exact(h, tx_state[h])
          \/ /\ call[t].answer = "ok" /\ queue = << >>
             /\ Exact(h, observe_sql(tx_state[h], call[t].sql))
          \/ call[t].answer = "err" /\ queue = << >> /\ Exact(h, tx_state[h])

CleanHeld ==
  \A h \in Holders : stage[h] = "held" /\ conn = "up" /\ upset[h] = {} =>
    spawned = {} /\ UnderWay(h)

TrackingInv == TypeOK /\ Exclusive /\ DownIsEmpty /\ QuietRecycle /\ CleanHeld

(* A statement whose holder's tracking was not upset is in the queue only  *)
(* while that holder has the connection, and so is its transaction begun.  *)
NoStale ==
  \A g \in Holders : upset[g] = {} =>
    /\ stage[g] # "held" => \A k \in 1..Len(queue) : queue[k].op = "sql" => queue[k].by # g
    /\ tx = g => stage[g] \in {"held", "dropped"}

(* Every statement among the first n of the queue is a late holder's.      *)
LateUpTo(n) ==
  \A k \in 1..n : queue[k].op = "sql" => "late" \in upset[queue[k].by]

(* The transaction a holder forgot will be rolled back before a holder     *)
(* that is not late has a statement served: the ROLLBACK is about to be    *)
(* queued and everyone since is late, or it is in the queue ahead of them. *)
RollbackAhead ==
  \A g \in Holders :
    tx = g /\ stage[g] = "dropped" /\ rollback_on_drop[g] /\ upset[g] = {} =>
      \/ /\ g \in spawned /\ LateUpTo(Len(queue))
         /\ \A h \in Holders : Active(h) => "late" \in upset[h]
      \/ \E j \in 1..Len(queue) : queue[j] = Rollback(g) /\ LateUpTo(j - 1)

HandOverInv == TrackingInv /\ NoStale /\ RollbackAhead
-----------------------------------------------------------------------------
(* Lemmas about the operators.                                             *)

(* What observe_sql makes of a first word.                                 *)
LEMMA ObserveWord ==
  ASSUME NEW state, NEW sql
  PROVE  /\ first_word(sql) \in {"BEGIN", "begin"} => observe_sql(state, sql) = "Started"
         /\ first_word(sql) \in {"COMMIT", "commit", "ROLLBACK", "rollback"} =>
              observe_sql(state, sql) = "Closed"
         /\ first_word(sql) \notin {"BEGIN", "begin", "COMMIT", "commit", "ROLLBACK", "rollback"} =>
              observe_sql(state, sql) = state
  BY DEF observe_sql, eq_ignore_ascii_case

(* The first words of the statements that begin or end a transaction.      *)
LEMMA FirstWords ==
  /\ first_word(<<"BEGIN">>) = "BEGIN" /\ first_word(<<"begin">>) = "begin"
  /\ first_word(<<"BEGIN;">>) = "BEGIN;"
  /\ first_word(<<"COMMIT">>) = "COMMIT" /\ first_word(<<"commit">>) = "commit"
  /\ first_word(<<"COMMIT;">>) = "COMMIT;"
  /\ first_word(<<"ROLLBACK">>) = "ROLLBACK" /\ first_word(<<"rollback">>) = "rollback"
  /\ first_word(<<"ROLLBACK;">>) = "ROLLBACK;"
  <1>1. \A word : first_word(<<word>>) = word
    BY DEF first_word
  <1> QED
    BY <1>1

(* A statement that is not misread changes TxState the way it changes the  *)
(* transaction, when it is successful.                                     *)
LEMMA ObserveEffect ==
  ASSUME NEW state, NEW sql, ~Misread(sql)
  PROVE  /\ effect(sql) = "begin" => observe_sql(state, sql) = "Started"
         /\ effect(sql) = "end" => observe_sql(state, sql) = "Closed"
         /\ effect(sql) = "none" => observe_sql(state, sql) = state
         /\ effect(sql) \in {"begin", "end", "none"}
  <1>1. CASE sql \in {<<"BEGIN">>, <<"begin">>, <<"BEGIN;">>}
    <2>1. effect(sql) = "begin"
      <3>1. first_word(sql) \in {"BEGIN", "begin", "BEGIN;"}
        BY <1>1, FirstWords
      <3>2. /\ sql \notin {<<"COMMIT">>, <<"commit">>, <<"COMMIT;">>}
            /\ sql \notin {<<"ROLLBACK">>, <<"rollback">>, <<"ROLLBACK;">>}
        BY <3>1, FirstWords
      <3> QED
        BY <1>1, <3>2 DEF effect
    <2>2. first_word(sql) \in {"BEGIN", "begin", "BEGIN;"}
      BY <1>1, FirstWords
    <2>3. first_word(sql) \in {"BEGIN", "begin"}
      BY <2>1, <2>2 DEF Misread
    <2> QED
      BY <2>1, <2>3, ObserveWord
  <1>2. CASE sql \in {<<"COMMIT">>, <<"commit">>, <<"COMMIT;">>, <<"ROLLBACK">>, <<"rollback">>, <<"ROLLBACK;">>}
    <2>1. effect(sql) = "end"
      <3>1. first_word(sql) \in {"COMMIT", "commit", "COMMIT;", "ROLLBACK", "rollback", "ROLLBACK;"}
        BY <1>2, FirstWords
      <3>2. sql \notin {<<"BEGIN">>, <<"begin">>, <<"BEGIN;">>}
        BY <3>1, FirstWords
      <3> QED
        BY <1>2, <3>2 DEF effect
    <2>2. first_word(sql) \in {"COMMIT", "commit", "COMMIT;", "ROLLBACK", "rollback", "ROLLBACK;"}
      BY <1>2, FirstWords
    <2>3. first_word(sql) \in {"COMMIT", "commit", "ROLLBACK", "rollback"}
      BY <2>1, <2>2 DEF Misread
    <2> QED
      BY <2>1, <2>3, ObserveWord
  <1>3. CASE /\ sql \notin {<<"BEGIN">>, <<"begin">>, <<"BEGIN;">>}
             /\ sql \notin {<<"COMMIT">>, <<"commit">>, <<"COMMIT;">>, <<"ROLLBACK">>, <<"rollback">>, <<"ROLLBACK;">>}
    <2>1. effect(sql) = "none"
      BY <1>3 DEF effect
    <2>2. first_word(sql) \notin {"BEGIN", "begin", "COMMIT", "commit", "ROLLBACK", "rollback"}
      BY <2>1 DEF Misread
    <2> QED
      BY <2>1, <2>2, ObserveWord
  <1> QED
    BY <1>1, <1>2, <1>3

(* Observing yields a TxState.                                             *)
LEMMA ObserveType ==
  ASSUME NEW state \in TxState, NEW sql
  PROVE  observe_sql(state, sql) \in TxState
  BY ObserveWord DEF TxState

(* The kinds of requests: a ping does nothing, the destructor's ROLLBACK   *)
(* ends the transaction, and only statements have an id.                   *)
LEMMA RequestKinds ==
  ASSUME NEW r \in Request
  PROVE  /\ r.by \in Holders /\ r.op \in {"ping", "sql", "drop"}
         /\ r.op = "ping" => effect(r.sql) = "none"
         /\ r.op = "drop" => effect(r.sql) = "end"
  <1>1. effect(<< >>) = "none" /\ effect(<<"ROLLBACK">>) = "end"
    BY DEF effect
  <1> QED
    BY <1>1 DEF Request, Ping, Rollback, Statement

(* The requests built by the actions.                                      *)
LEMMA RequestTypes ==
  ASSUME NEW h \in Holders
  PROVE  /\ Ping(h) \in Request /\ Rollback(h) \in Request
         /\ \A id \in 1..MaxCalls, sql \in Sql : Statement(h, id, sql) \in Request
         /\ Ping(h).op = "ping" /\ Rollback(h).op = "drop"
         /\ \A id, sql : /\ Statement(h, id, sql).op = "sql" /\ Statement(h, id, sql).by = h
                         /\ Statement(h, id, sql).id = id /\ Statement(h, id, sql).sql = sql
  BY DEF Request, Ping, Rollback, Statement

-----------------------------------------------------------------------------
(* Type correctness.                                                       *)

(* The initial state is well typed.                                        *)
LEMMA InitTypeOK == Init => TypeOK
  BY TransactionsAssumption DEF Init, TypeOK, NoCall, Call, TxState, Upset

(* An answer keeps the shape of a call.                                    *)
LEMMA AnsweredType ==
  ASSUME TypeOK, NEW r, NEW answer \in {"none", "ok", "err"}, Answered(r, answer)
  PROVE  call' \in [Tasks -> Call]
  BY DEF TypeOK, Call, Answered

(* The daemon keeps the types.                                             *)
LEMMA DaemonTypeOK ==
  ASSUME TypeOK, Daemon
  PROVE  TypeOK'
  <1> DEFINE r == Head(queue)
  <1>1. r \in Request /\ Tail(queue) \in Seq(Request) /\ queue # << >>
    BY DEF TypeOK, Daemon
  <1>2. Serve(r) \/ Refuse(r) \/ Misreport(r)
    BY DEF Daemon
  <1> HIDE DEF r
  <1>3. Serving /\ \E answer \in {"ok", "err"} : Answered(r, answer)
    BY <1>2 DEF Serve, Refuse, Misreport
  <1>4. call' \in [Tasks -> Call]
    BY <1>3, AnsweredType
  <1>5. r.by \in Holders
    BY <1>1, RequestKinds
  <1>6. tx' \in Holders \cup {NoHolder}
    BY <1>2, <1>5 DEF TypeOK, Serve, Refuse, Misreport, AfterStatement
  <1>7. upset' \in [Holders -> SUBSET Upset]
    BY <1>2, <1>5 DEF TypeOK, Serve, Refuse, Misreport, Upsets, Upset
  <1> QED
    BY <1>1, <1>3, <1>4, <1>6, <1>7 DEF TypeOK, Serving

(* Every step keeps the types.                                             *)
LEMMA NextTypeOK == TypeOK /\ [Next]_vars => TypeOK'
  <1> SUFFICES ASSUME TypeOK, [Next]_vars PROVE TypeOK'
    OBVIOUS
  <1>0. ASSUME NEW h \in Holders, NEW what \in SUBSET Upset, Upsets(h, what)
        PROVE  upset' \in [Holders -> SUBSET Upset]
    BY <1>0 DEF TypeOK, Upsets
  <1>1. ASSUME NEW h \in Holders, Acquire(h) PROVE TypeOK'
    <2>1. queue' \in Seq(Request)
      BY <1>1, RequestTypes DEF TypeOK, Acquire
    <2>2. upset' \in [Holders -> SUBSET Upset]
      BY <1>0, <1>1 DEF Acquire, Upset
    <2> QED
      BY <1>1, <2>1, <2>2 DEF TypeOK, Acquire
  <1>2. ASSUME NEW h \in Holders, NewReserved(h) PROVE TypeOK'
    <2>1. upset' \in [Holders -> SUBSET Upset]
      BY <1>0, <1>2 DEF NewReserved, Upset
    <2> QED
      BY <1>2, <2>1 DEF TypeOK, NewReserved, TxState
  <1>3. ASSUME NEW h \in Holders, RecycleFails(h) \/ DropReserved(h) PROVE TypeOK'
    BY <1>3 DEF TypeOK, RecycleFails, DropReserved
  <1>4. ASSUME NEW h \in Holders, DropOffRuntime(h) PROVE TypeOK'
    <2>1. upset' \in [Holders -> SUBSET Upset]
      BY <1>0, <1>4 DEF DropOffRuntime, Upset
    <2> QED
      BY <1>4, <2>1 DEF TypeOK, DropOffRuntime
  <1>5. ASSUME NEW h \in Holders, QueueRollback(h) PROVE TypeOK'
    <2>1. queue' \in Seq(Request)
      BY <1>5, RequestTypes DEF TypeOK, QueueRollback
    <2> QED
      BY <1>5, <2>1 DEF TypeOK, QueueRollback
  <1>6. ASSUME NEW h \in Holders, NEW t \in Tasks, NEW sql \in Sql, NEW via \in Vias,
               Execute(h, t, sql, via)
        PROVE  TypeOK'
    <2>1. calls' = calls + 1 /\ calls' \in 1..MaxCalls /\ calls' \in 0..MaxCalls
      BY <1>6, TransactionsAssumption DEF TypeOK, Execute
    <2>2. queue' \in Seq(Request)
      <3>1. Statement(h, calls + 1, sql) \in Request
        BY <2>1, RequestTypes
      <3> QED
        BY <1>6, <3>1 DEF TypeOK, Execute
    <2>3. upset' \in [Holders -> SUBSET Upset]
      BY <1>0, <1>6 DEF Execute, Upset
    <2>4. call' \in [Tasks -> Call]
      BY <1>6, <2>1 DEF TypeOK, Execute, Call, observes
    <2> QED
      BY <1>6, <2>1, <2>2, <2>3, <2>4 DEF TypeOK, Execute
  <1>7. ASSUME NEW h \in Holders, NEW t \in Tasks, Return(h, t) PROVE TypeOK'
    <2>1. tx_state' \in [Holders -> TxState]
      BY <1>7, ObserveType DEF TypeOK, Return
    <2>2. call' \in [Tasks -> Call]
      BY <1>7, TransactionsAssumption DEF TypeOK, Return, Call, NoCall
    <2> QED
      BY <1>7, <2>1, <2>2 DEF TypeOK, Return
  <1>8. ASSUME NEW h \in Holders, NEW t \in Tasks, Cancel(h, t) PROVE TypeOK'
    <2>1. upset' \in [Holders -> SUBSET Upset]
      BY <1>0, <1>8 DEF Cancel, Upset
    <2>2. call' \in [Tasks -> Call]
      BY <1>8, TransactionsAssumption DEF TypeOK, Cancel, Call, NoCall
    <2> QED
      BY <1>8, <2>1, <2>2 DEF TypeOK, Cancel
  <1>9. CASE Daemon
    BY <1>9, DaemonTypeOK
  <1>10. CASE ConnDown
    <2>1. call' \in [Tasks -> Call]
      <3>1. call \in [Tasks -> Call]
        BY DEF TypeOK
      <3>2. \A c \in Call : [c EXCEPT !.answer = "err"] \in Call
        BY DEF Call
      <3>3. \A t \in Tasks : call[t] \in Call /\ [call[t] EXCEPT !.answer = "err"] \in Call
        BY <3>1, <3>2
      <3> HIDE DEF Call
      <3> QED
        BY <1>10, <3>3 DEF ConnDown
    <2> QED
      BY <1>10, <2>1 DEF TypeOK, ConnDown
  <1>11. CASE UNCHANGED vars
    BY <1>11 DEF TypeOK, vars
  <1> QED
    BY <1>1, <1>2, <1>3, <1>4, <1>5, <1>6, <1>7, <1>8, <1>9, <1>10, <1>11 DEF Next

(* Every reachable state is well typed: TxState takes its three values     *)
(* only, and ids, requests and answers are what the code can produce.      *)
THEOREM Typing == Spec => []TypeOK
  BY InitTypeOK, NextTypeOK, PTL DEF Spec

-----------------------------------------------------------------------------
(* TxState and the daemon's transaction.                                   *)

(* A step that at most gives calls under way an answer.                    *)
KeepsCalls ==
  \A t \in Tasks :
    /\ call'[t].id = call[t].id /\ call'[t].sql = call[t].sql
    /\ call'[t].observed = call[t].observed
    /\ call[t].id = 0 => call'[t] = call[t]

(* What the daemon leaves alone.                                           *)
LEMMA DaemonStep ==
  ASSUME TypeOK, Daemon
  PROVE  /\ UNCHANGED <<stage, rollback_on_drop, tx_state, calls, spawned, conn>>
         /\ queue # << >> /\ queue' = Tail(queue)
         /\ Head(queue) \in Request
         /\ KeepsCalls
  <1> DEFINE r == Head(queue)
  <1>1. queue # << >> /\ r \in Request
    BY DEF TypeOK, Daemon
  <1>2. Serve(r) \/ Refuse(r) \/ Misreport(r)
    BY DEF Daemon
  <1> HIDE DEF r
  <1>3. Serving /\ \E answer \in {"ok", "err"} : Answered(r, answer)
    BY <1>2 DEF Serve, Refuse, Misreport
  <1>4. PICK answer \in {"ok", "err"} : Answered(r, answer)
    BY <1>3
  <1>5. \A t \in Tasks : call'[t] = IF r.id # 0 /\ call[t].id = r.id /\ r.op = "sql"
                                   THEN [call[t] EXCEPT !.answer = answer] ELSE call[t]
    BY <1>4 DEF Answered
  <1>6. KeepsCalls
    BY <1>5 DEF TypeOK, Call, KeepsCalls
  <1> QED
    BY <1>1, <1>3, <1>6 DEF Serving, r

(* Nothing that came in the way of the tracking is forgotten.              *)
LEMMA UpsetGrows ==
  ASSUME TypeOK, [Next]_vars, NEW h \in Holders
  PROVE  upset[h] \subseteq upset'[h]
  <1>0. ASSUME NEW g, NEW what, Upsets(g, what)
        PROVE  upset[h] \subseteq upset'[h]
    BY <1>0 DEF TypeOK, Upsets
  <1>1. CASE Daemon
    <2>1. upset' = upset \/ \E g, what : Upsets(g, what)
      BY <1>1 DEF Daemon, Serve, Refuse, Misreport
    <2> QED
      BY <1>0, <2>1
  <1>2. CASE ~Daemon
    <2>1. upset' = upset \/ \E g, what : Upsets(g, what)
      BY <1>2 DEF Next, Acquire, NewReserved, RecycleFails, DropReserved, DropOffRuntime,
         QueueRollback, Execute, Return, Cancel, ConnDown, vars
    <2> QED
      BY <1>0, <2>1
  <1> QED
    BY <1>1, <1>2

(* Every step keeps the checkout exclusive.                                *)
LEMMA NextExclusive == TypeOK /\ Exclusive /\ [Next]_vars => Exclusive'
  <1> SUFFICES ASSUME TypeOK, Exclusive, [Next]_vars PROVE Exclusive'
    OBVIOUS
  <1>0. ASSUME UNCHANGED <<stage, call>> PROVE Exclusive'
    BY <1>0 DEF Exclusive, Active, Busy
  <1>1. ASSUME NEW h \in Holders, Acquire(h) PROVE Exclusive'
    <2>1. /\ \A g \in Holders : stage[g] \notin {"recycling", "held"}
          /\ \A g \in Holders : stage'[g] = IF g = h THEN "recycling" ELSE stage[g]
          /\ UNCHANGED call
      BY <1>1 DEF TypeOK, Acquire, Free
    <2>2. Busy = {} /\ Busy' = {}
      BY <2>1 DEF Exclusive, Busy
    <2> QED
      BY <2>1, <2>2 DEF Exclusive, Active
  <1>2. ASSUME NEW h \in Holders, NewReserved(h) PROVE Exclusive'
    <2>1. /\ stage[h] = "recycling" /\ UNCHANGED call
          /\ \A g \in Holders : stage'[g] = IF g = h THEN "held" ELSE stage[g]
      BY <1>2 DEF TypeOK, NewReserved
    <2> QED
      BY <2>1 DEF Exclusive, Active, Busy
  <1>3. ASSUME NEW h \in Holders, RecycleFails(h) \/ DropReserved(h) \/ DropOffRuntime(h)
        PROVE  Exclusive'
    <2>1. /\ UNCHANGED call /\ stage[h] \in {"recycling", "held"}
          /\ stage[h] = "held" => Busy = {}
          /\ \A g \in Holders : stage'[g] = IF g = h THEN "dropped" ELSE stage[g]
      BY <1>3 DEF TypeOK, RecycleFails, DropReserved, DropOffRuntime
    <2>2. Busy' = Busy
      BY <2>1 DEF Busy
    <2>3. \A g \in Holders : stage[g] = "held" => stage[h] = "held" /\ g = h
      BY <2>1 DEF Exclusive, Active
    <2>4. Busy = {}
      BY <2>1, <2>3 DEF Exclusive
    <2> QED
      BY <2>1, <2>2, <2>4 DEF Exclusive, Active
  <1>4. ASSUME NEW h \in Holders, NEW t \in Tasks, stage[h] = "held", UNCHANGED stage,
               \A u \in Tasks : u # t => call'[u] = call[u],
               call'[t].id # 0 \/ call'[t].answer = "none"
        PROVE  Exclusive'
    BY <1>4 DEF Exclusive, Active, Busy
  <1>5. ASSUME NEW h \in Holders, NEW t \in Tasks, NEW sql \in Sql, NEW via \in Vias,
               Execute(h, t, sql, via)
        PROVE  Exclusive'
    <2>1. /\ stage[h] = "held" /\ UNCHANGED stage
          /\ \A u \in Tasks : u # t => call'[u] = call[u]
          /\ call'[t].id = calls + 1 /\ calls \in Nat
      BY <1>5, TransactionsAssumption DEF TypeOK, Execute
    <2> QED
      BY <1>4, <2>1
  <1>6. ASSUME NEW h \in Holders, NEW t \in Tasks, Return(h, t) \/ Cancel(h, t)
        PROVE  Exclusive'
    <2>1. /\ stage[h] = "held" /\ UNCHANGED stage
          /\ \A u \in Tasks : u # t => call'[u] = call[u]
          /\ call'[t] = NoCall
      BY <1>6 DEF TypeOK, Return, Cancel
    <2> QED
      BY <1>4, <2>1 DEF NoCall
  <1>7. CASE Daemon
    <2>0. UNCHANGED stage /\ KeepsCalls
      BY <1>7, DaemonStep
    <2>1. Busy' = Busy
      BY <2>0 DEF Busy, KeepsCalls
    <2>2. \A t \in Tasks : call'[t].answer # "none" => t \in Busy
      BY <2>0 DEF Exclusive, Busy, KeepsCalls
    <2> QED
      BY <2>0, <2>1, <2>2 DEF Exclusive, Active
  <1>8. CASE ConnDown
    <2>1. \A t \in Tasks : call'[t].id = call[t].id /\ (t \notin Busy => call'[t] = call[t])
      BY <1>8 DEF TypeOK, ConnDown, Call
    <2>2. Busy' = Busy
      BY <2>1 DEF Busy
    <2>3. UNCHANGED stage
      BY <1>8 DEF ConnDown
    <2> QED
      BY <2>1, <2>2, <2>3 DEF Exclusive, Active
  <1>9. ASSUME NEW h \in Holders, QueueRollback(h) PROVE Exclusive'
    BY <1>0, <1>9 DEF QueueRollback
  <1>10. CASE UNCHANGED vars
    BY <1>0, <1>10 DEF vars
  <1> QED
    BY <1>1, <1>2, <1>3, <1>5, <1>6, <1>7, <1>8, <1>9, <1>10 DEF Next

(* Nothing enters the queue of a dead connection.                          *)
LEMMA NextDownIsEmpty == TypeOK /\ DownIsEmpty /\ [Next]_vars => DownIsEmpty'
  <1> SUFFICES ASSUME TypeOK, DownIsEmpty, [Next]_vars, conn' = "down"
               PROVE  queue' = << >> /\ tx' = NoHolder
    BY DEF DownIsEmpty
  <1>1. CASE ConnDown
    BY <1>1 DEF ConnDown
  <1>2. CASE Daemon
    BY <1>2, DaemonStep DEF DownIsEmpty
  <1>3. CASE ~ConnDown /\ ~Daemon
    <2>1. conn = "down"
      BY <1>3 DEF Next, Acquire, NewReserved, RecycleFails, DropReserved, DropOffRuntime,
         QueueRollback, Execute, Return, Cancel, vars
    <2>2. queue' = queue /\ tx' = tx
      BY <1>3, <2>1 DEF Next, Acquire, NewReserved, RecycleFails, DropReserved, DropOffRuntime,
         QueueRollback, Execute, Return, Cancel, vars
    <2> QED
      BY <2>1, <2>2 DEF DownIsEmpty
  <1> QED
    BY <1>1, <1>2, <1>3

(* Every step keeps the queue quiet behind a recycle ping.                 *)
LEMMA NextQuietRecycle ==
  TypeOK /\ Exclusive /\ DownIsEmpty /\ QuietRecycle /\ [Next]_vars => QuietRecycle'
  <1> SUFFICES ASSUME TypeOK, Exclusive, DownIsEmpty, QuietRecycle, [Next]_vars,
                      NEW h \in Holders, stage'[h] = "recycling", "late" \notin upset'[h]
               PROVE  /\ spawned' = {}
                      /\ queue' = << >> \/ queue'[Len(queue')] = Ping(h)
    BY DEF QuietRecycle, Ping
  <1>0. "late" \notin upset[h]
    BY UpsetGrows
  <1>1. ASSUME stage[h] = "recycling"
        PROVE  spawned = {} /\ (queue = << >> \/ queue[Len(queue)] = Ping(h))
    BY <1>0, <1>1 DEF QuietRecycle
  <1>2. ASSUME NEW g \in Holders, Acquire(g)
        PROVE  /\ spawned' = {}
               /\ queue' = << >> \/ queue'[Len(queue')] = Ping(h)
    <2>1. g = h
      BY <1>2 DEF TypeOK, Acquire, Free
    <2>2. spawned = {} /\ spawned' = spawned
      BY <1>2, <2>1 DEF TypeOK, Acquire, Upsets
    <2>3. queue' = Append(queue, Ping(h)) /\ queue \in Seq(Request)
      BY <1>2, <2>1 DEF TypeOK, Acquire
    <2>4. queue'[Len(queue')] = Ping(h)
      BY <2>3
    <2> QED
      BY <2>2, <2>4
  <1>3. ASSUME NEW g \in Holders,
               NewReserved(g) \/ RecycleFails(g) \/ DropReserved(g) \/ DropOffRuntime(g)
        PROVE  /\ spawned' = {}
               /\ queue' = << >> \/ queue'[Len(queue')] = Ping(h)
    <2>1. stage[h] = "recycling" /\ UNCHANGED queue
      BY <1>3 DEF TypeOK, NewReserved, RecycleFails, DropReserved, DropOffRuntime
    <2>2. UNCHANGED spawned
      BY <1>3, <2>1 DEF TypeOK, Exclusive, Active, NewReserved, RecycleFails, DropReserved, DropOffRuntime
    <2> QED
      BY <1>1, <2>1, <2>2
  <1>4. ASSUME NEW g \in Holders, NEW t \in Tasks,
               Return(g, t) \/ Cancel(g, t) \/ \E sql \in Sql, via \in Vias : Execute(g, t, sql, via)
        PROVE  FALSE
    <2>1. stage[g] = "held" /\ UNCHANGED stage
      BY <1>4 DEF Return, Cancel, Execute
    <2> QED
      BY <2>1 DEF Exclusive, Active
  <1>5. ASSUME NEW g \in Holders, QueueRollback(g) PROVE FALSE
    <2>1. stage[h] = "recycling" /\ g \in spawned
      BY <1>5 DEF QueueRollback
    <2> QED
      BY <1>1, <2>1
  <1>6. CASE Daemon
    <2>1. spawned' = spawned /\ queue # << >> /\ queue' = Tail(queue) /\ stage[h] = "recycling"
      BY <1>6, DaemonStep
    <2>2. queue \in Seq(Request) /\ queue[Len(queue)] = Ping(h) /\ spawned = {}
      BY <1>1, <2>1 DEF TypeOK
    <2>3. queue' = << >> \/ (Len(queue') = Len(queue) - 1 /\ queue'[Len(queue) - 1] = queue[Len(queue)])
      BY <2>1, <2>2
    <2> QED
      BY <2>1, <2>2, <2>3
  <1>7. CASE ConnDown
    BY <1>1, <1>7 DEF ConnDown
  <1>8. CASE UNCHANGED vars
    BY <1>1, <1>8 DEF vars
  <1> QED
    BY <1>2, <1>3, <1>4, <1>5, <1>6, <1>7, <1>8 DEF Next

(* The only statement under way is served: TxState stays right, once the   *)
(* answer is observed.                                                     *)
LEMMA DaemonUnderWay ==
  ASSUME TypeOK, NEW h \in Holders, UnderWay(h), Daemon, upset'[h] = {}
  PROVE  UnderWay(h)'
  <1> DEFINE r == Head(queue)
  <1>1. queue # << >> /\ (Serve(r) \/ Refuse(r) \/ Misreport(r))
    BY DEF Daemon
  <1>2. PICK t \in Tasks :
          /\ Busy = {t} /\ call[t].observed /\ ~Misread(call[t].sql)
          /\ call[t].answer = "none" /\ queue = <<Statement(h, call[t].id, call[t].sql)>>
          /\ Exact(h, tx_state[h])
    BY <1>1 DEF UnderWay
  <1>3. r = Statement(h, call[t].id, call[t].sql) /\ Tail(queue) = << >>
    BY <1>2
  <1>4. r.by = h /\ r.op = "sql" /\ r.id = call[t].id /\ r.sql = call[t].sql
    BY <1>3, RequestTypes
  <1>5. call[t].id # 0 /\ call[t] \in Call
    BY <1>2 DEF Busy, TypeOK
  <1> HIDE DEF r
  <1>6. queue' = << >> /\ UNCHANGED <<tx_state, stage>> /\ KeepsCalls
    BY <1>3, DaemonStep
  <1>7. Busy' = {t}
    BY <1>2, <1>6 DEF Busy, KeepsCalls
  <1>8. call'[t].observed /\ call'[t].sql = call[t].sql
    BY <1>2, <1>6 DEF KeepsCalls
  <1>9. ASSUME NEW answer, Answered(r, answer) PROVE call'[t].answer = answer
    BY <1>4, <1>5, <1>9 DEF Answered, Call
  <1>10. ~Misreport(r)
    BY <1>4 DEF TypeOK, Misreport, Upsets
  <1>11. \/ call'[t].answer = "ok" /\ Applies(r) /\ tx' = AfterStatement(r)
         \/ call'[t].answer = "err" /\ tx' = tx
    BY <1>1, <1>9, <1>10 DEF Serve, Refuse
  <1>12. CASE call'[t].answer = "err" /\ tx' = tx
    <2>1. Exact(h, tx_state[h])'
      BY <1>2, <1>6, <1>12 DEF Exact
    <2> QED
      BY <1>2, <1>6, <1>7, <1>8, <1>12, <2>1 DEF UnderWay
  <1>13. CASE call'[t].answer = "ok" /\ Applies(r) /\ tx' = AfterStatement(r)
    <2> DEFINE sql == call[t].sql
               new == observe_sql(tx_state[h], sql)
    <2>1. /\ effect(sql) = "begin" => new = "Started"
          /\ effect(sql) = "end" => new = "Closed"
          /\ effect(sql) = "none" => new = tx_state[h]
          /\ effect(sql) \in {"begin", "end", "none"}
      BY <1>2, ObserveEffect
    <2>2. /\ effect(sql) = "begin" => tx' = h
          /\ effect(sql) = "end" => tx' = NoHolder
          /\ effect(sql) = "none" => tx' = tx
      BY <1>4, <1>13 DEF AfterStatement
    <2>3. NoHolder # h
      BY TransactionsAssumption
    <2> HIDE DEF new, sql
    <2>4. tx' \in {NoHolder, h} /\ (new = "Started" <=> tx' = h)
      BY <1>2, <2>1, <2>2, <2>3 DEF Exact
    <2>5. Exact(h, observe_sql(tx_state[h], call[t].sql))'
      BY <1>6, <1>8, <2>4 DEF Exact, new, sql
    <2> QED
      BY <1>2, <1>6, <1>7, <1>8, <1>13, <2>5 DEF UnderWay
  <1> QED
    BY <1>11, <1>12, <1>13

(* Every step keeps TxState right for a holder that nothing has upset.     *)
LEMMA NextCleanHeld == TrackingInv /\ [Next]_vars => CleanHeld'
  <1> SUFFICES ASSUME TrackingInv, [Next]_vars, NEW h \in Holders,
                      stage'[h] = "held", conn' = "up", upset'[h] = {}
               PROVE  spawned' = {} /\ UnderWay(h)'
    BY DEF CleanHeld, UnderWay, Exact
  <1>0. TypeOK /\ Exclusive /\ DownIsEmpty /\ QuietRecycle /\ CleanHeld /\ upset[h] = {}
    BY UpsetGrows DEF TrackingInv
  <1>1. ASSUME stage[h] = "held", conn = "up"
        PROVE  spawned = {} /\ UnderWay(h)
    BY <1>0, <1>1 DEF CleanHeld
  <1>2. ASSUME NEW g \in Holders, Acquire(g) \/ RecycleFails(g) \/ DropOffRuntime(g) \/ DropReserved(g)
        PROVE  FALSE
    <2>1. stage[h] = "held"
      BY <1>0, <1>2 DEF TypeOK, Acquire, RecycleFails, DropOffRuntime, DropReserved
    <2>2. g # h
      BY <1>0, <1>2, <2>1 DEF TypeOK, Acquire, RecycleFails, DropOffRuntime, DropReserved
    <2> QED
      BY <1>0, <1>2, <2>1, <2>2 DEF Exclusive, Active, Acquire, Free, RecycleFails,
         DropOffRuntime, DropReserved
  <1>3. ASSUME NEW g \in Holders, NewReserved(g)
        PROVE  spawned' = {} /\ UnderWay(h)'
    <2>1. g = h
      BY <1>0, <1>3 DEF TypeOK, NewReserved, Exclusive, Active
    <2>2. stage[h] = "recycling" /\ ~Queued(Ping(h)) /\ UNCHANGED <<call, spawned, queue, tx>>
      BY <1>3, <2>1 DEF NewReserved
    <2>3. spawned = {} /\ (queue = << >> \/ queue[Len(queue)] = Ping(h))
      BY <1>0, <2>2 DEF QuietRecycle
    <2>4. queue = << >>
      <3>1. queue # << >> => Len(queue) \in 1..Len(queue)
        BY <1>0 DEF TypeOK
      <3> QED
        BY <2>2, <2>3, <3>1 DEF Queued
    <2>5. tx = NoHolder /\ tx_state'[h] = "NotStarted"
      BY <1>0, <1>3, <2>1 DEF TypeOK, NewReserved, Upsets
    <2>6. Busy = {}
      BY <1>0, <2>2 DEF Exclusive, Active
    <2>7. Busy' = {}
      BY <2>2, <2>6 DEF Busy
    <2>8. Exact(h, tx_state[h])'
      BY <2>2, <2>5, TransactionsAssumption DEF Exact
    <2> QED
      BY <2>2, <2>3, <2>4, <2>7, <2>8 DEF UnderWay
  <1>4. ASSUME NEW g \in Holders, QueueRollback(g) PROVE FALSE
    <2>1. stage[h] = "held" /\ conn = "up" /\ g \in spawned
      BY <1>4 DEF QueueRollback
    <2> QED
      BY <1>1, <2>1
  <1>5. ASSUME NEW g \in Holders, NEW t \in Tasks, NEW sql \in Sql, NEW via \in Vias,
               Execute(g, t, sql, via)
        PROVE  spawned' = {} /\ UnderWay(h)'
    <2>1. g = h /\ stage[h] = "held" /\ conn = "up" /\ UNCHANGED <<stage, spawned, tx_state, tx>>
      BY <1>0, <1>5 DEF Execute, Exclusive, Active
    <2>2. observes(via) /\ Busy = {} /\ ~Misread(sql)
      BY <1>0, <1>5, <2>1 DEF TypeOK, Execute, Upsets
    <2>3. spawned = {} /\ queue = << >> /\ Exact(h, tx_state[h])
      BY <1>1, <2>1, <2>2 DEF UnderWay
    <2>4. /\ call'[t].id = calls + 1 /\ call'[t].sql = sql /\ call'[t].observed
          /\ call'[t].answer = "none"
          /\ \A u \in Tasks : u # t => call'[u] = call[u]
      BY <1>0, <1>5, <2>1, <2>2 DEF TypeOK, Execute
    <2>5. queue' = <<Statement(h, calls + 1, sql)>>
      <3>1. queue' = Append(<< >>, Statement(h, calls + 1, sql))
        BY <1>5, <2>1, <2>3 DEF Execute
      <3> QED
        BY <3>1
    <2>6. calls + 1 # 0
      BY <1>0, TransactionsAssumption DEF TypeOK
    <2>7. Busy' = {t}
      BY <2>2, <2>4, <2>6 DEF Busy
    <2>8. Exact(h, tx_state[h])'
      BY <2>1, <2>3 DEF Exact
    <2> QED
      BY <2>1, <2>2, <2>3, <2>4, <2>5, <2>7, <2>8 DEF UnderWay
  <1>6. ASSUME NEW g \in Holders, NEW t \in Tasks, Return(g, t)
        PROVE  spawned' = {} /\ UnderWay(h)'
    <2>1. g = h /\ stage[h] = "held" /\ conn = "up" /\ UNCHANGED <<stage, spawned, queue, tx>>
      BY <1>0, <1>6 DEF Return, Exclusive, Active
    <2>2. call[t].answer # "none" /\ t \in Busy
      BY <1>0, <1>6 DEF Return, Exclusive
    <2>3. spawned = {} /\ queue = << >> /\ Busy = {t} /\ call[t].observed
      BY <1>1, <2>1, <2>2 DEF UnderWay
    <2>4. Exact(h, IF call[t].answer = "ok" THEN observe_sql(tx_state[h], call[t].sql) ELSE tx_state[h])
      BY <1>1, <2>1, <2>2 DEF UnderWay
    <2>5. tx_state'[h] = IF call[t].answer = "ok" THEN observe_sql(tx_state[h], call[t].sql) ELSE tx_state[h]
      BY <1>0, <1>6, <2>1, <2>3 DEF TypeOK, Return
    <2>6. \A u \in Tasks : call'[u] = IF u = t THEN NoCall ELSE call[u]
      BY <1>0, <1>6 DEF TypeOK, Return
    <2>7. Busy' = {}
      BY <2>3, <2>6 DEF Busy, NoCall
    <2>8. Exact(h, tx_state[h])'
      BY <2>1, <2>4, <2>5 DEF Exact
    <2> QED
      BY <2>1, <2>3, <2>7, <2>8 DEF UnderWay
  <1>7. ASSUME NEW g \in Holders, NEW t \in Tasks, Cancel(g, t) PROVE FALSE
    <2>1. g = h
      BY <1>0, <1>7 DEF Cancel, Exclusive, Active
    <2> QED
      BY <1>0, <1>7, <2>1 DEF TypeOK, Cancel, Upsets
  <1>8. CASE Daemon
    <2>1. stage[h] = "held" /\ conn = "up" /\ spawned' = spawned
      BY <1>0, <1>8, DaemonStep
    <2> QED
      BY <1>0, <1>1, <1>8, <2>1, DaemonUnderWay
  <1>9. CASE ConnDown
    BY <1>9 DEF ConnDown
  <1>10. CASE UNCHANGED vars
    BY <1>1, <1>10 DEF vars, UnderWay, Exact, Busy
  <1> QED
    BY <1>2, <1>3, <1>4, <1>5, <1>6, <1>7, <1>8, <1>9, <1>10 DEF Next

(* The inductive invariant holds.                                          *)
LEMMA TrackingInvariant == Spec => []TrackingInv
  <1>1. Init => TrackingInv
    <2> SUFFICES ASSUME Init PROVE TrackingInv
      OBVIOUS
    <2>1. Busy = {}
      BY DEF Init, Busy, NoCall
    <2>2. Exclusive
      BY <2>1 DEF Init, Exclusive, Active, NoCall
    <2>3. DownIsEmpty /\ QuietRecycle /\ CleanHeld
      BY DEF Init, DownIsEmpty, QuietRecycle, CleanHeld
    <2> QED
      BY <2>2, <2>3, InitTypeOK DEF TrackingInv
  <1>2. TrackingInv /\ [Next]_vars => TrackingInv'
    BY NextTypeOK, NextExclusive, NextDownIsEmpty, NextQuietRecycle, NextCleanHeld DEF TrackingInv
  <1> QED
    BY <1>1, <1>2, PTL DEF Spec

(* Between two statements of a holder that nothing has upset, TxState is   *)
(* Started if and only if the daemon has its transaction open, however     *)
(* many holders, tasks and statements there were.                          *)
THEOREM Tracking == Spec => []TrackingExact
  <1>1. TrackingInv => TrackingExact
    BY DEF TrackingInv, CleanHeld, UnderWay, Exact, TrackingExact
  <1> QED
    BY <1>1, TrackingInvariant, PTL

(* The destructor of such a holder fires ROLLBACK exactly when it was      *)
(* asked to and the transaction is open.                                   *)
THEOREM RollbackWhenOpen == Spec => RollbackExactly
  <1>1. TrackingInv /\ [Next]_vars =>
          [\A h \in Holders :
             stage[h] = "held" /\ stage'[h] = "dropped" /\ conn = "up" /\ upset'[h] = {} =>
               (h \in spawned' <=> rollback_on_drop[h] /\ tx = h)]_vars
    <2> SUFFICES ASSUME TrackingInv, [Next]_vars, NEW h \in Holders,
                        stage[h] = "held", stage'[h] = "dropped", conn = "up", upset'[h] = {}
                 PROVE  h \in spawned' <=> rollback_on_drop[h] /\ tx = h
      OBVIOUS
    <2>1. TypeOK /\ CleanHeld /\ upset[h] = {}
      BY UpsetGrows DEF TrackingInv
    <2>2. ~DropOffRuntime(h)
      BY <2>1 DEF TypeOK, DropOffRuntime, Upsets
    <2>3. DropReserved(h)
      <3>1. ~Daemon
        BY <2>1, DaemonStep
      <3> QED
        BY <2>1, <2>2, <3>1 DEF TypeOK, Next, Acquire, NewReserved, RecycleFails, DropReserved,
           DropOffRuntime, QueueRollback, Execute, Return, Cancel, ConnDown, vars
    <2>4. spawned = {} /\ Busy = {} /\ Exact(h, tx_state[h])
      BY <2>1, <2>3 DEF CleanHeld, UnderWay, DropReserved
    <2> QED
      BY <2>3, <2>4 DEF Exact, DropReserved
  <1> QED
    BY <1>1, TrackingInvariant, PTL DEF Spec, RollbackExactly

-----------------------------------------------------------------------------
(* Handing the connection over.                                            *)

(* What an append and a tail do to the requests in the queue.              *)
LEMMA AppendRequest ==
  ASSUME queue \in Seq(Request), NEW r, queue' = Append(queue, r)
  PROVE  /\ Len(queue') = Len(queue) + 1 /\ Len(queue) \in Nat
         /\ queue'[Len(queue) + 1] = r
         /\ \A k \in 1..Len(queue) : queue'[k] = queue[k]
  OBVIOUS

(* Serving the first request shifts the queue by one.                      *)
LEMMA TailRequests ==
  ASSUME queue \in Seq(Request), queue # << >>, queue' = Tail(queue)
  PROVE  /\ Len(queue') = Len(queue) - 1 /\ Len(queue) \in Nat \ {0}
         /\ Head(queue) = queue[1]
         /\ \A k \in 1..Len(queue') : k + 1 \in 1..Len(queue) /\ queue'[k] = queue[k + 1]
  OBVIOUS

(* A statement of the holder g that is not upset is served, or the         *)
(* transaction does not become g's.                                        *)
LEMMA DaemonTx ==
  ASSUME TypeOK, Daemon, NEW g \in Holders, tx' = g
  PROVE  /\ Head(queue).op # "drop"
         /\ tx = g \/ (Head(queue).op = "sql" /\ Head(queue).by = g)
  <1> DEFINE r == Head(queue)
  <1>1. queue # << >> /\ (Serve(r) \/ Refuse(r) \/ Misreport(r)) /\ r \in Request
    BY DEF Daemon, TypeOK
  <1>2. /\ r.op \in {"ping", "sql", "drop"}
        /\ r.op = "ping" => effect(r.sql) = "none"
        /\ r.op = "drop" => effect(r.sql) = "end"
    BY <1>1, RequestKinds
  <1> HIDE DEF r
  <1>3. g # NoHolder
    BY TransactionsAssumption
  <1>4. tx' = tx \/ tx' = AfterStatement(r)
    BY <1>1 DEF Serve, Refuse, Misreport
  <1>5. r.op # "drop"
    BY <1>1, <1>2, <1>3 DEF Serve, Refuse, Misreport, Applies, AfterStatement
  <1>6. tx = g \/ (r.op = "sql" /\ r.by = g)
    BY <1>2, <1>3, <1>4, <1>5 DEF AfterStatement
  <1> QED
    BY <1>5, <1>6 DEF r

(* Every step keeps the statements of holders that are not upset where     *)
(* their holders are.                                                      *)
LEMMA NextNoStale == TrackingInv /\ NoStale /\ [Next]_vars => NoStale'
  <1> SUFFICES ASSUME TrackingInv, NoStale, [Next]_vars, NEW g \in Holders, upset'[g] = {}
               PROVE  /\ stage'[g] # "held" =>
                           \A k \in 1..Len(queue') : queue'[k].op = "sql" => queue'[k].by # g
                      /\ tx' = g => stage'[g] \in {"held", "dropped"}
    BY DEF NoStale
  <1> DEFINE Gone == \A k \in 1..Len(queue) : queue[k].op = "sql" => queue[k].by # g
             Good == /\ stage[g] # "held" => Gone
                     /\ tx = g => stage[g] \in {"held", "dropped"}
  <1> SUFFICES Good'
    OBVIOUS
  <1>0. TypeOK /\ Exclusive /\ DownIsEmpty /\ CleanHeld /\ Good /\ queue \in Seq(Request)
    BY UpsetGrows DEF TrackingInv, NoStale, TypeOK
  <1>1. ASSUME UNCHANGED <<stage, queue, tx>> PROVE Good'
    BY <1>0, <1>1
  <1>2. ASSUME NEW r, r.op # "sql", queue' = Append(queue, r) PROVE Gone => Gone'
    BY <1>0, <1>2, AppendRequest
  <1>3. ASSUME NEW h \in Holders, Acquire(h) PROVE Good'
    <2>1. /\ \A f \in Holders : stage[f] \notin {"recycling", "held"}
          /\ stage[h] = "waiting"
          /\ \A f \in Holders : stage'[f] = IF f = h THEN "recycling" ELSE stage[f]
          /\ queue' = Append(queue, Ping(h)) /\ tx' = tx
      BY <1>0, <1>3 DEF TypeOK, Acquire, Free
    <2>2. Gone'
      BY <1>0, <1>2, <2>1, RequestTypes
    <2> QED
      BY <1>0, <2>1, <2>2
  <1>4. ASSUME NEW h \in Holders, NewReserved(h) PROVE Good'
    <2>1. /\ UNCHANGED <<queue, tx>>
          /\ \A f \in Holders : stage'[f] = IF f = h THEN "held" ELSE stage[f]
      BY <1>0, <1>4 DEF TypeOK, NewReserved
    <2> QED
      BY <1>0, <2>1
  <1>5. ASSUME NEW h \in Holders, RecycleFails(h) \/ DropReserved(h) \/ DropOffRuntime(h)
        PROVE  Good'
    <2>1. /\ UNCHANGED <<queue, tx>>
          /\ \A f \in Holders : stage'[f] = IF f = h THEN "dropped" ELSE stage[f]
      BY <1>0, <1>5 DEF TypeOK, RecycleFails, DropReserved, DropOffRuntime
    <2>2. ASSUME stage[g] = "held", h = g PROVE queue = << >>
      <3>1. Busy = {}
        BY <1>5, <2>2 DEF RecycleFails, DropReserved, DropOffRuntime
      <3>2. CASE conn = "up"
        BY <1>0, <2>2, <3>1, <3>2, UpsetGrows DEF CleanHeld, UnderWay
      <3>3. CASE conn = "down"
        BY <1>0, <3>3 DEF DownIsEmpty
      <3> QED
        BY <1>0, <3>2, <3>3 DEF TypeOK
    <2>3. queue = << >> => Gone
      OBVIOUS
    <2> QED
      BY <1>0, <2>1, <2>2, <2>3
  <1>6. ASSUME NEW h \in Holders, QueueRollback(h) PROVE Good'
    <2>1. UNCHANGED <<stage, tx>> /\ (queue' = queue \/ queue' = Append(queue, Rollback(h)))
      BY <1>6 DEF QueueRollback
    <2>2. Gone => Gone'
      BY <1>2, <2>1, RequestTypes
    <2> QED
      BY <1>0, <2>1, <2>2
  <1>7. ASSUME NEW h \in Holders, NEW t \in Tasks, NEW sql \in Sql, NEW via \in Vias,
               Execute(h, t, sql, via)
        PROVE  Good'
    <2>1. /\ stage[h] = "held" /\ UNCHANGED <<stage, tx>>
          /\ queue' = queue \/ queue' = Append(queue, Statement(h, calls + 1, sql))
      BY <1>7 DEF Execute
    <2>2. ASSUME h # g PROVE Gone => Gone'
      <3>1. Statement(h, calls + 1, sql).by = h
        BY RequestTypes
      <3>2. CASE queue' = Append(queue, Statement(h, calls + 1, sql))
        BY <1>0, <2>2, <3>1, <3>2, AppendRequest
      <3> QED
        BY <2>1, <3>2
    <2> QED
      BY <1>0, <2>1, <2>2
  <1>8. ASSUME NEW h \in Holders, NEW t \in Tasks, Return(h, t) \/ Cancel(h, t) PROVE Good'
    BY <1>1, <1>8 DEF Return, Cancel
  <1>9. CASE Daemon
    <2>1. UNCHANGED stage /\ queue # << >> /\ queue' = Tail(queue)
      BY <1>0, <1>9, DaemonStep
    <2>2. Gone => Gone'
      BY <1>0, <2>1, TailRequests
    <2>3. tx' = g => stage[g] \in {"held", "dropped"}
      <3> SUFFICES ASSUME tx' = g PROVE stage[g] \in {"held", "dropped"}
        OBVIOUS
      <3>1. tx = g \/ (queue[1].op = "sql" /\ queue[1].by = g)
        BY <1>0, <1>9, <2>1, DaemonTx, TailRequests
      <3>2. 1 \in 1..Len(queue)
        BY <1>0, <2>1
      <3> QED
        BY <1>0, <3>1, <3>2
    <2> QED
      BY <1>0, <2>1, <2>2, <2>3
  <1>10. CASE ConnDown
    <2>1. queue' = << >> /\ tx' = NoHolder
      BY <1>10 DEF ConnDown
    <2> QED
      BY <2>1, TransactionsAssumption
  <1>11. CASE UNCHANGED vars
    BY <1>1, <1>11 DEF vars
  <1> QED
    BY <1>3, <1>4, <1>5, <1>6, <1>7, <1>8, <1>9, <1>10, <1>11 DEF Next

(* Every step keeps the forgotten ROLLBACK ahead of the holders that are   *)
(* not late.                                                               *)
LEMMA NextRollbackAhead == HandOverInv /\ [Next]_vars => RollbackAhead'
  <1> DEFINE Everyone == \A h \in Holders : Active(h) => "late" \in upset[h]
             Spawned(g) == g \in spawned /\ LateUpTo(Len(queue)) /\ Everyone
             Ahead(g) == \E j \in 1..Len(queue) : queue[j] = Rollback(g) /\ LateUpTo(j - 1)
  <1> SUFFICES ASSUME HandOverInv, [Next]_vars, NEW g \in Holders,
                      tx' = g, stage'[g] = "dropped", rollback_on_drop'[g], upset'[g] = {}
               PROVE  Spawned(g)' \/ Ahead(g)'
    BY DEF RollbackAhead, LateUpTo, Rollback, Active
  <1>0. /\ TypeOK /\ Exclusive /\ DownIsEmpty /\ CleanHeld /\ NoStale
        /\ upset[g] = {} /\ queue \in Seq(Request) /\ Len(queue) \in Nat
        /\ \A h \in Holders : upset[h] \subseteq upset'[h]
        /\ \A k \in 1..Len(queue) : queue[k].by \in Holders
    BY UpsetGrows, RequestKinds DEF HandOverInv, TrackingInv, NoStale, TypeOK
  <1>1. ASSUME tx = g, stage[g] = "dropped", rollback_on_drop[g]
        PROVE  Spawned(g) \/ Ahead(g)
    BY <1>0, <1>1 DEF HandOverInv, RollbackAhead
  <1>2. ASSUME NEW n \in Nat, n <= Len(queue), LateUpTo(n), \A k \in 1..n : queue'[k] = queue[k]
        PROVE  \A k \in 1..n : queue'[k].op = "sql" => "late" \in upset'[queue'[k].by]
    <2> SUFFICES ASSUME NEW k \in 1..n, queue'[k].op = "sql"
                 PROVE  "late" \in upset'[queue'[k].by]
      OBVIOUS
    <2>1. k \in 1..Len(queue) /\ queue'[k] = queue[k]
      BY <1>0, <1>2
    <2>2. "late" \in upset[queue[k].by] /\ queue[k].by \in Holders
      BY <1>0, <1>2, <2>1 DEF LateUpTo
    <2> QED
      BY <1>0, <2>1, <2>2
  <1>3. ASSUME UNCHANGED queue, LateUpTo(Len(queue))
        PROVE  LateUpTo(Len(queue))'
    BY <1>0, <1>2, <1>3 DEF LateUpTo
  <1>4. ASSUME Len(queue) <= Len(queue'), Len(queue') \in Nat,
               \A k \in 1..Len(queue) : queue'[k] = queue[k], Ahead(g)
        PROVE  Ahead(g)'
    <2>1. PICK j \in 1..Len(queue) : queue[j] = Rollback(g) /\ LateUpTo(j - 1)
      BY <1>4
    <2>2. j \in 1..Len(queue') /\ queue'[j] = Rollback(g) /\ j - 1 \in Nat /\ j - 1 <= Len(queue)
      BY <1>0, <1>4, <2>1
    <2>3. \A k \in 1..(j - 1) : queue'[k] = queue[k]
      BY <1>0, <1>4, <2>2
    <2>4. LateUpTo(j - 1)'
      BY <1>2, <2>1, <2>2, <2>3 DEF LateUpTo
    <2> QED
      BY <2>2, <2>4 DEF Rollback
  <1>5. ASSUME UNCHANGED <<queue, spawned, tx, rollback_on_drop>>, stage[g] = "dropped",
               \A h \in Holders : Active(h)' => Active(h)
        PROVE  Spawned(g)' \/ Ahead(g)'
    <2>1. CASE Spawned(g)
      <3>1. Everyone'
        BY <1>0, <1>5, <2>1
      <3> QED
        BY <1>3, <1>5, <2>1, <3>1
    <2>2. CASE Ahead(g)
      BY <1>0, <1>4, <1>5, <2>2
    <2> QED
      BY <1>1, <1>5, <2>1, <2>2
  <1>6. ASSUME NEW h \in Holders, Acquire(h) PROVE Spawned(g)' \/ Ahead(g)'
    <2>1. /\ queue' = Append(queue, Ping(h)) /\ UNCHANGED <<spawned, tx, rollback_on_drop>>
          /\ \A f \in Holders : stage'[f] = IF f = h THEN "recycling" ELSE stage[f]
          /\ upset' = [upset EXCEPT ![h] = @ \cup IF spawned # {} THEN {"late"} ELSE {}]
      BY <1>0, <1>6 DEF TypeOK, Acquire, Upsets
    <2>2. stage[g] = "dropped"
      BY <2>1
    <2>3. /\ Len(queue') = Len(queue) + 1 /\ queue'[Len(queue) + 1] = Ping(h)
          /\ \A k \in 1..Len(queue) : queue'[k] = queue[k]
      BY <1>0, <2>1, AppendRequest
    <2>4. CASE Spawned(g)
      <3>1. Everyone'
        BY <1>0, <2>1, <2>4 DEF Active, TypeOK
      <3>2. Ping(h).op # "sql"
        BY RequestTypes
      <3>3. \A k \in 1..Len(queue) : queue'[k].op = "sql" => "late" \in upset'[queue'[k].by]
        BY <1>0, <1>2, <2>3, <2>4
      <3>4. LateUpTo(Len(queue))'
        BY <1>0, <2>3, <3>2, <3>3 DEF LateUpTo
      <3> QED
        BY <2>1, <2>4, <3>1, <3>4
    <2>5. CASE Ahead(g)
      BY <1>0, <1>4, <2>3, <2>5
    <2> QED
      BY <1>1, <2>1, <2>2, <2>4, <2>5
  <1>7. ASSUME NEW h \in Holders, NewReserved(h) PROVE Spawned(g)' \/ Ahead(g)'
    <2>1. /\ UNCHANGED <<queue, spawned, tx>> /\ stage[h] = "recycling"
          /\ \A f \in Holders : stage'[f] = IF f = h THEN "held" ELSE stage[f]
          /\ \A f \in Holders : f # h => rollback_on_drop'[f] = rollback_on_drop[f]
      BY <1>0, <1>7 DEF TypeOK, NewReserved
    <2>2. g # h /\ stage[g] = "dropped" /\ rollback_on_drop[g]
      BY <2>1
    <2>3. Spawned(g) \/ Ahead(g)
      BY <1>1, <2>1, <2>2
    <2>4. CASE Spawned(g)
      <3>1. Everyone'
        BY <1>0, <2>1, <2>4 DEF Active
      <3> QED
        BY <1>3, <2>1, <2>4, <3>1
    <2>5. CASE Ahead(g)
      BY <1>0, <1>4, <2>1, <2>5
    <2> QED
      BY <2>3, <2>4, <2>5
  <1>8. ASSUME NEW h \in Holders, RecycleFails(h) PROVE Spawned(g)' \/ Ahead(g)'
    <2>1. conn = "down" /\ tx = g
      BY <1>8 DEF RecycleFails
    <2> QED
      BY <1>0, <2>1, TransactionsAssumption DEF DownIsEmpty
  <1>9. ASSUME NEW h \in Holders, DropReserved(h) \/ DropOffRuntime(h)
        PROVE  Spawned(g)' \/ Ahead(g)'
    <2>1. /\ UNCHANGED <<queue, tx, rollback_on_drop>> /\ stage[h] = "held" /\ Busy = {}
          /\ \A f \in Holders : stage'[f] = IF f = h THEN "dropped" ELSE stage[f]
      BY <1>0, <1>9 DEF TypeOK, DropReserved, DropOffRuntime
    <2>2. CASE g = h
      <3>1. DropReserved(h)
        <4>1. DropOffRuntime(h) => "strayed" \in upset'[h]
          BY <1>0 DEF TypeOK, DropOffRuntime, Upsets
        <4> QED
          BY <1>9, <2>2, <4>1
      <3>2. conn = "up"
        BY <1>0, <2>1, TransactionsAssumption DEF TypeOK, DownIsEmpty
      <3>3. spawned = {} /\ queue = << >> /\ tx_state[h] = "Started"
        BY <1>0, <2>1, <2>2, <3>2 DEF CleanHeld, UnderWay, Exact
      <3>4. g \in spawned'
        BY <2>1, <2>2, <3>1, <3>3 DEF DropReserved
      <3>5. \A f \in Holders : ~(stage'[f] \in {"recycling", "held"})
        BY <1>0, <2>1 DEF Exclusive, Active
      <3>6. LateUpTo(Len(queue))'
        BY <2>1, <3>3 DEF LateUpTo
      <3> QED
        BY <3>4, <3>5, <3>6 DEF Active
    <2>3. CASE g # h
      <3>1. stage[g] = "dropped" /\ spawned \subseteq spawned'
        BY <1>9, <2>1, <2>3 DEF DropReserved, DropOffRuntime
      <3>2. CASE Spawned(g)
        <4>1. Everyone'
          BY <1>0, <2>1, <3>2 DEF Active
        <4> QED
          BY <1>3, <2>1, <3>1, <3>2, <4>1
      <3>3. CASE Ahead(g)
        BY <1>0, <1>4, <2>1, <3>3
      <3> QED
        BY <1>1, <2>1, <3>1, <3>2, <3>3
    <2> QED
      BY <2>2, <2>3
  <1>10. ASSUME NEW h \in Holders, QueueRollback(h) PROVE Spawned(g)' \/ Ahead(g)'
    <2>1. conn = "up" /\ queue' = Append(queue, Rollback(h)) /\ spawned' = spawned \ {h}
          /\ UNCHANGED <<stage, tx, rollback_on_drop, upset>>
      <3>1. UNCHANGED <<conn, tx>>
        BY <1>10 DEF QueueRollback
      <3>2. conn = "up"
        BY <1>0, <3>1, TransactionsAssumption DEF TypeOK, DownIsEmpty
      <3> QED
        BY <1>10, <3>2 DEF QueueRollback
    <2>2. /\ Len(queue') = Len(queue) + 1 /\ queue'[Len(queue) + 1] = Rollback(h)
          /\ \A k \in 1..Len(queue) : queue'[k] = queue[k]
      BY <1>0, <2>1, AppendRequest
    <2>3. CASE Spawned(g)
      <3>1. \A k \in 1..Len(queue) : queue'[k].op = "sql" => "late" \in upset'[queue'[k].by]
        BY <1>0, <1>2, <2>2, <2>3
      <3>2. CASE g = h
        <4>1. Len(queue) + 1 \in 1..Len(queue') /\ (Len(queue) + 1) - 1 = Len(queue)
          BY <1>0, <2>2
        <4>2. \A k \in 1..((Len(queue) + 1) - 1) : queue'[k].op = "sql" => "late" \in upset'[queue'[k].by]
          BY <3>1, <4>1
        <4> DEFINE j == Len(queue) + 1
        <4>3. j \in 1..Len(queue') /\ queue'[j] = Rollback(g)
              /\ \A k \in 1..(j - 1) : queue'[k].op = "sql" => "late" \in upset'[queue'[k].by]
          BY <2>2, <3>2, <4>1, <4>2
        <4> HIDE DEF j
        <4> QED
          BY <4>3 DEF LateUpTo, Rollback
      <3>3. CASE g # h
        <4>1. Rollback(h).op # "sql"
          BY RequestTypes
        <4>2. LateUpTo(Len(queue))'
          BY <1>0, <2>2, <3>1, <4>1 DEF LateUpTo
        <4>3. Everyone'
          BY <2>1, <2>3 DEF Active
        <4> QED
          BY <2>1, <2>3, <3>3, <4>2, <4>3
      <3> QED
        BY <3>2, <3>3
    <2>4. CASE Ahead(g)
      BY <1>0, <1>4, <2>2, <2>4
    <2> QED
      BY <1>1, <2>1, <2>3, <2>4
  <1>11. ASSUME NEW h \in Holders, NEW t \in Tasks, NEW sql \in Sql, NEW via \in Vias,
                Execute(h, t, sql, via)
         PROVE  Spawned(g)' \/ Ahead(g)'
    <2>1. /\ stage[h] = "held" /\ UNCHANGED <<stage, tx, rollback_on_drop, spawned>>
          /\ queue' = queue \/ queue' = Append(queue, Statement(h, calls + 1, sql))
      BY <1>11 DEF Execute
    <2>2. CASE queue' = queue
      BY <1>5, <2>1, <2>2 DEF Active
    <2>3. CASE queue' = Append(queue, Statement(h, calls + 1, sql))
      <3>1. /\ Len(queue') = Len(queue) + 1
            /\ queue'[Len(queue) + 1] = Statement(h, calls + 1, sql)
            /\ \A k \in 1..Len(queue) : queue'[k] = queue[k]
        BY <1>0, <2>3, AppendRequest
      <3>2. CASE Spawned(g)
        <4>1. \A k \in 1..Len(queue) : queue'[k].op = "sql" => "late" \in upset'[queue'[k].by]
          BY <1>0, <1>2, <3>1, <3>2
        <4>2. "late" \in upset'[h] /\ queue'[Len(queue) + 1].by = h
          BY <1>0, <2>1, <3>1, <3>2, RequestTypes DEF Active
        <4>3. LateUpTo(Len(queue))'
          BY <1>0, <3>1, <4>1, <4>2 DEF LateUpTo
        <4>4. Everyone'
          BY <1>0, <2>1, <3>2 DEF Active
        <4> QED
          BY <2>1, <3>2, <4>3, <4>4
      <3>3. CASE Ahead(g)
        BY <1>0, <1>4, <3>1, <3>3
      <3> QED
        BY <1>1, <2>1, <3>2, <3>3
    <2> QED
      BY <2>1, <2>2, <2>3
  <1>12. ASSUME NEW h \in Holders, NEW t \in Tasks, Return(h, t) \/ Cancel(h, t)
         PROVE  Spawned(g)' \/ Ahead(g)'
    <2>1. UNCHANGED <<stage, queue, spawned, tx, rollback_on_drop>>
      BY <1>12 DEF Return, Cancel
    <2> QED
      BY <1>5, <2>1 DEF Active
  <1>13. CASE Daemon
    <2>1. UNCHANGED <<stage, spawned, rollback_on_drop>> /\ queue # << >> /\ queue' = Tail(queue)
      BY <1>0, <1>13, DaemonStep
    <2>2. /\ Len(queue') = Len(queue) - 1 /\ Len(queue) \in Nat \ {0} /\ Head(queue) = queue[1]
          /\ \A k \in 1..Len(queue') : k + 1 \in 1..Len(queue) /\ queue'[k] = queue[k + 1]
      BY <1>0, <2>1, TailRequests
    <2>3. queue[1].op # "drop" /\ tx = g
      <3>1. queue[1].op # "drop" /\ (tx = g \/ (queue[1].op = "sql" /\ queue[1].by = g))
        BY <1>0, <1>13, <2>2, DaemonTx
      <3>2. 1 \in 1..Len(queue) /\ stage[g] # "held"
        BY <2>1, <2>2
      <3> QED
        BY <1>0, <3>1, <3>2 DEF NoStale
    <2>4. ASSUME NEW n \in Nat, n <= Len(queue'), LateUpTo(n + 1) PROVE LateUpTo(n)'
      <3> SUFFICES ASSUME NEW k \in 1..n, queue'[k].op = "sql"
                   PROVE  "late" \in upset'[queue'[k].by]
        BY DEF LateUpTo
      <3>1. k \in 1..Len(queue') /\ k + 1 \in 1..(n + 1)
        BY <2>2, <2>4
      <3>2. queue'[k] = queue[k + 1] /\ k + 1 \in 1..Len(queue)
        BY <2>2, <3>1
      <3>3. "late" \in upset[queue[k + 1].by] /\ queue[k + 1].by \in Holders
        BY <1>0, <2>4, <3>1, <3>2 DEF LateUpTo
      <3> QED
        BY <1>0, <3>2, <3>3
    <2>5. CASE Spawned(g)
      <3>1. LateUpTo(Len(queue))'
        <4>1. Len(queue') \in Nat /\ Len(queue') + 1 = Len(queue)
          BY <2>2
        <4> QED
          BY <2>4, <2>5, <4>1 DEF LateUpTo
      <3>2. Everyone'
        BY <1>0, <2>1, <2>5 DEF Active
      <3> QED
        BY <2>1, <2>5, <3>1, <3>2
    <2>6. CASE Ahead(g)
      <3>1. PICK j \in 1..Len(queue) : queue[j] = Rollback(g) /\ LateUpTo(j - 1)
        BY <2>6
      <3>2. j # 1
        BY <2>3, <3>1, RequestTypes
      <3> DEFINE i == j - 1
      <3>3. i \in 1..Len(queue') /\ i + 1 = j /\ i - 1 \in Nat /\ (i - 1) + 1 = j - 1 /\ i - 1 <= Len(queue')
        BY <2>2, <3>1, <3>2
      <3> HIDE DEF i
      <3>4. queue'[i] = Rollback(g)
        BY <2>2, <3>1, <3>3
      <3>5. LateUpTo(i - 1)'
        BY <2>4, <3>1, <3>3 DEF LateUpTo
      <3> QED
        BY <3>3, <3>4, <3>5 DEF Rollback
    <2> QED
      BY <1>1, <2>1, <2>3, <2>5, <2>6
  <1>14. CASE ConnDown
    BY <1>14, TransactionsAssumption DEF ConnDown
  <1>15. CASE UNCHANGED vars
    BY <1>5, <1>15 DEF vars, Active
  <1> QED
    BY <1>6, <1>7, <1>8, <1>9, <1>10, <1>11, <1>12, <1>13, <1>14, <1>15 DEF Next

(* The transaction a holder forgot is followed up, and nothing of an       *)
(* earlier holder comes in the way.                                        *)
LEMMA HandOverInvariant == Spec => []HandOverInv
  <1>1. Init => HandOverInv
    <2> SUFFICES ASSUME Init PROVE HandOverInv
      OBVIOUS
    <2>1. Busy = {}
      BY DEF Init, Busy, NoCall
    <2>2. Exclusive
      BY <2>1 DEF Init, Exclusive, Active, NoCall
    <2>3. DownIsEmpty /\ QuietRecycle /\ CleanHeld
      BY DEF Init, DownIsEmpty, QuietRecycle, CleanHeld
    <2>4. NoStale /\ RollbackAhead
      BY TransactionsAssumption DEF Init, NoStale, RollbackAhead
    <2> QED
      BY <2>2, <2>3, <2>4, InitTypeOK DEF HandOverInv, TrackingInv
  <1>2. HandOverInv /\ [Next]_vars => HandOverInv'
    BY NextTypeOK, NextExclusive, NextDownIsEmpty, NextQuietRecycle, NextCleanHeld, NextNoStale,
       NextRollbackAhead DEF HandOverInv, TrackingInv
  <1> QED
    BY <1>1, <1>2, PTL DEF Spec

(* A holder that is not late never has a statement served inside the       *)
(* transaction of another that asked for rollback_on_drop and whose        *)
(* tracking was right: the ROLLBACK, and before it the pong the next       *)
(* holder waits for, stand between them.                                   *)
THEOREM HandOver == Spec => CleanHandOver
  <1>1. HandOverInv /\ [Next]_vars =>
          [\A h, g \in Holders : Intrudes(h, g) => "late" \in upset[h]]_vars
    <2> SUFFICES ASSUME HandOverInv, NEW h \in Holders, NEW g \in Holders, Intrudes(h, g)
                 PROVE  "late" \in upset[h]
      OBVIOUS
    <2>1. /\ queue # << >> /\ Head(queue).op = "sql" /\ Head(queue).by = h
          /\ g # h /\ tx = g /\ rollback_on_drop[g] /\ upset[g] = {}
      BY DEF Intrudes
    <2>2. /\ Head(queue) = queue[1] /\ 1 \in 1..Len(queue) /\ Len(queue) \in Nat
          /\ conn = "up" /\ stage[g] \in {"held", "dropped"}
      BY <2>1 DEF HandOverInv, TrackingInv, TypeOK, DownIsEmpty, NoStale
    <2>3. stage[g] # "held"
      <3> SUFFICES ASSUME stage[g] = "held" PROVE FALSE
        OBVIOUS
      <3>1. UnderWay(g)
        BY <2>1, <2>2 DEF HandOverInv, TrackingInv, CleanHeld
      <3>2. \E id, sql : queue = <<Statement(g, id, sql)>>
        BY <2>1, <3>1 DEF UnderWay
      <3>3. Head(queue).by = g
        BY <3>2, RequestTypes
      <3> QED
        BY <2>1, <3>3
    <2>4. \/ LateUpTo(Len(queue))
          \/ \E j \in 1..Len(queue) : queue[j] = Rollback(g) /\ LateUpTo(j - 1)
      BY <2>1, <2>2, <2>3 DEF HandOverInv, RollbackAhead
    <2>5. ASSUME NEW j \in 1..Len(queue), queue[j] = Rollback(g), LateUpTo(j - 1)
          PROVE  "late" \in upset[h]
      <3>1. j # 1
        BY <2>1, <2>2, <2>5, RequestTypes
      <3>2. 1 \in 1..(j - 1)
        BY <2>2, <3>1
      <3> QED
        BY <2>1, <2>2, <2>5, <3>2 DEF LateUpTo
    <2> QED
      BY <2>1, <2>2, <2>4, <2>5 DEF LateUpTo
  <1> QED
    BY <1>1, HandOverInvariant, PTL DEF Spec, CleanHandOver

(* While the daemon still has a transaction open that its holder left to   *)
(* rollback_on_drop, the ROLLBACK is in a task of its own or in the queue. *)
ForgottenPursued ==
  \A h \in Holders :
    stage[h] = "dropped" /\ rollback_on_drop[h] /\ upset[h] = {} /\ tx = h =>
      h \in spawned \/ Queued(Rollback(h))

(* A transaction that has ended after its holder is gone is not begun      *)
(* again: nothing of that holder is left in the queue.                     *)
EndedForGood ==
  [][\A h \in Holders : stage[h] = "dropped" /\ upset[h] = {} /\ tx # h => tx' # h]_vars

(* What a forgotten transaction's end rests on, besides tasks being polled *)
(* and requests being served: its ROLLBACK is never lost between Drop for  *)
(* Reserved, the spawned task, the queue and the daemon, unless with the   *)
(* connection, and once it is served the transaction stays ended.          *)
THEOREM ForgottenFollowedUp == Spec => []ForgottenPursued /\ EndedForGood
  <1>1. HandOverInv => ForgottenPursued
    BY DEF HandOverInv, RollbackAhead, ForgottenPursued, Queued
  <1>2. HandOverInv /\ [Next]_vars =>
          [\A h \in Holders : stage[h] = "dropped" /\ upset[h] = {} /\ tx # h => tx' # h]_vars
    <2> SUFFICES ASSUME HandOverInv, Next, NEW h \in Holders,
                        stage[h] = "dropped", upset[h] = {}, tx # h, tx' = h
                 PROVE  FALSE
      OBVIOUS
    <2>1. TypeOK /\ NoStale /\ queue \in Seq(Request)
      BY DEF HandOverInv, TrackingInv, TypeOK
    <2>2. CASE Daemon
      <3>1. queue # << >> /\ queue' = Tail(queue)
        BY <2>1, <2>2, DaemonStep
      <3>2. queue[1].op = "sql" /\ queue[1].by = h /\ 1 \in 1..Len(queue)
        BY <2>1, <2>2, <3>1, DaemonTx, TailRequests
      <3> QED
        BY <2>1, <3>2 DEF NoStale
    <2>3. CASE ConnDown
      BY <2>3, TransactionsAssumption DEF ConnDown
    <2>4. CASE ~Daemon /\ ~ConnDown
      BY <2>4 DEF Next, Acquire, NewReserved, RecycleFails, DropReserved, DropOffRuntime,
         QueueRollback, Execute, Return, Cancel
    <2> QED
      BY <2>2, <2>3, <2>4
  <1> QED
    BY <1>1, <1>2, HandOverInvariant, PTL DEF Spec, EndedForGood
=============================================================================
