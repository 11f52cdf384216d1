------------------------------ MODULE Prepared ------------------------------
(***************************************************************************)
(* Statements with parameters: Job::execute and its variants, Job::prepare *)
(* and the Query it returns, batches one round-trip at a time              *)
(* (execute_batch) or in one request (execute_sets), and the destructors   *)
(* that release what the daemon keeps for them.                            *)
(*                                                                         *)
(* Tasks share one Job and at most one Query.  The connection is what      *)
(* Dispatcher shows it to be, see Rows, which also has the paging that is  *)
(* left out here.  A parameter is a JSON value: a scalar, or an array of   *)
(* values.                                                                 *)
(***************************************************************************)
EXTENDS Naturals, Sequences, SequencesExt, FiniteSets

CONSTANTS
  Tasks,       \* tasks that use the Job and the Query
  Batches,     \* lists of parameter sets they pass, sequences of values
  PageSizes,   \* ExecuteOptions::rows: None, 0 or a size
  MaxCalls,    \* bound: calls
  MaxRequests, \* bound: requests of these calls
  None

ASSUME PreparedAssumption ==
  /\ {MaxCalls, MaxRequests} \subseteq Nat /\ PageSizes \subseteq Nat \cup {None}
  /\ None \notin Nat /\ None \notin {"page", "done", "fail", "handle", "ack"}

Scalar(v)   == [is_array |-> FALSE, items |-> v]
Array(vals) == [is_array |-> TRUE, items |-> vals]

(* Parameter sets, the empty one included, and the values in them.         *)
ParamSets   == {<< >>} \cup UNION {Range(sets) : sets \in Batches}
ParamValues == UNION {Range(set) : set \in ParamSets}

ASSUME BatchesAssumption ==
  /\ Batches \subseteq Seq(ParamSets) /\ ParamSets \subseteq Seq(ParamValues)
  /\ \A v \in ParamValues : v.is_array \in BOOLEAN
  /\ None \notin Seq(ParamSets) /\ None \notin Seq(ParamValues)
  /\ None \notin Seq({Array(set) : set \in ParamSets})

VARIABLES
  query,     \* the Query: where it is, and Query::cont_id
  call,      \* the call each task is in
  given,     \* history: the parameter sets of each call, and if each goes alone
  ids,       \* IdAllocator: ids drawn
  queue,     \* requests on their way to the daemon
  held,      \* cursors whose Rows a caller has
  spawned,   \* what the spawned sqlclose tasks will close
  conn,      \* the connection
  open,      \* external: what the daemon keeps: prepared handles and cursors
  log,       \* external: what came of the sets of each call, in order
  lost       \* history: what the daemon keeps and nobody will close

vars == <<query, call, given, ids, queue, held, spawned, conn, open, log, lost>>

Handle(id) == <<"handle", id>>
Cursor(id) == <<"cursor", id>>
Idle == [st |-> "idle", n |-> 0]
-----------------------------------------------------------------------------
DEFAULT_ROWS == 100

(* ExecuteOptions::resolved_rows; None for Err(ZeroPageSize).              *)
resolved_rows(rows) ==
  CASE rows = None -> DEFAULT_ROWS
    [] rows = 0    -> None
    [] OTHER       -> rows

(* owned_parameter_sets; None for Err(EmptyParameterSets).                 *)
owned_parameter_sets(sets) == IF sets = << >> THEN None ELSE sets

(* Mutant of serialize: the sets of a batch are put one behind the other.  *)
serialize_Flat(sets) == IF sets = None THEN None ELSE FlattenSeq(sets)

(* parameter_sets::serialize: one set goes as it is, several nested.       *)
serialize(sets) ==
  IF sets = None THEN None
  ELSE IF Len(sets) = 1 THEN sets[1]
  ELSE [k \in 1..Len(sets) |-> Array(sets[k])]

(* parameter_sets::deserialize, by which the daemon's reading is modelled. *)
deserialize(items) ==
  IF items = None THEN None
  ELSE IF \A k \in 1..Len(items) : items[k].is_array THEN [k \in 1..Len(items) |-> items[k].items]
  ELSE <<items>>

(* A set of nothing but arrays that goes alone reads as a batch of them.   *)
Ambiguous(g) ==
  g.alone /\ \E k \in 1..Len(g.sets) : g.sets[k] # << >> /\ \A j \in 1..Len(g.sets[k]) : g.sets[k][j].is_array
-----------------------------------------------------------------------------
TypeOK ==
  /\ query.st \in {"none", "preparing", "held", "dropped"}
  /\ query.cont_id \in 1..MaxRequests \cup {None}
  /\ \A t \in Tasks : call[t].st \in {"idle", "waiting", "ok", "err"} /\ call[t].n \in 0..Len(given)
  /\ Len(given) <= MaxCalls /\ ids \in 0..MaxRequests
  /\ \A k \in 1..Len(queue) :
       queue[k].op \in {"sql", "prepare_sql", "prepare_sql_execute", "execute", "sqlclose"}
  /\ \A x \in held \cup spawned \cup open \cup lost : x[1] \in {"handle", "cursor"} /\ x[2] \in 1..ids
  /\ conn \in {"up", "down"}

Init ==
  /\ query = [st |-> "none", cont_id |-> None]
  /\ call = [t \in Tasks |-> Idle]
  /\ given = << >>
  /\ ids = 0
  /\ queue = << >>
  /\ held = {} /\ spawned = {} /\ open = {} /\ lost = {}
  /\ conn = "up"
  /\ log = [n \in 1..MaxCalls |-> << >>]

(* A call that waits for the request it is about to send; on a connection  *)
(* that is down it fails at once.                                          *)
InCall(n, kind, sets, pos, rows) ==
  [st |-> "waiting", n |-> n, kind |-> kind, sets |-> sets, pos |-> pos, rows |-> rows,
   id |-> ids + 1, reply |-> IF conn = "up" THEN None ELSE "fail"]

(* DispatcherHandle::send of request r for call c of task t.               *)
send(t, c, r) ==
  /\ ids < MaxRequests
  /\ ids' = ids + 1
  /\ call' = [call EXCEPT ![t] = c]
  /\ queue' = IF conn = "up"
              THEN Append(queue, [id |-> ids + 1, n |-> c.n, op |-> r.op, of |-> r.of,
                                  parameters |-> r.parameters, rows |-> r.rows])
              ELSE queue

(* Job::execute_inner: without parameters it is plain SQL.                 *)
JobRequest(set, rows) ==
  IF set = None
  THEN [op |-> "sql", of |-> None, parameters |-> None, rows |-> rows]
  ELSE [op |-> "prepare_sql_execute", of |-> None, parameters |-> serialize(<<set>>), rows |-> rows]

(* Query::execute_inner: a server-side handle is executed, SQL is sent     *)
(* again without one.                                                      *)
QueryRequest(set, rows) ==
  IF query.cont_id # None
  THEN [op |-> "execute", of |-> query.cont_id, parameters |-> set, rows |-> rows]
  ELSE [op |-> "prepare_sql_execute", of |-> None, rows |-> rows,
        parameters |-> serialize(IF set = None THEN None ELSE <<set>>)]

NewCall(kind, sets) == InCall(Len(given) + 1, kind, sets, 1, {})

Starts(t, sets, alone) ==
  /\ call[t].st = "idle" /\ Len(given) < MaxCalls
  /\ given' = Append(given, [sets |-> sets, alone |-> alone])

(* A call that fails before anything is sent, and before it has an id.     *)
Rejected(t) ==
  /\ call[t].st = "idle"
  /\ call' = [call EXCEPT ![t].st = "err"]
  /\ UNCHANGED <<given, ids, queue>>

Params == {sets[1] : sets \in Batches \ {<< >>}} \cup {None}
-----------------------------------------------------------------------------
(* Job::execute, execute_opts, execute_with and execute_with_opts.         *)
JobExecute(t, set, rows) ==
  LET size == resolved_rows(rows)
      sets == << IF set = None THEN << >> ELSE set >>
  IN  /\ IF size = None THEN Rejected(t)
         ELSE Starts(t, sets, TRUE) /\ send(t, NewCall("one", sets), JobRequest(set, size))
      /\ UNCHANGED <<query, held, spawned, conn, open, log, lost>>

(* Job::execute_sets and Query::execute_sets, which do not use the handle. *)
ExecuteSets(t, sets, rows) ==
  LET owned == owned_parameter_sets(sets)
      size  == resolved_rows(rows)
  IN  /\ IF owned = None \/ size = None THEN Rejected(t)
         ELSE /\ Starts(t, sets, Len(sets) = 1)
              /\ send(t, NewCall("one", sets), [op |-> "prepare_sql_execute", of |-> None,
                                                parameters |-> serialize(owned), rows |-> size])
      /\ UNCHANGED <<query, held, spawned, conn, open, log, lost>>

(* Job::prepare.                                                           *)
Prepare(t) ==
  /\ query.st = "none"
  /\ Starts(t, << >>, TRUE)
  /\ query' = [query EXCEPT !.st = "preparing"]
  /\ send(t, NewCall("prepare", << >>), [op |-> "prepare_sql", of |-> None, parameters |-> None,
                                         rows |-> None])
  /\ UNCHANGED <<held, spawned, conn, open, log, lost>>

(* Query::execute, execute_opts, execute_with and execute_with_opts.       *)
QueryExecute(t, set, rows) ==
  LET size == resolved_rows(rows)
      sets == << IF set = None THEN << >> ELSE set >>
  IN  /\ query.st = "held"
      /\ IF size = None THEN Rejected(t)
         ELSE Starts(t, sets, TRUE) /\ send(t, NewCall("query", sets), QueryRequest(set, size))
      /\ UNCHANGED <<query, held, spawned, conn, open, log, lost>>

(* Query::execute_batch starts with its first set; without one it is done. *)
ExecuteBatch(t, sets) ==
  /\ query.st = "held"
  /\ Starts(t, sets, TRUE)
  /\ IF sets = << >>
     THEN /\ call' = [call EXCEPT ![t] = [NewCall("query", sets) EXCEPT !.st = "ok"]]
          /\ UNCHANGED <<ids, queue>>
     ELSE send(t, NewCall("query", sets), QueryRequest(sets[1], DEFAULT_ROWS))
  /\ UNCHANGED <<query, held, spawned, conn, open, log, lost>>

Waits(t, kinds, replies) ==
  call[t].st = "waiting" /\ call[t].kind \in kinds /\ call[t].reply \in replies

(* Rows::new: what a result leaves open.                                   *)
NewRows(c) == IF c.reply = "page" THEN {Cursor(c.id)} ELSE {}

(* The next turn of its loop.                                              *)
BatchNext(t) ==
  LET c == call[t]
  IN  /\ Waits(t, {"query"}, {"page", "done"}) /\ c.pos < Len(c.sets)
      /\ send(t, InCall(c.n, c.kind, c.sets, c.pos + 1, c.rows \cup NewRows(c)),
              QueryRequest(c.sets[c.pos + 1], DEFAULT_ROWS))
      /\ UNCHANGED <<query, given, held, spawned, conn, open, log, lost>>

(* Mutant of ReturnRows: a batch returns without its last set.             *)
ReturnRowsEarly(t) ==
  LET c == call[t]
  IN  /\ Waits(t, {"one", "query"}, {"page", "done"}) /\ (c.kind = "one" \/ c.pos + 1 >= Len(c.sets))
      /\ held' = held \cup c.rows \cup NewRows(c)
      /\ call' = [call EXCEPT ![t].st = "ok"]
      /\ UNCHANGED <<query, given, ids, queue, spawned, conn, open, log, lost>>

(* A call returns Ok: its Rows are the caller's.                           *)
ReturnRows(t) ==
  LET c == call[t]
  IN  /\ Waits(t, {"one", "query"}, {"page", "done"}) /\ (c.kind = "one" \/ c.pos = Len(c.sets))
      /\ held' = held \cup c.rows \cup NewRows(c)
      /\ call' = [call EXCEPT ![t].st = "ok"]
      /\ UNCHANGED <<query, given, ids, queue, spawned, conn, open, log, lost>>

(* The destructors of xs, dropped together: outside a Tokio runtime they   *)
(* do nothing.  Of ys no client knows.                                     *)
spawn_best_effort(xs, ys) ==
  \/ spawned' = spawned \cup xs /\ lost' = lost \cup ys
  \/ spawned' = spawned /\ lost' = lost \cup ys \cup xs

(* Mutant of Fails: the results so far are leaked.                         *)
FailsLeaks(t) ==
  /\ Waits(t, {"one", "query"}, {"fail"})
  /\ call' = [call EXCEPT ![t].st = "err"]
  /\ UNCHANGED <<query, given, ids, queue, held, spawned, conn, open, log, lost>>

(* It returns Err: the results of a batch so far are dropped, and nothing  *)
(* else of it is sent.                                                     *)
Fails(t) ==
  /\ Waits(t, {"one", "query"}, {"fail"})
  /\ call' = [call EXCEPT ![t].st = "err"]
  /\ spawn_best_effort(call[t].rows, {})
  /\ UNCHANGED <<query, given, ids, queue, held, conn, open, log>>

(* Mutant of Prepared: an empty handle is kept.                            *)
PreparedKeepsEmpty(t) ==
  /\ Waits(t, {"prepare"}, {"handle", "ack"})
  /\ query' = [st |-> "held", cont_id |-> IF call[t].reply = "handle" THEN call[t].id ELSE 0]
  /\ call' = [call EXCEPT ![t].st = "ok"]
  /\ UNCHANGED <<given, ids, queue, held, spawned, conn, open, log, lost>>

(* Job::prepare returns a Query, with a handle if the daemon gave one.     *)
Prepared(t) ==
  /\ Waits(t, {"prepare"}, {"handle", "ack"})
  /\ query' = [st |-> "held", cont_id |-> IF call[t].reply = "handle" THEN call[t].id ELSE None]
  /\ call' = [call EXCEPT ![t].st = "ok"]
  /\ UNCHANGED <<given, ids, queue, held, spawned, conn, open, log, lost>>

PrepareFails(t) ==
  /\ Waits(t, {"prepare"}, {"fail"})
  /\ query' = [query EXCEPT !.st = "none"]
  /\ call' = [call EXCEPT ![t].st = "err"]
  /\ UNCHANGED <<given, ids, queue, held, spawned, conn, open, log, lost>>

(* What the request a call is in has left, or will leave, on the daemon.   *)
Unknown(c) == {Handle(c.id), Cursor(c.id)}

(* A future is dropped.  The results it has collected go with it; what its *)
(* request opens belongs to nobody.                                        *)
Cancel(t) ==
  /\ call[t].st = "waiting"
  /\ call' = [call EXCEPT ![t] = Idle]
  /\ spawn_best_effort(call[t].rows, Unknown(call[t]))
  /\ query' = IF call[t].kind = "prepare" THEN [query EXCEPT !.st = "none"] ELSE query
  /\ UNCHANGED <<given, ids, queue, held, conn, open, log>>

(* The caller has looked at the result.                                    *)
Take(t) ==
  /\ call[t].st \in {"ok", "err"}
  /\ call' = [call EXCEPT ![t] = Idle]
  /\ UNCHANGED <<query, given, ids, queue, held, spawned, conn, open, log, lost>>
-----------------------------------------------------------------------------
(* Drop for Rows.                                                          *)
DropRows(x) ==
  /\ x \in held
  /\ held' = held \ {x}
  /\ spawn_best_effort({x}, {})
  /\ UNCHANGED <<query, call, given, ids, queue, conn, open, log>>

(* Mutant of DropQuery: it does not wait for the futures that borrow it.   *)
DropQueryEarly ==
  /\ query.st = "held"
  /\ query' = [query EXCEPT !.st = "dropped"]
  /\ spawn_best_effort(IF query.cont_id # None THEN {Handle(query.cont_id)} ELSE {}, {})
  /\ UNCHANGED <<call, given, ids, queue, held, conn, open, log>>

(* Drop for Query: only a handle the daemon gave is closed.  Futures of    *)
(* its methods borrow it.                                                  *)
DropQuery ==
  /\ query.st = "held" /\ \A t \in Tasks : ~(call[t].st = "waiting" /\ call[t].kind = "query")
  /\ query' = [query EXCEPT !.st = "dropped"]
  /\ spawn_best_effort(IF query.cont_id # None THEN {Handle(query.cont_id)} ELSE {}, {})
  /\ UNCHANGED <<call, given, ids, queue, held, conn, open, log>>

(* Mutant of spawn_close: tries twice.                                     *)
spawn_close_Twice(x) ==
  /\ x \in spawned
  /\ spawned' \in {spawned, spawned \ {x}}
  /\ queue' = IF conn = "up" THEN Append(queue, [id |-> 0, n |-> 0, op |-> "sqlclose", of |-> x,
                                                 parameters |-> None, rows |-> None]) ELSE queue
  /\ UNCHANGED <<query, call, given, ids, held, conn, open, log, lost>>

(* spawn_close: its task runs and queues the sqlclose.                     *)
spawn_close(x) ==
  /\ x \in spawned
  /\ spawned' = spawned \ {x}
  /\ queue' = IF conn = "up" THEN Append(queue, [id |-> 0, n |-> 0, op |-> "sqlclose", of |-> x,
                                                 parameters |-> None, rows |-> None]) ELSE queue
  /\ UNCHANGED <<query, call, given, ids, held, conn, open, log, lost>>
-----------------------------------------------------------------------------
(* External: the daemon.                                                   *)

Answer(r, reply) ==
  call' = [t \in Tasks |-> IF call[t].st = "waiting" /\ call[t].id = r.id
                           THEN [call[t] EXCEPT !.reply = reply] ELSE call[t]]

Serving == queue' = Tail(queue) /\ UNCHANGED <<query, given, ids, held, spawned, conn>>

(* Without parameters, or with none in them, it executes once.             *)
Executions(r) ==
  LET sets == IF r.op = "execute" THEN (IF r.parameters = None THEN None ELSE <<r.parameters>>)
              ELSE deserialize(r.parameters)
  IN  IF sets \in {None, << >>} THEN << << >> >> ELSE sets

Record(r, k) == log' = [log EXCEPT ![r.n] = @ \o SubSeq(Executions(r), 1, k)]

Executes(r) == r.op \in {"sql", "prepare_sql_execute", "execute"}

ServeExecute(r) ==
  /\ Executes(r)
  /\ Serving /\ UNCHANGED lost
  /\ Record(r, Len(Executions(r)))
  /\ \/ Answer(r, "done") /\ UNCHANGED open
     \/ Answer(r, "page") /\ open' = open \cup {Cursor(r.id)}

(* One of the sets fails, and those behind it are not executed.            *)
ServeError(r) ==
  /\ Executes(r)
  /\ Serving /\ UNCHANGED <<open, lost>>
  /\ \E k \in 0..(Len(Executions(r)) - 1) : Record(r, k)
  /\ Answer(r, "fail")

(* The same, answered with the keys of a result, "data" or "has_results":  *)
(* decode_value makes it a QueryResult, and execute_inner does not look at *)
(* its success.  None stands for a set that was not executed.              *)
ServeFailedResult(r) ==
  /\ Executes(r)
  /\ Serving /\ UNCHANGED <<open, lost>>
  /\ \E k \in 0..(Len(Executions(r)) - 1) :
       log' = [log EXCEPT ![r.n] =
                 @ \o [j \in 1..Len(Executions(r)) |-> IF j <= k THEN Executions(r)[j] ELSE None]]
  /\ Answer(r, "done")

(* A live daemon acknowledges without a handle, see Protocol.              *)
ServePrepare(r) ==
  /\ r.op = "prepare_sql"
  /\ Serving /\ UNCHANGED <<log, lost>>
  /\ \/ Answer(r, "handle") /\ open' = open \cup {Handle(r.id)}
     \/ Answer(r, "ack") /\ UNCHANGED open
     \/ Answer(r, "fail") /\ UNCHANGED open

(* The answer is not understood, and what it announces belongs to nobody.  *)
ServeGarbled(r) ==
  /\ r.op # "sqlclose"
  /\ Serving /\ Answer(r, "fail")
  /\ IF r.op = "prepare_sql"
     THEN open' = open \cup {Handle(r.id)} /\ UNCHANGED log
     ELSE open' = open \cup {Cursor(r.id)} /\ Record(r, Len(Executions(r)))
  /\ lost' = lost \cup (open' \ open)

ServeClose(r) ==
  /\ r.op = "sqlclose"
  /\ Serving /\ UNCHANGED <<call, log, lost>>
  /\ open' = open \ {r.of}

Daemon ==
  /\ queue # << >>
  /\ LET r == Head(queue)
     IN  \/ ServeExecute(r) \/ ServeError(r) \/ ServeFailedResult(r) \/ ServePrepare(r)
         \/ ServeGarbled(r) \/ ServeClose(r)

(* The connection dies, or the Job is dropped.                             *)
ConnDown ==
  /\ conn = "up"
  /\ conn' = "down"
  /\ queue' = << >>
  /\ call' = [t \in Tasks |-> IF call[t].st = "waiting" /\ call[t].reply = None
                              THEN [call[t] EXCEPT !.reply = "fail"] ELSE call[t]]
  /\ UNCHANGED <<query, given, ids, held, spawned, open, log, lost>>

(* External: what was open then is left to the daemon's idle timer.        *)
IdleTimer ==
  /\ conn = "down" /\ open # {}
  /\ open' = {}
  /\ UNCHANGED <<query, call, given, ids, queue, held, spawned, conn, log, lost>>
-----------------------------------------------------------------------------
Next ==
  \/ \E t \in Tasks :
       \/ Prepare(t) \/ Prepared(t) \/ PrepareFails(t)
       \/ \E rows \in PageSizes : \/ \E sets \in Batches : ExecuteSets(t, sets, rows)
                                  \/ \E set \in Params : JobExecute(t, set, rows) \/ QueryExecute(t, set, rows)
       \/ \E sets \in Batches : ExecuteBatch(t, sets)
       \/ BatchNext(t) \/ ReturnRows(t) \/ Fails(t) \/ Cancel(t) \/ Take(t)
  \/ \E x \in held : DropRows(x)
  \/ \E x \in spawned : spawn_close(x)
  \/ DropQuery \/ Daemon \/ ConnDown \/ IdleTimer

Spec == Init /\ [][Next]_vars
-----------------------------------------------------------------------------
(* Properties.                                                             *)

(* Set k of n was executed, or its failure was answered like a result.     *)
CameToBe(n, k) == log[n][k] \in {given[n].sets[k], None}

(* Whatever tasks share the connection, are cancelled or fail half way:    *)
(* the daemon executes the parameter sets of a call in the order given and *)
(* each at most once, and one behind a set that was left out only if that  *)
(* failure was answered in the shape of a result, at which execute_batch   *)
(* does not stop.  Excepted is the one set that reads as a batch.          *)
ExecutedInOrder ==
  \A n \in 1..Len(given) : ~Ambiguous(given[n]) =>
    Len(log[n]) <= Len(given[n].sets) /\ \A k \in 1..Len(log[n]) : CameToBe(n, k)

(* A call that returned Ok has had each of its parameter sets executed, or *)
(* been told of the failure in the shape of a result, which the code takes *)
(* for one.  No set is skipped, lost in a batch, or still on its way.      *)
OkMeansServed ==
  \A t \in Tasks : call[t].st = "ok" /\ call[t].kind # "prepare" /\ ~Ambiguous(given[call[t].n])
                   => /\ Len(log[call[t].n]) = Len(call[t].sets)
                      /\ \A k \in 1..Len(call[t].sets) : CameToBe(call[t].n, k)

(* No execute of a prepared statement reaches the daemon behind the        *)
(* sqlclose of its handle, cancelled ones included.                        *)
NoExecuteAfterClose ==
  \A k \in 1..Len(queue) :
    queue[k].op = "execute" =>
      /\ Handle(queue[k].of) \in open
      /\ \A j \in 1..(k - 1) : ~(queue[j].op = "sqlclose" /\ queue[j].of = Handle(queue[k].of))

(* Each handle and each cursor is closed at most once, and not while a     *)
(* Query or a Rows still has it.                                           *)
ClosedOnce ==
  \A k \in 1..Len(queue) : queue[k].op = "sqlclose" =>
    /\ queue[k].of \in open \ (held \cup spawned)
    /\ query.st = "held" => queue[k].of # Handle(query.cont_id)
    /\ \A j \in 1..(k - 1) : ~(queue[j].op = "sqlclose" /\ queue[j].of = queue[k].of)

(* While the connection is up nothing the daemon keeps for a Query or a    *)
(* result is forgotten: a Query, a Rows or a call has it, or its sqlclose  *)
(* is on the way, after a batch that failed or was cancelled half way too. *)
(* Excepted, in lost, is what was opened by a request whose future was     *)
(* dropped or whose answer was not understood, for which the code has no   *)
(* owner, and what was dropped outside a Tokio runtime.                    *)
Known == held \cup (IF query.st = "held" THEN {Handle(query.cont_id)} ELSE {})
              \cup UNION {call[t].rows \cup Unknown(call[t]) : t \in {u \in Tasks : call[u].st = "waiting"}}
NothingForgotten ==
  conn = "up" =>
    \A x \in open \ (Known \cup spawned \cup lost) :
      \E k \in 1..Len(queue) : queue[k].op = "sqlclose" /\ queue[k].of = x
=============================================================================
