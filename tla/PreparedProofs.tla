--------------------------- MODULE PreparedProofs ---------------------------
(***************************************************************************)
(* Theorems about Prepared: its type invariant, that each handle and each  *)
(* cursor is closed once and not while it is in use, that no execute       *)
(* follows the sqlclose of its handle, and that nothing the daemon keeps   *)
(* is forgotten, for any tasks, batches and number of calls.               *)
(***************************************************************************)
EXTENDS Prepared, TLAPS

(* What the daemon may keep: the prepared handle or the cursor of an id.   *)
Resource == {"handle", "cursor"} \X (1..ids)

IsSeq(q) == q \in Seq({q[k] : k \in 1..Len(q)})

Waiting(t) == call[t].st = "waiting"
IsClose(r) == r.op = "sqlclose"

(* The record of a call that was started.                                  *)
IsCall(c) ==
  c = [st |-> c.st, n |-> c.n, kind |-> c.kind, sets |-> c.sets, pos |-> c.pos, id |-> c.id,
       reply |-> c.reply, rows |-> c.rows]

CallType(t) ==
  /\ call[t].st \in {"idle", "waiting", "ok", "err"} /\ call[t].n \in 0..Len(given)
  /\ Waiting(t) =>
       /\ IsCall(call[t]) /\ call[t].id \in 1..ids /\ call[t].rows \subseteq Resource
       /\ \/ call[t].kind \in {"one", "query"} /\ call[t].reply \in {None, "page", "done", "fail"}
          \/ call[t].kind = "prepare" /\ call[t].reply \in {None, "handle", "ack", "fail"} /\ call[t].rows = {}

RequestType(r) ==
  /\ r.op \in {"sql", "prepare_sql", "prepare_sql_execute", "execute", "sqlclose"}
  /\ IF IsClose(r) THEN r.of \in Resource ELSE r.id \in 1..ids

Types ==
  /\ query = [st |-> query.st, cont_id |-> query.cont_id]
  /\ query.st \in {"none", "preparing", "held", "dropped"} /\ query.cont_id \in 1..ids \cup {None}
  /\ call = [t \in Tasks |-> call[t]] /\ \A t \in Tasks : CallType(t)
  /\ IsSeq(given) /\ Len(given) <= MaxCalls /\ ids \in 0..MaxRequests
  /\ IsSeq(queue) /\ \A k \in 1..Len(queue) : RequestType(queue[k])
  /\ held \subseteq Resource /\ spawned \subseteq Resource /\ open \subseteq Resource /\ lost \subseteq Resource
  /\ conn \in {"up", "down"} /\ (conn = "down" => queue = << >>)

(* Requests and the calls that wait for them: ids are used once.           *)
WaitInv ==
  /\ \A t, u \in Tasks : Waiting(t) /\ Waiting(u) /\ call[t].id = call[u].id => t = u
  /\ \A t, u \in Tasks :
       Waiting(t) /\ Waiting(u) /\ call[t].kind = "prepare" /\ call[u].kind = "prepare" => t = u
  /\ \A t \in Tasks : Waiting(t) => /\ call[t].kind = "prepare" => query.st = "preparing"
                                    /\ call[t].kind = "query" => query.st = "held"
  /\ query.st \in {"none", "preparing"} => query.cont_id = None
QueueInv ==
  /\ \A j, k \in 1..Len(queue) :
       ~IsClose(queue[j]) /\ ~IsClose(queue[k]) /\ queue[j].id = queue[k].id => j = k
  /\ \A k \in 1..Len(queue) : ~IsClose(queue[k]) =>
       /\ \A x \in open : x[2] # queue[k].id
       /\ \A t \in Tasks : Waiting(t) /\ call[t].id = queue[k].id =>
            call[t].reply = None /\ (queue[k].op = "prepare_sql" <=> call[t].kind = "prepare")
       /\ (\E t \in Tasks : Waiting(t) /\ call[t].id = queue[k].id) \/ Unknown(queue[k]) \subseteq lost

(* Who has what: a call its results so far and the one it was just sent,   *)
(* and a Query the handle.                                                 *)
Has(t) ==
  IF Waiting(t)
  THEN call[t].rows \cup (IF call[t].reply = "page" THEN {Cursor(call[t].id)} ELSE {})
                    \cup (IF call[t].reply = "handle" THEN {Handle(call[t].id)} ELSE {})
  ELSE {}
QueryHas == IF query.st = "held" /\ query.cont_id # None THEN {Handle(query.cont_id)} ELSE {}

(* Everything has one owner at most, and the daemon keeps it.              *)
OwnInv ==
  /\ held \cap spawned = {} /\ QueryHas \cap (held \cup spawned) = {}
  /\ \A t \in Tasks : Has(t) \cap (held \cup spawned \cup QueryHas) = {}
  /\ \A t, u \in Tasks : t # u => Has(t) \cap Has(u) = {}
  /\ conn = "up" => held \cup spawned \cup QueryHas \subseteq open /\ \A t \in Tasks : Has(t) \subseteq open

(* A sqlclose is for something that is open and has no owner any more.     *)
CloseInv ==
  \A k \in 1..Len(queue) : IsClose(queue[k]) =>
    /\ queue[k].of \in open
    /\ queue[k].of \notin held \cup spawned \cup QueryHas
    /\ \A t \in Tasks : queue[k].of \notin Has(t)
    /\ \A j \in 1..Len(queue) : IsClose(queue[j]) /\ queue[j].of = queue[k].of => j = k

(* An execute is for the handle of the one Query.                          *)
ExecInv ==
  \A k \in 1..Len(queue) : queue[k].op = "execute" =>
    /\ query.cont_id # None /\ queue[k].of = query.cont_id /\ Handle(queue[k].of) \in open
    /\ \A j \in 1..Len(queue) : IsClose(queue[j]) /\ queue[j].of = Handle(queue[k].of) => k < j

(* What the daemon keeps on a connection that is up has an owner, or is    *)
(* being closed, or nobody will close it.                                  *)
Kept(x) ==
  \/ x \in held \cup spawned \cup QueryHas \cup lost
  \/ \E t \in Tasks : x \in Has(t)
  \/ \E k \in 1..Len(queue) : IsClose(queue[k]) /\ queue[k].of = x
KeptInv == conn = "up" => \A x \in open : Kept(x)

PreparedInv == Types /\ WaitInv /\ QueueInv /\ OwnInv /\ CloseInv /\ ExecInv /\ KeptInv
-----------------------------------------------------------------------------
(* A sequence of some set is one of its own elements.                      *)
LEMMA OwnElements ==
  ASSUME NEW S, NEW q \in Seq(S)
  PROVE  IsSeq(q)
<1> DEFINE R == {q[k] : k \in 1..Len(q)}
<1>1. Len(q) \in Nat /\ q \in [1..Len(q) -> S] OBVIOUS
<1>2. \A k \in 1..Len(q) : q[k] \in R OBVIOUS
<1> HIDE DEF R
<1>3. q \in [1..Len(q) -> R] BY <1>1, <1>2
<1>4. q \in Seq(R) BY <1>1, <1>3
<1> QED BY <1>4 DEF R, IsSeq

(* Extending a sequence.                                                   *)
Extends(p, q, e) ==
  /\ IsSeq(p) /\ Len(q) \in Nat /\ Len(p) = Len(q) + 1 /\ p[Len(q) + 1] = e
  /\ \A k \in 1..Len(q) : k \in 1..Len(p) /\ p[k] = q[k]
  /\ \A k \in 1..Len(p) : k \in 1..Len(q) \/ k = Len(q) + 1

(* Append extends a sequence.                                              *)
LEMMA AppendExtends ==
  ASSUME NEW q, IsSeq(q), NEW e
  PROVE  Extends(Append(q, e), q, e)
<1> DEFINE S == {q[k] : k \in 1..Len(q)} \cup {e}
<1>1. \A k \in 1..Len(q) : q[k] \in S OBVIOUS
<1>2. Len(q) \in Nat /\ q = [k \in 1..Len(q) |-> q[k]] BY DEF IsSeq
<1>e. e \in S OBVIOUS
<1> HIDE DEF S
<1>3. q \in Seq(S)
  <2>1. q \in [1..Len(q) -> S] BY <1>1, <1>2
  <2> QED BY <1>2, <2>1
<1>4. Append(q, e) \in Seq(S) /\ Len(Append(q, e)) = Len(q) + 1 BY <1>3, <1>e
<1>5. Append(q, e)[Len(q) + 1] = e BY <1>3, <1>e
<1>6. \A k \in 1..Len(q) : Append(q, e)[k] = q[k] BY <1>3, <1>e
<1>7. IsSeq(Append(q, e)) BY <1>4, OwnElements
<1>8. \A k \in 1..(Len(q) + 1) : k \in 1..Len(q) \/ k = Len(q) + 1 BY <1>2
<1>9. \A k \in 1..Len(q) : k \in 1..(Len(q) + 1) BY <1>2
<1> QED BY <1>2, <1>4, <1>5, <1>6, <1>7, <1>8, <1>9 DEF Extends

(* Taking the first element of a sequence.                                 *)
Shifts(p, q) ==
  /\ IsSeq(p) /\ Len(q) \in Nat /\ 1 \in 1..Len(q) /\ Len(p) = Len(q) - 1
  /\ \A k \in 1..Len(p) : k + 1 \in 1..Len(q) /\ k + 1 # 1 /\ p[k] = q[k + 1]
  /\ \A j, k \in 1..Len(p) : (j = k <=> j + 1 = k + 1) /\ (j < k <=> j + 1 < k + 1)
  /\ \A k \in 1..Len(q) : k = 1 \/ (k - 1 \in 1..Len(p) /\ (k - 1) + 1 = k)

(* Tail shifts a sequence by one.                                          *)
LEMMA TailShifts ==
  ASSUME NEW q, IsSeq(q), q # << >>
  PROVE  Shifts(Tail(q), q) /\ Head(q) = q[1]
<1> DEFINE S == {q[k] : k \in 1..Len(q)}
<1>1. q \in Seq(S) BY DEF IsSeq
<1> HIDE DEF S
<1>2. Len(q) \in Nat /\ Len(q) # 0 BY <1>1
<1>3. Tail(q) \in Seq(S) /\ Len(Tail(q)) = Len(q) - 1 BY <1>1, <1>2
<1>4. \A k \in 1..(Len(q) - 1) : Tail(q)[k] = q[k + 1] BY <1>1, <1>2
<1>5. IsSeq(Tail(q)) BY <1>3, OwnElements
<1>6. Head(q) = q[1] BY <1>1, <1>2
<1>7. \A k \in 1..(Len(q) - 1) : k + 1 \in 1..Len(q) /\ k + 1 # 1 BY <1>2
<1>8. \A j, k \in 1..(Len(q) - 1) : (j = k <=> j + 1 = k + 1) /\ (j < k <=> j + 1 < k + 1) BY <1>2
<1>9. \A k \in 1..Len(q) : k = 1 \/ (k - 1 \in 1..(Len(q) - 1) /\ (k - 1) + 1 = k) BY <1>2
<1> QED BY <1>2, <1>3, <1>4, <1>5, <1>6, <1>7, <1>8, <1>9 DEF Shifts
-----------------------------------------------------------------------------
(* The shapes of a step.  Task t acts alone:                               *)
Others(t) ==
  /\ call' = [u \in Tasks |-> call'[u]]
  /\ \A u \in Tasks : u # t => call'[u] = call[u]

NewRequest(r, c) ==
  /\ r.id = ids + 1 /\ r.op \in {"sql", "prepare_sql", "prepare_sql_execute", "execute"}
  /\ r.op = "prepare_sql" <=> c.kind = "prepare"
  /\ r.op = "execute" => query.st = "held" /\ query.cont_id # None /\ r.of = query.cont_id

Given ==
  IsSeq(given') /\ Len(given) \in Nat /\ Len(given') \in Len(given)..MaxCalls

(* it sends the first or the next request of its call, and keeps what it   *)
(* has;                                                                    *)
Sends(t) ==
  /\ ids' = ids + 1 /\ ids < MaxRequests /\ Given /\ Others(t)
  /\ UNCHANGED <<held, spawned, conn, open, lost>>
  /\ ~Waiting(t) \/ (call[t].kind = "query" /\ call[t].reply # None /\ call'[t].kind = "query")
  /\ IsCall(call'[t]) /\ call'[t].st = "waiting" /\ call'[t].n \in 0..Len(given')
  /\ call'[t].id = ids + 1 /\ call'[t].rows = Has(t) /\ call'[t].reply \in {None, "fail"}
  /\ \/ call'[t].kind = "one" /\ query' = query
     \/ call'[t].kind = "query" /\ query' = query /\ query.st = "held"
     \/ /\ call'[t].kind = "prepare" /\ query.st = "none" /\ query' = [query EXCEPT !.st = "preparing"]
        /\ Has(t) = {}
  /\ \/ conn = "up" /\ \E r : NewRequest(r, call'[t]) /\ Extends(queue', queue, r) /\ call'[t].reply = None
     \/ conn = "down" /\ queue' = queue

(* or it is done with its call, and what it has goes to the caller, to     *)
(* sqlclose tasks, to the Query, or to nobody.                             *)
Releases(t, A, B, C) ==
  /\ UNCHANGED <<ids, queue, open, conn>> /\ Given /\ Others(t)
  /\ call'[t].st \in {"idle", "ok", "err"} /\ call'[t].n \in 0..Len(given')
  /\ held' = held \cup A /\ spawned' = spawned \cup B /\ QueryHas' = QueryHas \cup C
  /\ A \cap B = {} /\ A \cap C = {} /\ B \cap C = {} /\ A \cup B \cup C \subseteq Has(t)
  /\ lost \subseteq lost' /\ lost' \subseteq Resource /\ Has(t) \subseteq A \cup B \cup C \cup lost'
  /\ Waiting(t) => call[t].reply # None \/ Unknown(call[t]) \subseteq lost'
  /\ \/ query' = query
     \/ /\ Waiting(t) /\ call[t].kind = "prepare"
        /\ query' = [st |-> query'.st, cont_id |-> query'.cont_id]
        /\ \/ query'.st = "none" /\ query'.cont_id = query.cont_id
           \/ query'.st = "held" /\ query'.cont_id \in 1..ids \cup {None}

(* What send does for a call c.                                            *)
LEMMA SendShape ==
  ASSUME Types, NEW t \in Tasks, NEW c, NEW r, send(t, c, r)
  PROVE  /\ ids' = ids + 1 /\ ids < MaxRequests /\ Others(t) /\ call'[t] = c
         /\ conn = "up" => Extends(queue', queue, [id |-> ids + 1, n |-> c.n, op |-> r.op, of |-> r.of,
                                                   parameters |-> r.parameters, rows |-> r.rows])
         /\ conn = "down" => queue' = queue
<1> DEFINE e == [id |-> ids + 1, n |-> c.n, op |-> r.op, of |-> r.of,
                 parameters |-> r.parameters, rows |-> r.rows]
<1>1. call' = [call EXCEPT ![t] = c] /\ ids' = ids + 1 /\ ids < MaxRequests BY DEF send
<1>2. queue' = IF conn = "up" THEN Append(queue, e) ELSE queue BY DEF send
<1>3. call = [u \in Tasks |-> call[u]] /\ IsSeq(queue) BY DEF Types
<1> HIDE DEF e
<1>4. call'[t] = c /\ Others(t) BY <1>1, <1>3 DEF Others
<1>5. conn = "up" => Extends(queue', queue, e) BY <1>2, <1>3, AppendExtends
<1>6. conn = "down" => queue' = queue BY <1>2
<1> QED BY <1>1, <1>4, <1>5, <1>6 DEF e

(* The fields of a call about to send.                                     *)
LEMMA InCallIs ==
  ASSUME NEW n, NEW kind, NEW sets, NEW pos, NEW rows, NEW c, c = InCall(n, kind, sets, pos, rows)
  PROVE  /\ IsCall(c) /\ c.st = "waiting" /\ c.n = n /\ c.kind = kind /\ c.id = ids + 1 /\ c.rows = rows
         /\ c.reply \in {None, "fail"} /\ (conn = "up" => c.reply = None)
BY DEF InCall, IsCall

(* The history of calls grows by one.                                      *)
LEMMA StartShape ==
  ASSUME Types, NEW t \in Tasks, NEW sets, NEW alone, Starts(t, sets, alone)
  PROVE  Given /\ Len(given') = Len(given) + 1 /\ ~Waiting(t) /\ Has(t) = {}
<1>1. Extends(given', given, [sets |-> sets, alone |-> alone])
  BY AppendExtends DEF Types, Starts
<1>2. ~Waiting(t) BY DEF Starts, Waiting
<1>3. Len(given) < MaxCalls /\ MaxCalls \in Nat BY PreparedAssumption DEF Starts
<1>4. Given BY <1>1, <1>3 DEF Given, Extends
<1> QED BY <1>1, <1>2, <1>4 DEF Has, Extends

(* A first request: the call is new and has nothing.                       *)
LEMMA FirstSends ==
  ASSUME Types, NEW t \in Tasks, NEW sets, NEW alone, Starts(t, sets, alone),
         NEW kind \in {"one", "query", "prepare"}, NEW r, send(t, NewCall(kind, sets), r),
         r.op \in {"sql", "prepare_sql", "prepare_sql_execute", "execute"},
         r.op = "prepare_sql" <=> kind = "prepare",
         r.op = "execute" => query.cont_id # None /\ r.of = query.cont_id /\ query.st = "held",
         UNCHANGED <<held, spawned, conn, open, lost>>,
         \/ kind = "one" /\ query' = query
         \/ kind = "query" /\ query' = query /\ query.st = "held"
         \/ kind = "prepare" /\ query.st = "none" /\ query' = [query EXCEPT !.st = "preparing"]
  PROVE  Sends(t)
<1> DEFINE e == [id |-> ids + 1, n |-> call'[t].n, op |-> r.op, of |-> r.of,
                 parameters |-> r.parameters, rows |-> r.rows]
<1>1. Given /\ Len(given') = Len(given) + 1 /\ ~Waiting(t) /\ Has(t) = {} BY StartShape
<1>2. /\ ids' = ids + 1 /\ ids < MaxRequests /\ Others(t) /\ call'[t] = NewCall(kind, sets)
      /\ conn = "up" => Extends(queue', queue, e)
      /\ conn = "down" => queue' = queue
  BY SendShape
<1>3. /\ IsCall(call'[t]) /\ call'[t].st = "waiting" /\ call'[t].n = Len(given) + 1 /\ call'[t].kind = kind
      /\ call'[t].id = ids + 1 /\ call'[t].rows = {}
      /\ call'[t].reply \in {None, "fail"} /\ (conn = "up" => call'[t].reply = None)
  BY <1>2, InCallIs DEF NewCall
<1>4. call'[t].n \in 0..Len(given') BY <1>1, <1>3 DEF Given
<1>5. NewRequest(e, call'[t]) BY <1>3 DEF NewRequest
<1>6. conn \in {"up", "down"} BY DEF Types
<1> HIDE DEF e
<1>7. \/ conn = "up" /\ \E q : NewRequest(q, call'[t]) /\ Extends(queue', queue, q) /\ call'[t].reply = None
      \/ conn = "down" /\ queue' = queue
  BY <1>2, <1>3, <1>5, <1>6
<1> QED BY <1>1, <1>2, <1>3, <1>4, <1>7 DEF Sends

(* The call is over, or was never started.                                 *)
LEMMA NoCall ==
  ASSUME Types, NEW t \in Tasks, ~Waiting(t), Others(t), UNCHANGED <<query, ids, queue, open, conn, held, spawned, lost>>,
         Given, call'[t].st \in {"idle", "ok", "err"}, call'[t].n \in 0..Len(given')
  PROVE  Releases(t, {}, {}, {})
<1>1. Has(t) = {} BY DEF Has
<1>2. QueryHas' = QueryHas BY DEF QueryHas
<1>3. lost' \subseteq Resource BY DEF Types
<1> QED BY <1>1, <1>2, <1>3 DEF Releases

(* A call that fails before anything is sent.                              *)
LEMMA RejectedReleases ==
  ASSUME Types, NEW t \in Tasks, Rejected(t), UNCHANGED <<query, held, spawned, conn, open, log, lost>>
  PROVE  Releases(t, {}, {}, {})
<1>1. call = [u \in Tasks |-> call[u]] /\ IsSeq(given) /\ Len(given) <= MaxCalls
      /\ call[t].n \in 0..Len(given) /\ Len(given) \in Nat /\ MaxCalls \in Nat
  BY PreparedAssumption DEF Types, CallType, IsSeq
<1>2. ~Waiting(t) /\ UNCHANGED <<given, ids, queue>> BY DEF Rejected, Waiting
<1>3. Given BY <1>1, <1>2 DEF Given
<1>4. Others(t) BY <1>1 DEF Others, Rejected
<1>5. call'[t] = [call[t] EXCEPT !.st = "err"] BY <1>1 DEF Rejected
<1>6. call'[t].n = call[t].n BY <1>5
<1>7. call'[t].st \in {"idle", "ok", "err"} BY <1>5
<1> QED BY <1>1, <1>2, <1>3, <1>4, <1>6, <1>7, NoCall

(* The execute family sends one request, or rejects the call.              *)
LEMMA StartSteps ==
  ASSUME Types, NEW t \in Tasks,
         \/ Prepare(t)
         \/ \E rows \in PageSizes : \/ \E sets \in Batches : ExecuteSets(t, sets, rows)
                                    \/ \E set \in Params : JobExecute(t, set, rows) \/ QueryExecute(t, set, rows)
         \/ \E sets \in Batches : ExecuteBatch(t, sets)
  PROVE  Sends(t) \/ \E A, B, C \in SUBSET Has(t) : Releases(t, A, B, C)
<1> DEFINE Goal == Sends(t) \/ \E A, B, C \in SUBSET Has(t) : Releases(t, A, B, C)
<1>r. ASSUME Releases(t, {}, {}, {}) PROVE Goal
  <2>1. {} \in SUBSET Has(t) OBVIOUS
  <2> QED BY <1>r, <2>1
<1>q. ASSUME NEW set, NEW size
      PROVE  /\ QueryRequest(set, size).op \in {"sql", "prepare_sql", "prepare_sql_execute", "execute"}
             /\ QueryRequest(set, size).op # "prepare_sql"
             /\ QueryRequest(set, size).op = "execute" =>
                  query.cont_id # None /\ QueryRequest(set, size).of = query.cont_id
  BY DEF QueryRequest
<1>1. CASE Prepare(t) BY <1>1, FirstSends DEF Prepare
<1>2. ASSUME NEW rows \in PageSizes, NEW sets \in Batches, ExecuteSets(t, sets, rows) PROVE Goal
  <2> DEFINE r == [op |-> "prepare_sql_execute", of |-> None,
                   parameters |-> serialize(owned_parameter_sets(sets)), rows |-> resolved_rows(rows)]
  <2>1. CASE Rejected(t) BY <1>2, <1>r, <2>1, RejectedReleases DEF ExecuteSets
  <2>2. CASE Starts(t, sets, Len(sets) = 1) /\ send(t, NewCall("one", sets), r)
    <3>1. r.op = "prepare_sql_execute" OBVIOUS
    <3> HIDE DEF r
    <3> QED BY <1>2, <2>2, <3>1, FirstSends DEF ExecuteSets
  <2> QED BY <1>2, <2>1, <2>2 DEF ExecuteSets
<1>3. ASSUME NEW rows \in PageSizes, NEW set \in Params, JobExecute(t, set, rows) PROVE Goal
  <2> DEFINE r == JobRequest(set, resolved_rows(rows))
             sets == << IF set = None THEN << >> ELSE set >>
  <2>1. CASE Rejected(t) BY <1>3, <1>r, <2>1, RejectedReleases DEF JobExecute
  <2>2. CASE Starts(t, sets, TRUE) /\ send(t, NewCall("one", sets), r)
    <3>1. r.op \in {"sql", "prepare_sql_execute"} BY DEF JobRequest
    <3> HIDE DEF r, sets
    <3> QED BY <1>3, <2>2, <3>1, FirstSends DEF JobExecute
  <2> QED BY <1>3, <2>1, <2>2 DEF JobExecute
<1>4. ASSUME NEW rows \in PageSizes, NEW set \in Params, QueryExecute(t, set, rows) PROVE Goal
  <2> DEFINE r == QueryRequest(set, resolved_rows(rows))
             sets == << IF set = None THEN << >> ELSE set >>
  <2>1. CASE Rejected(t) BY <1>4, <1>r, <2>1, RejectedReleases DEF QueryExecute
  <2>2. CASE Starts(t, sets, TRUE) /\ send(t, NewCall("query", sets), r)
    <3>1. /\ r.op \in {"sql", "prepare_sql", "prepare_sql_execute", "execute"} /\ r.op # "prepare_sql"
          /\ r.op = "execute" => query.cont_id # None /\ r.of = query.cont_id
      BY <1>q
    <3>2. query.st = "held" /\ UNCHANGED <<query, held, spawned, conn, open, lost>> BY <1>4 DEF QueryExecute
    <3> HIDE DEF r, sets
    <3> QED BY <2>2, <3>1, <3>2, FirstSends
  <2> QED BY <1>4, <2>1, <2>2 DEF QueryExecute
<1>5. ASSUME NEW sets \in Batches, ExecuteBatch(t, sets) PROVE Goal
  <2>1. query.st = "held" /\ Starts(t, sets, TRUE) /\ UNCHANGED <<query, held, spawned, conn, open, lost>>
    BY <1>5 DEF ExecuteBatch
  <2>2. CASE sets = << >>
    <3>1. call' = [call EXCEPT ![t] = [NewCall("query", sets) EXCEPT !.st = "ok"]] /\ UNCHANGED <<ids, queue>>
      BY <1>5, <2>2 DEF ExecuteBatch
    <3>2. call = [u \in Tasks |-> call[u]] BY DEF Types
    <3>3. Others(t) /\ call'[t] = [NewCall("query", sets) EXCEPT !.st = "ok"] BY <3>1, <3>2 DEF Others
    <3>4. call'[t].st = "ok" /\ call'[t].n = Len(given) + 1 BY <3>3 DEF NewCall, InCall
    <3>5. Given /\ Len(given') = Len(given) + 1 /\ ~Waiting(t) BY <2>1, StartShape
    <3>6. call'[t].n \in 0..Len(given') BY <3>4, <3>5 DEF Given
    <3> QED BY <1>r, <2>1, <3>1, <3>3, <3>4, <3>5, <3>6, NoCall
  <2>3. CASE sets # << >>
    <3> DEFINE r == QueryRequest(sets[1], DEFAULT_ROWS)
    <3>1. send(t, NewCall("query", sets), r) BY <1>5, <2>3 DEF ExecuteBatch
    <3>2. /\ r.op \in {"sql", "prepare_sql", "prepare_sql_execute", "execute"} /\ r.op # "prepare_sql"
          /\ r.op = "execute" => query.cont_id # None /\ r.of = query.cont_id
      BY <1>q
    <3> HIDE DEF r
    <3> QED BY <2>1, <3>1, <3>2, FirstSends
  <2> QED BY <2>2, <2>3
<1> HIDE DEF Goal
<1>6. Goal BY <1>1, <1>2, <1>3, <1>4, <1>5 DEF Goal
<1> QED BY <1>6 DEF Goal

(* What a waiting call has.                                                *)
LEMMA HasIs ==
  ASSUME Types, NEW t \in Tasks, Waiting(t)
  PROVE  /\ call[t].reply = "page" => Has(t) = call[t].rows \cup {Cursor(call[t].id)}
         /\ call[t].reply = "handle" => Has(t) = call[t].rows \cup {Handle(call[t].id)}
         /\ call[t].reply \notin {"page", "handle"} => Has(t) = call[t].rows
         /\ call[t].rows \subseteq Has(t) /\ Has(t) \subseteq call[t].rows \cup Unknown(call[t])
         /\ Has(t) \subseteq Resource /\ Unknown(call[t]) \subseteq Resource
<1>1. call[t].rows \subseteq Resource /\ call[t].id \in 1..ids BY DEF Types, CallType
<1>2. Handle(call[t].id) \in Resource /\ Cursor(call[t].id) \in Resource
  BY <1>1 DEF Handle, Cursor, Resource
<1> QED BY <1>1, <1>2 DEF Has, Unknown

(* A step that ends the call of t and leaves its number.                   *)
LEMMA Ended ==
  ASSUME Types, NEW t \in Tasks, Waiting(t), NEW st \in {"ok", "err"}, call' = [call EXCEPT ![t].st = st], UNCHANGED given
  PROVE  Others(t) /\ Given /\ call'[t].st = st /\ call'[t].n \in 0..Len(given')
<1>1. /\ call = [u \in Tasks |-> call[u]] /\ IsSeq(given) /\ Len(given) <= MaxCalls
      /\ call[t].n \in 0..Len(given) /\ Len(given) \in Nat /\ MaxCalls \in Nat
  BY PreparedAssumption DEF Types, CallType, IsSeq
<1>2. Given BY <1>1 DEF Given
<1>3. Others(t) BY <1>1 DEF Others
<1>4. call'[t] = [call[t] EXCEPT !.st = st] BY <1>1
<1>5. IsCall(call[t]) BY DEF Types, CallType
<1>6. call'[t].st = st /\ call'[t].n = call[t].n BY <1>4, <1>5 DEF IsCall
<1> QED BY <1>1, <1>2, <1>3, <1>6

(* And one after which it has none.                                        *)
LEMMA BackToIdle ==
  ASSUME Types, NEW t \in Tasks, call' = [call EXCEPT ![t] = Idle], UNCHANGED given
  PROVE  Others(t) /\ Given /\ call'[t].st = "idle" /\ call'[t].n \in 0..Len(given')
<1>1. /\ call = [u \in Tasks |-> call[u]] /\ IsSeq(given) /\ Len(given) <= MaxCalls
      /\ Len(given) \in Nat /\ MaxCalls \in Nat
  BY PreparedAssumption DEF Types, IsSeq
<1>2. Given BY <1>1 DEF Given
<1>3. Others(t) BY <1>1 DEF Others
<1>4. call'[t] = Idle BY <1>1
<1> QED BY <1>1, <1>2, <1>3, <1>4 DEF Idle

(* The next turn of a batch keeps the results so far.                      *)
LEMMA BatchSends ==
  ASSUME Types, WaitInv, NEW t \in Tasks, BatchNext(t)
  PROVE  Sends(t)
<1> DEFINE r == QueryRequest(call[t].sets[call[t].pos + 1], DEFAULT_ROWS)
           rows == call[t].rows \cup NewRows(call[t])
           c == InCall(call[t].n, call[t].kind, call[t].sets, call[t].pos + 1, rows)
           e == [id |-> ids + 1, n |-> call'[t].n, op |-> r.op, of |-> r.of,
                 parameters |-> r.parameters, rows |-> r.rows]
<1>1. /\ Waiting(t) /\ call[t].kind = "query" /\ call[t].reply \in {"page", "done"}
      /\ send(t, c, r) /\ UNCHANGED <<query, given, held, spawned, conn, open, lost>>
  BY DEF BatchNext, Waits, Waiting
<1>2. /\ r.op \in {"sql", "prepare_sql", "prepare_sql_execute", "execute"} /\ r.op # "prepare_sql"
      /\ r.op = "execute" => query.cont_id # None /\ r.of = query.cont_id
  BY DEF QueryRequest
<1>3. query.st = "held" BY <1>1 DEF WaitInv
<1>4. rows = Has(t) BY <1>1, HasIs DEF NewRows
<1>5. call[t].reply # None BY <1>1, PreparedAssumption
<1> HIDE DEF r, rows
<1>6. /\ ids' = ids + 1 /\ ids < MaxRequests /\ Others(t) /\ call'[t] = c
      /\ conn = "up" => Extends(queue', queue, e)
      /\ conn = "down" => queue' = queue
  <2> HIDE DEF c
  <2> QED BY <1>1, SendShape
<1>7. /\ IsCall(call'[t]) /\ call'[t].st = "waiting" /\ call'[t].n = call[t].n /\ call'[t].kind = "query"
      /\ call'[t].id = ids + 1 /\ call'[t].rows = rows
      /\ call'[t].reply \in {None, "fail"} /\ (conn = "up" => call'[t].reply = None)
  BY <1>1, <1>6, InCallIs
<1>8. /\ IsSeq(given) /\ Len(given) <= MaxCalls /\ call[t].n \in 0..Len(given) /\ Len(given) \in Nat
      /\ MaxCalls \in Nat /\ conn \in {"up", "down"}
  BY PreparedAssumption DEF Types, CallType, IsSeq
<1>9. Given /\ call'[t].n \in 0..Len(given') BY <1>1, <1>7, <1>8 DEF Given
<1>10. NewRequest(e, call'[t]) BY <1>2, <1>3, <1>7 DEF NewRequest
<1> HIDE DEF e, c
<1>11. \/ conn = "up" /\ \E q : NewRequest(q, call'[t]) /\ Extends(queue', queue, q) /\ call'[t].reply = None
       \/ conn = "down" /\ queue' = queue
  BY <1>6, <1>7, <1>8, <1>10
<1> QED BY <1>1, <1>3, <1>4, <1>5, <1>6, <1>7, <1>9, <1>11 DEF Sends

(* An answer, or the end of a future, hands over what the call has.        *)
LEMMA ResolveSteps ==
  ASSUME Types, WaitInv, NEW t \in Tasks,
         Prepared(t) \/ PrepareFails(t) \/ ReturnRows(t) \/ Fails(t) \/ Cancel(t) \/ Take(t)
  PROVE  \E A, B, C \in SUBSET Has(t) : Releases(t, A, B, C)
<1> DEFINE Goal == \E A, B, C \in SUBSET Has(t) : Releases(t, A, B, C)
<1>e. {} \in SUBSET Has(t) /\ Has(t) \in SUBSET Has(t) OBVIOUS
<1>l. lost \subseteq Resource BY DEF Types
<1>n. None \notin {"page", "done", "fail", "handle", "ack"} /\ None \notin Nat BY PreparedAssumption
<1>q. query = [st |-> query.st, cont_id |-> query.cont_id] BY DEF Types
<1>1. CASE Prepared(t)
  <2>1. /\ Waiting(t) /\ call[t].kind = "prepare" /\ call[t].reply \in {"handle", "ack"}
        /\ query' = [st |-> "held", cont_id |-> IF call[t].reply = "handle" THEN call[t].id ELSE None]
        /\ call' = [call EXCEPT ![t].st = "ok"]
        /\ UNCHANGED <<given, ids, queue, held, spawned, conn, open, lost>>
    BY <1>1 DEF Prepared, Waits, Waiting
  <2>2. Others(t) /\ Given /\ call'[t].st = "ok" /\ call'[t].n \in 0..Len(given') BY <2>1, Ended
  <2>3. query.st = "preparing" /\ QueryHas = {} BY <2>1 DEF WaitInv, QueryHas
  <2>4. call[t].rows = {} /\ call[t].id \in 1..ids /\ call[t].id # None
    BY <1>n, <2>1 DEF Types, CallType
  <2>5. QueryHas' = Has(t)
    <3>1. CASE call[t].reply = "handle"
      <4>1. Has(t) = {Handle(call[t].id)} BY <2>1, <2>4, <3>1, HasIs
      <4>2. query'.st = "held" /\ query'.cont_id = call[t].id BY <2>1, <3>1
      <4> QED BY <2>4, <4>1, <4>2 DEF QueryHas
    <3>2. CASE call[t].reply = "ack"
      <4>1. Has(t) = {} BY <2>1, <2>4, <3>2, HasIs
      <4>2. query'.cont_id = None BY <2>1, <3>2
      <4> QED BY <4>1, <4>2 DEF QueryHas
    <3> QED BY <2>1, <3>1, <3>2
  <2>6. /\ query' = [st |-> query'.st, cont_id |-> query'.cont_id] /\ query'.st = "held"
        /\ query'.cont_id \in 1..ids \cup {None}
    BY <2>1, <2>4
  <2>7. Releases(t, {}, {}, Has(t)) BY <1>l, <1>n, <2>1, <2>2, <2>3, <2>5, <2>6 DEF Releases
  <2> QED BY <1>e, <2>7
<1>2. CASE PrepareFails(t)
  <2>1. /\ Waiting(t) /\ call[t].kind = "prepare" /\ call[t].reply = "fail"
        /\ query' = [query EXCEPT !.st = "none"] /\ call' = [call EXCEPT ![t].st = "err"]
        /\ UNCHANGED <<given, ids, queue, held, spawned, conn, open, lost>>
    BY <1>2 DEF PrepareFails, Waits, Waiting
  <2>2. Others(t) /\ Given /\ call'[t].st = "err" /\ call'[t].n \in 0..Len(given') BY <2>1, Ended
  <2>3. query.st = "preparing" /\ QueryHas = {} BY <2>1 DEF WaitInv, QueryHas
  <2>4. Has(t) = {} BY <1>n, <2>1, HasIs DEF Types, CallType
  <2>5. /\ query' = [st |-> query'.st, cont_id |-> query'.cont_id] /\ query'.st = "none"
        /\ query'.cont_id = query.cont_id
    BY <1>q, <2>1
  <2>6. QueryHas' = {} BY <2>5 DEF QueryHas
  <2>7. Releases(t, {}, {}, {}) BY <1>l, <1>n, <2>1, <2>2, <2>3, <2>4, <2>5, <2>6 DEF Releases
  <2> QED BY <1>e, <2>7
<1>3. CASE ReturnRows(t)
  <2>1. /\ Waiting(t) /\ call[t].kind \in {"one", "query"} /\ call[t].reply \in {"page", "done"}
        /\ held' = held \cup call[t].rows \cup NewRows(call[t]) /\ call' = [call EXCEPT ![t].st = "ok"]
        /\ UNCHANGED <<query, given, ids, queue, spawned, conn, open, lost>>
    BY <1>3 DEF ReturnRows, Waits, Waiting
  <2>2. Others(t) /\ Given /\ call'[t].st = "ok" /\ call'[t].n \in 0..Len(given') BY <2>1, Ended
  <2>3. Has(t) = call[t].rows \cup NewRows(call[t]) BY <2>1, HasIs DEF NewRows
  <2>4. held' = held \cup Has(t) BY <2>1, <2>3
  <2>5. QueryHas' = QueryHas BY <2>1 DEF QueryHas
  <2>6. Releases(t, Has(t), {}, {}) BY <1>l, <1>n, <2>1, <2>2, <2>4, <2>5 DEF Releases
  <2> QED BY <1>e, <2>6
<1>4. CASE Fails(t)
  <2>1. /\ Waiting(t) /\ call[t].kind \in {"one", "query"} /\ call[t].reply = "fail"
        /\ call' = [call EXCEPT ![t].st = "err"] /\ spawn_best_effort(call[t].rows, {})
        /\ UNCHANGED <<query, given, ids, queue, held, conn, open>>
    BY <1>4 DEF Fails, Waits, Waiting
  <2>2. Others(t) /\ Given /\ call'[t].st = "err" /\ call'[t].n \in 0..Len(given') BY <2>1, Ended
  <2>3. Has(t) = call[t].rows /\ Has(t) \subseteq Resource BY <2>1, HasIs
  <2>4. QueryHas' = QueryHas BY <2>1 DEF QueryHas
  <2>5. CASE spawned' = spawned \cup call[t].rows /\ lost' = lost \cup {}
    <3>1. lost' = lost BY <2>5
    <3>2. Releases(t, {}, Has(t), {}) BY <1>l, <1>n, <2>1, <2>2, <2>3, <2>4, <2>5, <3>1 DEF Releases
    <3> QED BY <1>e, <3>2
  <2>6. CASE spawned' = spawned /\ lost' = lost \cup {} \cup call[t].rows
    <3>1. lost' = lost \cup Has(t) BY <2>3, <2>6
    <3>2. Releases(t, {}, {}, {}) BY <1>l, <1>n, <2>1, <2>2, <2>3, <2>4, <2>6, <3>1 DEF Releases
    <3> QED BY <1>e, <3>2
  <2> QED BY <2>1, <2>5, <2>6 DEF spawn_best_effort
<1>5. CASE Cancel(t)
  <2>1. /\ Waiting(t) /\ call' = [call EXCEPT ![t] = Idle]
        /\ spawn_best_effort(call[t].rows, Unknown(call[t]))
        /\ query' = IF call[t].kind = "prepare" THEN [query EXCEPT !.st = "none"] ELSE query
        /\ UNCHANGED <<given, ids, queue, held, conn, open>>
    BY <1>5 DEF Cancel, Waiting
  <2>2. Others(t) /\ Given /\ call'[t].st = "idle" /\ call'[t].n \in 0..Len(given') BY <2>1, BackToIdle
  <2>3. /\ call[t].rows \subseteq Has(t) /\ Has(t) \subseteq call[t].rows \cup Unknown(call[t])
        /\ Unknown(call[t]) \subseteq Resource /\ Has(t) \subseteq Resource
    BY <2>1, HasIs
  <2>4. QueryHas' = QueryHas /\
        \/ query' = query
        \/ /\ call[t].kind = "prepare" /\ query' = [st |-> query'.st, cont_id |-> query'.cont_id]
           /\ query'.st = "none" /\ query'.cont_id = query.cont_id
    <3>1. CASE call[t].kind = "prepare"
      <4>1. query.st = "preparing" BY <2>1, <3>1 DEF WaitInv
      <4>2. /\ query' = [st |-> query'.st, cont_id |-> query'.cont_id]
            /\ query'.st = "none" /\ query'.cont_id = query.cont_id
        BY <1>q, <2>1, <3>1
      <4> QED BY <3>1, <4>1, <4>2 DEF QueryHas
    <3>2. CASE call[t].kind # "prepare" BY <2>1, <3>2 DEF QueryHas
    <3> QED BY <3>1, <3>2
  <2>5. CASE spawned' = spawned \cup call[t].rows /\ lost' = lost \cup Unknown(call[t])
    <3>1. lost \subseteq lost' /\ lost' \subseteq Resource /\ Unknown(call[t]) \subseteq lost'
          /\ Has(t) \subseteq call[t].rows \cup lost'
      BY <1>l, <2>3, <2>5
    <3>2. Releases(t, {}, call[t].rows, {}) BY <2>1, <2>2, <2>3, <2>4, <2>5, <3>1 DEF Releases
    <3>3. call[t].rows \in SUBSET Has(t) BY <2>3
    <3> QED BY <1>e, <3>2, <3>3
  <2>6. CASE spawned' = spawned /\ lost' = lost \cup Unknown(call[t]) \cup call[t].rows
    <3>1. lost \subseteq lost' /\ lost' \subseteq Resource /\ Unknown(call[t]) \subseteq lost'
          /\ Has(t) \subseteq lost'
      BY <1>l, <2>3, <2>6
    <3>2. Releases(t, {}, {}, {}) BY <2>1, <2>2, <2>3, <2>4, <2>6, <3>1 DEF Releases
    <3> QED BY <1>e, <3>2
  <2> QED BY <2>1, <2>5, <2>6 DEF spawn_best_effort
<1>6. CASE Take(t)
  <2>1. /\ ~Waiting(t) /\ call' = [call EXCEPT ![t] = Idle]
        /\ UNCHANGED <<query, given, ids, queue, held, spawned, conn, open, lost>>
    BY <1>6 DEF Take, Waiting
  <2>2. Others(t) /\ Given /\ call'[t].st = "idle" /\ call'[t].n \in 0..Len(given') BY <2>1, BackToIdle
  <2>3. Releases(t, {}, {}, {}) BY <2>1, <2>2, NoCall
  <2> QED BY <1>e, <2>3
<1> QED BY <1>1, <1>2, <1>3, <1>4, <1>5, <1>6
-----------------------------------------------------------------------------
(* What a task has is seen from its call alone.                            *)
LEMMA SameHas ==
  ASSUME NEW t \in Tasks, call'[t] = call[t]
  PROVE  Has(t)' = Has(t) /\ (Waiting(t)' <=> Waiting(t))
BY DEF Has, Waiting, Cursor, Handle

(* The types of calls and requests survive as ids and calls are added.     *)
LEMMA TypesGrow ==
  ASSUME Types, ids' \in ids..MaxRequests, Given
  PROVE  /\ Resource \subseteq Resource'
         /\ \A t \in Tasks : call'[t] = call[t] => CallType(t)'
         /\ \A j \in 1..Len(queue), k \in 1..Len(queue') : queue'[k] = queue[j] => RequestType(queue[k])'
<1>0. ids \in Nat /\ Len(given) \in Nat /\ MaxRequests \in Nat /\ Len(given') \in Nat
      /\ Len(given) <= Len(given') /\ ids <= ids' /\ ids' \in Nat
  BY PreparedAssumption DEF Types, Given
<1>1. 1..ids \subseteq 1..ids' BY <1>0
<1>2. 0..Len(given) \subseteq 0..Len(given') BY <1>0
<1>3. Resource \subseteq Resource' BY <1>1 DEF Resource
<1>4. ASSUME NEW t \in Tasks, call'[t] = call[t] PROVE CallType(t)'
  <2>1. CallType(t) BY DEF Types
  <2> QED BY <1>1, <1>2, <1>3, <1>4, <2>1 DEF CallType, Waiting, IsCall
<1>5. ASSUME NEW j \in 1..Len(queue), NEW k \in 1..Len(queue'), queue'[k] = queue[j]
      PROVE  RequestType(queue[k])'
  <2>1. RequestType(queue[j]) BY DEF Types
  <2> QED BY <1>1, <1>3, <1>5, <2>1 DEF RequestType, IsClose
<1> QED BY <1>3, <1>4, <1>5

(* Sending keeps the invariant: ids are new, and owners stay.              *)
LEMMA SendsKeeps ==
  ASSUME PreparedInv, NEW t \in Tasks, Sends(t)
  PROVE  PreparedInv'
<1>i. Types /\ WaitInv /\ QueueInv /\ OwnInv /\ CloseInv /\ ExecInv /\ KeptInv BY DEF PreparedInv
<1>n. None \notin {"page", "done", "fail", "handle", "ack"} /\ None \notin Nat /\ MaxRequests \in Nat
  BY PreparedAssumption
<1>0. ids \in Nat /\ ids' = ids + 1 /\ ids' \in ids..MaxRequests /\ ids' \in 0..MaxRequests /\ Given /\ Others(t)
      /\ Len(queue) \in Nat
  BY <1>i, <1>n DEF Types, Sends, IsSeq
<1>g. /\ Resource \subseteq Resource'
      /\ \A u \in Tasks : call'[u] = call[u] => CallType(u)'
      /\ \A j \in 1..Len(queue), k \in 1..Len(queue') : queue'[k] = queue[j] => RequestType(queue[k])'
  BY <1>i, <1>0, TypesGrow
<1>c. /\ IsCall(call'[t]) /\ Waiting(t)' /\ call'[t].n \in 0..Len(given')
      /\ call'[t].id = ids + 1 /\ call'[t].rows = Has(t) /\ call'[t].reply \in {None, "fail"}
  BY DEF Sends, Waiting
<1>k. /\ call'[t].kind \in {"one", "query", "prepare"} /\ (call'[t].kind = "query" => query.st = "held")
      /\ call'[t].kind = "prepare" => /\ query.st = "none" /\ query' = [query EXCEPT !.st = "preparing"]
                                      /\ Has(t) = {}
      /\ call'[t].kind # "prepare" => query' = query
  BY DEF Sends
<1>s. UNCHANGED <<held, spawned, conn, open, lost>> BY DEF Sends
<1>q. /\ query' = [st |-> query'.st, cont_id |-> query'.cont_id] /\ query'.cont_id = query.cont_id
      /\ query'.st = query.st \/ (query.st = "none" /\ query'.st = "preparing" /\ call'[t].kind = "prepare")
  BY <1>i, <1>k DEF Types
<1>h. \A u \in Tasks : Has(u)' = Has(u)
  <2>1. Has(t)' = Has(t) BY <1>c, <1>n DEF Has
  <2> QED BY <1>0, <2>1, SameHas DEF Others
<1>w. \A u \in Tasks : u # t => call'[u] = call[u] /\ (Waiting(u)' <=> Waiting(u))
  BY <1>0, SameHas DEF Others
<1>z. QueryHas' = QueryHas BY <1>q DEF QueryHas
<1>r. Has(t) \subseteq Resource
  <2>1. CASE Waiting(t) BY <1>i, <2>1, HasIs
  <2>2. CASE ~Waiting(t) BY <2>2 DEF Has
  <2> QED BY <2>1, <2>2
<1>x. \/ /\ conn = "up" /\ call'[t].reply = None
         /\ \E r : NewRequest(r, call'[t]) /\ Extends(queue', queue, r)
      \/ conn = "down" /\ queue' = queue
  BY DEF Sends
<1>1. \/ queue' = queue
      \/ /\ Len(queue') = Len(queue) + 1 /\ IsSeq(queue') /\ conn = "up" /\ call'[t].reply = None
         /\ \A k \in 1..Len(queue) : k \in 1..Len(queue') /\ queue'[k] = queue[k]
         /\ Len(queue) + 1 \in 1..Len(queue') /\ NewRequest(queue'[Len(queue) + 1], call'[t])
         /\ \A k \in 1..Len(queue') : k \in 1..Len(queue) \/ k = Len(queue) + 1
  <2>1. SUFFICES ASSUME NEW r, NewRequest(r, call'[t]), Extends(queue', queue, r),
                        conn = "up", call'[t].reply = None
                 PROVE  /\ Len(queue') = Len(queue) + 1 /\ IsSeq(queue')
                        /\ \A k \in 1..Len(queue) : k \in 1..Len(queue') /\ queue'[k] = queue[k]
                        /\ Len(queue) + 1 \in 1..Len(queue') /\ NewRequest(queue'[Len(queue) + 1], call'[t])
                        /\ \A k \in 1..Len(queue') : k \in 1..Len(queue) \/ k = Len(queue) + 1
    BY <1>x
  <2>2. Len(queue) + 1 \in 1..(Len(queue) + 1) BY <1>0
  <2> QED BY <2>1, <2>2 DEF Extends
<1>2. \A k \in 1..Len(queue') :
        \/ k \in 1..Len(queue) /\ queue'[k] = queue[k]
        \/ /\ k = Len(queue) + 1 /\ NewRequest(queue'[k], call'[t]) /\ conn = "up" /\ call'[t].reply = None
           /\ ~IsClose(queue'[k])
  BY <1>1 DEF NewRequest, IsClose
<1>3. Types'
  <2>1. CallType(t)'
    <3>1. call'[t].id \in 1..ids' BY <1>0, <1>c
    <3>2. call'[t].rows \subseteq Resource' BY <1>c, <1>g, <1>r
    <3>3. call'[t].kind = "prepare" => call'[t].rows = {} BY <1>c, <1>k
    <3> QED BY <1>c, <1>k, <3>1, <3>2, <3>3 DEF CallType, Waiting
  <2>2. \A u \in Tasks : CallType(u)' BY <1>g, <1>w, <2>1
  <2>3. IsSeq(queue') BY <1>1, <1>i DEF Types
  <2>4. ASSUME NEW k \in 1..Len(queue') PROVE RequestType(queue[k])'
    <3>1. CASE k \in 1..Len(queue) /\ queue'[k] = queue[k] BY <1>g, <3>1
    <3>2. CASE NewRequest(queue'[k], call'[t])
      <4>1. ids + 1 \in 1..ids' BY <1>0
      <4> QED BY <3>2, <4>1 DEF NewRequest, RequestType, IsClose
    <3> QED BY <1>2, <3>1, <3>2
  <2>5. /\ held' \subseteq Resource' /\ spawned' \subseteq Resource' /\ open' \subseteq Resource'
        /\ lost' \subseteq Resource'
    BY <1>g, <1>i, <1>s DEF Types
  <2>6. query'.cont_id \in 1..ids' \cup {None} BY <1>0, <1>i, <1>q DEF Types
  <2>7. conn' \in {"up", "down"} /\ (conn' = "down" => queue' = << >>)
    BY <1>1, <1>i, <1>s DEF Types
  <2>8. query'.st \in {"none", "preparing", "held", "dropped"} BY <1>i, <1>q DEF Types
  <2>9. call' = [u \in Tasks |-> call'[u]] BY <1>0 DEF Others
  <2>10. IsSeq(given') /\ Len(given') <= MaxCalls BY <1>0 DEF Given
  <2> QED BY <1>0, <1>q, <2>2, <2>3, <2>4, <2>5, <2>6, <2>7, <2>8, <2>9, <2>10 DEF Types
<1>4. \A u \in Tasks : u # t /\ Waiting(u) => call[u].id \in 1..ids /\ call[u].id # ids + 1
  BY <1>0, <1>i DEF Types, CallType
<1>5. \A k \in 1..Len(queue) : ~IsClose(queue[k]) => queue[k].id \in 1..ids /\ queue[k].id # ids + 1
  BY <1>0, <1>i DEF Types, RequestType
<1>6. WaitInv'
  <2>1. \A u, v \in Tasks : Waiting(u)' /\ Waiting(v)' /\ call'[u].id = call'[v].id => u = v
    BY <1>4, <1>c, <1>i, <1>w DEF WaitInv
  <2>2. call'[t].kind = "prepare" => \A u \in Tasks : u # t /\ Waiting(u) => call[u].kind \notin {"prepare", "query"}
    BY <1>i, <1>k DEF WaitInv
  <2>3. \A u, v \in Tasks : Waiting(u)' /\ Waiting(v)' /\ call'[u].kind = "prepare" /\ call'[v].kind = "prepare" => u = v
    BY <2>2, <1>i, <1>w DEF WaitInv
  <2>4. \A u \in Tasks : Waiting(u)' => /\ call'[u].kind = "prepare" => query'.st = "preparing"
                                        /\ call'[u].kind = "query" => query'.st = "held"
    <3>1. call'[t].kind = "prepare" => query'.st = "preparing" BY <1>i, <1>k DEF Types
    <3>2. call'[t].kind = "query" => query'.st = "held" BY <1>k
    <3>3. ASSUME NEW u \in Tasks, u # t, Waiting(u)
          PROVE  /\ call[u].kind = "prepare" => query'.st = "preparing"
                 /\ call[u].kind = "query" => query'.st = "held"
      BY <3>3, <1>i, <1>q, <2>2 DEF WaitInv
    <3>4. ASSUME NEW u \in Tasks, Waiting(u)'
          PROVE  /\ call'[u].kind = "prepare" => query'.st = "preparing"
                 /\ call'[u].kind = "query" => query'.st = "held"
      <4>1. CASE u = t BY <3>1, <3>2, <4>1
      <4>2. CASE u # t
        <5>1. call'[u] = call[u] /\ Waiting(u) BY <1>w, <3>4, <4>2
        <5> QED BY <3>3, <4>2, <5>1
      <4> QED BY <4>1, <4>2
    <3> QED BY <3>4
  <2>5. query'.st \in {"none", "preparing"} => query'.cont_id = None BY <1>i, <1>q DEF WaitInv
  <2> QED BY <2>1, <2>3, <2>4, <2>5 DEF WaitInv, Waiting
<1>7. QueueInv'
  <2>1. \A j, k \in 1..Len(queue') :
          ~IsClose(queue'[j]) /\ ~IsClose(queue'[k]) /\ queue'[j].id = queue'[k].id => j = k
    BY <1>2, <1>5, <1>i DEF QueueInv, NewRequest
  <2>2. ASSUME NEW k \in 1..Len(queue'), ~IsClose(queue'[k])
        PROVE  /\ \A x \in open' : x[2] # queue'[k].id
               /\ \A u \in Tasks : Waiting(u)' /\ call'[u].id = queue'[k].id =>
                    call'[u].reply = None /\ (queue'[k].op = "prepare_sql" <=> call'[u].kind = "prepare")
               /\ (\E u \in Tasks : Waiting(u)' /\ call'[u].id = queue'[k].id) \/ Unknown(queue'[k]) \subseteq lost'
    <3>1. CASE k \in 1..Len(queue) /\ queue'[k] = queue[k]
      <4>1. /\ \A x \in open : x[2] # queue[k].id
            /\ \A u \in Tasks : Waiting(u) /\ call[u].id = queue[k].id =>
                 call[u].reply = None /\ (queue[k].op = "prepare_sql" <=> call[u].kind = "prepare")
            /\ (\E u \in Tasks : Waiting(u) /\ call[u].id = queue[k].id) \/ Unknown(queue[k]) \subseteq lost
        BY <1>i, <2>2, <3>1 DEF QueueInv
      <4>2. call'[t].id # queue[k].id BY <1>5, <1>c, <2>2, <3>1
      <4>3. Waiting(t) => call[t].id # queue[k].id BY <4>1 DEF Sends
      <4>4. \A u \in Tasks : Waiting(u) /\ call[u].id = queue[k].id => Waiting(u)' /\ call'[u].id = queue[k].id
        BY <4>3, <1>w
      <4> QED BY <1>s, <1>w, <3>1, <4>1, <4>2, <4>4
    <3>2. CASE NewRequest(queue'[k], call'[t]) /\ call'[t].reply = None
      <4>1. queue'[k].id = ids + 1 BY <3>2 DEF NewRequest
      <4>2. \A x \in open : x[2] # ids + 1 BY <1>0, <1>i DEF Types, Resource
      <4>3. \A u \in Tasks : Waiting(u)' /\ call'[u].id = queue'[k].id => u = t BY <1>4, <1>w, <4>1
      <4> QED BY <1>c, <1>s, <3>2, <4>1, <4>2, <4>3 DEF NewRequest
    <3> QED BY <1>2, <3>1, <3>2
  <2> QED BY <2>1, <2>2 DEF QueueInv, Waiting, IsClose, Unknown, Handle, Cursor
<1>8. OwnInv' BY <1>h, <1>i, <1>s, <1>z DEF OwnInv
<1>9. CloseInv'
  <2>1. \A k \in 1..Len(queue') : IsClose(queue'[k]) => k \in 1..Len(queue) /\ queue'[k] = queue[k] BY <1>2
  <2> QED BY <1>h, <1>i, <1>s, <1>z, <2>1 DEF CloseInv, IsClose
<1>10. ExecInv'
  <2>1. ASSUME NEW k \in 1..Len(queue'), queue'[k].op = "execute"
        PROVE  /\ query'.cont_id # None /\ queue'[k].of = query'.cont_id /\ Handle(queue'[k].of) \in open'
               /\ \A j \in 1..Len(queue') : IsClose(queue'[j]) /\ queue'[j].of = Handle(queue'[k].of) => k < j
    <3>1. CASE k \in 1..Len(queue) /\ queue'[k] = queue[k] BY <1>2, <1>i, <1>q, <1>s, <2>1, <3>1 DEF ExecInv
    <3>2. CASE NewRequest(queue'[k], call'[t]) /\ conn = "up"
      <4>1. query.st = "held" /\ query.cont_id # None /\ queue'[k].of = query.cont_id
        BY <2>1, <3>2 DEF NewRequest
      <4>2. QueryHas = {Handle(query.cont_id)} BY <4>1 DEF QueryHas
      <4>3. Handle(query.cont_id) \in open BY <1>i, <3>2, <4>2 DEF OwnInv
      <4>4. \A j \in 1..Len(queue) : IsClose(queue[j]) => queue[j].of # Handle(query.cont_id)
        BY <1>i, <4>2 DEF CloseInv
      <4> QED BY <1>2, <1>q, <1>s, <4>1, <4>3, <4>4
    <3> QED BY <1>2, <3>1, <3>2
  <2> QED BY <2>1 DEF ExecInv, IsClose, Handle
<1>11. KeptInv'
  <2>1. \A k \in 1..Len(queue) : k \in 1..Len(queue') /\ queue'[k] = queue[k] BY <1>1
  <2> QED BY <1>h, <1>i, <1>s, <1>z, <2>1 DEF KeptInv, Kept, IsClose
<1> QED BY <1>3, <1>6, <1>7, <1>8, <1>9, <1>10, <1>11 DEF PreparedInv

(* The end of a call keeps the invariant: what it had has one new owner.   *)
LEMMA ReleasesKeeps ==
  ASSUME PreparedInv, NEW t \in Tasks, NEW A \in SUBSET Has(t), NEW B \in SUBSET Has(t),
         NEW C \in SUBSET Has(t), Releases(t, A, B, C)
  PROVE  PreparedInv'
<1>i. Types /\ WaitInv /\ QueueInv /\ OwnInv /\ CloseInv /\ ExecInv /\ KeptInv BY DEF PreparedInv
<1>n. None \notin {"page", "done", "fail", "handle", "ack"} /\ None \notin Nat /\ MaxRequests \in Nat
  BY PreparedAssumption
<1>s. UNCHANGED <<ids, queue, open, conn>> /\ Given /\ Others(t) BY DEF Releases
<1>0. ids \in Nat /\ ids' \in ids..MaxRequests /\ ids' \in 0..MaxRequests
  BY <1>i, <1>n, <1>s DEF Types
<1>g. /\ Resource' = Resource
      /\ \A u \in Tasks : call'[u] = call[u] => CallType(u)'
      /\ \A k \in 1..Len(queue') : RequestType(queue[k])'
  <2>1. Resource' = Resource BY <1>s DEF Resource
  <2> QED BY <1>i, <1>0, <1>s, <2>1, TypesGrow
<1>c. call'[t].st \in {"idle", "ok", "err"} /\ call'[t].n \in 0..Len(given') /\ ~Waiting(t)' /\ Has(t)' = {}
  BY DEF Releases, Waiting, Has
<1>h. \A u \in Tasks : u # t => call'[u] = call[u] /\ Has(u)' = Has(u) /\ (Waiting(u)' <=> Waiting(u))
  BY <1>s, SameHas DEF Others
<1>o. /\ held' = held \cup A /\ spawned' = spawned \cup B /\ QueryHas' = QueryHas \cup C
      /\ A \cap B = {} /\ A \cap C = {} /\ B \cap C = {}
      /\ lost \subseteq lost' /\ lost' \subseteq Resource /\ Has(t) \subseteq A \cup B \cup C \cup lost'
      /\ Waiting(t) => call[t].reply # None \/ Unknown(call[t]) \subseteq lost'
  BY DEF Releases
<1>q. \/ query' = query
      \/ /\ Waiting(t) /\ call[t].kind = "prepare" /\ query.st = "preparing" /\ query.cont_id = None
         /\ query' = [st |-> query'.st, cont_id |-> query'.cont_id]
         /\ \/ query'.st = "none" /\ query'.cont_id = None
            \/ query'.st = "held" /\ query'.cont_id \in 1..ids \cup {None}
  BY <1>i DEF Releases, WaitInv
<1>r. Has(t) \subseteq Resource
  <2>1. CASE Waiting(t) BY <1>i, <2>1, HasIs
  <2>2. CASE ~Waiting(t) BY <2>2 DEF Has
  <2> QED BY <2>1, <2>2
<1>1. Types'
  <2>1. CallType(t)' BY <1>c DEF CallType
  <2>2. \A u \in Tasks : CallType(u)' BY <1>g, <1>h, <2>1
  <2>3. /\ held' \subseteq Resource' /\ spawned' \subseteq Resource' /\ open' \subseteq Resource'
        /\ lost' \subseteq Resource'
    BY <1>g, <1>i, <1>o, <1>r, <1>s DEF Types
  <2>4. /\ query' = [st |-> query'.st, cont_id |-> query'.cont_id]
        /\ query'.st \in {"none", "preparing", "held", "dropped"} /\ query'.cont_id \in 1..ids' \cup {None}
    BY <1>i, <1>q, <1>s DEF Types
  <2>5. call' = [u \in Tasks |-> call'[u]] BY <1>s DEF Others
  <2>6. IsSeq(given') /\ Len(given') <= MaxCalls BY <1>s DEF Given
  <2>7. IsSeq(queue') /\ conn' \in {"up", "down"} /\ (conn' = "down" => queue' = << >>)
    BY <1>i, <1>s DEF Types
  <2> QED BY <1>0, <1>g, <2>2, <2>3, <2>4, <2>5, <2>6, <2>7 DEF Types
<1>2. WaitInv'
  <2>1. \A u, v \in Tasks : Waiting(u)' /\ Waiting(v)' /\ call'[u].id = call'[v].id => u = v
    BY <1>c, <1>h, <1>i DEF WaitInv
  <2>2. \A u, v \in Tasks : Waiting(u)' /\ Waiting(v)' /\ call'[u].kind = "prepare" /\ call'[v].kind = "prepare" => u = v
    BY <1>c, <1>h, <1>i DEF WaitInv
  <2>3. ASSUME NEW u \in Tasks, Waiting(u)'
        PROVE  /\ call'[u].kind = "prepare" => query'.st = "preparing"
               /\ call'[u].kind = "query" => query'.st = "held"
    <3>1. u # t /\ call'[u] = call[u] /\ Waiting(u) BY <1>c, <1>h, <2>3
    <3>2. CASE query' = query BY <1>i, <3>1, <3>2 DEF WaitInv
    <3>3. CASE Waiting(t) /\ call[t].kind = "prepare" /\ query.st = "preparing"
      BY <1>i, <3>1, <3>3 DEF WaitInv
    <3> QED BY <1>q, <3>2, <3>3
  <2>4. query'.st \in {"none", "preparing"} => query'.cont_id = None BY <1>i, <1>q DEF WaitInv
  <2> QED BY <2>1, <2>2, <2>3, <2>4 DEF WaitInv, Waiting
<1>3. QueueInv'
  <2>1. \A j, k \in 1..Len(queue') :
          ~IsClose(queue'[j]) /\ ~IsClose(queue'[k]) /\ queue'[j].id = queue'[k].id => j = k
    BY <1>i, <1>s DEF QueueInv
  <2>2. ASSUME NEW k \in 1..Len(queue'), ~IsClose(queue'[k])
        PROVE  /\ \A x \in open' : x[2] # queue'[k].id
               /\ \A u \in Tasks : Waiting(u)' /\ call'[u].id = queue'[k].id =>
                    call'[u].reply = None /\ (queue'[k].op = "prepare_sql" <=> call'[u].kind = "prepare")
               /\ (\E u \in Tasks : Waiting(u)' /\ call'[u].id = queue'[k].id) \/ Unknown(queue'[k]) \subseteq lost'
    <3>1. /\ \A x \in open : x[2] # queue[k].id
          /\ \A u \in Tasks : Waiting(u) /\ call[u].id = queue[k].id =>
               call[u].reply = None /\ (queue[k].op = "prepare_sql" <=> call[u].kind = "prepare")
          /\ (\E u \in Tasks : Waiting(u) /\ call[u].id = queue[k].id) \/ Unknown(queue[k]) \subseteq lost
      BY <1>i, <1>s, <2>2 DEF QueueInv
    <3>2. Waiting(t) /\ call[t].id = queue[k].id => Unknown(queue[k]) \subseteq lost'
      <4>1. call[t].id = queue[k].id => Unknown(call[t]) = Unknown(queue[k]) BY DEF Unknown
      <4> QED BY <1>o, <3>1, <4>1
    <3>3. \A u \in Tasks : u # t /\ Waiting(u) /\ call[u].id = queue[k].id =>
                             Waiting(u)' /\ call'[u].id = queue[k].id
      BY <1>h
    <3>4. (\E u \in Tasks : Waiting(u)' /\ call'[u].id = queue[k].id) \/ Unknown(queue[k]) \subseteq lost'
      BY <1>o, <3>1, <3>2, <3>3
    <3>5. \A u \in Tasks : Waiting(u)' /\ call'[u].id = queue[k].id =>
            call'[u].reply = None /\ (queue[k].op = "prepare_sql" <=> call'[u].kind = "prepare")
      BY <1>c, <1>h, <3>1
    <3> QED BY <1>s, <3>1, <3>4, <3>5
  <2> QED BY <2>1, <2>2 DEF QueueInv, Waiting, IsClose, Unknown, Handle, Cursor
<1>4. Has(t) \cap (held \cup spawned \cup QueryHas) = {} /\ \A u \in Tasks : u # t => Has(t) \cap Has(u) = {}
  BY <1>i DEF OwnInv
<1>5. OwnInv'
  <2>1. held' \cap spawned' = {} /\ QueryHas' \cap (held' \cup spawned') = {}
    BY <1>4, <1>i, <1>o DEF OwnInv
  <2>2. \A u \in Tasks : Has(u)' \cap (held' \cup spawned' \cup QueryHas') = {}
    BY <1>4, <1>c, <1>h, <1>i, <1>o DEF OwnInv
  <2>3. \A u, v \in Tasks : u # v => Has(u)' \cap Has(v)' = {} BY <1>c, <1>h, <1>i DEF OwnInv
  <2>4. conn = "up" => held' \cup spawned' \cup QueryHas' \subseteq open' /\ \A u \in Tasks : Has(u)' \subseteq open'
    BY <1>c, <1>h, <1>i, <1>o, <1>s DEF OwnInv
  <2> QED BY <1>s, <2>1, <2>2, <2>3, <2>4 DEF OwnInv
<1>6. CloseInv'
  <2>1. ASSUME NEW k \in 1..Len(queue), IsClose(queue[k])
        PROVE  /\ queue[k].of \in open
               /\ queue[k].of \notin held' \cup spawned' \cup QueryHas'
               /\ \A u \in Tasks : queue[k].of \notin Has(u)'
               /\ \A j \in 1..Len(queue) : IsClose(queue[j]) /\ queue[j].of = queue[k].of => j = k
    BY <1>c, <1>h, <1>i, <1>o, <2>1 DEF CloseInv
  <2> QED BY <1>s, <2>1 DEF CloseInv, IsClose
<1>7. ExecInv' BY <1>i, <1>q, <1>s DEF ExecInv, IsClose, Handle
<1>8. KeptInv'
  <2>1. ASSUME conn = "up", NEW x \in open
        PROVE  \/ x \in held' \cup spawned' \cup QueryHas' \cup lost'
               \/ \E u \in Tasks : x \in Has(u)'
               \/ \E k \in 1..Len(queue) : IsClose(queue[k]) /\ queue[k].of = x
    <3>1. CASE x \in Has(t) BY <1>o, <3>1
    <3>2. CASE x \notin Has(t) BY <1>h, <1>i, <1>o, <2>1, <3>2 DEF KeptInv, Kept
    <3> QED BY <3>1, <3>2
  <2> QED BY <1>s, <2>1 DEF KeptInv, Kept, IsClose
<1> QED BY <1>1, <1>2, <1>3, <1>5, <1>6, <1>7, <1>8 DEF PreparedInv

(* A destructor hands over to a sqlclose task, or to nobody.  Calls and    *)
(* requests are as they were.                                              *)
Drops ==
  /\ UNCHANGED <<call, given, ids, queue, conn, open>>
  /\ query' = [st |-> query'.st, cont_id |-> query'.cont_id] /\ query'.cont_id = query.cont_id
  /\ \/ query' = query
     \/ /\ query.st = "held" /\ query'.st = "dropped"
        /\ \A t \in Tasks : ~(Waiting(t) /\ call[t].kind = "query")
  /\ \E x \in SUBSET (held \cup QueryHas) :
       /\ held' = held \ x /\ QueryHas' = QueryHas \ x
       /\ \/ spawned' = spawned \cup x /\ lost' = lost
          \/ spawned' = spawned /\ lost' = lost \cup x

(* Drop for Rows and Drop for Query.                                       *)
LEMMA DropSteps ==
  ASSUME PreparedInv, (\E x \in held : DropRows(x)) \/ DropQuery
  PROVE  Drops
<1>i. Types /\ OwnInv BY DEF PreparedInv
<1>1. ASSUME NEW x \in held, DropRows(x) PROVE Drops
  <2>1. held' = held \ {x} /\ UNCHANGED <<query, call, given, ids, queue, conn, open>>
    BY <1>1 DEF DropRows
  <2>e. \/ spawned' = spawned \cup {x} /\ lost' = lost
        \/ spawned' = spawned /\ lost' = lost \cup {x}
    BY <1>1 DEF DropRows, spawn_best_effort
  <2>2. QueryHas' = QueryHas /\ x \notin QueryHas BY <1>i, <2>1 DEF QueryHas, OwnInv
  <2>3. QueryHas' = QueryHas \ {x} BY <2>2
  <2>4. {x} \in SUBSET (held \cup QueryHas) OBVIOUS
  <2>5. query' = [st |-> query'.st, cont_id |-> query'.cont_id] BY <1>i, <2>1 DEF Types
  <2> QED BY <2>1, <2>3, <2>4, <2>5, <2>e DEF Drops
<1>2. CASE DropQuery
  <2>1. /\ query.st = "held" /\ \A t \in Tasks : ~(Waiting(t) /\ call[t].kind = "query")
        /\ query' = [query EXCEPT !.st = "dropped"]
        /\ spawn_best_effort(IF query.cont_id # None THEN {Handle(query.cont_id)} ELSE {}, {})
        /\ UNCHANGED <<call, given, ids, queue, held, conn, open>>
    BY <1>2 DEF DropQuery, Waiting
  <2>h. QueryHas = IF query.cont_id # None THEN {Handle(query.cont_id)} ELSE {} BY <2>1 DEF QueryHas
  <2>2. \/ spawned' = spawned \cup QueryHas /\ lost' = lost
        \/ spawned' = spawned /\ lost' = lost \cup QueryHas
    <3>1. spawn_best_effort(QueryHas, {}) BY <2>1, <2>h
    <3> QED BY <3>1 DEF spawn_best_effort
  <2>3. /\ query'.st = "dropped" /\ query'.cont_id = query.cont_id
        /\ query' = [st |-> query'.st, cont_id |-> query'.cont_id]
    BY <1>i, <2>1 DEF Types
  <2>4. QueryHas' = {} BY <2>3 DEF QueryHas
  <2>5. held' = held \ QueryHas /\ QueryHas' = QueryHas \ QueryHas BY <1>i, <2>1, <2>4 DEF OwnInv
  <2>6. QueryHas \in SUBSET (held \cup QueryHas) OBVIOUS
  <2> QED BY <2>1, <2>2, <2>3, <2>5, <2>6 DEF Drops
<1> QED BY <1>1, <1>2

(* Destructors keep the invariant.                                         *)
LEMMA DropsKeep ==
  ASSUME PreparedInv, Drops
  PROVE  PreparedInv'
<1>i. Types /\ WaitInv /\ QueueInv /\ OwnInv /\ CloseInv /\ ExecInv /\ KeptInv BY DEF PreparedInv
<1>s. UNCHANGED <<call, given, ids, queue, conn, open>> BY DEF Drops
<1>q. /\ query' = [st |-> query'.st, cont_id |-> query'.cont_id] /\ query'.cont_id = query.cont_id
      /\ \/ query' = query
         \/ /\ query.st = "held" /\ query'.st = "dropped"
            /\ \A t \in Tasks : ~(Waiting(t) /\ call[t].kind = "query")
  BY DEF Drops
<1>x. PICK x \in SUBSET (held \cup QueryHas) :
        /\ held' = held \ x /\ QueryHas' = QueryHas \ x
        /\ \/ spawned' = spawned \cup x /\ lost' = lost
           \/ spawned' = spawned /\ lost' = lost \cup x
  BY DEF Drops
<1>l. /\ spawned \subseteq spawned' /\ spawned' \subseteq spawned \cup x /\ lost \subseteq lost'
      /\ lost' \subseteq lost \cup x /\ x \subseteq spawned' \cup lost'
  BY <1>x
<1>h. \A u \in Tasks : Has(u)' = Has(u) /\ (Waiting(u)' <=> Waiting(u)) BY <1>s, SameHas
<1>r. Resource' = Resource BY <1>s DEF Resource
<1>1. Types'
  <2>1. QueryHas \subseteq Resource
    <3>1. query.cont_id # None => query.cont_id \in 1..ids BY <1>i DEF Types
    <3> QED BY <3>1 DEF QueryHas, Handle, Resource
  <2>2. held' \subseteq Resource' /\ spawned' \subseteq Resource' /\ lost' \subseteq Resource'
    BY <1>i, <1>l, <1>r, <1>x, <2>1 DEF Types
  <2>3. \A u \in Tasks : CallType(u)' BY <1>i, <1>r, <1>s DEF Types, CallType, Waiting, IsCall
  <2>4. \A k \in 1..Len(queue') : RequestType(queue[k])' BY <1>i, <1>r, <1>s DEF Types, RequestType, IsClose
  <2>5. query'.st \in {"none", "preparing", "held", "dropped"} /\ query'.cont_id \in 1..ids' \cup {None}
    BY <1>i, <1>q, <1>s DEF Types
  <2> QED BY <1>i, <1>q, <1>r, <1>s, <2>2, <2>3, <2>4, <2>5 DEF Types, IsSeq
<1>2. WaitInv' BY <1>i, <1>q, <1>s DEF WaitInv, Waiting
<1>3. QueueInv' BY <1>i, <1>l, <1>s DEF QueueInv, Waiting, IsClose, Unknown, Handle, Cursor
<1>4. OwnInv'
  <2>1. held' \cap spawned' = {} /\ QueryHas' \cap (held' \cup spawned') = {} BY <1>i, <1>l, <1>x DEF OwnInv
  <2>2. \A u \in Tasks : Has(u) \cap (held' \cup spawned' \cup QueryHas') = {} BY <1>i, <1>l, <1>x DEF OwnInv
  <2>3. conn = "up" => held' \cup spawned' \cup QueryHas' \subseteq open BY <1>i, <1>l, <1>x DEF OwnInv
  <2> QED BY <1>h, <1>i, <1>s, <2>1, <2>2, <2>3 DEF OwnInv
<1>5. CloseInv'
  <2>1. \A k \in 1..Len(queue) : IsClose(queue[k]) => queue[k].of \notin x BY <1>i DEF CloseInv
  <2> QED BY <1>h, <1>i, <1>l, <1>s, <1>x, <2>1 DEF CloseInv, IsClose
<1>6. ExecInv' BY <1>i, <1>q, <1>s DEF ExecInv, IsClose, Handle
<1>7. KeptInv'
  <2>1. held \cup spawned \cup QueryHas \cup lost \subseteq held' \cup spawned' \cup QueryHas' \cup lost'
    BY <1>l, <1>x
  <2> QED BY <1>h, <1>i, <1>s, <2>1 DEF KeptInv, Kept, IsClose
<1> QED BY <1>1, <1>2, <1>3, <1>4, <1>5, <1>6, <1>7 DEF PreparedInv

(* A sqlclose task queues the one close of what it was given.              *)
LEMMA CloseKeeps ==
  ASSUME PreparedInv, NEW x \in spawned, spawn_close(x)
  PROVE  PreparedInv'
<1>i. Types /\ WaitInv /\ QueueInv /\ OwnInv /\ CloseInv /\ ExecInv /\ KeptInv BY DEF PreparedInv
<1> DEFINE r == [id |-> 0, n |-> 0, op |-> "sqlclose", of |-> x, parameters |-> None, rows |-> None]
<1>s. spawned' = spawned \ {x} /\ UNCHANGED <<query, call, given, ids, held, conn, open, lost>>
  BY DEF spawn_close
<1>l. Len(queue) \in Nat BY <1>i DEF Types, IsSeq
<1>e. \/ queue' = queue /\ conn = "down"
      \/ conn = "up" /\ Extends(queue', queue, r) /\ Len(queue) + 1 \in 1..Len(queue')
  <2>1. queue' = IF conn = "up" THEN Append(queue, r) ELSE queue BY DEF spawn_close
  <2>2. IsSeq(queue) /\ conn \in {"up", "down"} BY <1>i DEF Types
  <2> HIDE DEF r
  <2>3. conn = "up" => Extends(queue', queue, r) BY <2>1, <2>2, AppendExtends
  <2>4. Extends(queue', queue, r) => Len(queue) + 1 \in 1..Len(queue') BY <1>l DEF Extends
  <2> QED BY <2>1, <2>2, <2>3, <2>4
<1>c. IsClose(r) /\ r.of = x /\ r.op # "execute" BY DEF IsClose
<1> HIDE DEF r
<1>1. \A k \in 1..Len(queue') :
        \/ k \in 1..Len(queue) /\ queue'[k] = queue[k]
        \/ k = Len(queue) + 1 /\ queue'[k] = r /\ conn = "up"
  BY <1>e DEF Extends
<1>2. \A k \in 1..Len(queue) : k \in 1..Len(queue') /\ queue'[k] = queue[k] BY <1>e DEF Extends
<1>h. \A u \in Tasks : Has(u)' = Has(u) /\ (Waiting(u)' <=> Waiting(u)) BY <1>s, SameHas
<1>z. QueryHas' = QueryHas BY <1>s DEF QueryHas
<1>r. Resource' = Resource BY <1>s DEF Resource
<1>3. Types'
  <2>1. \A u \in Tasks : CallType(u)' BY <1>i, <1>r, <1>s DEF Types, CallType, Waiting, IsCall
  <2>2. ASSUME NEW k \in 1..Len(queue') PROVE RequestType(queue[k])'
    <3>1. CASE k \in 1..Len(queue) /\ queue'[k] = queue[k]
      BY <1>i, <1>r, <1>s, <3>1 DEF Types, RequestType, IsClose
    <3>2. CASE queue'[k] = r
      <4>1. x \in Resource BY <1>i DEF Types
      <4> QED BY <1>c, <1>r, <3>2, <4>1 DEF RequestType, IsClose
    <3> QED BY <1>1, <3>1, <3>2
  <2>3. IsSeq(queue') BY <1>e, <1>i DEF Extends, Types
  <2>4. conn' = "down" => queue' = << >> BY <1>e, <1>i, <1>s DEF Types
  <2>5. held' \subseteq Resource' /\ spawned' \subseteq Resource' /\ open' \subseteq Resource'
        /\ lost' \subseteq Resource'
    BY <1>i, <1>r, <1>s DEF Types
  <2> QED BY <1>i, <1>s, <2>1, <2>2, <2>3, <2>4, <2>5 DEF Types
<1>4. WaitInv' BY <1>i, <1>s DEF WaitInv, Waiting
<1>5. QueueInv'
  <2>1. \A k \in 1..Len(queue') : ~IsClose(queue'[k]) => k \in 1..Len(queue) /\ queue'[k] = queue[k]
    BY <1>1, <1>c
  <2> QED BY <1>i, <1>s, <2>1 DEF QueueInv, Waiting, IsClose, Unknown, Handle, Cursor
<1>6. OwnInv' BY <1>h, <1>i, <1>s, <1>z DEF OwnInv
<1>7. CloseInv'
  <2>1. /\ x \notin held \cup QueryHas /\ \A u \in Tasks : x \notin Has(u)
        /\ conn = "up" => x \in open
    BY <1>i DEF OwnInv
  <2>2. \A k \in 1..Len(queue) : IsClose(queue[k]) => queue[k].of # x BY <1>i DEF CloseInv
  <2>3. ASSUME NEW k \in 1..Len(queue'), IsClose(queue'[k])
        PROVE  /\ queue'[k].of \in open
               /\ queue'[k].of \notin held \cup spawned' \cup QueryHas
               /\ \A u \in Tasks : queue'[k].of \notin Has(u)
               /\ \A j \in 1..Len(queue') : IsClose(queue'[j]) /\ queue'[j].of = queue'[k].of => j = k
    <3>1. CASE k \in 1..Len(queue) /\ queue'[k] = queue[k]
      <4>1. /\ queue[k].of \in open /\ queue[k].of \notin held \cup spawned \cup QueryHas
            /\ \A u \in Tasks : queue[k].of \notin Has(u)
            /\ \A j \in 1..Len(queue) : IsClose(queue[j]) /\ queue[j].of = queue[k].of => j = k
        BY <1>i, <2>3, <3>1 DEF CloseInv
      <4>2. queue[k].of # x BY <2>2, <2>3, <3>1
      <4> QED BY <1>1, <1>c, <1>s, <3>1, <4>1, <4>2
    <3>2. CASE k = Len(queue) + 1 /\ queue'[k] = r /\ conn = "up"
      BY <1>1, <1>c, <1>s, <2>1, <2>2, <3>2
    <3> QED BY <1>1, <3>1, <3>2
  <2> QED BY <1>h, <1>s, <1>z, <2>3 DEF CloseInv, IsClose
<1>8. ExecInv'
  <2>1. ASSUME NEW k \in 1..Len(queue'), queue'[k].op = "execute"
        PROVE  /\ query.cont_id # None /\ queue'[k].of = query.cont_id /\ Handle(queue'[k].of) \in open
               /\ \A j \in 1..Len(queue') : IsClose(queue'[j]) /\ queue'[j].of = Handle(queue'[k].of) => k < j
    <3>1. k \in 1..Len(queue) /\ queue'[k] = queue[k] BY <1>1, <1>c, <2>1
    <3>2. k < Len(queue) + 1 BY <1>l, <3>1
    <3>3. /\ query.cont_id # None /\ queue[k].of = query.cont_id /\ Handle(queue[k].of) \in open
          /\ \A j \in 1..Len(queue) : IsClose(queue[j]) /\ queue[j].of = Handle(queue[k].of) => k < j
      BY <1>i, <2>1, <3>1 DEF ExecInv
    <3> QED BY <1>1, <3>1, <3>2, <3>3
  <2> QED BY <1>s, <2>1 DEF ExecInv, IsClose, Handle
<1>9. KeptInv'
  <2>2. conn = "up" => \E k \in 1..Len(queue') : IsClose(queue'[k]) /\ queue'[k].of = x
    BY <1>c, <1>e DEF Extends
  <2>3. ASSUME conn = "up", NEW y \in open
        PROVE  \/ y \in held \cup spawned' \cup QueryHas \cup lost
               \/ \E u \in Tasks : y \in Has(u)
               \/ \E k \in 1..Len(queue') : IsClose(queue'[k]) /\ queue'[k].of = y
    <3>1. CASE y = x BY <2>2, <2>3, <3>1
    <3>2. CASE y # x BY <1>2, <1>i, <1>s, <2>3, <3>2 DEF KeptInv, Kept
    <3> QED BY <3>1, <3>2
  <2> QED BY <1>h, <1>s, <1>z, <2>3 DEF KeptInv, Kept, IsClose
<1> QED BY <1>3, <1>4, <1>5, <1>6, <1>7, <1>8, <1>9 DEF PreparedInv
-----------------------------------------------------------------------------
(* The daemon answers the first request, and opens something for it that   *)
(* the answer tells of, or that nobody is told of.                         *)
Answers(r, rep, new) ==
  /\ queue # << >> /\ queue' = Tail(queue) /\ UNCHANGED <<query, given, ids, held, spawned, conn>>
  /\ r = Head(queue) /\ ~IsClose(r) /\ Answer(r, rep)
  /\ open' = open \cup new /\ new \subseteq Unknown(r)
  /\ \/ r.op = "prepare_sql" /\ rep \in {"handle", "ack", "fail"}
     \/ r.op # "prepare_sql" /\ rep \in {"page", "done", "fail"}
  /\ rep = "page" => new = {Cursor(r.id)}
  /\ rep = "handle" => new = {Handle(r.id)}
  /\ rep \in {"done", "ack"} => new = {}
  /\ lost \subseteq lost' /\ lost' \subseteq lost \cup new /\ (rep = "fail" => new \subseteq lost')

(* The daemon answers, or serves a sqlclose.                               *)
LEMMA DaemonSteps ==
  ASSUME PreparedInv, Daemon
  PROVE  \/ \E r, rep : \E new \in SUBSET Unknown(r) : Answers(r, rep, new)
         \/ /\ queue # << >> /\ queue' = Tail(queue) /\ IsClose(Head(queue)) /\ open' = open \ {Head(queue).of}
            /\ UNCHANGED <<query, call, given, ids, held, spawned, conn, lost>>
<1> DEFINE r == Head(queue)
           Goal == \E q, rep : \E new \in SUBSET Unknown(q) : Answers(q, rep, new)
<1>1. queue # << >> BY DEF Daemon
<1>2. ASSUME NEW rep, NEW new \in SUBSET Unknown(r), Answers(r, rep, new) PROVE Goal
  <2> HIDE DEF r
  <2> QED BY <1>2
<1>u. {} \in SUBSET Unknown(r) /\ {Cursor(r.id)} \in SUBSET Unknown(r) /\ {Handle(r.id)} \in SUBSET Unknown(r)
  BY DEF Unknown
<1>f. ~IsClose(r) => Unknown(r) \cap open = {}
  <2>1. Shifts(Tail(queue), queue) /\ r = queue[1]
    BY <1>1, TailShifts DEF PreparedInv, Types
  <2>2. 1 \in 1..Len(queue) BY <2>1 DEF Shifts
  <2>3. ~IsClose(r) => \A x \in open : x[2] # r.id BY <2>1, <2>2 DEF PreparedInv, QueueInv
  <2>4. \A x \in Unknown(r) : x[2] = r.id BY DEF Unknown, Handle, Cursor
  <2> QED BY <2>3, <2>4
<1> HIDE DEF Goal
<1>3. CASE ServeExecute(r)
  <2>1. /\ r.op \in {"sql", "prepare_sql_execute", "execute"} /\ Serving /\ UNCHANGED lost
        /\ \/ Answer(r, "done") /\ UNCHANGED open
           \/ Answer(r, "page") /\ open' = open \cup {Cursor(r.id)}
    BY <1>3 DEF ServeExecute, Executes
  <2>2. CASE Answer(r, "done") /\ UNCHANGED open
    <3>1. Answers(r, "done", {}) BY <1>1, <2>1, <2>2 DEF Answers, Serving, IsClose
    <3> QED BY <1>2, <1>u, <3>1 DEF Goal
  <2>3. CASE Answer(r, "page") /\ open' = open \cup {Cursor(r.id)}
    <3>1. Answers(r, "page", {Cursor(r.id)}) BY <1>1, <1>u, <2>1, <2>3 DEF Answers, Serving, IsClose
    <3> QED BY <1>2, <1>u, <3>1 DEF Goal
  <2> QED BY <2>1, <2>2, <2>3
<1>4. CASE ServeError(r)
  <2>1. Answers(r, "fail", {}) BY <1>1, <1>4 DEF ServeError, Answers, Serving, Executes, IsClose
  <2> QED BY <1>2, <1>u, <2>1 DEF Goal
<1>8. CASE ServeFailedResult(r)
  <2>1. Answers(r, "done", {}) BY <1>1, <1>8 DEF ServeFailedResult, Answers, Serving, Executes, IsClose
  <2> QED BY <1>2, <1>u, <2>1 DEF Goal
<1>5. CASE ServePrepare(r)
  <2>1. /\ r.op = "prepare_sql" /\ Serving /\ UNCHANGED lost
        /\ \/ Answer(r, "handle") /\ open' = open \cup {Handle(r.id)}
           \/ Answer(r, "ack") /\ UNCHANGED open
           \/ Answer(r, "fail") /\ UNCHANGED open
    BY <1>5 DEF ServePrepare
  <2>2. CASE Answer(r, "handle") /\ open' = open \cup {Handle(r.id)}
    <3>1. Answers(r, "handle", {Handle(r.id)}) BY <1>1, <1>u, <2>1, <2>2 DEF Answers, Serving, IsClose
    <3> QED BY <1>2, <1>u, <3>1 DEF Goal
  <2>3. CASE Answer(r, "ack") /\ UNCHANGED open
    <3>1. Answers(r, "ack", {}) BY <1>1, <2>1, <2>3 DEF Answers, Serving, IsClose
    <3> QED BY <1>2, <1>u, <3>1 DEF Goal
  <2>4. CASE Answer(r, "fail") /\ UNCHANGED open
    <3>1. Answers(r, "fail", {}) BY <1>1, <2>1, <2>4 DEF Answers, Serving, IsClose
    <3> QED BY <1>2, <1>u, <3>1 DEF Goal
  <2> QED BY <2>1, <2>2, <2>3, <2>4
<1>6. CASE ServeGarbled(r)
  <2>1. r.op # "sqlclose" /\ ~IsClose(r) /\ Serving /\ Answer(r, "fail") /\ lost' = lost \cup (open' \ open)
    BY <1>6 DEF ServeGarbled, IsClose
  <2>2. ASSUME NEW new \in SUBSET Unknown(r), open' = open \cup new PROVE Answers(r, "fail", new)
    <3>1. open' \ open = new BY <1>f, <2>1, <2>2
    <3>2. lost' = lost \cup new BY <2>1, <3>1
    <3> QED BY <1>1, <2>1, <2>2, <3>2 DEF Answers, Serving
  <2>3. open' = open \cup {Handle(r.id)} \/ open' = open \cup {Cursor(r.id)} BY <1>6 DEF ServeGarbled
  <2> QED BY <1>2, <1>u, <2>2, <2>3 DEF Goal
<1>7. CASE ServeClose(r) BY <1>1, <1>7 DEF ServeClose, Serving, IsClose
<1> QED BY <1>3, <1>4, <1>5, <1>6, <1>7, <1>8 DEF Daemon, Goal

(* The call that waits for the answer gets it, and no other call changes.  *)
LEMMA AnswerReaches ==
  ASSUME PreparedInv, NEW r, NEW rep, NEW new, Answers(r, rep, new), NEW t \in Tasks
  PROVE  /\ call' = [u \in Tasks |-> call'[u]] /\ (Waiting(t)' <=> Waiting(t))
         /\ Waiting(t) /\ call[t].id = r.id =>
              /\ IsCall(call'[t]) /\ call'[t].st = "waiting" /\ call'[t].n = call[t].n /\ call'[t].id = call[t].id
              /\ call'[t].kind = call[t].kind /\ call'[t].rows = call[t].rows /\ call'[t].reply = rep
              /\ Has(t) \subseteq Has(t)' /\ Has(t)' \subseteq Has(t) \cup new
              /\ new \subseteq Has(t)' \cup lost'
              /\ r.op = "prepare_sql" <=> call[t].kind = "prepare"
         /\ ~(Waiting(t) /\ call[t].id = r.id) => call'[t] = call[t] /\ Has(t)' = Has(t)
<1>i. Types /\ QueueInv BY DEF PreparedInv
<1>a. /\ queue # << >> /\ r = Head(queue) /\ ~IsClose(r) /\ Answer(r, rep)
      /\ \/ r.op = "prepare_sql" /\ rep \in {"handle", "ack", "fail"}
         \/ r.op # "prepare_sql" /\ rep \in {"page", "done", "fail"}
      /\ rep = "page" => new = {Cursor(r.id)}
      /\ rep = "handle" => new = {Handle(r.id)}
      /\ rep \in {"done", "ack"} => new = {}
      /\ rep = "fail" => new \subseteq lost'
  BY DEF Answers
<1>q. r = queue[1] /\ 1 \in 1..Len(queue) BY <1>a, <1>i, TailShifts DEF Types, Shifts
<1>c. /\ call' = [u \in Tasks |-> call'[u]]
      /\ call'[t] = IF call[t].st = "waiting" /\ call[t].id = r.id
                    THEN [call[t] EXCEPT !.reply = rep] ELSE call[t]
  BY <1>a DEF Answer
<1>1. ASSUME Waiting(t), call[t].id = r.id
      PROVE  /\ IsCall(call'[t]) /\ call'[t].st = "waiting" /\ call'[t].n = call[t].n /\ call'[t].id = call[t].id
             /\ call'[t].kind = call[t].kind /\ call'[t].rows = call[t].rows /\ call'[t].reply = rep
             /\ Waiting(t)'
             /\ Has(t) \subseteq Has(t)' /\ Has(t)' \subseteq Has(t) \cup new
             /\ new \subseteq Has(t)' \cup lost'
             /\ r.op = "prepare_sql" <=> call[t].kind = "prepare"
  <2>1. IsCall(call[t]) BY <1>1, <1>i DEF Types, CallType
  <2>2. call[t].reply = None /\ (r.op = "prepare_sql" <=> call[t].kind = "prepare")
    BY <1>1, <1>a, <1>i, <1>q DEF QueueInv
  <2>3. call'[t] = [call[t] EXCEPT !.reply = rep] BY <1>1, <1>c DEF Waiting
  <2>4. call'[t] = [st |-> call[t].st, n |-> call[t].n, kind |-> call[t].kind, sets |-> call[t].sets,
                    pos |-> call[t].pos, id |-> call[t].id, reply |-> rep, rows |-> call[t].rows]
    BY <2>1, <2>3 DEF IsCall
  <2>5. /\ IsCall(call'[t]) /\ call'[t].st = "waiting" /\ call'[t].n = call[t].n /\ call'[t].id = call[t].id
        /\ call'[t].kind = call[t].kind /\ call'[t].rows = call[t].rows /\ call'[t].reply = rep
    BY <1>1, <2>4 DEF Waiting, IsCall
  <2>6. Has(t) = call[t].rows BY <1>1, <2>2, PreparedAssumption DEF Has
  <2>7. Waiting(t)' BY <2>5 DEF Waiting
  <2>8. Has(t)' = call[t].rows \cup (IF rep = "page" THEN {Cursor(r.id)} ELSE {})
                              \cup (IF rep = "handle" THEN {Handle(r.id)} ELSE {})
    BY <1>1, <2>5, <2>7 DEF Has, Cursor, Handle
  <2>9. Has(t) \subseteq Has(t)' /\ Has(t)' \subseteq Has(t) \cup new /\ new \subseteq Has(t)' \cup lost'
    BY <1>a, <2>6, <2>8
  <2> QED BY <2>2, <2>5, <2>7, <2>9
<1>2. ASSUME ~(Waiting(t) /\ call[t].id = r.id)
      PROVE  call'[t] = call[t] /\ Has(t)' = Has(t) /\ (Waiting(t)' <=> Waiting(t))
  <2>1. call'[t] = call[t] BY <1>2, <1>c DEF Waiting
  <2> QED BY <2>1 DEF Has, Waiting, Cursor, Handle
<1> QED BY <1>1, <1>2, <1>c

(* An answer keeps the invariant: what is opened is new, and its owner is  *)
(* the call that waits, or nobody.                                         *)
LEMMA AnswersKeep ==
  ASSUME PreparedInv, NEW r, NEW rep, NEW new \in SUBSET Unknown(r), Answers(r, rep, new)
  PROVE  PreparedInv'
<1>i. Types /\ WaitInv /\ QueueInv /\ OwnInv /\ CloseInv /\ ExecInv /\ KeptInv BY DEF PreparedInv
<1> DEFINE Waiter(t) == Waiting(t) /\ call[t].id = r.id
<1>s. /\ queue # << >> /\ queue' = Tail(queue) /\ UNCHANGED <<query, given, ids, held, spawned, conn>>
      /\ r = Head(queue) /\ ~IsClose(r) /\ open' = open \cup new
      /\ lost \subseteq lost' /\ lost' \subseteq lost \cup new
      /\ \/ r.op = "prepare_sql" /\ rep \in {"handle", "ack", "fail"}
         \/ r.op # "prepare_sql" /\ rep \in {"page", "done", "fail"}
  BY DEF Answers
<1>q. Shifts(queue', queue) /\ r = queue[1] /\ 1 \in 1..Len(queue)
  BY <1>i, <1>s, TailShifts DEF Types, Shifts
<1>c. call' = [u \in Tasks |-> call'[u]] /\ \A t \in Tasks : (Waiting(t)' <=> Waiting(t))
  <2>1. \A t \in Tasks : call' = [u \in Tasks |-> call'[u]] /\ (Waiting(t)' <=> Waiting(t)) BY AnswerReaches
  <2>2. call' = [u \in Tasks |-> call'[u]] BY DEF Answers, Answer
  <2> QED BY <2>1, <2>2
<1>w. \A t \in Tasks : Waiter(t) =>
        /\ IsCall(call'[t]) /\ call'[t].st = "waiting" /\ call'[t].n = call[t].n /\ call'[t].id = call[t].id
        /\ call'[t].kind = call[t].kind /\ call'[t].rows = call[t].rows /\ call'[t].reply = rep
        /\ Has(t) \subseteq Has(t)' /\ Has(t)' \subseteq Has(t) \cup new
        /\ new \subseteq Has(t)' \cup lost'
        /\ r.op = "prepare_sql" <=> call[t].kind = "prepare"
  BY AnswerReaches
<1>o. \A t \in Tasks : ~Waiter(t) => call'[t] = call[t] /\ Has(t)' = Has(t) BY AnswerReaches
<1>h. \A t \in Tasks : Has(t) \subseteq Has(t)' /\ Has(t)' \subseteq Has(t) \cup new BY <1>w, <1>o
<1>f. /\ \A t \in Tasks : call'[t].id = call[t].id \/ ~Waiting(t)
      /\ \A t \in Tasks : Waiting(t) => call'[t].kind = call[t].kind
  BY <1>w, <1>o
<1>1. \A t, u \in Tasks : Waiter(t) /\ Waiter(u) => t = u BY <1>i DEF WaitInv
<1>n. new \cap open = {}
  <2>1. \A x \in open : x[2] # r.id BY <1>i, <1>q, <1>s DEF QueueInv
  <2>2. \A x \in Unknown(r) : x[2] = r.id BY DEF Unknown, Handle, Cursor
  <2> QED BY <2>1, <2>2
<1>u. conn = "up" BY <1>i, <1>s DEF Types
<1>z. QueryHas' = QueryHas BY <1>s DEF QueryHas
<1>r. Resource' = Resource BY <1>s DEF Resource
<1>m. new \subseteq Resource /\ r.id \in 1..ids
  <2>1. RequestType(r) BY <1>i, <1>q DEF Types
  <2>2. r.id \in 1..ids BY <1>s, <2>1 DEF RequestType
  <2> QED BY <2>2 DEF Unknown, Handle, Cursor, Resource
<1>k. \A k \in 1..Len(queue') : k + 1 \in 1..Len(queue) /\ queue'[k] = queue[k + 1]
  BY <1>q DEF Shifts
<1>d. \A k \in 1..Len(queue') : ~IsClose(queue'[k]) => queue'[k].id # r.id
  <2>1. \A k \in 1..Len(queue') : k + 1 \in 1..Len(queue) /\ k + 1 # 1 /\ queue'[k] = queue[k + 1]
    BY <1>q DEF Shifts
  <2> QED BY <1>i, <1>q, <1>s, <2>1 DEF QueueInv
<1> HIDE DEF Waiter
<1>2. Types'
  <2>1. ASSUME NEW t \in Tasks PROVE CallType(t)'
    <3>1. CASE Waiter(t)
      <4>1. CallType(t) /\ Waiting(t) BY <1>i, <3>1 DEF Types, Waiter
      <4>2. /\ call'[t].st = "waiting" /\ call'[t].n = call[t].n /\ IsCall(call'[t])
            /\ call'[t].id = call[t].id /\ call'[t].rows = call[t].rows /\ call'[t].kind = call[t].kind
            /\ call'[t].reply = rep
        BY <1>w, <3>1
      <4>3. r.op = "prepare_sql" <=> call[t].kind = "prepare" BY <1>w, <3>1
      <4> QED BY <1>r, <1>s, <4>1, <4>2, <4>3 DEF CallType, Waiting, IsCall
    <3>2. CASE ~Waiter(t) BY <1>i, <1>o, <1>r, <1>s, <3>2 DEF Types, CallType, Waiting, IsCall
    <3> QED BY <3>1, <3>2
  <2>2. \A k \in 1..Len(queue') : RequestType(queue[k])'
    BY <1>i, <1>k, <1>r, <1>s DEF Types, RequestType, IsClose
  <2>3. open' \subseteq Resource' /\ lost' \subseteq Resource' BY <1>i, <1>m, <1>r, <1>s DEF Types
  <2>4. held' \subseteq Resource' /\ spawned' \subseteq Resource' BY <1>i, <1>r, <1>s DEF Types
  <2>5. IsSeq(queue') BY <1>q DEF Shifts
  <2> QED BY <1>c, <1>i, <1>s, <1>u, <2>1, <2>2, <2>3, <2>4, <2>5 DEF Types
<1>3. WaitInv'
  <2>1. \A t \in Tasks : Waiting(t)' => /\ Waiting(t) /\ call'[t].id = call[t].id
                                        /\ call'[t].kind = call[t].kind
    BY <1>c, <1>f
  <2> QED BY <1>i, <1>s, <2>1 DEF WaitInv
<1>4. QueueInv'
  <2>1. \A j, k \in 1..Len(queue') :
          ~IsClose(queue'[j]) /\ ~IsClose(queue'[k]) /\ queue'[j].id = queue'[k].id => j = k
    <3>1. \A j, k \in 1..Len(queue') : j = k <=> j + 1 = k + 1 BY <1>q DEF Shifts
    <3>2. \A j, k \in 1..Len(queue) :
            ~IsClose(queue[j]) /\ ~IsClose(queue[k]) /\ queue[j].id = queue[k].id => j = k
      BY <1>i DEF QueueInv
    <3> QED BY <1>k, <3>1, <3>2
  <2>2. ASSUME NEW k \in 1..Len(queue'), ~IsClose(queue'[k])
        PROVE  /\ \A x \in open' : x[2] # queue'[k].id
               /\ \A t \in Tasks : Waiting(t)' /\ call'[t].id = queue'[k].id =>
                    call'[t].reply = None /\ (queue'[k].op = "prepare_sql" <=> call'[t].kind = "prepare")
               /\ (\E t \in Tasks : Waiting(t)' /\ call'[t].id = queue'[k].id) \/ Unknown(queue'[k]) \subseteq lost'
    <3>1. queue'[k] = queue[k + 1] /\ k + 1 \in 1..Len(queue) /\ queue'[k].id # r.id BY <1>d, <1>k, <2>2
    <3>2. /\ \A x \in open : x[2] # queue'[k].id
          /\ \A t \in Tasks : Waiting(t) /\ call[t].id = queue'[k].id =>
               call[t].reply = None /\ (queue'[k].op = "prepare_sql" <=> call[t].kind = "prepare")
          /\ (\E t \in Tasks : Waiting(t) /\ call[t].id = queue'[k].id) \/ Unknown(queue'[k]) \subseteq lost
      BY <1>i, <2>2, <3>1 DEF QueueInv
    <3>3. \A x \in new : x[2] = r.id BY DEF Unknown, Handle, Cursor
    <3>4. \A x \in open' : x[2] # queue'[k].id BY <1>s, <3>1, <3>2, <3>3
    <3>5. \A t \in Tasks : Waiting(t) /\ call[t].id = queue'[k].id => call'[t] = call[t]
      BY <1>o, <3>1 DEF Waiter
    <3>6. \A t \in Tasks : Waiting(t)' => Waiting(t) /\ call'[t].id = call[t].id BY <1>c, <1>f
    <3>7. \A t \in Tasks : Waiting(t)' /\ call'[t].id = queue'[k].id =>
            call'[t].reply = None /\ (queue'[k].op = "prepare_sql" <=> call'[t].kind = "prepare")
      BY <3>2, <3>5, <3>6
    <3>8. (\E t \in Tasks : Waiting(t)' /\ call'[t].id = queue'[k].id) \/ Unknown(queue'[k]) \subseteq lost'
      BY <1>c, <1>s, <3>2, <3>5
    <3> QED BY <3>4, <3>7, <3>8
  <2> QED BY <2>1, <2>2 DEF QueueInv, IsClose, Unknown, Handle, Cursor
<1>5. OwnInv'
  <2>1. /\ held \cup spawned \cup QueryHas \subseteq open /\ \A t \in Tasks : Has(t) \subseteq open
    BY <1>i, <1>u DEF OwnInv
  <2>2. \A t \in Tasks : Has(t)' \cap (held \cup spawned \cup QueryHas) = {}
    BY <1>h, <1>i, <1>n, <2>1 DEF OwnInv
  <2>3. ASSUME NEW t \in Tasks, NEW v \in Tasks, t # v PROVE Has(t)' \cap Has(v)' = {}
    <3>1. Has(t) \cap Has(v) = {} BY <1>i, <2>3 DEF OwnInv
    <3>2. Has(t)' = Has(t) \/ Has(v)' = Has(v) BY <1>1, <1>o, <2>3 DEF Waiter
    <3> QED BY <1>h, <1>n, <2>1, <3>1, <3>2
  <2>4. held \cup spawned \cup QueryHas \subseteq open' /\ \A t \in Tasks : Has(t)' \subseteq open'
    BY <1>h, <1>s, <2>1
  <2>5. held \cap spawned = {} /\ QueryHas \cap (held \cup spawned) = {} BY <1>i DEF OwnInv
  <2> QED BY <1>s, <1>z, <2>2, <2>3, <2>4, <2>5 DEF OwnInv
<1>6. CloseInv'
  <2>1. ASSUME NEW k \in 1..Len(queue'), IsClose(queue'[k])
        PROVE  /\ queue'[k].of \in open'
               /\ queue'[k].of \notin held \cup spawned \cup QueryHas
               /\ \A t \in Tasks : queue'[k].of \notin Has(t)'
               /\ \A j \in 1..Len(queue') : IsClose(queue'[j]) /\ queue'[j].of = queue'[k].of => j = k
    <3>1. queue'[k] = queue[k + 1] /\ k + 1 \in 1..Len(queue) BY <1>k
    <3>2. /\ queue'[k].of \in open /\ queue'[k].of \notin held \cup spawned \cup QueryHas
          /\ \A t \in Tasks : queue'[k].of \notin Has(t)
          /\ \A j \in 1..Len(queue) : IsClose(queue[j]) /\ queue[j].of = queue'[k].of => j = k + 1
      BY <1>i, <2>1, <3>1 DEF CloseInv
    <3>3. \A t \in Tasks : queue'[k].of \notin Has(t)' BY <1>h, <1>n, <3>2
    <3>4. \A j \in 1..Len(queue') : j = k <=> j + 1 = k + 1 BY <1>q DEF Shifts
    <3>5. \A j \in 1..Len(queue') : IsClose(queue'[j]) /\ queue'[j].of = queue'[k].of => j = k
      BY <1>k, <3>2, <3>4
    <3> QED BY <1>s, <3>2, <3>3, <3>5
  <2> QED BY <1>s, <1>z, <2>1 DEF CloseInv, IsClose
<1>7. ExecInv'
  <2>1. ASSUME NEW k \in 1..Len(queue'), queue'[k].op = "execute"
        PROVE  /\ query.cont_id # None /\ queue'[k].of = query.cont_id /\ Handle(queue'[k].of) \in open'
               /\ \A j \in 1..Len(queue') : IsClose(queue'[j]) /\ queue'[j].of = Handle(queue'[k].of) => k < j
    <3>1. queue'[k] = queue[k + 1] /\ k + 1 \in 1..Len(queue) BY <1>k
    <3>2. /\ query.cont_id # None /\ queue'[k].of = query.cont_id /\ Handle(queue'[k].of) \in open
          /\ \A j \in 1..Len(queue) : IsClose(queue[j]) /\ queue[j].of = Handle(queue'[k].of) => k + 1 < j
      BY <1>i, <2>1, <3>1 DEF ExecInv
    <3>3. \A j \in 1..Len(queue') : k < j <=> k + 1 < j + 1 BY <1>q DEF Shifts
    <3>4. \A j \in 1..Len(queue') : IsClose(queue'[j]) /\ queue'[j].of = Handle(queue'[k].of) => k < j
      BY <1>k, <3>2, <3>3
    <3> QED BY <1>s, <3>2, <3>4
  <2> QED BY <1>s, <2>1 DEF ExecInv, IsClose, Handle
<1>8. KeptInv'
  <2>1. ASSUME NEW x \in open'
        PROVE  \/ x \in held \cup spawned \cup QueryHas \cup lost'
               \/ \E t \in Tasks : x \in Has(t)'
               \/ \E k \in 1..Len(queue') : IsClose(queue'[k]) /\ queue'[k].of = x
    <3>1. CASE x \in new
      <4>1. (\E t \in Tasks : Waiter(t)) \/ Unknown(r) \subseteq lost
        BY <1>i, <1>q, <1>s DEF QueueInv, Waiter
      <4> QED BY <1>s, <1>w, <3>1, <4>1
    <3>2. CASE x \in open
      <4>1. ASSUME NEW k \in 1..Len(queue), IsClose(queue[k]), queue[k].of = x
            PROVE  \E j \in 1..Len(queue') : IsClose(queue'[j]) /\ queue'[j].of = x
        <5>1. k # 1 BY <1>q, <1>s, <4>1
        <5>2. k - 1 \in 1..Len(queue') /\ (k - 1) + 1 = k BY <1>q, <5>1 DEF Shifts
        <5>3. queue'[k - 1] = queue[k] BY <1>k, <5>2
        <5> QED BY <4>1, <5>2, <5>3
      <4>2. Kept(x) BY <1>i, <1>u, <3>2 DEF KeptInv
      <4> QED BY <1>h, <1>s, <4>1, <4>2 DEF Kept
    <3> QED BY <1>s, <3>1, <3>2
  <2> QED BY <1>s, <1>z, <2>1 DEF KeptInv, Kept, IsClose
<1> QED BY <1>2, <1>3, <1>4, <1>5, <1>6, <1>7, <1>8 DEF PreparedInv

(* A sqlclose that is served: nobody had what it closes, no execute is     *)
(* behind it, and it was the only one.                                     *)
LEMMA ServedCloseKeeps ==
  ASSUME PreparedInv, queue # << >>, queue' = Tail(queue), IsClose(Head(queue)), open' = open \ {Head(queue).of},
         UNCHANGED <<query, call, given, ids, held, spawned, conn, lost>>
  PROVE  PreparedInv'
<1>i. Types /\ WaitInv /\ QueueInv /\ OwnInv /\ CloseInv /\ ExecInv /\ KeptInv BY DEF PreparedInv
<1> DEFINE x == Head(queue).of
<1>s. open' = open \ {x} /\ UNCHANGED <<query, call, given, ids, held, spawned, conn, lost>> OBVIOUS
<1>q. Shifts(queue', queue) /\ Head(queue) = queue[1] /\ 1 \in 1..Len(queue) BY <1>i, TailShifts DEF Types, Shifts
<1>x. IsClose(queue[1]) /\ queue[1].of = x BY <1>q
<1> HIDE DEF x
<1>k. \A k \in 1..Len(queue') : k + 1 \in 1..Len(queue) /\ k + 1 # 1 /\ queue'[k] = queue[k + 1]
  BY <1>q DEF Shifts
<1>c. /\ x \notin held \cup spawned \cup QueryHas /\ \A t \in Tasks : x \notin Has(t)
      /\ \A j \in 1..Len(queue) : IsClose(queue[j]) /\ queue[j].of = x => j = 1
  BY <1>i, <1>q, <1>x DEF CloseInv
<1>h. \A t \in Tasks : Has(t)' = Has(t) /\ (Waiting(t)' <=> Waiting(t)) BY <1>s, SameHas
<1>z. QueryHas' = QueryHas BY <1>s DEF QueryHas
<1>r. Resource' = Resource BY <1>s DEF Resource
<1>1. Types'
  <2>1. \A t \in Tasks : CallType(t)' BY <1>i, <1>r, <1>s DEF Types, CallType, Waiting, IsCall
  <2>2. \A k \in 1..Len(queue') : RequestType(queue[k])'
    BY <1>i, <1>k, <1>r, <1>s DEF Types, RequestType, IsClose
  <2>3. IsSeq(queue') BY <1>q DEF Shifts
  <2>4. /\ held' \subseteq Resource' /\ spawned' \subseteq Resource' /\ open' \subseteq Resource'
        /\ lost' \subseteq Resource'
    BY <1>i, <1>r, <1>s DEF Types
  <2>5. conn' = "up" BY <1>i, <1>s DEF Types
  <2> QED BY <1>i, <1>s, <2>1, <2>2, <2>3, <2>4, <2>5 DEF Types
<1>2. WaitInv' BY <1>i, <1>s DEF WaitInv, Waiting
<1>3. QueueInv'
  <2>1. \A j, k \in 1..Len(queue') :
          ~IsClose(queue'[j]) /\ ~IsClose(queue'[k]) /\ queue'[j].id = queue'[k].id => j = k
    <3>1. \A j, k \in 1..Len(queue') : j = k <=> j + 1 = k + 1 BY <1>q DEF Shifts
    <3>2. \A j, k \in 1..Len(queue) :
            ~IsClose(queue[j]) /\ ~IsClose(queue[k]) /\ queue[j].id = queue[k].id => j = k
      BY <1>i DEF QueueInv
    <3> QED BY <1>k, <3>1, <3>2
  <2>2. ASSUME NEW k \in 1..Len(queue'), ~IsClose(queue'[k])
        PROVE  /\ \A y \in open' : y[2] # queue'[k].id
               /\ \A t \in Tasks : Waiting(t) /\ call[t].id = queue'[k].id =>
                    call[t].reply = None /\ (queue'[k].op = "prepare_sql" <=> call[t].kind = "prepare")
               /\ (\E t \in Tasks : Waiting(t) /\ call[t].id = queue'[k].id) \/ Unknown(queue'[k]) \subseteq lost
    <3>1. queue'[k] = queue[k + 1] /\ k + 1 \in 1..Len(queue) BY <1>k
    <3> QED BY <1>i, <1>s, <2>2, <3>1 DEF QueueInv
  <2> QED BY <1>s, <2>1, <2>2 DEF QueueInv, Waiting, IsClose, Unknown, Handle, Cursor
<1>4. OwnInv' BY <1>c, <1>h, <1>i, <1>s, <1>z DEF OwnInv
<1>5. CloseInv'
  <2>1. ASSUME NEW k \in 1..Len(queue'), IsClose(queue'[k])
        PROVE  /\ queue'[k].of \in open'
               /\ queue'[k].of \notin held \cup spawned \cup QueryHas
               /\ \A t \in Tasks : queue'[k].of \notin Has(t)
               /\ \A j \in 1..Len(queue') : IsClose(queue'[j]) /\ queue'[j].of = queue'[k].of => j = k
    <3>1. queue'[k] = queue[k + 1] /\ k + 1 \in 1..Len(queue) /\ k + 1 # 1 BY <1>k
    <3>2. /\ queue'[k].of \in open /\ queue'[k].of \notin held \cup spawned \cup QueryHas
          /\ \A t \in Tasks : queue'[k].of \notin Has(t)
          /\ \A j \in 1..Len(queue) : IsClose(queue[j]) /\ queue[j].of = queue'[k].of => j = k + 1
      BY <1>i, <2>1, <3>1 DEF CloseInv
    <3>3. queue'[k].of # x BY <1>c, <2>1, <3>1
    <3>4. \A j \in 1..Len(queue') : j = k <=> j + 1 = k + 1 BY <1>q DEF Shifts
    <3>5. \A j \in 1..Len(queue') : IsClose(queue'[j]) /\ queue'[j].of = queue'[k].of => j = k
      BY <1>k, <3>2, <3>4
    <3> QED BY <1>s, <3>2, <3>3, <3>5
  <2> QED BY <1>h, <1>s, <1>z, <2>1 DEF CloseInv, IsClose
<1>6. ExecInv'
  <2>1. ASSUME NEW k \in 1..Len(queue'), queue'[k].op = "execute"
        PROVE  /\ query.cont_id # None /\ queue'[k].of = query.cont_id /\ Handle(queue'[k].of) \in open'
               /\ \A j \in 1..Len(queue') : IsClose(queue'[j]) /\ queue'[j].of = Handle(queue'[k].of) => k < j
    <3>1. queue'[k] = queue[k + 1] /\ k + 1 \in 1..Len(queue) BY <1>k
    <3>2. /\ query.cont_id # None /\ queue'[k].of = query.cont_id /\ Handle(queue'[k].of) \in open
          /\ \A j \in 1..Len(queue) : IsClose(queue[j]) /\ queue[j].of = Handle(queue'[k].of) => k + 1 < j
      BY <1>i, <2>1, <3>1 DEF ExecInv
    <3>3. \A j \in 1..Len(queue') : k < j <=> k + 1 < j + 1 BY <1>q DEF Shifts
    <3>4. \A j \in 1..Len(queue') : IsClose(queue'[j]) /\ queue'[j].of = Handle(queue'[k].of) => k < j
      BY <1>k, <3>2, <3>3
    <3>5. ~(k + 1 < 1)
      <4>1. Len(queue') \in Nat BY <1>q DEF Shifts, IsSeq
      <4> QED BY <4>1
    <3>6. Handle(queue'[k].of) # x BY <1>q, <1>x, <3>2, <3>5
    <3> QED BY <1>s, <3>2, <3>4, <3>6
  <2> QED BY <1>s, <2>1 DEF ExecInv, IsClose, Handle
<1>7. KeptInv'
  <2>1. ASSUME NEW y \in open'
        PROVE  \/ y \in held \cup spawned \cup QueryHas \cup lost
               \/ \E t \in Tasks : y \in Has(t)
               \/ \E k \in 1..Len(queue') : IsClose(queue'[k]) /\ queue'[k].of = y
    <3>1. ASSUME NEW k \in 1..Len(queue), IsClose(queue[k]), queue[k].of = y
          PROVE  \E j \in 1..Len(queue') : IsClose(queue'[j]) /\ queue'[j].of = y
      <4>1. k # 1 BY <1>s, <1>x, <2>1, <3>1
      <4>2. k - 1 \in 1..Len(queue') /\ (k - 1) + 1 = k BY <1>q, <4>1 DEF Shifts
      <4>3. queue'[k - 1] = queue[k] BY <1>k, <4>2
      <4> QED BY <3>1, <4>2, <4>3
    <3>2. conn = "up" BY <1>i DEF Types
    <3> QED BY <1>i, <1>s, <2>1, <3>1, <3>2 DEF KeptInv, Kept
  <2> QED BY <1>h, <1>s, <1>z, <2>1 DEF KeptInv, Kept, IsClose
<1> QED BY <1>1, <1>2, <1>3, <1>4, <1>5, <1>6, <1>7 DEF PreparedInv

(* The connection goes down: calls without an answer fail, and have what   *)
(* they had.                                                               *)
LEMMA DownKeeps ==
  ASSUME PreparedInv, ConnDown
  PROVE  PreparedInv'
<1>i. Types /\ WaitInv /\ QueueInv /\ OwnInv /\ CloseInv /\ ExecInv /\ KeptInv BY DEF PreparedInv
<1>s. /\ conn' = "down" /\ queue' = << >>
      /\ call' = [t \in Tasks |-> IF call[t].st = "waiting" /\ call[t].reply = None
                                  THEN [call[t] EXCEPT !.reply = "fail"] ELSE call[t]]
      /\ UNCHANGED <<query, given, ids, held, spawned, open, lost>>
  BY DEF ConnDown
<1>e. \A k \in 1..Len(queue') : FALSE BY <1>s
<1>r. Resource' = Resource BY <1>s DEF Resource
<1>z. QueryHas' = QueryHas BY <1>s DEF QueryHas
<1>1. ASSUME NEW t \in Tasks
      PROVE  /\ CallType(t)' /\ Has(t)' = Has(t) /\ (Waiting(t)' <=> Waiting(t))
             /\ Waiting(t) => call'[t].id = call[t].id /\ call'[t].kind = call[t].kind
  <2>t. CallType(t) BY <1>i DEF Types
  <2>1. CASE Waiting(t) /\ call[t].reply = None
    <3>1. call'[t] = [call[t] EXCEPT !.reply = "fail"] BY <1>s, <2>1 DEF Waiting
    <3>2. IsCall(call[t]) BY <2>1, <2>t DEF CallType
    <3>3. /\ IsCall(call'[t]) /\ call'[t].st = "waiting" /\ call'[t].n = call[t].n /\ call'[t].id = call[t].id
          /\ call'[t].kind = call[t].kind /\ call'[t].rows = call[t].rows /\ call'[t].reply = "fail"
      BY <2>1, <3>1, <3>2 DEF IsCall, Waiting
    <3>4. Waiting(t)' BY <3>3 DEF Waiting
    <3>5. Has(t) = call[t].rows BY <2>1, PreparedAssumption DEF Has
    <3>6. Has(t)' = call[t].rows BY <3>3, <3>4 DEF Has
    <3>7. CallType(t)' BY <1>r, <1>s, <2>1, <2>t, <3>3 DEF CallType, Waiting, IsCall
    <3> QED BY <2>1, <3>3, <3>4, <3>5, <3>6, <3>7
  <2>2. CASE ~(Waiting(t) /\ call[t].reply = None)
    <3>1. call'[t] = call[t] BY <1>s, <2>2 DEF Waiting
    <3>2. Has(t)' = Has(t) /\ (Waiting(t)' <=> Waiting(t)) BY <3>1 DEF Has, Waiting, Cursor, Handle
    <3>3. CallType(t)' BY <1>r, <1>s, <2>t, <3>1 DEF CallType, Waiting, IsCall
    <3> QED BY <3>1, <3>2, <3>3
  <2> QED BY <2>1, <2>2
<1>2. Types'
  <2>1. call' = [t \in Tasks |-> call'[t]] BY <1>s
  <2>2. IsSeq(queue')
    <3>1. << >> \in Seq({}) OBVIOUS
    <3> QED BY <1>s, <3>1, OwnElements
  <2>3. \A k \in 1..Len(queue') : RequestType(queue[k])' BY <1>e
  <2>4. /\ held' \subseteq Resource' /\ spawned' \subseteq Resource' /\ open' \subseteq Resource'
        /\ lost' \subseteq Resource'
    BY <1>i, <1>r, <1>s DEF Types
  <2> QED BY <1>1, <1>i, <1>s, <2>1, <2>2, <2>3, <2>4 DEF Types
<1>3. WaitInv' BY <1>1, <1>i, <1>s DEF WaitInv
<1>4. QueueInv' /\ CloseInv' /\ ExecInv' BY <1>e DEF QueueInv, CloseInv, ExecInv
<1>5. OwnInv' BY <1>1, <1>i, <1>s, <1>z DEF OwnInv
<1>6. KeptInv' BY <1>s DEF KeptInv
<1> QED BY <1>2, <1>3, <1>4, <1>5, <1>6 DEF PreparedInv

(* The idle timer of a daemon whose connection is down.                    *)
LEMMA TimerKeeps ==
  ASSUME PreparedInv, IdleTimer
  PROVE  PreparedInv'
<1>i. Types /\ WaitInv /\ QueueInv /\ OwnInv BY DEF PreparedInv
<1>s. conn = "down" /\ open' = {} /\ UNCHANGED <<query, call, given, ids, queue, held, spawned, conn, lost>>
  BY DEF IdleTimer
<1>e. \A k \in 1..Len(queue') : FALSE BY <1>i, <1>s DEF Types
<1>h. \A t \in Tasks : Has(t)' = Has(t) /\ (Waiting(t)' <=> Waiting(t)) BY <1>s, SameHas
<1>r. Resource' = Resource /\ QueryHas' = QueryHas BY <1>s DEF Resource, QueryHas
<1>1. Types' BY <1>e, <1>i, <1>r, <1>s DEF Types, CallType, Waiting, IsCall, IsSeq
<1>2. WaitInv' BY <1>i, <1>s DEF WaitInv, Waiting
<1>3. QueueInv' /\ CloseInv' /\ ExecInv' BY <1>e DEF QueueInv, CloseInv, ExecInv
<1>4. OwnInv' BY <1>h, <1>i, <1>r, <1>s DEF OwnInv
<1>5. KeptInv' BY <1>s DEF KeptInv
<1> QED BY <1>1, <1>2, <1>3, <1>4, <1>5 DEF PreparedInv
-----------------------------------------------------------------------------
(* At first there is nothing.                                              *)
LEMMA InitPrepared == Init => PreparedInv
<1> SUFFICES ASSUME Init PROVE PreparedInv OBVIOUS
<1>1. /\ query = [st |-> "none", cont_id |-> None] /\ call = [t \in Tasks |-> Idle]
      /\ given = << >> /\ ids = 0 /\ queue = << >> /\ conn = "up"
      /\ held = {} /\ spawned = {} /\ open = {} /\ lost = {}
  BY DEF Init
<1>2. \A t \in Tasks : call[t].st = "idle" /\ call[t].n = 0 /\ ~Waiting(t) BY <1>1 DEF Idle, Waiting
<1>3. IsSeq(<< >>)
  <2>1. << >> \in Seq({}) OBVIOUS
  <2> QED BY <2>1, OwnElements
<1>4. \A k \in 1..Len(queue) : FALSE BY <1>1
<1>5. Len(given) = 0 BY <1>1
<1>6. Types
  <2>1. \A t \in Tasks : CallType(t) BY <1>2, <1>5 DEF CallType
  <2>2. call = [t \in Tasks |-> call[t]] BY <1>1
  <2>3. {MaxCalls, MaxRequests} \subseteq Nat BY PreparedAssumption
  <2> QED BY <1>1, <1>3, <1>4, <1>5, <2>1, <2>2, <2>3 DEF Types
<1>7. WaitInv BY <1>1, <1>2 DEF WaitInv
<1>8. QueueInv /\ CloseInv /\ ExecInv BY <1>4 DEF QueueInv, CloseInv, ExecInv
<1>9. OwnInv
  <2>1. QueryHas = {} /\ \A t \in Tasks : Has(t) = {} BY <1>1, <1>2 DEF QueryHas, Has
  <2> QED BY <1>1, <2>1 DEF OwnInv
<1> QED BY <1>1, <1>6, <1>7, <1>8, <1>9 DEF PreparedInv, KeptInv

(* Every step keeps the invariant.                                         *)
LEMMA NextPrepared == PreparedInv /\ [Next]_vars => PreparedInv'
<1> SUFFICES ASSUME PreparedInv, [Next]_vars PROVE PreparedInv' OBVIOUS
<1>i. Types /\ WaitInv BY DEF PreparedInv
<1>1. ASSUME NEW t \in Tasks,
             \/ Prepare(t)
             \/ \E rows \in PageSizes : \/ \E sets \in Batches : ExecuteSets(t, sets, rows)
                                        \/ \E set \in Params : JobExecute(t, set, rows) \/ QueryExecute(t, set, rows)
             \/ \E sets \in Batches : ExecuteBatch(t, sets)
      PROVE  PreparedInv'
  <2>1. Sends(t) \/ \E A, B, C \in SUBSET Has(t) : Releases(t, A, B, C) BY <1>1, <1>i, StartSteps
  <2> QED BY <2>1, SendsKeeps, ReleasesKeeps
<1>2. ASSUME NEW t \in Tasks, BatchNext(t) PROVE PreparedInv' BY <1>2, <1>i, BatchSends, SendsKeeps
<1>3. ASSUME NEW t \in Tasks, Prepared(t) \/ PrepareFails(t) \/ ReturnRows(t) \/ Fails(t) \/ Cancel(t) \/ Take(t)
      PROVE  PreparedInv'
  <2>1. \E A, B, C \in SUBSET Has(t) : Releases(t, A, B, C) BY <1>3, <1>i, ResolveSteps
  <2> QED BY <2>1, ReleasesKeeps
<1>4. CASE (\E x \in held : DropRows(x)) \/ DropQuery BY <1>4, DropSteps, DropsKeep
<1>5. ASSUME NEW x \in spawned, spawn_close(x) PROVE PreparedInv' BY <1>5, CloseKeeps
<1>6. CASE Daemon
  <2>1. CASE \E r, rep : \E new \in SUBSET Unknown(r) : Answers(r, rep, new) BY <2>1, AnswersKeep
  <2>2. CASE /\ queue # << >> /\ queue' = Tail(queue) /\ IsClose(Head(queue)) /\ open' = open \ {Head(queue).of}
             /\ UNCHANGED <<query, call, given, ids, held, spawned, conn, lost>>
    BY <2>2, ServedCloseKeeps
  <2> QED BY <1>6, <2>1, <2>2, DaemonSteps
<1>7. CASE ConnDown BY <1>7, DownKeeps
<1>9. CASE IdleTimer BY <1>9, TimerKeeps
<1>8. CASE UNCHANGED vars
  <2>1. UNCHANGED <<query, call, given, ids, queue, held, spawned, conn, open, log, lost>> BY <1>8 DEF vars
  <2>2. Resource' = Resource /\ QueryHas' = QueryHas /\ \A t \in Tasks : Has(t)' = Has(t)
    BY <2>1, SameHas DEF Resource, QueryHas
  <2>3. Types' BY <1>i, <2>1, <2>2 DEF Types, CallType, RequestType, IsClose, Waiting, IsCall, IsSeq
  <2>4. WaitInv' BY <2>1 DEF PreparedInv, WaitInv, Waiting, Unknown, Handle, Cursor, IsClose
  <2>6. QueueInv' BY <2>1 DEF PreparedInv, QueueInv, Waiting, IsClose, Unknown, Handle, Cursor
  <2>5. OwnInv' /\ CloseInv' /\ ExecInv' /\ KeptInv'
    BY <2>1, <2>2 DEF PreparedInv, OwnInv, CloseInv, ExecInv, KeptInv, Kept, IsClose, Handle
  <2> QED BY <2>3, <2>4, <2>5, <2>6 DEF PreparedInv
<1> QED BY <1>1, <1>2, <1>3, <1>4, <1>5, <1>6, <1>7, <1>8, <1>9 DEF Next

(* The inductive invariant holds throughout.                               *)
LEMMA PreparedInvariant == Spec => []PreparedInv
BY InitPrepared, NextPrepared, PTL DEF Spec
-----------------------------------------------------------------------------
(* The type invariant, for any tasks and batches: whatever a Query, a      *)
(* Rows, a sqlclose task or the daemon has carries the id of a request     *)
(* that was drawn, and Query::cont_id is one or None.                      *)
THEOREM PreparedTypes == Spec => []TypeOK
<1>1. PreparedInv => TypeOK
  <2> SUFFICES ASSUME PreparedInv PROVE TypeOK OBVIOUS
  <2>i. Types BY DEF PreparedInv
  <2>1. ids \in Nat /\ ids <= MaxRequests /\ MaxRequests \in Nat BY <2>i, PreparedAssumption DEF Types
  <2>2. 1..ids \subseteq 1..MaxRequests BY <2>1
  <2>3. query.cont_id \in 1..MaxRequests \cup {None} BY <2>2, <2>i DEF Types
  <2>4. \A t \in Tasks : call[t].st \in {"idle", "waiting", "ok", "err"} /\ call[t].n \in 0..Len(given)
    BY <2>i DEF Types, CallType
  <2>5. \A k \in 1..Len(queue) :
          queue[k].op \in {"sql", "prepare_sql", "prepare_sql_execute", "execute", "sqlclose"}
    BY <2>i DEF Types, RequestType
  <2>6. \A x \in held \cup spawned \cup open \cup lost : x[1] \in {"handle", "cursor"} /\ x[2] \in 1..ids
    <3>1. \A x \in Resource : x[1] \in {"handle", "cursor"} /\ x[2] \in 1..ids BY DEF Resource
    <3> QED BY <2>i, <3>1 DEF Types
  <2> QED BY <2>i, <2>3, <2>4, <2>5, <2>6 DEF Types, TypeOK
<1> QED BY <1>1, PreparedInvariant, PTL

(* Query::execute_inner and Drop for Query: no execute of a prepared       *)
(* statement is queued behind the sqlclose of its handle, nor reaches the  *)
(* daemon without it, those of cancelled futures included.                 *)
THEOREM NoLateExecute == Spec => []NoExecuteAfterClose
<1>1. PreparedInv => NoExecuteAfterClose
  <2> SUFFICES ASSUME PreparedInv, NEW k \in 1..Len(queue), queue[k].op = "execute"
               PROVE  /\ Handle(queue[k].of) \in open
                      /\ \A j \in 1..(k - 1) : ~(queue[j].op = "sqlclose" /\ queue[j].of = Handle(queue[k].of))
    BY DEF NoExecuteAfterClose
  <2>1. /\ Handle(queue[k].of) \in open
        /\ \A j \in 1..Len(queue) : IsClose(queue[j]) /\ queue[j].of = Handle(queue[k].of) => k < j
    BY DEF PreparedInv, ExecInv
  <2>2. Len(queue) \in Nat BY DEF PreparedInv, Types, IsSeq
  <2>3. \A j \in 1..(k - 1) : j \in 1..Len(queue) /\ ~(k < j) BY <2>2
  <2> QED BY <2>1, <2>3 DEF IsClose
<1> QED BY <1>1, PreparedInvariant, PTL

(* Drop for Rows, Drop for Query and a batch that fails or is cancelled:   *)
(* what one of them gives to spawn_close is closed once, is open until     *)
(* then, and no other of them has it.                                      *)
THEOREM OneClose == Spec => []ClosedOnce
<1>1. PreparedInv => ClosedOnce
  <2> SUFFICES ASSUME PreparedInv, NEW k \in 1..Len(queue), queue[k].op = "sqlclose"
               PROVE  /\ queue[k].of \in open \ (held \cup spawned)
                      /\ query.st = "held" => queue[k].of # Handle(query.cont_id)
                      /\ \A j \in 1..(k - 1) : ~(queue[j].op = "sqlclose" /\ queue[j].of = queue[k].of)
    BY DEF ClosedOnce
  <2>1. /\ queue[k].of \in open /\ queue[k].of \notin held \cup spawned \cup QueryHas
        /\ \A j \in 1..Len(queue) : IsClose(queue[j]) /\ queue[j].of = queue[k].of => j = k
    BY DEF PreparedInv, CloseInv, IsClose
  <2>2. Len(queue) \in Nat /\ ids \in Nat /\ open \subseteq Resource BY DEF PreparedInv, Types, IsSeq
  <2>3. \A j \in 1..(k - 1) : j \in 1..Len(queue) /\ j # k BY <2>2
  <2>4. queue[k].of # Handle(None)
    <3>1. \A x \in Resource : x[2] \in Nat BY <2>2 DEF Resource
    <3>2. Handle(None)[2] = None BY DEF Handle
    <3> QED BY <2>1, <2>2, <3>1, <3>2, PreparedAssumption
  <2>5. query.st = "held" => queue[k].of # Handle(query.cont_id) BY <2>1, <2>4 DEF QueryHas
  <2> QED BY <2>1, <2>3, <2>5 DEF IsClose
<1> QED BY <1>1, PreparedInvariant, PTL

(* While the connection is up, whatever the daemon keeps for a prepared    *)
(* statement or a result, a Query, a Rows or a call has, or its sqlclose   *)
(* is on the way: a batch that fails or is cancelled half way leaks none   *)
(* of its results, and a handle always has its Query.  Excepted is what    *)
(* the answer to a cancelled or garbled request opened, and what was       *)
(* dropped where spawn_best_effort finds no runtime.                       *)
THEOREM NothingLeaks == Spec => []NothingForgotten
<1>1. PreparedInv => NothingForgotten
  <2> SUFFICES ASSUME PreparedInv, conn = "up", NEW x \in open \ (Known \cup spawned \cup lost)
               PROVE  \E k \in 1..Len(queue) : queue[k].op = "sqlclose" /\ queue[k].of = x
    BY DEF NothingForgotten
  <2>1. QueryHas \subseteq Known BY DEF QueryHas, Known
  <2>2. \A t \in Tasks : Has(t) \subseteq Known
    <3>1. \A t \in Tasks : Waiting(t) => call[t].rows \cup Unknown(call[t]) \subseteq Known
      BY DEF Known, Waiting
    <3>2. \A t \in Tasks : Waiting(t) => Has(t) \subseteq call[t].rows \cup Unknown(call[t])
      BY DEF Has, Unknown
    <3>3. \A t \in Tasks : ~Waiting(t) => Has(t) = {} BY DEF Has
    <3> QED BY <3>1, <3>2, <3>3
  <2>3. held \subseteq Known BY DEF Known
  <2>4. Kept(x) BY DEF PreparedInv, KeptInv
  <2> QED BY <2>1, <2>2, <2>3, <2>4 DEF Kept, IsClose
<1> QED BY <1>1, PreparedInvariant, PTL
=============================================================================
