----------------------------- MODULE RowsProofs -----------------------------
(***************************************************************************)
(* Theorems about Rows: its type invariant, that rows come in order and    *)
(* none is lost without an Err, that a cursor is closed once and by its    *)
(* owner and is never left open to nobody, and that nothing is fetched     *)
(* from a cursor that was closed, for any statements, result sets and page *)
(* sizes.                                                                  *)
(***************************************************************************)
EXTENDS Rows, FiniteSetTheorems, TLAPS

Request == [op : {"execute", "sqlmore", "sqlclose"}, of : Statements]

(* Requests on the wire.                                                   *)
Close(s) == [op |-> "sqlclose", of |-> s]
More(s) == [op |-> "sqlmore", of |-> s]
Fetches(r, s) == r.of = s /\ r.op \in {"execute", "sqlmore"}

(* A statement asks for one page at a time, and the answer it waits for is *)
(* that to the request on the wire.                                        *)
FetchInv(s) ==
  \A k \in 1..Len(wire) : Fetches(wire[k], s) =>
    /\ \A m \in 1..Len(wire) : Fetches(wire[m], s) => k = m
    /\ pc[s] \in {"executing", "fetching", "dropped", "abandoned"}
    /\ pc[s] \in {"executing", "fetching"} => reply[s] = NoPage

(* Somebody may still page through the cursor, and will have to close it.  *)
Owned(s) == cursor[s] /\ ~done[s] /\ pc[s] # "ended"

(* One sqlclose at most, none before the owner has given the cursor up,    *)
(* and no sqlmore behind it.                                               *)
NoClose(s) == \A k \in 1..Len(wire) : wire[k] # Close(s)
OneClose(s) == \A k, m \in 1..Len(wire) : wire[k] = Close(s) /\ wire[m] = Close(s) => k = m
NoMoreBehind(s) == \A j, k \in 1..Len(wire) : j < k /\ wire[j] = Close(s) => wire[k] # More(s)

CloseInv(s) ==
  /\ closing[s] # 0 => NoClose(s)
  /\ OneClose(s) /\ NoMoreBehind(s)
  /\ pc[s] \in {"idle", "executing"} \/ Owned(s) => closing[s] = 0 /\ NoClose(s)
  /\ pc[s] = "rows" => (cursor[s] <=> ~done[s])
  /\ pc[s] = "fetching" => cursor[s] /\ ~done[s]

(* The rows of an answer, as long as somebody waits for it.                *)
Waiting(s) == pc[s] \in {"executing", "fetching"}
Page_at(s) == Waiting(s) /\ reply[s].tag = "page"

(* Rows the caller has seen, rows at hand, rows of the answer and rows the *)
(* daemon has still to send: each come before the next.                    *)
OrderInv(s) ==
  /\ \A j, k \in Delivered(s) : j < k => seen[s][j] < seen[s][k]
  /\ \A k \in 1..Len(seen[s]) : seen[s][k] < server[s].next
  /\ \A k \in 1..Len(buf[s]) :
       /\ buf[s][k] < server[s].next
       /\ \A m \in 1..Len(seen[s]) : seen[s][m] < buf[s][k]
       /\ \A m \in 1..Len(buf[s]) : k < m => buf[s][k] < buf[s][m]
  /\ Page_at(s) => \A k \in 1..Len(reply[s].rows) :
       /\ reply[s].rows[k] < server[s].next
       /\ \A m \in 1..Len(seen[s]) : seen[s][m] < reply[s].rows[k]
       /\ \A m \in 1..Len(reply[s].rows) : k < m => reply[s].rows[k] < reply[s].rows[m]

(* As long as there was no Err they follow each other without a gap, and   *)
(* `done' means that the daemon has sent them all.                         *)
Clean(s) == \A k \in 1..Len(seen[s]) : seen[s][k] # Err
PrefixInv(s) ==
  /\ \A k \in 1..Len(seen[s]) : (\A m \in 1..k : seen[s][m] # Err) => seen[s][k] = k
  /\ pc[s] \in {"idle", "executing", "fetching"} => buf[s] = << >>
  /\ pc[s] = "idle" => reply[s] = NoPage
  /\ Clean(s) =>
       /\ pc[s] \in {"rows", "stream"} => /\ \A k \in 1..Len(buf[s]) : buf[s][k] = Len(seen[s]) + k
                                          /\ server[s].next = Len(seen[s]) + Len(buf[s]) + 1
       /\ pc[s] \in {"idle", "executing", "fetching"} /\ reply[s] = NoPage => server[s].next = Len(seen[s]) + 1
       /\ Page_at(s) => /\ \A k \in 1..Len(reply[s].rows) : reply[s].rows[k] = Len(seen[s]) + k
                        /\ server[s].next = Len(seen[s]) + Len(reply[s].rows) + 1
EndInv(s) ==
  Clean(s) /\ s \notin FailedPages =>
    /\ pc[s] \in {"rows", "stream"} /\ (done[s] \/ ~cursor[s]) => server[s].next = RowCount[s] + 1
    /\ Page_at(s) /\ reply[s].is_done => server[s].next = RowCount[s] + 1
    /\ pc[s] = "ended" => Len(seen[s]) = RowCount[s]

PageInv(s) == OrderInv(s) /\ PrefixInv(s) /\ EndInv(s)

RowsInv == TypeOK /\ \A s \in Statements : FetchInv(s) /\ CloseInv(s) /\ PageInv(s)
-----------------------------------------------------------------------------
(* What the requests on the wire become when one is queued or served.      *)
Queued(r) ==
  /\ Len(wire') = Len(wire) + 1 /\ wire'[Len(wire) + 1] = r
  /\ \A k \in 1..Len(wire) : wire'[k] = wire[k]
Served(r) ==
  /\ Len(wire) > 0 /\ wire[1] = r /\ Len(wire') = Len(wire) - 1
  /\ \A k \in 1..Len(wire') : wire'[k] = wire[k + 1]

(* A request that is queued is behind all the others.                      *)
LEMMA AppendQueues ==
  ASSUME wire \in Seq(Request), NEW r \in Request, wire' = Append(wire, r)
  PROVE  Queued(r) /\ wire' \in Seq(Request)
BY DEF Queued

(* A request that is served was the first one.                             *)
LEMMA TailServes ==
  ASSUME wire \in Seq(Request), NEW r \in Request, wire # << >>, Head(wire) = r, wire' = Tail(wire)
  PROVE  Served(r) /\ wire' \in Seq(Request)
<1>1. Len(wire) \in Nat /\ Len(wire) # 0 OBVIOUS
<1>2. wire[1] = r OBVIOUS
<1>3. Len(Tail(wire)) = Len(wire) - 1 BY <1>1
<1>4. \A k \in 1..(Len(wire) - 1) : Tail(wire)[k] = wire[k + 1] BY <1>1
<1> QED BY <1>1, <1>2, <1>3, <1>4 DEF Served

(* What send does to the wire and to the answer its caller waits for.      *)
Sent(s, op) ==
  \/ Queued([op |-> op, of |-> s]) /\ reply' = [reply EXCEPT ![s] = NoPage]
  \/ wire' = wire /\ reply' = [reply EXCEPT ![s] = Fail]

(* DispatcherHandle::send queues the request, or fails.                    *)
LEMMA SendSends ==
  ASSUME TypeOK, NEW s \in Statements, NEW op \in {"execute", "sqlmore"}, send(s, op)
  PROVE  Sent(s, op) /\ wire' \in Seq(Request)
<1>1. wire \in Seq(Request) /\ [op |-> op, of |-> s] \in Request BY DEF TypeOK, Request
<1>2. CASE conn = "up"
  <2>1. wire' = Append(wire, [op |-> op, of |-> s]) /\ reply' = [reply EXCEPT ![s] = NoPage]
    BY <1>2 DEF send
  <2> QED BY <1>1, <2>1, AppendQueues DEF Sent
<1>3. CASE conn # "up" BY <1>1, <1>3 DEF send, Sent
<1> QED BY <1>2, <1>3

(* The page the daemon sends next.                                         *)
Advance(s, rows, isDone) ==
  /\ rows \in Seq(1..RowCount[s]) /\ Len(rows) <= PageSize
  /\ \A k \in 1..Len(rows) : rows[k] = server[s].next + k - 1
  /\ server[s].next + Len(rows) \in 1..(RowCount[s] + 1)
  /\ isDone => server[s].next + Len(rows) = RowCount[s] + 1
  /\ \E st \in {"open", "released"} :
       server' = [server EXCEPT ![s] = [state |-> st, next |-> server[s].next + Len(rows)]]
  /\ \/ reply' = [reply EXCEPT ![s] = Page(rows, isDone)]
     \/ reply' = [reply EXCEPT ![s] = Fail]

(* A function on 1..n is a sequence.                                       *)
LEMMA SequenceOf ==
  ASSUME NEW S, NEW n \in Nat, NEW f \in [1..n -> S]
  PROVE  f \in Seq(S) /\ Len(f) = n
OBVIOUS

(* A page holds the rows that follow those sent before, and the last one   *)
(* ends where the result set does.                                         *)
LEMMA PageAdvances ==
  ASSUME TypeOK, NEW s \in Statements, NEW isDone \in BOOLEAN, NextPage(s, isDone)
  PROVE  \E rows \in Seq(1..RowCount[s]) : Advance(s, rows, isDone)
<1> DEFINE first == server[s].next
           last  == IF first + PageSize - 1 < RowCount[s] THEN first + PageSize - 1 ELSE RowCount[s]
           rows  == [k \in 1..(last - first + 1) |-> first + k - 1]
<1>1. RowCount[s] \in Nat /\ PageSize \in Nat \ {0} /\ first \in 1..(RowCount[s] + 1)
  BY RowsAssumption DEF TypeOK
<1>2. last \in Nat /\ last - first + 1 \in 0..PageSize /\ last <= RowCount[s] BY <1>1
<1>3. /\ last < RowCount[s] => ~isDone
      /\ server' = [server EXCEPT ![s] = [state |-> IF isDone THEN "released" ELSE "open",
                                          next  |-> last + 1]]
      /\ reply' \in {[reply EXCEPT ![s] = Page(rows, isDone)], [reply EXCEPT ![s] = Fail]}
  BY DEF NextPage
<1> HIDE DEF last
<1>4. \A k \in 1..(last - first + 1) : first + k - 1 \in 1..RowCount[s] BY <1>1, <1>2
<1>5. rows \in Seq(1..RowCount[s]) /\ Len(rows) = last - first + 1
  <2> DEFINE n == last - first + 1
  <2>1. n \in Nat BY <1>2
  <2>2. \A k \in 1..n : first + k - 1 \in 1..RowCount[s] BY <1>4
  <2> HIDE DEF n
  <2>3. [k \in 1..n |-> first + k - 1] \in [1..n -> 1..RowCount[s]] BY <2>2
  <2>4. [k \in 1..n |-> first + k - 1] \in Seq(1..RowCount[s]) /\ Len([k \in 1..n |-> first + k - 1]) = n
    <3> HIDE DEF first
    <3> QED BY <2>1, <2>3, SequenceOf
  <2> QED BY <2>4 DEF n
<1>6. \A k \in 1..Len(rows) : rows[k] = first + k - 1 BY <1>5
<1>7. first + Len(rows) = last + 1 BY <1>5, <1>1, <1>2
<1> HIDE DEF rows
<1>8. isDone => last + 1 = RowCount[s] + 1 BY <1>1, <1>2, <1>3
<1>9. \E st \in {"open", "released"} : server' = [server EXCEPT ![s] = [state |-> st, next |-> last + 1]]
  <2>1. CASE isDone BY <1>3, <2>1
  <2>2. CASE ~isDone BY <1>3, <2>2
  <2> QED BY <2>1, <2>2
<1>10. first + Len(rows) \in 1..(RowCount[s] + 1) BY <1>1, <1>2, <1>7
<1>11. Len(rows) <= PageSize BY <1>1, <1>2, <1>5
<1>12. Advance(s, rows, isDone) BY <1>3, <1>5, <1>6, <1>7, <1>8, <1>9, <1>10, <1>11 DEF Advance
<1> QED BY <1>5, <1>12
-----------------------------------------------------------------------------
(* A destructor spawns one task at most.                                   *)
LEMMA CloseTypes ==
  ASSUME TypeOK, NEW s \in Statements, CloseInv(s), spawn_close(s),
         pc[s] \in {"idle", "executing"} \/ Owned(s)
  PROVE  closing' \in [Statements -> 0..1]
<1>1. closing[s] = 0 /\ closing \in [Statements -> 0..1] BY DEF CloseInv, TypeOK
<1>2. closing' = closing \/ closing' = [closing EXCEPT ![s] = 1] BY <1>1 DEF spawn_close
<1> QED BY <1>1, <1>2

(* Row numbers, or Err.                                                    *)
LEMMA RowsAreNumbers ==
  ASSUME NEW n \in Nat
  PROVE  /\ \A q \in Seq(1..n) : q \in Seq(0..n) /\ q \in Seq(Nat)
         /\ \A q \in Seq(0..n) : q \in Seq(Nat)
         /\ \A q \in Seq(0..n), item \in 0..n : Append(q, item) \in Seq(0..n)
         /\ \A q \in Seq(1..n) : q # << >> => /\ Head(q) \in 1..n /\ Tail(q) \in Seq(1..n)
                                            /\ Len(Tail(q)) = Len(q) - 1
<1>1. \A q \in Seq(1..n) : q \in Seq(0..n) /\ q \in Seq(Nat) OBVIOUS
<1>2. \A q \in Seq(0..n) : q \in Seq(Nat) OBVIOUS
<1>3. \A q \in Seq(0..n), item \in 0..n : Append(q, item) \in Seq(0..n) OBVIOUS
<1>4. ASSUME NEW q \in Seq(1..n), q # << >>
      PROVE  Head(q) \in 1..n /\ Tail(q) \in Seq(1..n) /\ Len(Tail(q)) = Len(q) - 1
  <2>1. Len(q) \in Nat /\ Len(q) # 0 BY <1>4
  <2> QED BY <2>1
<1> QED BY <1>1, <1>2, <1>3, <1>4

SeenType == seen \in [Statements -> Seq(Nat)] /\ \A s \in Statements : seen[s] \in Seq(0..RowCount[s])
BufType ==
  /\ buf \in [Statements -> Seq(Nat)]
  /\ \A s \in Statements : buf[s] \in Seq(1..RowCount[s]) /\ Len(buf[s]) <= PageSize
ReplyType ==
  /\ reply \in [Statements -> Reply]
  /\ \A s \in Statements : reply[s].tag = "page" =>
       reply[s].rows \in Seq(1..RowCount[s]) /\ Len(reply[s].rows) <= PageSize
ServerType ==
  /\ server \in [Statements -> [state : {"none", "open", "released"}, next : Nat]]
  /\ \A s \in Statements : server[s].next \in 1..(RowCount[s] + 1)
PcType == pc \in [Statements -> {"idle", "executing", "rows", "stream", "fetching", "ended", "dropped",
                                "abandoned"}]
FlagType == done \in [Statements -> BOOLEAN] /\ cursor \in [Statements -> BOOLEAN]
RestType == closing \in [Statements -> 0..1] /\ wire \in Seq(Request) /\ conn \in {"up", "down"}

(* The type invariant, variable by variable.                               *)
LEMMA TypeParts ==
  /\ TypeOK <=> SeenType /\ BufType /\ ReplyType /\ ServerType /\ PcType /\ FlagType /\ RestType
  /\ TypeOK' <=> SeenType' /\ BufType' /\ ReplyType' /\ ServerType' /\ PcType' /\ FlagType' /\ RestType'
BY DEF TypeOK, SeenType, BufType, ReplyType, ServerType, PcType, FlagType, RestType, Request

(* What the stream yields is a row number or Err.                          *)
LEMMA YieldTypes ==
  ASSUME SeenType, NEW s \in Statements, NEW item \in 0..RowCount[s], Yield(s, item)
  PROVE  SeenType'
<1> DEFINE new == Append(seen[s], item)
<1>1. RowCount[s] \in Nat /\ seen[s] \in Seq(0..RowCount[s]) BY RowsAssumption DEF SeenType
<1>2. new \in Seq(0..RowCount[s]) /\ new \in Seq(Nat) BY <1>1, RowsAreNumbers
<1>3. seen' = [seen EXCEPT ![s] = new] BY DEF Yield
<1> HIDE DEF new
<1> QED BY <1>2, <1>3 DEF SeenType

(* The rows at hand are those of a page, or what is left of them.          *)
LEMMA BufTypes ==
  ASSUME BufType, NEW s \in Statements, NEW new \in Seq(1..RowCount[s]), Len(new) <= PageSize,
         buf' = [buf EXCEPT ![s] = new]
  PROVE  BufType'
<1>1. RowCount[s] \in Nat BY RowsAssumption
<1>2. new \in Seq(Nat) BY <1>1, RowsAreNumbers
<1> QED BY <1>2 DEF BufType

(* An answer is a failure, nothing yet, or a page of rows.                 *)
LEMMA ReplyTypes ==
  ASSUME ReplyType, NEW s \in Statements
  PROVE  /\ reply' = [reply EXCEPT ![s] = NoPage] => ReplyType'
         /\ reply' = [reply EXCEPT ![s] = Fail] => ReplyType'
         /\ \A rows \in Seq(1..RowCount[s]), isDone \in BOOLEAN :
              Len(rows) <= PageSize /\ reply' = [reply EXCEPT ![s] = Page(rows, isDone)] => ReplyType'
<1>1. reply' = [reply EXCEPT ![s] = NoPage] => ReplyType' BY DEF ReplyType, Reply, NoPage
<1>2. reply' = [reply EXCEPT ![s] = Fail] => ReplyType' BY DEF ReplyType, Reply, Fail
<1>3. ASSUME NEW rows \in Seq(1..RowCount[s]), NEW isDone \in BOOLEAN, Len(rows) <= PageSize,
             reply' = [reply EXCEPT ![s] = Page(rows, isDone)]
      PROVE  ReplyType'
  <2>1. RowCount[s] \in Nat BY RowsAssumption
  <2>2. rows \in Seq(Nat) BY <2>1, RowsAreNumbers
  <2>3. Page(rows, isDone) \in Reply /\ Page(rows, isDone).rows = rows BY <2>2 DEF Page, Reply
  <2> QED BY <1>3, <2>3 DEF ReplyType
<1> QED BY <1>1, <1>2, <1>3

(* The page an owner receives.                                             *)
LEMMA PageTypes ==
  ASSUME ReplyType, NEW s \in Statements, reply[s].tag = "page"
  PROVE  /\ reply[s].rows \in Seq(1..RowCount[s]) /\ Len(reply[s].rows) <= PageSize
         /\ reply[s].is_done \in BOOLEAN
BY DEF ReplyType, Reply, NoPage, Fail

Parts == SeenType /\ BufType /\ ReplyType /\ ServerType /\ PcType /\ FlagType /\ RestType

(* A caller's step keeps the types.                                        *)
LEMMA CallerTypes ==
  ASSUME TypeOK, NEW s \in Statements, CloseInv(s),
         Execute(s) \/ Resolve(s) \/ Stream(s) \/ Poll(s) \/ Drop(s)
  PROVE  TypeOK'
<1>t. Parts BY TypeParts DEF Parts
<1>a. /\ UNCHANGED seen => SeenType'
      /\ UNCHANGED buf => BufType'
      /\ UNCHANGED reply => ReplyType'
      /\ UNCHANGED server => ServerType'
      /\ UNCHANGED <<done, cursor>> => FlagType'
      /\ UNCHANGED <<closing, wire, conn>> => RestType'
  BY <1>t DEF Parts, SeenType, BufType, ReplyType, ServerType, FlagType, RestType
<1>b. RowCount[s] \in Nat /\ PageSize \in Nat BY RowsAssumption
<1>1. CASE Execute(s)
  <2>1. Sent(s, "execute") /\ wire' \in Seq(Request) BY <1>1, SendSends DEF Execute
  <2>2. ReplyType' BY <1>t, <1>a, <2>1, ReplyTypes DEF Sent, Parts
  <2>3. PcType' /\ RestType' BY <1>1, <1>t, <2>1 DEF Execute, Parts, PcType, RestType
  <2> QED BY <1>1, <1>a, <2>2, <2>3, TypeParts DEF Execute
<1>2. CASE NewRows(s)
  <2>1. reply[s].tag = "page" BY <1>2 DEF NewRows
  <2>2. /\ reply[s].rows \in Seq(1..RowCount[s]) /\ Len(reply[s].rows) <= PageSize
        /\ reply[s].is_done \in BOOLEAN
    BY <1>t, <2>1, PageTypes DEF Parts
  <2>3. BufType' BY <1>2, <1>t, <2>2, BufTypes DEF NewRows, Parts
  <2>4. PcType' /\ FlagType' BY <1>2, <1>t, <2>2 DEF NewRows, Parts, PcType, FlagType
  <2> QED BY <1>2, <1>a, <2>3, <2>4, TypeParts DEF NewRows
<1>3. CASE ExecuteError(s) BY <1>3, <1>t, <1>a, TypeParts DEF ExecuteError, Parts, PcType
<1>4. CASE ReceiveRows(s)
  <2>1. reply[s].tag = "page" /\ reply[s].rows # << >> BY <1>4 DEF ReceiveRows
  <2>2. /\ reply[s].rows \in Seq(1..RowCount[s]) /\ Len(reply[s].rows) <= PageSize
        /\ reply[s].is_done \in BOOLEAN
    BY <1>t, <2>1, PageTypes DEF Parts
  <2>3. /\ Head(reply[s].rows) \in 1..RowCount[s] /\ Tail(reply[s].rows) \in Seq(1..RowCount[s])
        /\ Len(Tail(reply[s].rows)) = Len(reply[s].rows) - 1 
    BY <1>b, <2>1, <2>2, RowsAreNumbers
  <2>4. Len(Tail(reply[s].rows)) <= PageSize BY <1>b, <2>2, <2>3
  <2>5. SeenType'
    <3>1. Head(reply[s].rows) \in 0..RowCount[s] BY <1>b, <2>3
    <3> QED BY <1>4, <1>t, <3>1, YieldTypes DEF ReceiveRows, Parts
  <2>6. BufType' BY <1>4, <1>t, <2>3, <2>4, BufTypes DEF ReceiveRows, Parts
  <2>7. PcType' /\ FlagType' BY <1>4, <1>t, <2>2 DEF ReceiveRows, Parts, PcType, FlagType
  <2> QED BY <1>4, <1>a, <2>5, <2>6, <2>7, TypeParts DEF ReceiveRows
<1>5. CASE ReceiveEnd(s) BY <1>5, <1>t, <1>a, TypeParts DEF ReceiveEnd, Parts, PcType, FlagType
<1>6. CASE ReceiveEmpty(s)
  <2>1. closing' \in [Statements -> 0..1]
    <3>1. cursor[s] /\ ~done[s] /\ pc[s] # "ended" BY <1>6 DEF ReceiveEmpty, CloseInv
    <3> QED BY <1>6, <3>1, CloseTypes DEF ReceiveEmpty, Owned
  <2>2. SeenType'
    <3>1. Err \in 0..RowCount[s] BY <1>b DEF Err
    <3> QED BY <1>6, <1>t, <3>1, YieldTypes DEF ReceiveEmpty, Parts
  <2>3. PcType' /\ FlagType' /\ RestType'
    BY <1>6, <1>t, <2>1 DEF ReceiveEmpty, Parts, PcType, FlagType, RestType
  <2> QED BY <1>6, <1>a, <2>2, <2>3, TypeParts DEF ReceiveEmpty
<1>7. CASE ReceiveError(s)
  <2>1. SeenType'
    <3>1. Err \in 0..RowCount[s] BY <1>b DEF Err
    <3> QED BY <1>7, <1>t, <3>1, YieldTypes DEF ReceiveError, Parts
  <2>2. PcType' BY <1>7, <1>t DEF ReceiveError, Parts, PcType
  <2> QED BY <1>7, <1>a, <2>1, <2>2, TypeParts DEF ReceiveError
<1>8. CASE Stream(s) BY <1>8, <1>t, <1>a, TypeParts DEF Stream, Parts, PcType
<1>9. CASE PollRow(s)
  <2>1. buf[s] \in Seq(1..RowCount[s]) /\ Len(buf[s]) <= PageSize /\ buf[s] # << >>
    BY <1>9, <1>t DEF PollRow, Parts, BufType
  <2>2. /\ Head(buf[s]) \in 1..RowCount[s] /\ Tail(buf[s]) \in Seq(1..RowCount[s])
        /\ Len(Tail(buf[s])) = Len(buf[s]) - 1
    BY <1>b, <2>1, RowsAreNumbers
  <2>3. Len(Tail(buf[s])) <= PageSize BY <1>b, <2>1, <2>2
  <2>4. SeenType'
    <3>1. Head(buf[s]) \in 0..RowCount[s] BY <1>b, <2>2
    <3> QED BY <1>9, <1>t, <3>1, YieldTypes DEF PollRow, Parts
  <2>5. BufType' BY <1>9, <1>t, <2>2, <2>3, BufTypes DEF PollRow, Parts
  <2>6. PcType' /\ FlagType' /\ RestType' BY <1>9, <1>t DEF PollRow, Parts, PcType, FlagType, RestType
  <2> QED BY <1>9, <1>a, <2>4, <2>5, <2>6, TypeParts DEF PollRow
<1>10. CASE PollEnd(s) BY <1>10, <1>t, <1>a, TypeParts DEF PollEnd, Parts, PcType
<1>11. CASE PollMore(s)
  <2>1. Sent(s, "sqlmore") /\ wire' \in Seq(Request) BY <1>11, SendSends DEF PollMore
  <2>2. ReplyType' BY <1>t, <1>a, <2>1, ReplyTypes DEF Sent, Parts
  <2>3. PcType' /\ RestType' BY <1>11, <1>t, <2>1 DEF PollMore, Parts, PcType, RestType
  <2> QED BY <1>11, <1>a, <2>2, <2>3, TypeParts DEF PollMore
<1>12. CASE CancelExecute(s) BY <1>12, <1>t, <1>a, TypeParts DEF CancelExecute, Parts, PcType
<1>13. CASE DropRows(s)
  <2>1. closing' \in [Statements -> 0..1]
    <3>1. CASE cursor[s]
      <4>1. ~done[s] /\ pc[s] # "ended" BY <1>13, <3>1 DEF DropRows, CloseInv
      <4> QED BY <1>13, <3>1, <4>1, CloseTypes DEF DropRows, Owned
    <3>2. CASE ~cursor[s] BY <1>13, <1>t, <3>2 DEF DropRows, Parts, RestType
    <3> QED BY <3>1, <3>2
  <2>2. PcType' /\ FlagType' /\ RestType'
    BY <1>13, <1>t, <2>1 DEF DropRows, Parts, PcType, FlagType, RestType
  <2> QED BY <1>13, <1>a, <2>2, TypeParts DEF DropRows
<1>14. CASE DropStream(s)
  <2>1. closing' \in [Statements -> 0..1]
    <3>1. CASE cursor[s] /\ ~done[s]
      <4>1. pc[s] # "ended" BY <1>14 DEF DropStream
      <4> QED BY <1>14, <3>1, <4>1, CloseTypes DEF DropStream, Owned
    <3>2. CASE ~(cursor[s] /\ ~done[s]) BY <1>14, <1>t, <3>2 DEF DropStream, Parts, RestType
    <3> QED BY <3>1, <3>2
  <2>2. PcType' /\ FlagType' /\ RestType'
    BY <1>14, <1>t, <2>1 DEF DropStream, Parts, PcType, FlagType, RestType
  <2> QED BY <1>14, <1>a, <2>2, TypeParts DEF DropStream
<1> QED BY <1>1, <1>2, <1>3, <1>4, <1>5, <1>6, <1>7, <1>8, <1>9, <1>10, <1>11, <1>12, <1>13, <1>14
        DEF Resolve, Poll, Drop

(* The daemon's answer to a fetch, and to a close.                         *)
Answered(s) ==
  \/ \E rows \in Seq(1..RowCount[s]), isDone \in BOOLEAN : Advance(s, rows, isDone)
  \/ reply' = [reply EXCEPT ![s] = Fail] /\ UNCHANGED server
  \/ reply' = [reply EXCEPT ![s] = Page(<< >>, FALSE)] /\ UNCHANGED server
  \/ s \in FailedPages /\ reply' = [reply EXCEPT ![s] = Page(<< >>, TRUE)] /\ UNCHANGED server

(* A step of the daemon serves the first request, and answers a fetch with *)
(* a page, a failure, or an empty page.                                    *)
LEMMA ServeServes ==
  ASSUME TypeOK, NEW s \in Statements, Serve(s)
  PROVE  /\ UNCHANGED <<clientVars, conn>> /\ wire' \in Seq(Request)
         /\ \/ \E op \in {"execute", "sqlmore"} : Served([op |-> op, of |-> s]) /\ Answered(s)
            \/ Served(Close(s)) /\ UNCHANGED reply /\ server' = [server EXCEPT ![s].state = "released"]
<1>1. ASSUME NEW op \in {"execute", "sqlmore", "sqlclose"}, Serving(s, op)
      PROVE  Served([op |-> op, of |-> s]) /\ wire' \in Seq(Request) /\ UNCHANGED <<clientVars, conn>>
  <2>1. wire \in Seq(Request) /\ [op |-> op, of |-> s] \in Request BY DEF TypeOK, Request
  <2> QED BY <1>1, <2>1, TailServes DEF Serving
<1>2. CASE ServeExecute(s)
  <2>1. Answered(s) BY <1>2, PageAdvances DEF ServeExecute, Answered
  <2> QED BY <1>1, <1>2, <2>1 DEF ServeExecute
<1>3. CASE ServeMore(s)
  <2>1. Answered(s) BY <1>3, PageAdvances DEF ServeMore, Answered
  <2> QED BY <1>1, <1>3, <2>1 DEF ServeMore
<1>4. CASE ServeFailedPage(s)
  <2>1. Answered(s) BY <1>4 DEF ServeFailedPage, Answered
  <2> QED BY <1>1, <1>4, <2>1 DEF ServeFailedPage
<1>5. CASE ServeClose(s) BY <1>1, <1>5 DEF ServeClose, Close
<1> QED BY <1>2, <1>3, <1>4, <1>5 DEF Serve

(* The spawned task's step, the daemon's, its timer's and the loss of the  *)
(* connection keep the types.                                              *)
LEMMA OtherTypes ==
  ASSUME TypeOK, (\E s \in Statements : QueueClose(s) \/ Serve(s) \/ IdleTimer(s)) \/ ConnDown
  PROVE  TypeOK'
<1>t. Parts BY TypeParts DEF Parts
<1>a. /\ UNCHANGED seen => SeenType'
      /\ UNCHANGED buf => BufType'
      /\ UNCHANGED reply => ReplyType'
      /\ UNCHANGED server => ServerType'
      /\ UNCHANGED pc => PcType'
      /\ UNCHANGED <<done, cursor>> => FlagType'
  BY <1>t DEF Parts, SeenType, BufType, ReplyType, ServerType, PcType, FlagType
<1>1. ASSUME NEW s \in Statements, QueueClose(s) PROVE TypeOK'
  <2>1. wire \in Seq(Request) /\ closing \in [Statements -> 0..1] /\ Close(s) \in Request
    BY <1>t DEF Parts, RestType, Close, Request
  <2>2. wire' \in Seq(Request) BY <1>1, <2>1 DEF QueueClose, Close
  <2>3. closing' \in [Statements -> 0..1]
    <3>1. closing[s] = 1 BY <1>1, <2>1 DEF QueueClose
    <3>2. closing' = [closing EXCEPT ![s] = 0] BY <1>1, <3>1 DEF QueueClose
    <3> QED BY <2>1, <3>2
  <2>4. RestType' BY <1>1, <1>t, <2>2, <2>3 DEF QueueClose, Parts, RestType
  <2> QED BY <1>1, <1>a, <2>4, TypeParts DEF QueueClose
<1>2. ASSUME NEW s \in Statements, Serve(s) PROVE TypeOK'
  <2>1. UNCHANGED <<clientVars, conn>> /\ wire' \in Seq(Request) BY <1>2, ServeServes
  <2>2. SeenType' /\ BufType' /\ PcType' /\ FlagType' /\ RestType'
    BY <1>t, <1>a, <2>1 DEF clientVars, Parts, RestType
  <2>3. RowCount[s] \in Nat /\ PageSize \in Nat BY RowsAssumption
  <2>4. << >> \in Seq(1..RowCount[s]) /\ Len(<< >>) <= PageSize BY <2>3
  <2>5. CASE Answered(s)
    <3>1. CASE \E rows \in Seq(1..RowCount[s]), isDone \in BOOLEAN : Advance(s, rows, isDone)
      <4>1. PICK rows \in Seq(1..RowCount[s]), isDone \in BOOLEAN : Advance(s, rows, isDone) BY <3>1
      <4>2. Len(rows) <= PageSize /\ server[s].next + Len(rows) \in 1..(RowCount[s] + 1)
        BY <4>1 DEF Advance
      <4>3. PICK st \in {"open", "released"} :
               server' = [server EXCEPT ![s] = [state |-> st, next |-> server[s].next + Len(rows)]]
        BY <4>1 DEF Advance
      <4>4. ServerType' BY <1>t, <2>3, <4>2, <4>3 DEF Parts, ServerType
      <4>5. \/ reply' = [reply EXCEPT ![s] = Page(rows, isDone)]
            \/ reply' = [reply EXCEPT ![s] = Fail]
        BY <4>1 DEF Advance
      <4>6. ReplyType' BY <1>t, <4>2, <4>5, ReplyTypes DEF Parts
      <4> QED BY <2>2, <4>4, <4>6, TypeParts
    <3>2. CASE UNCHANGED server /\ \/ reply' = [reply EXCEPT ![s] = Fail]
                                   \/ reply' = [reply EXCEPT ![s] = Page(<< >>, FALSE)]
                                   \/ reply' = [reply EXCEPT ![s] = Page(<< >>, TRUE)]
      <4>1. ReplyType' BY <1>t, <2>4, <3>2, ReplyTypes DEF Parts
      <4> QED BY <1>a, <2>2, <3>2, <4>1, TypeParts
    <3> QED BY <2>5, <3>1, <3>2 DEF Answered
  <2>6. CASE UNCHANGED reply /\ server' = [server EXCEPT ![s].state = "released"]
    <3>1. ServerType' BY <1>t, <2>6 DEF Parts, ServerType
    <3> QED BY <1>a, <2>2, <2>6, <3>1, TypeParts
  <2> QED BY <1>2, <2>5, <2>6, ServeServes
<1>3. ASSUME ConnDown PROVE TypeOK'
  <2>1. RestType' BY <1>3, <1>t DEF ConnDown, clientVars, Parts, RestType
  <2>2. ReplyType' BY <1>3, <1>t DEF ConnDown, Parts, ReplyType, Reply, Fail
  <2> QED BY <1>3, <1>a, <2>1, <2>2, TypeParts DEF ConnDown, clientVars
<1>4. ASSUME NEW s \in Statements, IdleTimer(s) PROVE TypeOK'
  <2>1. UNCHANGED <<clientVars, wire, reply, conn>> /\ server' = [server EXCEPT ![s].state = "released"]
    BY <1>4 DEF IdleTimer
  <2>2. ServerType' BY <1>t, <2>1 DEF Parts, ServerType
  <2>3. RestType' BY <1>t, <2>1 DEF clientVars, Parts, RestType
  <2> QED BY <1>a, <2>1, <2>2, <2>3, TypeParts DEF clientVars
<1> QED BY <1>1, <1>2, <1>3, <1>4
-----------------------------------------------------------------------------
(* What each step leaves alone of another statement t.                     *)
Same(t) ==
  /\ pc'[t] = pc[t] /\ buf'[t] = buf[t] /\ done'[t] = done[t] /\ cursor'[t] = cursor[t]
  /\ seen'[t] = seen[t] /\ closing'[t] = closing[t] /\ reply'[t] = reply[t]
  /\ server'[t].next = server[t].next /\ conn' = conn

(* A step of s queues a request of s, serves one, or leaves the wire.      *)
WireOf(s) ==
  \/ wire' = wire
  \/ \E op \in {"execute", "sqlmore", "sqlclose"} :
       Queued([op |-> op, of |-> s]) \/ Served([op |-> op, of |-> s])

(* A step of one statement touches no other.                               *)
LEMMA StepOfOne ==
  ASSUME TypeOK, NEW s \in Statements, NEW t \in Statements \ {s},
         \/ Execute(s) \/ Resolve(s) \/ Stream(s) \/ Poll(s) \/ Drop(s) \/ QueueClose(s) \/ Serve(s)
  PROVE  Same(t) /\ WireOf(s)
<1> USE DEF Same, WireOf
<1>1. CASE Execute(s)
  <2>1. Sent(s, "execute") BY <1>1, SendSends DEF Execute
  <2> QED BY <1>1, <2>1 DEF Execute, TypeOK, Sent
<1>2. CASE PollMore(s)
  <2>1. Sent(s, "sqlmore") BY <1>2, SendSends DEF PollMore
  <2> QED BY <1>2, <2>1 DEF PollMore, TypeOK, Sent
<1>3. CASE Resolve(s)
  BY <1>3 DEF Resolve, NewRows, ExecuteError, ReceiveRows, ReceiveEnd, ReceiveEmpty, ReceiveError,
              TypeOK, Yield, spawn_close
<1>4. CASE Stream(s) \/ PollRow(s) \/ PollEnd(s)
  BY <1>4 DEF Stream, PollRow, PollEnd, TypeOK, Yield
<1>5. CASE Drop(s) BY <1>5 DEF Drop, CancelExecute, DropRows, DropStream, TypeOK, spawn_close
<1>6. CASE QueueClose(s)
  <2>1. wire \in Seq(Request) /\ Close(s) \in Request BY DEF TypeOK, Close, Request
  <2>2. wire' = wire \/ Queued(Close(s)) BY <1>6, <2>1, AppendQueues DEF QueueClose, Close
  <2> QED BY <1>6, <2>2 DEF QueueClose, TypeOK, Close
<1>7. CASE Serve(s)
  <2>1. UNCHANGED <<pc, buf, done, cursor, seen, closing, conn>> BY <1>7, ServeServes DEF clientVars
  <2>2. WireOf(s) BY <1>7, ServeServes DEF Close
  <2>3. reply'[t] = reply[t] /\ server'[t].next = server[t].next
    <3>1. CASE Answered(s)
      <4>1. CASE \E rows \in Seq(1..RowCount[s]), isDone \in BOOLEAN : Advance(s, rows, isDone)
        BY <4>1 DEF Advance, TypeOK
      <4>2. CASE UNCHANGED server
        <5>1. \E p : reply' = [reply EXCEPT ![s] = p] BY <3>1, <4>2 DEF Answered, Advance
        <5> QED BY <4>2, <5>1 DEF TypeOK
      <4> QED BY <3>1, <4>1, <4>2 DEF Answered
    <3>2. CASE UNCHANGED reply /\ server' = [server EXCEPT ![s].state = "released"]
      BY <3>2 DEF TypeOK
    <3> QED BY <1>7, <3>1, <3>2, ServeServes
  <2> QED BY <2>1, <2>2, <2>3
<1> QED BY <1>1, <1>2, <1>3, <1>4, <1>5, <1>6, <1>7 DEF Poll

(* The rows of a statement that is left alone stay as they are.            *)
LEMMA PagesKept ==
  ASSUME NEW t \in Statements, PageInv(t), pc'[t] = pc[t], buf'[t] = buf[t], done'[t] = done[t],
         cursor'[t] = cursor[t], seen'[t] = seen[t], reply'[t] = reply[t], server'[t].next = server[t].next
  PROVE  PageInv(t)'
<1>1. (Page_at(t)' <=> Page_at(t)) /\ Delivered(t)' = Delivered(t) /\ (Clean(t)' <=> Clean(t))
  <2>1. Page_at(t)' <=> Page_at(t) BY DEF Page_at, Waiting
  <2>2. Delivered(t)' = Delivered(t) BY DEF Delivered, Err
  <2>3. Clean(t)' <=> Clean(t) BY DEF Clean, Err
  <2> QED BY <2>1, <2>2, <2>3
<1>2. OrderInv(t)' BY <1>1 DEF PageInv, OrderInv
<1>3. PrefixInv(t)'
  <2>1. \A k \in 1..Len(seen'[t]) : (\A m \in 1..k : seen'[t][m] # Err) => seen'[t][k] = k
    BY DEF PageInv, PrefixInv
  <2>2. /\ pc'[t] \in {"idle", "executing", "fetching"} => buf'[t] = << >>
        /\ pc'[t] = "idle" => reply'[t] = NoPage
    BY DEF PageInv, PrefixInv
  <2> QED BY <1>1, <2>1, <2>2 DEF PageInv, PrefixInv, Err, NoPage
<1>4. EndInv(t)' BY <1>1 DEF PageInv, EndInv
<1> QED BY <1>2, <1>3, <1>4 DEF PageInv

(* Requests of others leave the closes of t alone, and serving some never  *)
(* brings one.                                                             *)
LEMMA WireCloses ==
  ASSUME TypeOK, NEW t \in Statements,
         \/ wire' = wire
         \/ \E r \in Request : Served(r)
         \/ \E r \in Request : Queued(r) /\ r # Close(t) /\ r # More(t)
         \/ \E r \in Request : Queued(r) /\ NoClose(t) /\ r # Close(t)
  PROVE  /\ NoClose(t) => NoClose(t)'
         /\ OneClose(t) => OneClose(t)'
         /\ NoMoreBehind(t) => NoMoreBehind(t)'
<1>l. Len(wire) \in Nat BY DEF TypeOK
<1> USE DEF NoClose, OneClose, NoMoreBehind
<1>1. CASE wire' = wire BY <1>1 DEF Close, More
<1>2. ASSUME NEW r \in Request, Served(r)
      PROVE  /\ NoClose(t) => NoClose(t)'
             /\ OneClose(t) => OneClose(t)'
             /\ NoMoreBehind(t) => NoMoreBehind(t)'
  <2>1. \A k \in 1..Len(wire') : k + 1 \in 1..Len(wire) /\ wire'[k] = wire[k + 1]
    BY <1>2, <1>l DEF Served
  <2>2. \A j, k \in 1..Len(wire') : (j < k <=> j + 1 < k + 1) /\ (j = k <=> j + 1 = k + 1)
    BY <1>2, <1>l DEF Served
  <2>3. NoClose(t) => NoClose(t)' BY <2>1 DEF Close
  <2>4. OneClose(t) => OneClose(t)'
    <3>1. SUFFICES ASSUME OneClose(t), NEW j \in 1..Len(wire'), NEW k \in 1..Len(wire'),
                          wire'[j] = Close(t), wire'[k] = Close(t)
                   PROVE  j = k
      BY DEF Close
    <3>2. wire[j + 1] = Close(t) /\ wire[k + 1] = Close(t) BY <2>1, <3>1
    <3>3. j + 1 = k + 1 BY <2>1, <3>1, <3>2
    <3> QED BY <2>2, <3>3
  <2>5. NoMoreBehind(t) => NoMoreBehind(t)'
    <3>1. SUFFICES ASSUME NoMoreBehind(t), NEW j \in 1..Len(wire'), NEW k \in 1..Len(wire'),
                          j < k, wire'[j] = Close(t)
                   PROVE  wire'[k] # More(t)
      BY DEF Close, More
    <3>2. wire[j + 1] = Close(t) /\ j + 1 < k + 1 BY <2>1, <2>2, <3>1
    <3>3. wire[k + 1] # More(t) BY <2>1, <3>1, <3>2
    <3> QED BY <2>1, <3>3
  <2> QED BY <2>3, <2>4, <2>5
<1>3. ASSUME NEW r \in Request, Queued(r), r # Close(t), r # More(t) \/ NoClose(t)
      PROVE  /\ NoClose(t) => NoClose(t)'
             /\ OneClose(t) => OneClose(t)'
             /\ NoMoreBehind(t) => NoMoreBehind(t)'
  <2>1. \A k \in 1..Len(wire') : (k \in 1..Len(wire) /\ wire'[k] = wire[k])
                                 \/ (k = Len(wire) + 1 /\ wire'[k] = r)
    BY <1>l, <1>3 DEF Queued
  <2>2. \A k \in 1..Len(wire') : wire'[k] = Close(t) => k \in 1..Len(wire) /\ wire[k] = Close(t)
    BY <1>3, <2>1
  <2>3. NoClose(t) => NoClose(t)' BY <2>2 DEF Close
  <2>4. OneClose(t) => OneClose(t)' BY <2>2 DEF Close
  <2>5. NoMoreBehind(t) => NoMoreBehind(t)' BY <1>3, <2>1, <2>2 DEF Close, More
  <2> QED BY <2>3, <2>4, <2>5
<1> QED BY <1>1, <1>2, <1>3

(* So what holds of the others stays.                                      *)
LEMMA OthersKeep ==
  ASSUME TypeOK, NEW s \in Statements, NEW t \in Statements \ {s}, Same(t), WireOf(s)
  PROVE  /\ FetchInv(t) => FetchInv(t)'
         /\ CloseInv(t) => CloseInv(t)'
         /\ PageInv(t) => PageInv(t)'
<1>1. PageInv(t) => PageInv(t)' BY PagesKept DEF Same
<1>l. Len(wire) \in Nat BY DEF TypeOK
<1>r. \A op \in {"execute", "sqlmore", "sqlclose"} : [op |-> op, of |-> s] \in Request BY DEF Request
<1>2. CloseInv(t) => CloseInv(t)'
  <2>1. \/ wire' = wire
        \/ \E r \in Request : Served(r)
        \/ \E r \in Request : Queued(r) /\ r # Close(t) /\ r # More(t)
    <3>1. \A op \in {"execute", "sqlmore", "sqlclose"} :
            [op |-> op, of |-> s] # Close(t) /\ [op |-> op, of |-> s] # More(t)
      BY DEF Close, More
    <3> QED BY <1>r, <3>1 DEF WireOf
  <2>2. /\ NoClose(t) => NoClose(t)'
        /\ OneClose(t) => OneClose(t)'
        /\ NoMoreBehind(t) => NoMoreBehind(t)'
    BY <2>1, WireCloses
  <2> QED BY <2>2 DEF CloseInv, Same, Owned
<1>3. CASE wire' = wire BY <1>1, <1>2, <1>3 DEF Same, FetchInv
<1>4. ASSUME NEW op \in {"execute", "sqlmore", "sqlclose"}, Queued([op |-> op, of |-> s])
      PROVE  FetchInv(t) => FetchInv(t)'
  <2>1. /\ Len(wire') = Len(wire) + 1 /\ wire'[Len(wire) + 1].of = s
        /\ \A k \in 1..Len(wire) : wire'[k] = wire[k]
    BY <1>4 DEF Queued
  <2>2. ~Fetches(wire'[Len(wire) + 1], t) BY <2>1 DEF Fetches
  <2>3. \A k \in 1..Len(wire') : k \in 1..Len(wire) \/ k = Len(wire) + 1 BY <1>l, <2>1
  <2> QED BY <2>1, <2>2, <2>3 DEF FetchInv, Same, Fetches
<1>5. ASSUME NEW op \in {"execute", "sqlmore", "sqlclose"}, Served([op |-> op, of |-> s])
      PROVE  FetchInv(t) => FetchInv(t)'
  <2>1. \A k \in 1..Len(wire') : k + 1 \in 1..Len(wire) /\ wire'[k] = wire[k + 1]
    BY <1>5, <1>l DEF Served
  <2>2. \A j, k \in 1..Len(wire') : j = k <=> j + 1 = k + 1 BY <1>5, <1>l DEF Served
  <2>3. SUFFICES ASSUME FetchInv(t), NEW k \in 1..Len(wire'), Fetches(wire'[k], t)
                 PROVE  /\ \A m \in 1..Len(wire') : Fetches(wire'[m], t) => k = m
                        /\ pc[t] \in {"executing", "fetching", "dropped", "abandoned"}
                        /\ pc[t] \in {"executing", "fetching"} => reply[t] = NoPage
    BY DEF FetchInv, Same, Fetches, NoPage
  <2>4. k + 1 \in 1..Len(wire) /\ Fetches(wire[k + 1], t) BY <2>1, <2>3
  <2>5. \A m \in 1..Len(wire') : Fetches(wire'[m], t) => k + 1 = m + 1
    BY <2>1, <2>3, <2>4 DEF FetchInv
  <2> QED BY <2>2, <2>3, <2>4, <2>5 DEF FetchInv
<1> QED BY <1>1, <1>2, <1>3, <1>4, <1>5 DEF WireOf

(* One page at a time: s sends a fetch only when none of its fetches is    *)
(* under way.                                                              *)
LEMMA OwnFetch ==
  ASSUME TypeOK, NEW s \in Statements, FetchInv(s),
         \/ Execute(s) \/ Resolve(s) \/ Stream(s) \/ Poll(s) \/ Drop(s) \/ QueueClose(s) \/ Serve(s)
  PROVE  FetchInv(s)'
<1>l. Len(wire) \in Nat BY DEF TypeOK
<1>1. ASSUME NEW op \in {"execute", "sqlmore"}, Sent(s, op), pc[s] \in {"idle", "stream"},
             pc'[s] \in {"executing", "fetching"}
      PROVE  FetchInv(s)'
  <2>1. \A k \in 1..Len(wire) : ~Fetches(wire[k], s) BY <1>1 DEF FetchInv
  <2>2. CASE Queued([op |-> op, of |-> s]) /\ reply' = [reply EXCEPT ![s] = NoPage]
    <3>1. \A k \in 1..Len(wire') : k \in 1..Len(wire) \/ k = Len(wire) + 1 BY <1>l, <2>2 DEF Queued
    <3>2. \A k \in 1..Len(wire') : Fetches(wire'[k], s) => k = Len(wire) + 1
      BY <2>1, <2>2, <3>1 DEF Queued
    <3>3. reply'[s] = NoPage BY <2>2 DEF TypeOK
    <3> QED BY <1>1, <3>2, <3>3 DEF FetchInv, Fetches
  <2>3. CASE wire' = wire BY <2>1, <2>3 DEF FetchInv, Fetches
  <2> QED BY <1>1, <2>2, <2>3 DEF Sent
<1>2. CASE Execute(s)
  <2>1. Sent(s, "execute") BY <1>2, SendSends DEF Execute
  <2> QED BY <1>1, <1>2, <2>1 DEF Execute, TypeOK
<1>3. CASE PollMore(s)
  <2>1. Sent(s, "sqlmore") BY <1>3, SendSends DEF PollMore
  <2> QED BY <1>1, <1>3, <2>1 DEF PollMore, TypeOK
<1>4. CASE Resolve(s) \/ Stream(s) \/ PollRow(s) \/ PollEnd(s) \/ Drop(s)
  <2>1. wire' = wire /\ reply' = reply
    BY <1>4 DEF Resolve, NewRows, ExecuteError, ReceiveRows, ReceiveEnd, ReceiveEmpty, ReceiveError,
                Stream, PollRow, PollEnd, Drop, CancelExecute, DropRows, DropStream
  <2>2. CASE Resolve(s)
    <3>1. pc[s] \in {"executing", "fetching"} /\ reply[s].tag \in {"page", "fail"}
      BY <2>2 DEF Resolve, NewRows, ExecuteError, ReceiveRows, ReceiveEnd, ReceiveEmpty, ReceiveError
    <3>2. reply[s] # NoPage BY <3>1 DEF NoPage
    <3>3. \A k \in 1..Len(wire) : ~Fetches(wire[k], s) BY <3>1, <3>2 DEF FetchInv
    <3> QED BY <2>1, <3>3 DEF FetchInv, Fetches
  <2>3. CASE Stream(s) \/ PollRow(s) \/ PollEnd(s)
    <3>1. pc[s] \in {"rows", "stream"} BY <2>3 DEF Stream, PollRow, PollEnd
    <3>2. \A k \in 1..Len(wire) : ~Fetches(wire[k], s) BY <3>1 DEF FetchInv
    <3> QED BY <2>1, <3>2 DEF FetchInv, Fetches
  <2>4. CASE Drop(s)
    <3>1. pc'[s] \in {"dropped", "abandoned"} BY <2>4 DEF Drop, CancelExecute, DropRows, DropStream, TypeOK
    <3> QED BY <2>1, <3>1 DEF FetchInv, Fetches
  <2> QED BY <1>4, <2>2, <2>3, <2>4
<1>5. CASE QueueClose(s)
  <2>1. wire \in Seq(Request) /\ Close(s) \in Request BY DEF TypeOK, Close, Request
  <2>2. wire' = wire \/ Queued(Close(s)) BY <1>5, <2>1, AppendQueues DEF QueueClose, Close
  <2>3. pc' = pc /\ reply' = reply BY <1>5 DEF QueueClose
  <2>4. CASE wire' = wire BY <2>3, <2>4 DEF FetchInv, Fetches
  <2>5. CASE Queued(Close(s))
    <3>1. \A k \in 1..Len(wire') : k \in 1..Len(wire) \/ k = Len(wire) + 1 BY <1>l, <2>5 DEF Queued
    <3>2. ~Fetches(wire'[Len(wire) + 1], s) BY <2>5 DEF Queued, Fetches, Close
    <3> QED BY <2>3, <2>5, <3>1, <3>2 DEF FetchInv, Fetches, Queued
  <2> QED BY <2>2, <2>4, <2>5
<1>6. CASE Serve(s)
  <2>1. pc' = pc BY <1>6, ServeServes DEF clientVars
  <2>2. ASSUME NEW op \in {"execute", "sqlmore", "sqlclose"}, Served([op |-> op, of |-> s])
        PROVE  /\ \A k \in 1..Len(wire') : k + 1 \in 1..Len(wire) /\ wire'[k] = wire[k + 1]
               /\ 1 \in 1..Len(wire)
               /\ \A j, k \in 1..Len(wire') : (j = k <=> j + 1 = k + 1) /\ j + 1 # 1
    BY <2>2, <1>l DEF Served
  <2>3. ASSUME NEW op \in {"execute", "sqlmore"}, Served([op |-> op, of |-> s]) PROVE FetchInv(s)'
    <3>1. Fetches(wire[1], s) BY <2>3 DEF Served, Fetches
    <3>2. \A k \in 1..Len(wire') : ~Fetches(wire[k + 1], s) BY <2>2, <2>3, <3>1 DEF FetchInv
    <3> QED BY <2>2, <2>3, <3>2 DEF FetchInv, Fetches
  <2>4. CASE Served(Close(s)) /\ reply' = reply
    <3>1. Served([op |-> "sqlclose", of |-> s]) BY <2>4 DEF Close
    <3> QED BY <2>1, <2>2, <2>4, <3>1 DEF FetchInv, Fetches
  <2> QED BY <1>6, <2>3, <2>4, ServeServes
<1> QED BY <1>2, <1>3, <1>4, <1>5, <1>6 DEF Poll

(* The cursor of s is closed once, and by the one that owned it.           *)
LEMMA OwnClose ==
  ASSUME TypeOK, NEW s \in Statements, CloseInv(s),
         \/ Execute(s) \/ Resolve(s) \/ Stream(s) \/ Poll(s) \/ Drop(s) \/ QueueClose(s) \/ Serve(s)
  PROVE  CloseInv(s)'
<1>l. Len(wire) \in Nat BY DEF TypeOK
<1>w. ASSUME \/ wire' = wire
             \/ \E r \in Request : Served(r)
             \/ \E r \in Request : Queued(r) /\ NoClose(s) /\ r # Close(s)
      PROVE  /\ NoClose(s) => NoClose(s)'
             /\ OneClose(s) => OneClose(s)'
             /\ NoMoreBehind(s) => NoMoreBehind(s)'
  BY <1>w, WireCloses
<1>1. ASSUME NEW op \in {"execute", "sqlmore"}, Sent(s, op), NoClose(s)
      PROVE  NoClose(s)' /\ OneClose(s)' /\ NoMoreBehind(s)'
  <2>1. [op |-> op, of |-> s] \in Request /\ [op |-> op, of |-> s] # Close(s) BY DEF Request, Close
  <2> QED BY <1>w, <1>1, <2>1 DEF Sent, CloseInv
<1>2. CASE Execute(s)
  <2>1. Sent(s, "execute") BY <1>2, SendSends DEF Execute
  <2>2. NoClose(s) /\ closing[s] = 0 BY <1>2 DEF Execute, CloseInv
  <2>3. pc'[s] = "executing" /\ closing' = closing BY <1>2 DEF Execute, TypeOK
  <2> QED BY <1>1, <2>1, <2>2, <2>3 DEF CloseInv
<1>3. CASE PollMore(s)
  <2>1. Sent(s, "sqlmore") BY <1>3, SendSends DEF PollMore
  <2>2. NoClose(s) /\ closing[s] = 0 BY <1>3 DEF PollMore, CloseInv, Owned
  <2>3. pc'[s] = "fetching" /\ closing' = closing /\ cursor'[s] /\ ~done'[s] BY <1>3 DEF PollMore, TypeOK
  <2> QED BY <1>1, <2>1, <2>2, <2>3 DEF CloseInv
<1>4. CASE Resolve(s) \/ Stream(s) \/ PollRow(s) \/ PollEnd(s) \/ Drop(s)
  <2>1. wire' = wire
    BY <1>4 DEF Resolve, NewRows, ExecuteError, ReceiveRows, ReceiveEnd, ReceiveEmpty, ReceiveError,
                Stream, PollRow, PollEnd, Drop, CancelExecute, DropRows, DropStream
  <2>w. (NoClose(s) => NoClose(s)') /\ OneClose(s)' /\ NoMoreBehind(s)' BY <1>w, <2>1 DEF CloseInv
  <2> USE DEF TypeOK, CloseInv, Owned
  <2>2. CASE NewRows(s) BY <2>2, <2>w DEF NewRows, Reply, NoPage, Fail
  <2>3. CASE ExecuteError(s) BY <2>3, <2>w DEF ExecuteError
  <2>4. CASE ReceiveRows(s) BY <2>4, <2>w DEF ReceiveRows
  <2>5. CASE ReceiveEnd(s) BY <2>5, <2>w DEF ReceiveEnd
  <2>6. CASE ReceiveEmpty(s)
    <3>1. NoClose(s) /\ closing[s] = 0 BY <2>6 DEF ReceiveEmpty
    <3>2. pc'[s] = "stream" /\ ~cursor'[s] BY <2>6 DEF ReceiveEmpty
    <3> QED BY <2>w, <3>1, <3>2
  <2>7. CASE ReceiveError(s) BY <2>7, <2>w DEF ReceiveError
  <2>8. CASE Stream(s) \/ PollRow(s) \/ PollEnd(s) BY <2>8, <2>w DEF Stream, PollRow, PollEnd
  <2>9. CASE CancelExecute(s) BY <2>9, <2>w DEF CancelExecute
  <2>10. CASE DropRows(s)
    <3>1. pc'[s] = "dropped" /\ ~cursor'[s] BY <2>10 DEF DropRows
    <3>2. NoClose(s) \/ closing'[s] = closing[s] BY <2>10 DEF DropRows
    <3> QED BY <2>w, <3>1, <3>2
  <2>11. CASE DropStream(s)
    <3>1. pc'[s] = "dropped" /\ ~cursor'[s] BY <2>11 DEF DropStream
    <3>2. NoClose(s) \/ closing'[s] = closing[s] BY <2>11 DEF DropStream
    <3> QED BY <2>w, <3>1, <3>2
  <2> QED BY <1>4, <2>2, <2>3, <2>4, <2>5, <2>6, <2>7, <2>8, <2>9, <2>10, <2>11 DEF Resolve, Drop
<1>5. CASE QueueClose(s)
  <2>1. wire \in Seq(Request) /\ Close(s) \in Request BY DEF TypeOK, Close, Request
  <2>2. wire' = wire \/ Queued(Close(s)) BY <1>5, <2>1, AppendQueues DEF QueueClose, Close
  <2>3. NoClose(s) /\ closing[s] = 1 /\ ~(pc[s] \in {"idle", "executing"} \/ Owned(s))
    BY <1>5 DEF QueueClose, CloseInv, TypeOK
  <2>4. closing'[s] = 0 /\ UNCHANGED <<pc, done, cursor>> BY <1>5, <2>3 DEF QueueClose, TypeOK
  <2>5. OneClose(s)' /\ NoMoreBehind(s)'
    <3>1. CASE wire' = wire BY <1>w, <3>1 DEF CloseInv
    <3>2. CASE Queued(Close(s))
      <4>1. \A k \in 1..Len(wire') : wire'[k] = Close(s) => k = Len(wire) + 1
        BY <1>l, <2>3, <3>2 DEF Queued, NoClose
      <4>2. OneClose(s)' BY <4>1 DEF OneClose, Close
      <4>3. \A k \in 1..Len(wire') : ~(Len(wire) + 1 < k) BY <1>l, <3>2 DEF Queued
      <4>4. NoMoreBehind(s)' BY <4>1, <4>3 DEF NoMoreBehind, Close, More
      <4> QED BY <4>2, <4>4
    <3> QED BY <2>2, <3>1, <3>2
  <2> QED BY <2>3, <2>4, <2>5 DEF CloseInv, Owned
<1>6. CASE Serve(s)
  <2>1. UNCHANGED <<pc, done, cursor, closing>> BY <1>6, ServeServes DEF clientVars
  <2>2. \E r \in Request : Served(r)
    <3>1. \A op \in {"execute", "sqlmore", "sqlclose"} : [op |-> op, of |-> s] \in Request BY DEF Request
    <3> QED BY <1>6, <3>1, ServeServes DEF Close
  <2> QED BY <1>w, <2>1, <2>2 DEF CloseInv, Owned
<1> QED BY <1>2, <1>3, <1>4, <1>5, <1>6 DEF Poll
-----------------------------------------------------------------------------
(* The sequences of s as functions of a position.                          *)
Yielded(s, x) ==
  /\ Len(seen'[s]) = Len(seen[s]) + 1 /\ seen'[s][Len(seen[s]) + 1] = x
  /\ \A k \in 1..Len(seen[s]) : seen'[s][k] = seen[s][k]
  /\ \A k \in 1..Len(seen'[s]) : k \in 1..Len(seen[s]) \/ k = Len(seen[s]) + 1

Rest(q, p) ==
  /\ Len(q) = Len(p) - 1
  /\ \A k \in 1..Len(q) : k + 1 \in 2..Len(p) /\ q[k] = p[k + 1]

(* What is yielded comes after what was yielded before.                    *)
LEMMA YieldAppends ==
  ASSUME TypeOK, NEW s \in Statements, NEW x \in 0..RowCount[s], Yield(s, x)
  PROVE  Yielded(s, x)
<1>1. RowCount[s] \in Nat /\ seen[s] \in Seq(0..RowCount[s]) /\ seen \in [Statements -> Seq(Nat)]
  BY RowsAssumption DEF TypeOK
<1>2. seen'[s] = Append(seen[s], x) BY <1>1 DEF Yield
<1>3. Len(seen[s]) \in Nat BY <1>1
<1>4. Len(seen'[s]) = Len(seen[s]) + 1 BY <1>1, <1>2
<1>5. seen'[s][Len(seen[s]) + 1] = x BY <1>1, <1>2
<1>6. \A k \in 1..Len(seen[s]) : seen'[s][k] = seen[s][k] BY <1>1, <1>2
<1> QED BY <1>3, <1>4, <1>5, <1>6 DEF Yielded

(* The first row of a page, and the rest.                                  *)
LEMMA HeadAndRest ==
  ASSUME NEW n \in Nat, NEW p \in Seq(1..n), p # << >>
  PROVE  Len(p) \in Nat \ {0} /\ Head(p) = p[1] /\ p[1] \in 1..n /\ Rest(Tail(p), p)
<1>1. Len(p) \in Nat /\ Len(p) # 0 OBVIOUS
<1>2. Len(Tail(p)) = Len(p) - 1 BY <1>1
<1>3. \A k \in 1..(Len(p) - 1) : Tail(p)[k] = p[k + 1] BY <1>1
<1>4. \A k \in 1..(Len(p) - 1) : k + 1 \in 2..Len(p) BY <1>1
<1>5. Head(p) = p[1] /\ p[1] \in 1..n BY <1>1
<1> QED BY <1>1, <1>2, <1>3, <1>4, <1>5 DEF Rest

(* Yielding the first row of p, which follow those seen, keeps the rows    *)
(* seen in order, and the rest of p behind them.                           *)
LEMMA YieldFirst ==
  ASSUME TypeOK, NEW s \in Statements, NEW p \in Seq(1..RowCount[s]), p # << >>,
         Yield(s, p[1]), buf'[s] = Tail(p), server'[s].next = server[s].next,
         pc'[s] = "stream", OrderInv(s),
         \A k \in 1..Len(p) : /\ p[k] < server[s].next
                              /\ \A m \in 1..Len(seen[s]) : seen[s][m] < p[k]
                              /\ \A m \in 1..Len(p) : k < m => p[k] < p[m]
  PROVE  OrderInv(s)'
<1>1. RowCount[s] \in Nat /\ server[s].next \in Nat BY RowsAssumption DEF TypeOK
<1>2. Len(p) \in Nat \ {0} /\ p[1] \in 1..RowCount[s] /\ Rest(Tail(p), p) BY <1>1, HeadAndRest
<1>3. Yielded(s, p[1])
  <2>1. p[1] \in 0..RowCount[s] BY <1>1, <1>2
  <2> QED BY <2>1, YieldAppends
<1>4. Len(seen[s]) \in Nat /\ \A k \in 1..Len(seen[s]) : seen[s][k] \in Nat BY DEF TypeOK
<1>5. \A k \in 1..Len(p) : p[k] \in Nat BY <1>1
<1>6. 1 \in 1..Len(p) /\ \A m \in 1..Len(seen[s]) : seen[s][m] < p[1] BY <1>2
<1>7. \A j, k \in Delivered(s)' : j < k => seen'[s][j] < seen'[s][k]
  <2>1. SUFFICES ASSUME NEW j \in 1..Len(seen'[s]), NEW k \in 1..Len(seen'[s]),
                        seen'[s][j] # Err, seen'[s][k] # Err, j < k
                 PROVE  seen'[s][j] < seen'[s][k]
    BY DEF Delivered, Err
  <2>2. j \in 1..Len(seen[s]) BY <1>3, <1>4, <2>1 DEF Yielded
  <2>3. CASE k \in 1..Len(seen[s])
    <3>1. j \in Delivered(s) /\ k \in Delivered(s) BY <1>3, <2>1, <2>2, <2>3 DEF Delivered, Yielded
    <3>2. seen[s][j] < seen[s][k] BY <2>1, <3>1 DEF OrderInv
    <3> QED BY <1>3, <2>2, <2>3, <3>2 DEF Yielded
  <2>4. CASE k = Len(seen[s]) + 1 BY <1>3, <1>6, <2>2, <2>4 DEF Yielded
  <2> QED BY <1>3, <2>3, <2>4 DEF Yielded
<1>8. \A k \in 1..Len(seen'[s]) : seen'[s][k] < server'[s].next
  BY <1>3, <1>6 DEF Yielded, OrderInv
<1>9. \A k \in 1..Len(buf'[s]) : k + 1 \in 1..Len(p) /\ buf'[s][k] = p[k + 1] /\ 1 < k + 1
  BY <1>2 DEF Rest
<1>10. \A k \in 1..Len(buf'[s]) : buf'[s][k] < server'[s].next BY <1>9
<1>11. \A k \in 1..Len(buf'[s]) : \A m \in 1..Len(seen'[s]) : seen'[s][m] < buf'[s][k]
  <2>1. \A k \in 1..Len(buf'[s]) : p[1] < p[k + 1] BY <1>6, <1>9
  <2>2. \A k \in 1..Len(buf'[s]) : \A m \in 1..Len(seen[s]) : seen[s][m] < p[k + 1] BY <1>9
  <2> QED BY <1>3, <1>9, <2>1, <2>2 DEF Yielded
<1>12. \A k \in 1..Len(buf'[s]) : \A m \in 1..Len(buf'[s]) : k < m => buf'[s][k] < buf'[s][m]
  <2>1. \A k, m \in 1..Len(buf'[s]) : k < m => k + 1 < m + 1 BY <1>2 DEF Rest
  <2> QED BY <1>9, <2>1
<1>13. ~Page_at(s)' BY DEF Page_at, Waiting
<1> QED BY <1>7, <1>8, <1>10, <1>11, <1>12, <1>13 DEF OrderInv

(* And keeps them gapless, if they were.                                   *)
LEMMA YieldNext ==
  ASSUME TypeOK, NEW s \in Statements, NEW p \in Seq(1..RowCount[s]), p # << >>,
         Yield(s, p[1]), buf'[s] = Tail(p), server'[s].next = server[s].next,
         pc'[s] = "stream", PrefixInv(s),
         Clean(s) => /\ \A k \in 1..Len(p) : p[k] = Len(seen[s]) + k
                     /\ server[s].next = Len(seen[s]) + Len(p) + 1
  PROVE  PrefixInv(s)' /\ (Clean(s)' => Clean(s))
<1>1. RowCount[s] \in Nat /\ server[s].next \in Nat BY RowsAssumption DEF TypeOK
<1>2. Len(p) \in Nat \ {0} /\ p[1] \in 1..RowCount[s] /\ Rest(Tail(p), p) BY <1>1, HeadAndRest
<1>3. Yielded(s, p[1])
  <2>1. p[1] \in 0..RowCount[s] BY <1>1, <1>2
  <2> QED BY <2>1, YieldAppends
<1>4. Len(seen[s]) \in Nat BY DEF TypeOK
<1>5. Clean(s)' => Clean(s)
  <2>1. \A k \in 1..Len(seen[s]) : k \in 1..Len(seen'[s]) BY <1>3, <1>4 DEF Yielded
  <2> QED BY <1>3, <2>1 DEF Clean, Err, Yielded
<1>6. ASSUME NEW k \in 1..Len(seen'[s]), \A m \in 1..k : seen'[s][m] # Err
      PROVE  seen'[s][k] = k
  <2>1. CASE k \in 1..Len(seen[s])
    <3>1. \A m \in 1..k : m \in 1..Len(seen[s]) BY <1>4, <2>1
    <3>2. \A m \in 1..k : seen[s][m] # Err BY <1>3, <1>6, <3>1 DEF Yielded
    <3>3. seen[s][k] = k BY <2>1, <3>2 DEF PrefixInv
    <3> QED BY <1>3, <2>1, <3>3 DEF Yielded
  <2>2. CASE k = Len(seen[s]) + 1
    <3>1. \A m \in 1..Len(seen[s]) : m \in 1..k BY <1>4, <2>2
    <3>2. Clean(s) BY <1>3, <1>6, <3>1 DEF Clean, Yielded
    <3>3. p[1] = Len(seen[s]) + 1 BY <1>2, <3>2
    <3> QED BY <1>3, <2>2, <3>3 DEF Yielded
  <2> QED BY <1>3, <1>6, <2>1, <2>2 DEF Yielded
<1>7. ASSUME Clean(s)
      PROVE  /\ \A k \in 1..Len(buf'[s]) : buf'[s][k] = Len(seen'[s]) + k
             /\ server'[s].next = Len(seen'[s]) + Len(buf'[s]) + 1
  <2>1. \A k \in 1..Len(buf'[s]) : k + 1 \in 1..Len(p) /\ buf'[s][k] = p[k + 1] BY <1>2 DEF Rest
  <2>2. \A k \in 1..Len(buf'[s]) : buf'[s][k] = Len(seen[s]) + (k + 1) BY <1>7, <2>1
  <2>3. \A k \in 1..Len(buf'[s]) : Len(seen[s]) + (k + 1) = Len(seen'[s]) + k
    <3>1. Len(buf'[s]) \in Nat /\ Len(seen'[s]) = Len(seen[s]) + 1 BY <1>2, <1>3 DEF Yielded, Rest
    <3>2. \A n \in Nat, k \in Int : n + (k + 1) = (n + 1) + k OBVIOUS
    <3>3. \A k \in 1..Len(buf'[s]) : k \in Int BY <3>1
    <3> QED BY <1>4, <3>1, <3>2, <3>3
  <2>4. server'[s].next = Len(seen'[s]) + Len(buf'[s]) + 1 BY <1>2, <1>3, <1>4, <1>7 DEF Yielded, Rest
  <2> QED BY <2>2, <2>3, <2>4
<1>8. ~Page_at(s)' BY DEF Page_at, Waiting
<1>9. \A k \in 1..Len(seen'[s]) : (\A m \in 1..k : seen'[s][m] # Err) => seen'[s][k] = k BY <1>6
<1>10. PrefixInv(s)' BY <1>5, <1>7, <1>8, <1>9 DEF PrefixInv, Err
<1> QED BY <1>5, <1>10

(* An Err breaks no order, and after it there is nothing left to promise.  *)
LEMMA YieldErr ==
  ASSUME TypeOK, NEW s \in Statements, PageInv(s), pc[s] = "fetching", pc'[s] = "stream",
         Yield(s, Err), buf'[s] = buf[s], server'[s].next = server[s].next
  PROVE  PageInv(s)'
<1>1. RowCount[s] \in Nat /\ server[s].next \in 1..(RowCount[s] + 1) /\ buf[s] = << >>
  <2>1. RowCount[s] \in Nat /\ server[s].next \in 1..(RowCount[s] + 1) BY RowsAssumption DEF TypeOK
  <2>2. buf[s] = << >> BY DEF PageInv, PrefixInv
  <2> QED BY <2>1, <2>2
<1>2. Yielded(s, Err)
  <2>1. Err \in 0..RowCount[s] BY <1>1 DEF Err
  <2> QED BY <2>1, YieldAppends
<1>3. Len(seen[s]) \in Nat BY DEF TypeOK
<1>4. Len(seen[s]) + 1 \in 1..Len(seen'[s]) BY <1>2, <1>3 DEF Yielded
<1>5. ~Clean(s)' BY <1>2, <1>4 DEF Clean, Yielded, Err
<1>6. EndInv(s)' BY <1>5 DEF EndInv
<1>7. ~Page_at(s)' BY DEF Page_at, Waiting
<1>8. \A k \in 1..Len(seen'[s]) : (\A m \in 1..k : seen'[s][m] # Err) => seen'[s][k] = k
  <2>1. SUFFICES ASSUME NEW k \in 1..Len(seen'[s]), \A m \in 1..k : seen'[s][m] # Err
                 PROVE  seen'[s][k] = k
    OBVIOUS
  <2>2. k \in 1..k BY <2>1, <1>2, <1>3 DEF Yielded
  <2>3. k \in 1..Len(seen[s]) BY <1>2, <2>1, <2>2 DEF Yielded
  <2>4. \A m \in 1..k : m \in 1..Len(seen[s]) BY <1>3, <2>3
  <2>5. \A m \in 1..k : seen[s][m] # Err BY <1>2, <2>1, <2>4 DEF Yielded
  <2> QED BY <1>2, <2>3, <2>5 DEF Yielded, PageInv, PrefixInv
<1>9. PrefixInv(s)' BY <1>1, <1>5, <1>8 DEF PrefixInv, Err
<1>10. \A k \in 1..Len(seen'[s]) : seen'[s][k] < server'[s].next
  BY <1>1, <1>2 DEF Yielded, Err, PageInv, OrderInv
<1>11. \A j, k \in Delivered(s)' : j < k => seen'[s][j] < seen'[s][k]
  <2>1. Delivered(s)' \subseteq Delivered(s) BY <1>2 DEF Delivered, Yielded, Err
  <2>2. \A k \in Delivered(s)' : seen'[s][k] = seen[s][k] BY <1>2, <2>1 DEF Delivered, Yielded
  <2> QED BY <2>1, <2>2 DEF PageInv, OrderInv
<1>12. OrderInv(s)' BY <1>1, <1>7, <1>10, <1>11 DEF OrderInv
<1> QED BY <1>6, <1>9, <1>12 DEF PageInv

(* A step that yields nothing keeps the order of what is seen and at hand, *)
(* whatever the daemon has sent meanwhile.                                 *)
LEMMA QuietOrder ==
  ASSUME TypeOK, TypeOK', NEW s \in Statements, OrderInv(s), seen'[s] = seen[s], buf'[s] = buf[s],
         server[s].next <= server'[s].next, ~Page_at(s)'
  PROVE  OrderInv(s)'
<1>1. server[s].next \in Nat /\ server'[s].next \in Nat BY DEF TypeOK
<1>2. /\ \A k \in 1..Len(seen[s]) : seen[s][k] \in Nat
      /\ \A k \in 1..Len(buf[s]) : buf[s][k] \in Nat
  BY DEF TypeOK
<1>3. /\ \A k \in 1..Len(seen[s]) : seen[s][k] < server'[s].next
      /\ \A k \in 1..Len(buf[s]) : buf[s][k] < server'[s].next
  BY <1>1, <1>2 DEF OrderInv
<1> QED BY <1>3 DEF OrderInv, Delivered, Err

(* A caller's step keeps the rows in order and complete.                   *)
LEMMA CallerPages ==
  ASSUME TypeOK, TypeOK', NEW s \in Statements, PageInv(s), CloseInv(s),
         Execute(s) \/ Resolve(s) \/ Stream(s) \/ Poll(s) \/ Drop(s)
  PROVE  PageInv(s)'
<1>n. server[s].next \in Nat /\ server[s].next <= server[s].next BY DEF TypeOK
<1>i. OrderInv(s) /\ PrefixInv(s) /\ EndInv(s) BY DEF PageInv
<1>c. RowCount[s] \in Nat /\ Len(seen[s]) \in Nat BY RowsAssumption DEF TypeOK
<1>1. ASSUME NEW op \in {"execute", "sqlmore"}, Sent(s, op), UNCHANGED <<buf, done, cursor, seen, server>>,
             buf[s] = << >>, Clean(s) => server[s].next = Len(seen[s]) + 1,
             pc'[s] \in {"executing", "fetching"}
      PROVE  PageInv(s)'
  <2>1. reply'[s] = NoPage \/ (reply'[s] = Fail /\ reply'[s] # NoPage)
    BY <1>1 DEF Sent, TypeOK, NoPage, Fail
  <2>2. ~Page_at(s)' BY <2>1 DEF Page_at, NoPage, Fail
  <2>3. OrderInv(s)' BY <1>1, <1>i, <1>n, <2>2, QuietOrder
  <2>4. PrefixInv(s)' BY <1>1, <1>i, <2>2 DEF PrefixInv, Clean, Err
  <2>5. EndInv(s)' BY <1>1, <2>2 DEF EndInv
  <2> QED BY <2>3, <2>4, <2>5 DEF PageInv
<1>2. CASE Execute(s)
  <2>1. Sent(s, "execute") BY <1>2, SendSends DEF Execute
  <2>2. pc[s] = "idle" /\ UNCHANGED <<buf, done, cursor, seen, server>> BY <1>2 DEF Execute
  <2>3. pc'[s] = "executing" BY <1>2 DEF Execute, TypeOK
  <2>4. buf[s] = << >> /\ (Clean(s) => server[s].next = Len(seen[s]) + 1) BY <1>i, <2>2 DEF PrefixInv
  <2> QED BY <1>1, <2>1, <2>2, <2>3, <2>4
<1>3. CASE PollMore(s)
  <2>1. Sent(s, "sqlmore") BY <1>3, SendSends DEF PollMore
  <2>2. pc[s] = "stream" /\ buf[s] = << >> /\ UNCHANGED <<buf, done, cursor, seen, server>>
    BY <1>3 DEF PollMore
  <2>3. pc'[s] = "fetching" BY <1>3 DEF PollMore, TypeOK
  <2>4. Clean(s) => server[s].next = Len(seen[s]) + 1
    <3>1. Clean(s) => server[s].next = Len(seen[s]) + Len(buf[s]) + 1 BY <1>i, <2>2 DEF PrefixInv
    <3> QED BY <1>c, <2>2, <3>1
  <2> QED BY <1>1, <2>1, <2>2, <2>3, <2>4
<1>4. CASE NewRows(s)
  <2>1. /\ pc[s] = "executing" /\ reply[s].tag = "page" /\ UNCHANGED <<seen, reply, server>>
        /\ pc'[s] = "rows" /\ buf'[s] = reply[s].rows /\ done'[s] = reply[s].is_done
        /\ cursor'[s] = ~reply[s].is_done
    BY <1>4 DEF NewRows, TypeOK
  <2>2. Page_at(s) /\ ~Page_at(s)' BY <2>1 DEF Page_at, Waiting
  <2>3. OrderInv(s)' BY <1>i, <2>1, <2>2 DEF OrderInv, Delivered, Err
  <2>4. PrefixInv(s)' BY <1>i, <2>1, <2>2 DEF PrefixInv, Clean, Err
  <2>5. EndInv(s)'
    <3>1. done'[s] \/ ~cursor'[s] => reply[s].is_done BY <2>1
    <3> QED BY <1>i, <2>1, <2>2, <3>1 DEF EndInv, Clean, Err
  <2> QED BY <2>3, <2>4, <2>5 DEF PageInv
<1>5. CASE ExecuteError(s) \/ Drop(s)
  <2>1. UNCHANGED <<buf, seen, server>> /\ pc'[s] \in {"abandoned", "dropped"}
    BY <1>5 DEF ExecuteError, Drop, CancelExecute, DropRows, DropStream, TypeOK
  <2>2. ~Page_at(s)' BY <2>1 DEF Page_at, Waiting
  <2>3. OrderInv(s)' BY <1>i, <1>n, <2>1, <2>2, QuietOrder
  <2>4. PrefixInv(s)' BY <1>i, <2>1, <2>2 DEF PrefixInv, Clean, Err
  <2>5. EndInv(s)' BY <2>1, <2>2 DEF EndInv
  <2> QED BY <2>3, <2>4, <2>5 DEF PageInv
<1>6. CASE ReceiveRows(s)
  <2>1. /\ pc[s] = "fetching" /\ reply[s].tag = "page" /\ reply[s].rows # << >>
        /\ Yield(s, Head(reply[s].rows)) /\ UNCHANGED <<cursor, reply, server>>
        /\ pc'[s] = "stream" /\ buf'[s] = Tail(reply[s].rows) /\ done'[s] = reply[s].is_done
    BY <1>6 DEF ReceiveRows, TypeOK
  <2>2. reply[s].rows \in Seq(1..RowCount[s]) BY <2>1 DEF TypeOK
  <2>3. Yield(s, reply[s].rows[1])
    <3>1. Head(reply[s].rows) = reply[s].rows[1] BY <1>c, <2>1, <2>2, HeadAndRest
    <3> QED BY <2>1, <3>1
  <2>4. Page_at(s) /\ ~Page_at(s)' BY <2>1 DEF Page_at, Waiting
  <2>5. \A k \in 1..Len(reply[s].rows) :
          /\ reply[s].rows[k] < server[s].next
          /\ \A m \in 1..Len(seen[s]) : seen[s][m] < reply[s].rows[k]
          /\ \A m \in 1..Len(reply[s].rows) : k < m => reply[s].rows[k] < reply[s].rows[m]
    BY <1>i, <2>4 DEF OrderInv
  <2>6. OrderInv(s)' BY <1>i, <2>1, <2>2, <2>3, <2>5, YieldFirst
  <2>7. Clean(s) => /\ \A k \in 1..Len(reply[s].rows) : reply[s].rows[k] = Len(seen[s]) + k
                    /\ server[s].next = Len(seen[s]) + Len(reply[s].rows) + 1
    BY <1>i, <2>4 DEF PrefixInv
  <2>8. PrefixInv(s)' /\ (Clean(s)' => Clean(s)) BY <1>i, <2>1, <2>2, <2>3, <2>7, YieldNext
  <2>9. EndInv(s)'
    <3>1. cursor[s] BY <2>1 DEF CloseInv
    <3>2. done'[s] \/ ~cursor'[s] => reply[s].is_done BY <2>1, <3>1
    <3> QED BY <1>i, <2>1, <2>4, <2>8, <3>2 DEF EndInv
  <2> QED BY <2>6, <2>8, <2>9 DEF PageInv
<1>7. CASE ReceiveEnd(s)
  <2>1. /\ pc[s] = "fetching" /\ reply[s].tag = "page" /\ reply[s].rows = << >> /\ reply[s].is_done
        /\ pc'[s] = "ended" /\ UNCHANGED <<buf, seen, server>>
    BY <1>7 DEF ReceiveEnd, TypeOK
  <2>2. Page_at(s) /\ ~Page_at(s)' BY <2>1 DEF Page_at, Waiting
  <2>3. OrderInv(s)' BY <1>i, <1>n, <2>1, <2>2, QuietOrder
  <2>4. PrefixInv(s)' BY <1>i, <2>1, <2>2 DEF PrefixInv, Clean, Err
  <2>5. Clean(s) /\ s \notin FailedPages => Len(seen[s]) = RowCount[s]
    <3>1. Clean(s) => server[s].next = Len(seen[s]) + Len(reply[s].rows) + 1 BY <1>i, <2>2 DEF PrefixInv
    <3>2. Clean(s) /\ s \notin FailedPages => server[s].next = RowCount[s] + 1
      BY <1>i, <2>1, <2>2 DEF EndInv
    <3> QED BY <1>c, <2>1, <3>1, <3>2
  <2>6. EndInv(s)' BY <2>1, <2>2, <2>5 DEF EndInv, Clean, Err
  <2> QED BY <2>3, <2>4, <2>6 DEF PageInv
<1>8. CASE ReceiveEmpty(s) \/ ReceiveError(s)
  <2>1. pc[s] = "fetching" /\ pc'[s] = "stream" /\ Yield(s, Err) /\ UNCHANGED <<buf, server>>
    BY <1>8 DEF ReceiveEmpty, ReceiveError, TypeOK
  <2> QED BY <2>1, YieldErr
<1>9. CASE Stream(s)
  <2>1. /\ pc[s] = "rows" /\ pc'[s] = "stream"
        /\ UNCHANGED <<buf, done, cursor, seen, server>>
    BY <1>9 DEF Stream, TypeOK
  <2>2. ~Page_at(s)' BY <2>1 DEF Page_at, Waiting
  <2>3. OrderInv(s)' BY <1>i, <1>n, <2>1, <2>2, QuietOrder
  <2>4. PrefixInv(s)' BY <1>i, <2>1, <2>2 DEF PrefixInv, Clean, Err
  <2>5. EndInv(s)' BY <1>i, <2>1, <2>2 DEF EndInv, Clean, Err
  <2> QED BY <2>3, <2>4, <2>5 DEF PageInv
<1>10. CASE PollRow(s)
  <2>1. /\ pc[s] = "stream" /\ pc'[s] = "stream" /\ buf[s] # << >> /\ Yield(s, Head(buf[s]))
        /\ buf'[s] = Tail(buf[s]) /\ UNCHANGED <<done, cursor, server>>
    BY <1>10 DEF PollRow, TypeOK
  <2>2. buf[s] \in Seq(1..RowCount[s]) BY DEF TypeOK
  <2>3. Yield(s, buf[s][1])
    <3>1. Head(buf[s]) = buf[s][1] BY <1>c, <2>1, <2>2, HeadAndRest
    <3> QED BY <2>1, <3>1
  <2>4. OrderInv(s)' BY <1>i, <2>1, <2>2, <2>3, YieldFirst DEF OrderInv
  <2>5. PrefixInv(s)' /\ (Clean(s)' => Clean(s))
    <3>1. Clean(s) => /\ \A k \in 1..Len(buf[s]) : buf[s][k] = Len(seen[s]) + k
                      /\ server[s].next = Len(seen[s]) + Len(buf[s]) + 1
      BY <1>i, <2>1 DEF PrefixInv
    <3> QED BY <1>i, <2>1, <2>2, <2>3, <3>1, YieldNext
  <2>6. ~Page_at(s)' BY <2>1 DEF Page_at, Waiting
  <2>7. EndInv(s)' BY <1>i, <2>1, <2>5, <2>6 DEF EndInv
  <2> QED BY <2>4, <2>5, <2>7 DEF PageInv
<1>11. CASE PollEnd(s)
  <2>1. /\ pc[s] = "stream" /\ buf[s] = << >> /\ (done[s] \/ ~cursor[s])
        /\ pc'[s] = "ended" /\ UNCHANGED <<buf, seen, server>>
    BY <1>11 DEF PollEnd, TypeOK
  <2>2. ~Page_at(s)' BY <2>1 DEF Page_at, Waiting
  <2>3. OrderInv(s)' BY <1>i, <1>n, <2>1, <2>2, QuietOrder
  <2>4. PrefixInv(s)' BY <1>i, <2>1, <2>2 DEF PrefixInv, Clean, Err
  <2>5. Clean(s) /\ s \notin FailedPages => Len(seen[s]) = RowCount[s]
    <3>1. Clean(s) => server[s].next = Len(seen[s]) + Len(buf[s]) + 1 BY <1>i, <2>1 DEF PrefixInv
    <3>2. Clean(s) /\ s \notin FailedPages => server[s].next = RowCount[s] + 1 BY <1>i, <2>1 DEF EndInv
    <3> QED BY <1>c, <2>1, <3>1, <3>2
  <2>6. EndInv(s)' BY <2>1, <2>2, <2>5 DEF EndInv, Clean, Err
  <2> QED BY <2>3, <2>4, <2>6 DEF PageInv
<1> QED BY <1>2, <1>3, <1>4, <1>5, <1>6, <1>7, <1>8, <1>9, <1>10, <1>11 DEF Resolve, Poll

(* The answer to a fetch continues what the owner has seen, if there is    *)
(* still an owner waiting.                                                 *)
LEMMA AnswerPages ==
  ASSUME TypeOK, TypeOK', NEW s \in Statements, PageInv(s), FetchInv(s),
         UNCHANGED <<pc, buf, done, cursor, seen>>, Answered(s),
         NEW op \in {"execute", "sqlmore"}, Served([op |-> op, of |-> s])
  PROVE  PageInv(s)'
<1>i. OrderInv(s) /\ PrefixInv(s) /\ EndInv(s) BY DEF PageInv
<1>c. /\ RowCount[s] \in Nat /\ Len(seen[s]) \in Nat /\ server[s].next \in Nat \ {0}
      /\ \A k \in 1..Len(seen[s]) : seen[s][k] \in Nat
  BY RowsAssumption DEF TypeOK
<1>f. pc[s] \in {"executing", "fetching", "dropped", "abandoned"} /\ (Waiting(s) => reply[s] = NoPage)
  <2>1. Len(wire) \in Nat BY DEF TypeOK
  <2>2. 1 \in 1..Len(wire) /\ Fetches(wire[1], s) BY <2>1 DEF Served, Fetches
  <2> QED BY <2>2 DEF FetchInv, Waiting
<1>w. Waiting(s) => buf[s] = << >> /\ (Clean(s) => server[s].next = Len(seen[s]) + 1)
  BY <1>i, <1>f DEF PrefixInv, Waiting
<1>1. ASSUME server[s].next <= server'[s].next, ~Waiting(s) \/ reply'[s] = Fail PROVE PageInv(s)'
  <2>1. ~Page_at(s)' /\ (Waiting(s) => reply'[s] # NoPage)
    BY <1>1 DEF Page_at, Waiting, Fail, NoPage
  <2>2. OrderInv(s)' BY <1>1, <1>i, <2>1, QuietOrder
  <2>3. PrefixInv(s)' BY <1>i, <1>f, <1>w, <2>1 DEF PrefixInv, Waiting, Clean, Err
  <2>4. EndInv(s)' BY <1>f, <2>1 DEF EndInv
  <2> QED BY <2>2, <2>3, <2>4 DEF PageInv
<1>2. ASSUME NEW rows \in Seq(1..RowCount[s]), NEW isDone \in BOOLEAN, Waiting(s),
             reply' = [reply EXCEPT ![s] = Page(rows, isDone)],
             server'[s].next = server[s].next + Len(rows),
             \A k \in 1..Len(rows) : rows[k] = server[s].next + k - 1,
             isDone /\ s \notin FailedPages => server'[s].next = RowCount[s] + 1
      PROVE  PageInv(s)'
  <2>1. reply'[s] = Page(rows, isDone) BY <1>2 DEF TypeOK
  <2>2. reply'[s].tag = "page" /\ reply'[s].rows = rows /\ reply'[s].is_done = isDone /\ reply'[s] # NoPage
    BY <2>1 DEF Page, NoPage
  <2>3. Len(rows) \in Nat OBVIOUS
  <2>4. \A k \in 1..Len(rows) : rows[k] < server'[s].next
    <3>1. \A a, l \in Nat : \A k \in 1..l : a + k - 1 < a + l OBVIOUS
    <3> QED BY <1>2, <1>c, <2>3, <3>1
  <2>5. \A k \in 1..Len(rows) : \A m \in 1..Len(seen[s]) : seen[s][m] < rows[k]
    <3>1. \A m \in 1..Len(seen[s]) : seen[s][m] < server[s].next BY <1>i DEF OrderInv
    <3>2. \A k \in 1..Len(rows) : server[s].next <= rows[k] /\ rows[k] \in Nat BY <1>2, <1>c, <2>3
    <3>3. \A a, b, c \in Nat : a < b /\ b <= c => a < c OBVIOUS
    <3> QED BY <1>c, <3>1, <3>2, <3>3
  <2>6. \A k, m \in 1..Len(rows) : k < m => rows[k] < rows[m]
    <3>1. \A a, l \in Nat : \A k, m \in 1..l : k < m => a + k - 1 < a + m - 1 OBVIOUS
    <3> QED BY <1>2, <1>c, <2>3, <3>1
  <2>7. \A m \in 1..Len(seen[s]) : seen[s][m] < server'[s].next
    <3>1. \A m \in 1..Len(seen[s]) : seen[s][m] < server[s].next BY <1>i DEF OrderInv
    <3> QED BY <1>2, <1>c, <2>3, <3>1
  <2>8. OrderInv(s)'
    <3>1. \A j, k \in Delivered(s)' : j < k => seen'[s][j] < seen'[s][k]
      BY <1>i DEF OrderInv, Delivered, Err
    <3>2. buf'[s] = << >> BY <1>2, <1>w
    <3> QED BY <2>2, <2>4, <2>5, <2>6, <2>7, <3>1, <3>2 DEF OrderInv
  <2>9. Clean(s) => /\ \A k \in 1..Len(rows) : rows[k] = Len(seen[s]) + k
                    /\ server'[s].next = Len(seen[s]) + Len(rows) + 1
    <3>1. SUFFICES ASSUME Clean(s)
                   PROVE  /\ \A k \in 1..Len(rows) : rows[k] = Len(seen[s]) + k
                          /\ server'[s].next = Len(seen[s]) + Len(rows) + 1
      OBVIOUS
    <3>2. server[s].next = Len(seen[s]) + 1 BY <1>2, <1>w, <3>1
    <3>3. server'[s].next = Len(seen[s]) + Len(rows) + 1 BY <1>2, <1>c, <2>3, <3>2
    <3>4. \A n \in Nat, k \in Int : (n + 1) + k - 1 = n + k OBVIOUS
    <3>5. \A k \in 1..Len(rows) : k \in Int BY <2>3
    <3>6. \A k \in 1..Len(rows) : rows[k] = (Len(seen[s]) + 1) + k - 1 BY <1>2, <3>2
    <3> QED BY <1>c, <3>3, <3>4, <3>5, <3>6
  <2>10. PrefixInv(s)'
    BY <1>2, <1>f, <1>i, <1>w, <2>2, <2>9 DEF PrefixInv, Waiting, Clean, Err
  <2>11. EndInv(s)' BY <1>2, <1>f, <2>2 DEF EndInv, Waiting, Clean, Err
  <2> QED BY <2>8, <2>10, <2>11 DEF PageInv
<1>3. CASE \E rows \in Seq(1..RowCount[s]), isDone \in BOOLEAN : Advance(s, rows, isDone)
  <2>1. PICK rows \in Seq(1..RowCount[s]), isDone \in BOOLEAN : Advance(s, rows, isDone) BY <1>3
  <2>2. server'[s].next = server[s].next + Len(rows) BY <2>1 DEF Advance, TypeOK
  <2>3. server[s].next <= server'[s].next
    <3>1. Len(rows) \in Nat OBVIOUS
    <3> QED BY <1>c, <2>2, <3>1
  <2>4. CASE ~Waiting(s) BY <1>1, <2>3, <2>4
  <2>5. CASE Waiting(s) /\ reply' = [reply EXCEPT ![s] = Page(rows, isDone)]
    <3>1. /\ \A k \in 1..Len(rows) : rows[k] = server[s].next + k - 1
          /\ isDone => server'[s].next = RowCount[s] + 1
      BY <2>1, <2>2 DEF Advance
    <3> QED BY <1>2, <2>2, <2>5, <3>1
  <2>6. CASE reply' = [reply EXCEPT ![s] = Fail]
    <3>1. reply'[s] = Fail BY <2>6 DEF TypeOK
    <3> QED BY <1>1, <2>3, <3>1
  <2> QED BY <2>1, <2>4, <2>5, <2>6 DEF Advance
<1>4. CASE reply' = [reply EXCEPT ![s] = Fail] /\ UNCHANGED server
  <2>1. reply'[s] = Fail BY <1>4 DEF TypeOK
  <2> QED BY <1>1, <1>4, <1>c, <2>1
<1>5. ASSUME NEW isDone \in BOOLEAN, reply' = [reply EXCEPT ![s] = Page(<< >>, isDone)], UNCHANGED server,
             isDone => s \in FailedPages
      PROVE  PageInv(s)'
  <2>1. CASE ~Waiting(s) BY <1>1, <1>5, <1>c, <2>1
  <2>2. CASE Waiting(s)
    <3>1. << >> \in Seq(1..RowCount[s]) OBVIOUS
    <3>2. server'[s].next = server[s].next + Len(<< >>) BY <1>5, <1>c
    <3>3. \A k \in 1..Len(<< >>) : << >>[k] = server[s].next + k - 1 OBVIOUS
    <3> QED BY <1>2, <1>5, <2>2, <3>1, <3>2, <3>3
  <2> QED BY <2>1, <2>2
<1> QED BY <1>3, <1>4, <1>5 DEF Answered

(* A step of the daemon or of a spawned task keeps the rows of s in order. *)
LEMMA DaemonPages ==
  ASSUME TypeOK, TypeOK', NEW s \in Statements, PageInv(s), FetchInv(s), QueueClose(s) \/ Serve(s)
  PROVE  PageInv(s)'
<1>1. CASE QueueClose(s)
  <2>1. UNCHANGED <<pc, buf, done, cursor, seen, reply, server>> BY <1>1 DEF QueueClose
  <2> QED BY <2>1, PagesKept
<1>2. CASE Serve(s)
  <2>1. UNCHANGED <<pc, buf, done, cursor, seen>> BY <1>2, ServeServes DEF clientVars
  <2>2. ASSUME NEW op \in {"execute", "sqlmore"}, Served([op |-> op, of |-> s]), Answered(s)
        PROVE  PageInv(s)'
    BY <2>1, <2>2, AnswerPages
  <2>3. CASE UNCHANGED reply /\ server' = [server EXCEPT ![s].state = "released"]
    <3>1. server'[s].next = server[s].next BY <2>3 DEF TypeOK
    <3> QED BY <2>1, <2>3, <3>1, PagesKept
  <2> QED BY <1>2, <2>2, <2>3, ServeServes
<1> QED BY <1>1, <1>2

(* A lost connection fails what is under way and promises nothing new.     *)
LEMMA DownKeeps ==
  ASSUME TypeOK, TypeOK', NEW s \in Statements, FetchInv(s), CloseInv(s), PageInv(s), ConnDown
  PROVE  FetchInv(s)' /\ CloseInv(s)' /\ PageInv(s)'
<1>1. wire' = << >> /\ UNCHANGED <<pc, buf, done, cursor, seen, closing>> BY DEF ConnDown, clientVars
<1>2. FetchInv(s)' BY <1>1 DEF FetchInv
<1>3. CloseInv(s)' BY <1>1 DEF CloseInv, NoClose, OneClose, NoMoreBehind, Owned
<1>4. server'[s].next = server[s].next BY DEF ConnDown
<1>5. \/ reply'[s] = reply[s]
      \/ reply'[s] = Fail /\ reply'[s] # NoPage /\ pc[s] \in {"executing", "fetching"}
  BY DEF ConnDown, NoPage, Fail
<1>6. CASE reply'[s] = reply[s]
  <2>1. PageInv(s)' BY <1>1, <1>4, <1>6, PagesKept
  <2> QED BY <1>2, <1>3, <2>1
<1>7. CASE reply'[s] = Fail /\ reply'[s] # NoPage /\ pc[s] \in {"executing", "fetching"}
  <2>1. ~Page_at(s)' BY <1>7 DEF Page_at, Fail
  <2>2. server[s].next \in Nat /\ server[s].next <= server'[s].next BY <1>4 DEF TypeOK
  <2>3. OrderInv(s)' BY <1>1, <2>1, <2>2, QuietOrder DEF PageInv
  <2>4. PrefixInv(s)' BY <1>1, <1>7, <2>1 DEF PageInv, PrefixInv, Clean, Err
  <2>5. EndInv(s)' BY <1>1, <1>7, <2>1 DEF EndInv
  <2> QED BY <1>2, <1>3, <2>3, <2>4, <2>5 DEF PageInv
<1> QED BY <1>5, <1>6, <1>7
-----------------------------------------------------------------------------
(* Nothing is on the wire, seen or at hand in the beginning.               *)
LEMMA InitRows == Init => RowsInv
<1> SUFFICES ASSUME Init PROVE RowsInv OBVIOUS
<1>1. TypeOK
  <2>1. \A s \in Statements : RowCount[s] \in Nat BY RowsAssumption
  <2>2. Parts
    BY <2>1, RowsAssumption
       DEF Init, Parts, SeenType, BufType, ReplyType, ServerType, PcType, FlagType, RestType, Reply, NoPage
  <2> QED BY <2>2, TypeParts DEF Parts
<1>2. ASSUME NEW s \in Statements PROVE FetchInv(s) /\ CloseInv(s) /\ PageInv(s)
  <2>1. /\ pc[s] = "idle" /\ buf[s] = << >> /\ ~done[s] /\ ~cursor[s] /\ seen[s] = << >> /\ closing[s] = 0
        /\ reply[s] = NoPage /\ server[s].next = 1 /\ wire = << >>
    BY DEF Init
  <2>2. FetchInv(s) BY <2>1 DEF FetchInv
  <2>3. CloseInv(s) BY <2>1 DEF CloseInv, NoClose, OneClose, NoMoreBehind, Owned
  <2>4. ~Page_at(s) BY <2>1 DEF Page_at, Waiting
  <2>5. PageInv(s) BY <2>1, <2>4 DEF PageInv, OrderInv, PrefixInv, EndInv, Delivered
  <2> QED BY <2>2, <2>3, <2>5
<1> QED BY <1>1, <1>2 DEF RowsInv

(* Every step keeps the invariant.                                         *)
LEMMA NextRows == RowsInv /\ [Next]_vars => RowsInv'
<1> SUFFICES ASSUME RowsInv, [Next]_vars PROVE RowsInv' OBVIOUS
<1>i. TypeOK /\ \A s \in Statements : FetchInv(s) /\ CloseInv(s) /\ PageInv(s) BY DEF RowsInv
<1>1. ASSUME NEW s \in Statements,
             \/ Execute(s) \/ Resolve(s) \/ Stream(s) \/ Poll(s) \/ Drop(s) \/ QueueClose(s) \/ Serve(s)
      PROVE  RowsInv'
  <2>1. TypeOK' BY <1>1, <1>i, CallerTypes, OtherTypes
  <2>2. FetchInv(s)' BY <1>1, <1>i, OwnFetch
  <2>3. CloseInv(s)' BY <1>1, <1>i, OwnClose
  <2>4. PageInv(s)' BY <1>1, <1>i, <2>1, CallerPages, DaemonPages
  <2>5. ASSUME NEW t \in Statements \ {s} PROVE FetchInv(t)' /\ CloseInv(t)' /\ PageInv(t)'
    <3>1. Same(t) /\ WireOf(s) BY <1>1, <1>i, StepOfOne
    <3> QED BY <1>i, <3>1, OthersKeep
  <2> QED BY <2>1, <2>2, <2>3, <2>4, <2>5 DEF RowsInv
<1>2. CASE ConnDown
  <2>1. TypeOK' BY <1>2, <1>i, OtherTypes
  <2> QED BY <1>2, <1>i, <2>1, DownKeeps DEF RowsInv
<1>3. CASE UNCHANGED vars \/ \E s \in Statements : IdleTimer(s)
  <2>1. TypeOK'
    <3>1. UNCHANGED vars => TypeOK' BY <1>i DEF vars, TypeOK
    <3> QED BY <1>3, <1>i, <3>1, OtherTypes
  <2>s. UNCHANGED <<clientVars, wire, reply, conn>> BY <1>3 DEF vars, clientVars, IdleTimer
  <2>2. ASSUME NEW t \in Statements PROVE FetchInv(t)' /\ CloseInv(t)' /\ PageInv(t)'
    <3>1. FetchInv(t)' BY <1>i, <2>s DEF clientVars, FetchInv
    <3>2. CloseInv(t)' BY <1>i, <2>s DEF clientVars, CloseInv, NoClose, OneClose, NoMoreBehind, Owned
    <3>3. PageInv(t)'
      <4>1. server'[t].next = server[t].next
        <5>1. CASE UNCHANGED vars BY <5>1 DEF vars
        <5>2. ASSUME NEW s \in Statements, IdleTimer(s) PROVE server'[t].next = server[t].next
          <6>1. server' = [server EXCEPT ![s].state = "released"] BY <5>2 DEF IdleTimer
          <6>2. server \in [Statements -> [state : {"none", "open", "released"}, next : Nat]] BY <1>i DEF TypeOK
          <6> QED BY <6>1, <6>2
        <5> QED BY <1>3, <5>1, <5>2
      <4> QED BY <1>i, <2>s, <4>1, PagesKept DEF clientVars
    <3> QED BY <3>1, <3>2, <3>3
  <2> QED BY <2>1, <2>2 DEF RowsInv
<1> QED BY <1>1, <1>2, <1>3 DEF Next

(* RowsInv is an invariant.                                                *)
LEMMA RowsInvariant == Spec => []RowsInv
BY InitRows, NextRows, PTL DEF Spec
-----------------------------------------------------------------------------
(* Where the daemon's cursors stand: a destructor that has no runtime, and *)
(* a failure that looks like the end of the result set, leave one open.    *)
Closable == Statements \ (OffRuntime \cup FailedPages)

(* The execute is under way or nobody waits for it any more.               *)
Opening(s) == pc[s] \in {"executing", "abandoned"}

(* Somebody will close the cursor: the Rows or stream that owns it, a task *)
(* of its destructor, or the sqlclose this task has queued; and once the   *)
(* connection is down, the daemon's idle timer.                            *)
Closer(s) == Owned(s) \/ closing[s] # 0 \/ ~NoClose(s) \/ conn = "down"

CursorInv(s) ==
  /\ server[s].state = "open" => Opening(s) \/ Closer(s)
  /\ Page_at(s) => (reply[s].is_done => server[s].state # "open")
  /\ \A k \in 1..Len(wire) : wire[k] = [op |-> "execute", of |-> s] => Opening(s)

CursorsInv == RowsInv /\ \A s \in Closable : CursorInv(s)

(* A sqlclose on the wire stays there until it is served.                  *)
LEMMA CloseStays ==
  ASSUME TypeOK, NEW s \in Statements, ~NoClose(s),
         \/ wire' = wire
         \/ \E r \in Request : Queued(r) \/ (Served(r) /\ r # Close(s))
  PROVE  ~NoClose(s)'
<1>l. Len(wire) \in Nat BY DEF TypeOK
<1>1. PICK c \in 1..Len(wire) : wire[c] = Close(s) BY DEF NoClose
<1>2. CASE wire' = wire BY <1>1, <1>2 DEF NoClose, Close
<1>3. ASSUME NEW r \in Request, Queued(r) PROVE ~NoClose(s)'
  <2>1. c \in 1..Len(wire') /\ wire'[c] = Close(s) BY <1>l, <1>1, <1>3 DEF Queued
  <2> QED BY <2>1 DEF NoClose, Close
<1>4. ASSUME NEW r \in Request, Served(r), r # Close(s) PROVE ~NoClose(s)'
  <2>1. c # 1 BY <1>1, <1>4 DEF Served
  <2>2. c - 1 \in 1..Len(wire') /\ (c - 1) + 1 = c BY <1>l, <1>1, <1>4, <2>1 DEF Served
  <2>3. wire'[c - 1] = Close(s) BY <1>1, <1>4, <2>2 DEF Served
  <2> QED BY <2>2, <2>3 DEF NoClose, Close
<1> QED BY <1>2, <1>3, <1>4

(* What the daemon makes of the cursor: only an execute opens one, and a   *)
(* last page releases it.                                                  *)
LEMMA ServeCursor ==
  ASSUME TypeOK, NEW s \in Statements, Serve(s)
  PROVE  /\ \A t \in Statements \ {s} : server'[t].state = server[t].state
         /\ \/ Served(Close(s)) /\ reply' = reply /\ server'[s].state = "released"
            \/ \E op \in {"execute", "sqlmore"} :
                 /\ Served([op |-> op, of |-> s])
                 /\ server'[s].state = "open" => op = "execute" \/ server[s].state = "open"
                 /\ s \notin FailedPages =>
                      (reply'[s].tag = "page" => (reply'[s].is_done => server'[s].state # "open"))
<1> DEFINE Answers == reply'[s].tag = "page" => (reply'[s].is_done => server'[s].state # "open")
<1>1. ASSUME NEW op \in {"execute", "sqlmore", "sqlclose"}, Serving(s, op)
      PROVE  Served([op |-> op, of |-> s])
  <2>1. wire \in Seq(Request) /\ [op |-> op, of |-> s] \in Request BY DEF TypeOK, Request
  <2> QED BY <1>1, <2>1, TailServes DEF Serving
<1>2. ASSUME NEW isDone \in BOOLEAN, NextPage(s, isDone)
      PROVE  Answers /\ \A t \in Statements \ {s} : server'[t].state = server[t].state
  <2>1. PICK n, rows : /\ server' = [server EXCEPT ![s] = [state |-> IF isDone THEN "released" ELSE "open",
                                                           next |-> n]]
                       /\ reply' \in {[reply EXCEPT ![s] = Page(rows, isDone)], [reply EXCEPT ![s] = Fail]}
    BY <1>2 DEF NextPage
  <2>2. isDone => server'[s].state # "open" BY <2>1 DEF TypeOK
  <2>3. reply'[s] = Page(rows, isDone) \/ reply'[s] = Fail BY <2>1 DEF TypeOK
  <2>4. Answers
    <3>1. CASE reply'[s] = Fail BY <3>1 DEF Fail
    <3>2. CASE reply'[s] = Page(rows, isDone)
      <4>1. reply'[s].is_done = isDone BY <3>2 DEF Page
      <4> QED BY <2>2, <4>1
    <3> QED BY <2>3, <3>1, <3>2
  <2> QED BY <2>1, <2>4 DEF TypeOK
<1>3. reply' = [reply EXCEPT ![s] = Fail] => Answers BY DEF TypeOK, Fail
<1>4. reply' = [reply EXCEPT ![s] = Page(<< >>, FALSE)] => Answers
  <2>1. SUFFICES ASSUME reply' = [reply EXCEPT ![s] = Page(<< >>, FALSE)] PROVE ~reply'[s].is_done OBVIOUS
  <2>2. reply'[s] = Page(<< >>, FALSE) BY <2>1 DEF TypeOK
  <2>3. reply'[s].is_done = FALSE BY <2>2 DEF Page
  <2> QED BY <2>3
<1> HIDE DEF Answers
<1>5. CASE ServeExecute(s)
  <2>1. Answers /\ \A t \in Statements \ {s} : server'[t].state = server[t].state
    BY <1>2, <1>3, <1>5 DEF ServeExecute
  <2> QED BY <1>1, <1>5, <2>1 DEF ServeExecute, Answers
<1>6. CASE ServeMore(s)
  <2>1. /\ Answers /\ \A t \in Statements \ {s} : server'[t].state = server[t].state
        /\ server'[s].state = "open" => server[s].state = "open"
    BY <1>2, <1>3, <1>4, <1>6 DEF ServeMore
  <2> QED BY <1>1, <1>6, <2>1 DEF ServeMore, Answers
<1>7. CASE ServeFailedPage(s) BY <1>1, <1>7 DEF ServeFailedPage
<1>8. CASE ServeClose(s)
  <2>1. server'[s].state = "released" /\ \A t \in Statements \ {s} : server'[t].state = server[t].state
    BY <1>8 DEF ServeClose, TypeOK
  <2> QED BY <1>1, <1>8, <2>1 DEF ServeClose, Close
<1> QED BY <1>5, <1>6, <1>7, <1>8 DEF Serve

(* A step of s leaves an open cursor to somebody who will close it.        *)
LEMMA OwnCursor ==
  ASSUME TypeOK, TypeOK', NEW s \in Closable, FetchInv(s), CloseInv(s), CursorInv(s),
         \/ Execute(s) \/ Resolve(s) \/ Stream(s) \/ Poll(s) \/ Drop(s) \/ QueueClose(s) \/ Serve(s)
  PROVE  CursorInv(s)'
<1>s. s \in Statements /\ s \notin OffRuntime /\ s \notin FailedPages BY DEF Closable
<1>l. Len(wire) \in Nat BY DEF TypeOK
<1>r. \A op \in {"execute", "sqlmore", "sqlclose"} : [op |-> op, of |-> s] \in Request
  BY <1>s DEF Request
<1>1. ASSUME NEW op \in {"execute", "sqlmore"}, Sent(s, op), op = "execute" => Opening(s)',
             Opening(s)' \/ Owned(s)', ~Opening(s) \/ Opening(s)'
      PROVE  CursorInv(s)'
  <2>1. ~Page_at(s)'
    <3>1. reply'[s] = NoPage \/ reply'[s] = Fail BY <1>s, <1>1 DEF Sent, TypeOK
    <3> QED BY <3>1 DEF Page_at, NoPage, Fail
  <2>2. \A k \in 1..Len(wire') : wire'[k] = [op |-> "execute", of |-> s] => Opening(s)'
    <3>1. SUFFICES ASSUME NEW k \in 1..Len(wire'), wire'[k] = [op |-> "execute", of |-> s]
                   PROVE  Opening(s)'
      OBVIOUS
    <3>2. \/ k \in 1..Len(wire) /\ wire'[k] = wire[k]
          \/ wire'[k] = [op |-> op, of |-> s]
      BY <1>l, <1>1 DEF Sent, Queued
    <3> QED BY <1>1, <3>1, <3>2 DEF CursorInv
  <2> QED BY <1>1, <2>1, <2>2 DEF CursorInv, Closer
<1>2. CASE Execute(s)
  <2>1. Sent(s, "execute") BY <1>s, <1>2, SendSends DEF Execute
  <2>2. Opening(s)' BY <1>s, <1>2 DEF Execute, Opening, TypeOK
  <2> QED BY <1>1, <2>1, <2>2
<1>3. CASE PollMore(s)
  <2>1. Sent(s, "sqlmore") BY <1>s, <1>3, SendSends DEF PollMore
  <2>2. Owned(s)' /\ ~Opening(s) BY <1>s, <1>3 DEF PollMore, Owned, Opening, TypeOK
  <2> QED BY <1>1, <2>1, <2>2
<1>4. ASSUME wire' = wire, server' = server, reply' = reply,
             Opening(s)' \/ (~Waiting(s)' /\ \A k \in 1..Len(wire) : wire[k] # [op |-> "execute", of |-> s]),
             pc'[s] = "executing" => pc[s] = "executing",
             server[s].state = "open" => Opening(s)' \/ Closer(s)'
      PROVE  CursorInv(s)'
  <2>1. Waiting(s)' => Waiting(s) BY <1>4 DEF Waiting, Opening
  <2>2. Page_at(s)' => Page_at(s) BY <1>4, <2>1 DEF Page_at
  <2> QED BY <1>4, <2>2 DEF CursorInv
<1>5. ASSUME \/ pc[s] \in {"rows", "stream"}
             \/ Waiting(s) /\ reply[s].tag = "page"
             \/ pc[s] = "fetching"
      PROVE  \A k \in 1..Len(wire) : wire[k] # [op |-> "execute", of |-> s]
  <2>1. \A k \in 1..Len(wire) : wire[k] = [op |-> "execute", of |-> s] => Fetches(wire[k], s)
    BY DEF Fetches
  <2>2. CASE pc[s] = "fetching" \/ pc[s] \in {"rows", "stream"} BY <2>2 DEF CursorInv, Opening
  <2>3. CASE Waiting(s) /\ reply[s].tag = "page"
    <3>1. reply[s] # NoPage BY <2>3 DEF NoPage
    <3> QED BY <2>1, <2>3, <3>1 DEF FetchInv, Waiting
  <2> QED BY <1>5, <2>2, <2>3
<1>n. wire' = wire /\ ~NoClose(s) => ~NoClose(s)' BY <1>s, CloseStays
<1>6. CASE NewRows(s)
  <2>1. pc'[s] = "rows" /\ wire' = wire /\ server' = server /\ reply' = reply /\ Page_at(s)
    BY <1>s, <1>6 DEF NewRows, TypeOK, Page_at, Waiting
  <2>2. reply[s].is_done \in BOOLEAN /\ done'[s] = reply[s].is_done /\ cursor'[s] = ~reply[s].is_done
    BY <1>s, <1>6, PageTypes, TypeParts DEF NewRows, TypeOK
  <2>3. reply[s].is_done => server[s].state # "open" BY <2>1 DEF CursorInv
  <2>4. ~reply[s].is_done => Owned(s)' BY <2>1, <2>2 DEF Owned
  <2>5. ~Waiting(s)' BY <2>1 DEF Waiting
  <2>6. \A k \in 1..Len(wire) : wire[k] # [op |-> "execute", of |-> s] BY <1>5, <2>1 DEF Page_at
  <2> QED BY <1>4, <2>1, <2>3, <2>4, <2>5, <2>6 DEF Closer
<1>7. CASE ExecuteError(s) \/ CancelExecute(s)
  <2>1. pc'[s] = "abandoned" /\ wire' = wire /\ server' = server /\ reply' = reply
    BY <1>s, <1>7 DEF ExecuteError, CancelExecute, TypeOK
  <2>2. Opening(s)' BY <2>1 DEF Opening
  <2>3. Waiting(s)' => FALSE BY <2>1 DEF Waiting
  <2> QED BY <2>1, <2>2, <2>3 DEF CursorInv, Page_at
<1>8. CASE ReceiveRows(s) \/ ReceiveEnd(s)
  <2>1. /\ pc[s] = "fetching" /\ reply[s].tag = "page" /\ pc'[s] \in {"stream", "ended"}
        /\ wire' = wire /\ server' = server /\ reply' = reply /\ cursor'[s] = cursor[s]
    BY <1>s, <1>8 DEF ReceiveRows, ReceiveEnd, TypeOK
  <2>2. reply[s].is_done => server[s].state # "open" BY <2>1 DEF CursorInv, Page_at, Waiting
  <2>3. ~reply[s].is_done => pc'[s] = "stream" /\ ~done'[s]
    <3>1. CASE ReceiveRows(s) BY <1>s, <3>1 DEF ReceiveRows, TypeOK
    <3>2. CASE ReceiveEnd(s) BY <3>2 DEF ReceiveEnd
    <3> QED BY <1>8, <3>1, <3>2
  <2>4. ~reply[s].is_done => Owned(s)' BY <2>1, <2>3 DEF CloseInv, Owned
  <2>5. ~Waiting(s)' /\ \A k \in 1..Len(wire) : wire[k] # [op |-> "execute", of |-> s]
    BY <1>5, <2>1 DEF Waiting
  <2> QED BY <1>4, <2>1, <2>2, <2>4, <2>5 DEF Closer
<1>9. ASSUME pc[s] \in {"rows", "stream", "fetching"}, pc'[s] \in {"stream", "ended", "dropped"},
             wire' = wire, server' = server, reply' = reply,
             conn' = conn, closing'[s] # 0 \/ (closing'[s] = closing[s] /\ (Owned(s) => Owned(s)'))
      PROVE  CursorInv(s)'
  <2>1. ~Waiting(s)' /\ ~Opening(s) BY <1>9 DEF Waiting, Opening
  <2>2. \A k \in 1..Len(wire) : wire[k] # [op |-> "execute", of |-> s] BY <1>5, <1>9
  <2>3. Closer(s) => Closer(s)' BY <1>9, <1>n DEF Closer
  <2>4. server[s].state = "open" => Closer(s) BY <2>1 DEF CursorInv
  <2> QED BY <1>4, <1>9, <2>1, <2>2, <2>3, <2>4
<1>c. spawn_close(s) => closing'[s] = closing[s] + 1 /\ closing'[s] # 0
  <2>0. closing \in [Statements -> 0..1] BY DEF TypeOK
  <2>1. closing[s] \in Nat BY <1>s, <2>0
  <2>2. spawn_close(s) => closing'[s] = closing[s] + 1 BY <1>s DEF spawn_close, TypeOK
  <2> QED BY <2>1, <2>2
<1>10. CASE ReceiveEmpty(s)
  <2>1. spawn_close(s) BY <1>10 DEF ReceiveEmpty, CloseInv
  <2> QED BY <1>s, <1>9, <1>10, <1>c, <2>1 DEF ReceiveEmpty, TypeOK
<1>11. CASE ReceiveError(s) \/ Stream(s) \/ PollRow(s)
  <2>1. /\ pc[s] \in {"rows", "stream", "fetching"} /\ pc'[s] = "stream"
        /\ UNCHANGED <<wire, server, reply, closing, done, cursor, conn>>
    BY <1>s, <1>11 DEF ReceiveError, Stream, PollRow, TypeOK
  <2> QED BY <1>9, <2>1 DEF Owned
<1>12. CASE PollEnd(s)
  <2>1. ~Owned(s) BY <1>12 DEF PollEnd, Owned
  <2> QED BY <1>s, <1>9, <1>12, <2>1 DEF PollEnd, TypeOK
<1>13. CASE DropRows(s)
  <2>1. cursor[s] => closing'[s] # 0 BY <1>13, <1>c DEF DropRows
  <2>2. ~cursor[s] => closing' = closing /\ ~Owned(s) BY <1>13 DEF DropRows, Owned
  <2> QED BY <1>s, <1>9, <1>13, <2>1, <2>2 DEF DropRows, TypeOK
<1>14. CASE DropStream(s)
  <2>1. ~done[s] /\ cursor[s] => closing'[s] # 0 BY <1>14, <1>c DEF DropStream
  <2>2. ~(~done[s] /\ cursor[s]) => closing' = closing /\ ~Owned(s) BY <1>14 DEF DropStream, Owned
  <2> QED BY <1>s, <1>9, <1>14, <2>1, <2>2 DEF DropStream, TypeOK
<1>15. CASE QueueClose(s)
  <2>1. UNCHANGED <<pc, reply, server>> BY <1>15 DEF QueueClose
  <2>2. Page_at(s)' => Page_at(s) BY <2>1 DEF Page_at, Waiting
  <2>3. CASE conn = "up"
    <3>1. wire \in Seq(Request) /\ Close(s) \in Request BY <1>s DEF TypeOK, Close, Request
    <3>2. Queued(Close(s)) BY <1>15, <2>3, <3>1, AppendQueues DEF QueueClose, Close
    <3>3. ~NoClose(s)'
      <4>1. Len(wire) + 1 \in 1..Len(wire') /\ wire'[Len(wire) + 1] = Close(s) BY <1>l, <3>2 DEF Queued
      <4> QED BY <4>1 DEF NoClose, Close
    <3>4. \A k \in 1..Len(wire') : wire'[k] = [op |-> "execute", of |-> s] => Opening(s)'
      <4>1. \A k \in 1..Len(wire') : (k \in 1..Len(wire) /\ wire'[k] = wire[k]) \/ wire'[k] = Close(s)
        BY <1>l, <3>2 DEF Queued
      <4>2. Close(s) # [op |-> "execute", of |-> s] BY DEF Close
      <4> QED BY <2>1, <4>1, <4>2 DEF CursorInv, Opening
    <3> QED BY <2>1, <2>2, <3>3, <3>4 DEF CursorInv, Closer
  <2>4. CASE conn # "up"
    <3>1. Closer(s)' BY <1>15, <2>4 DEF TypeOK, QueueClose, Closer
    <3>2. wire' = wire BY <1>15, <2>4 DEF QueueClose
    <3> QED BY <2>1, <2>2, <3>1, <3>2 DEF CursorInv, Opening
  <2> QED BY <2>3, <2>4
<1>16. CASE Serve(s)
  <2>1. UNCHANGED <<pc, done, cursor, closing, conn>> BY <1>s, <1>16, ServeServes DEF clientVars
  <2>2. ASSUME NEW op \in {"execute", "sqlmore", "sqlclose"}, Served([op |-> op, of |-> s])
        PROVE  \A k \in 1..Len(wire') : wire'[k] = [op |-> "execute", of |-> s] => Opening(s)'
    <3>1. \A k \in 1..Len(wire') : k + 1 \in 1..Len(wire) /\ wire'[k] = wire[k + 1]
      BY <2>2, <1>l DEF Served
    <3> QED BY <2>1, <3>1 DEF CursorInv, Opening
  <2>3. CASE Served(Close(s)) /\ reply' = reply /\ server'[s].state = "released"
    <3>1. Served([op |-> "sqlclose", of |-> s]) BY <2>3 DEF Close
    <3> QED BY <2>2, <2>3, <3>1 DEF CursorInv
  <2>4. ASSUME NEW op \in {"execute", "sqlmore"}, Served([op |-> op, of |-> s]),
               server'[s].state = "open" => op = "execute" \/ server[s].state = "open",
               reply'[s].tag = "page" => (reply'[s].is_done => server'[s].state # "open")
        PROVE  CursorInv(s)'
    <3>1. op = "execute" => Opening(s)
      <4>1. 1 \in 1..Len(wire) /\ wire[1] = [op |-> op, of |-> s] BY <1>l, <2>4 DEF Served
      <4> QED BY <4>1 DEF CursorInv
    <3>2. Closer(s) => Closer(s)'
      <4>1. [op |-> op, of |-> s] # Close(s) BY DEF Close
      <4>2. ~NoClose(s) => ~NoClose(s)' BY <1>s, <1>r, <2>4, <4>1, CloseStays
      <4> QED BY <2>1, <4>2 DEF Closer, Owned
    <3>3. server'[s].state = "open" => Opening(s)' \/ Closer(s)'
      BY <2>1, <2>4, <3>1, <3>2 DEF CursorInv, Opening
    <3> QED BY <2>2, <2>4, <3>3 DEF CursorInv, Page_at
  <2> QED BY <1>s, <1>16, <2>3, <2>4, ServeCursor
<1> QED BY <1>2, <1>3, <1>6, <1>7, <1>8, <1>10, <1>11, <1>12, <1>13, <1>14, <1>15, <1>16
        DEF Resolve, Poll, Drop

(* A step of s neither opens nor forgets the cursor of another t.          *)
LEMMA OtherCursor ==
  ASSUME TypeOK, NEW s \in Statements, NEW t \in Statements \ {s}, CursorInv(t), Same(t), WireOf(s),
         server'[t].state = server[t].state
  PROVE  CursorInv(t)'
<1>l. Len(wire) \in Nat BY DEF TypeOK
<1>1. \A k \in 1..Len(wire') : wire'[k] = [op |-> "execute", of |-> t] => Opening(t)
  <2>1. CASE wire' = wire BY <2>1 DEF CursorInv
  <2>2. ASSUME NEW op \in {"execute", "sqlmore", "sqlclose"}, Queued([op |-> op, of |-> s])
        PROVE  \A k \in 1..Len(wire') : wire'[k] = [op |-> "execute", of |-> t] => Opening(t)
    <3>1. \A k \in 1..Len(wire') : (k \in 1..Len(wire) /\ wire'[k] = wire[k]) \/ wire'[k] = [op |-> op, of |-> s]
      BY <1>l, <2>2 DEF Queued
    <3>2. [op |-> op, of |-> s] # [op |-> "execute", of |-> t] OBVIOUS
    <3> QED BY <3>1, <3>2 DEF CursorInv
  <2>3. ASSUME NEW op \in {"execute", "sqlmore", "sqlclose"}, Served([op |-> op, of |-> s])
        PROVE  \A k \in 1..Len(wire') : wire'[k] = [op |-> "execute", of |-> t] => Opening(t)
    <3>1. \A k \in 1..Len(wire') : k + 1 \in 1..Len(wire) /\ wire'[k] = wire[k + 1]
      BY <2>3, <1>l DEF Served
    <3> QED BY <3>1 DEF CursorInv
  <2> QED BY <2>1, <2>2, <2>3 DEF WireOf
<1>2. ~NoClose(t) => ~NoClose(t)'
  <2>1. \A op \in {"execute", "sqlmore", "sqlclose"} :
          [op |-> op, of |-> s] \in Request /\ [op |-> op, of |-> s] # Close(t)
    BY DEF Request, Close
  <2> QED BY <2>1, CloseStays DEF WireOf
<1>3. Closer(t) => Closer(t)' BY <1>2 DEF Closer, Owned, Same
<1>4. Opening(t)' <=> Opening(t) BY DEF Opening, Same
<1>5. Page_at(t)' => Page_at(t) /\ reply'[t] = reply[t] BY DEF Page_at, Waiting, Same
<1> QED BY <1>1, <1>3, <1>4, <1>5 DEF CursorInv

(* No cursor is open and unowned, on any execution.                        *)
LEMMA CursorsInvariant == Spec => []CursorsInv
<1>1. Init => CursorsInv
  <2> SUFFICES ASSUME Init PROVE CursorsInv OBVIOUS
  <2>1. ASSUME NEW s \in Closable PROVE CursorInv(s)
    <3>1. s \in Statements /\ wire = << >> /\ pc[s] = "idle" /\ server[s].state = "none"
      BY DEF Closable, Init
    <3> QED BY <3>1 DEF CursorInv, Page_at, Waiting
  <2> QED BY <2>1, InitRows DEF CursorsInv
<1>2. CursorsInv /\ [Next]_vars => CursorsInv'
  <2> SUFFICES ASSUME CursorsInv, [Next]_vars PROVE CursorsInv' OBVIOUS
  <2>i. TypeOK /\ \A s \in Statements : FetchInv(s) /\ CloseInv(s) BY DEF CursorsInv, RowsInv
  <2>1. RowsInv' /\ TypeOK' BY <2>i, NextRows DEF CursorsInv, RowsInv
  <2>2. ASSUME NEW t \in Closable PROVE CursorInv(t)'
    <3>0. t \in Statements /\ CursorInv(t) BY DEF Closable, CursorsInv
    <3>1. ASSUME NEW s \in Statements,
                 \/ Execute(s) \/ Resolve(s) \/ Stream(s) \/ Poll(s) \/ Drop(s) \/ QueueClose(s) \/ Serve(s)
          PROVE  CursorInv(t)'
      <4>1. CASE s = t BY <2>i, <2>1, <3>0, <3>1, <4>1, OwnCursor
      <4>2. CASE s # t
        <5>1. Same(t) /\ WireOf(s) BY <2>i, <3>0, <3>1, <4>2, StepOfOne
        <5>2. server'[t].state = server[t].state
          <6>1. CASE Serve(s) BY <2>i, <3>0, <4>2, <6>1, ServeCursor
          <6>2. CASE ~Serve(s)
            BY <3>1, <6>2 DEF Execute, PollMore, QueueClose, Resolve, NewRows, ExecuteError, ReceiveRows,
                              ReceiveEnd, ReceiveEmpty, ReceiveError, Stream, Poll, PollRow, PollEnd, Drop,
                              CancelExecute, DropRows, DropStream
          <6> QED BY <6>1, <6>2
        <5> QED BY <2>i, <3>0, <4>2, <5>1, <5>2, OtherCursor
      <4> QED BY <4>1, <4>2
    <3>2. CASE ConnDown
      <4>1. UNCHANGED <<pc, server>> /\ wire' = << >> /\ conn' = "down" BY <3>2 DEF ConnDown, clientVars
      <4>2. Page_at(t)' => Page_at(t) /\ reply'[t] = reply[t]
        BY <3>0, <3>2, <4>1 DEF ConnDown, Page_at, Waiting, Fail
      <4>3. Closer(t)' BY <4>1 DEF Closer
      <4> QED BY <3>0, <4>1, <4>2, <4>3 DEF CursorInv
    <3>3. CASE UNCHANGED vars \/ \E s \in Statements : IdleTimer(s)
      <4>1. UNCHANGED <<clientVars, wire, reply, conn>> BY <3>3 DEF vars, clientVars, IdleTimer
      <4>2. server'[t].state = "open" => server[t].state = "open"
        BY <2>i, <3>0, <3>3 DEF vars, IdleTimer, TypeOK
      <4> QED BY <3>0, <4>1, <4>2
              DEF clientVars, CursorInv, Page_at, Waiting, Opening, Closer, Owned, NoClose, Close
    <3> QED BY <3>1, <3>2, <3>3 DEF Next
  <2> QED BY <2>1, <2>2 DEF CursorsInv
<1> QED BY <1>1, <1>2, PTL DEF Spec
-----------------------------------------------------------------------------
(* Rows::new, the stream and the daemon keep every variable of its type:   *)
(* pages are never longer than PageSize, rows are numbers of rows the      *)
(* result set has, and no statement has two sqlclose tasks.                *)
THEOREM RowsTypes == Spec => []TypeOK
<1>1. RowsInv => TypeOK BY DEF RowsInv
<1> QED BY <1>1, RowsInvariant, PTL

(* The closure of `unfold' asks for a page only while it owns the cursor,  *)
(* so no sqlmore is queued behind the sqlclose of a destructor.            *)
THEOREM NothingAfterClose == Spec => []NoFetchAfterClose
<1>1. RowsInv => NoFetchAfterClose
  BY DEF RowsInv, CloseInv, NoMoreBehind, NoFetchAfterClose, Close, More
<1> QED BY <1>1, RowsInvariant, PTL

(* Drop for Rows and Drop for StreamState release the cursor once between  *)
(* them, and never under a stream that may still page; and while the       *)
(* connection is up a cursor that the daemon has open is left to somebody, *)
(* unless its execute was given up, there is no runtime, or a failure      *)
(* looks like the last page.                                               *)
THEOREM OneOwner == Spec => []ClosedByOwnerOnly
<1>1. ASSUME RowsInv, NEW s \in Statements
      PROVE  Closers(s) <= 1 /\ (conn = "up" /\ Closers(s) = 0 => ~Closer(s))
  <2> DEFINE C == {k \in 1..Len(wire) : wire[k] = Close(s)}
             o == IF Owned(s) THEN 1 ELSE 0
  <2>1. CloseInv(s) /\ closing[s] \in 0..1 BY <1>1 DEF RowsInv, TypeOK
  <2>2. Closers(s) = Cardinality(C) + closing[s] + o BY DEF Closers, ToClose, Close, Owned
  <2>o. o \in 0..1 /\ (o = 0 <=> ~Owned(s)) OBVIOUS
  <2> HIDE DEF o
  <2>3. CASE NoClose(s)
    <3>1. C = {} BY <2>3 DEF NoClose
    <3>2. Cardinality(C) = 0 BY <3>1, FS_EmptySet
    <3>3. Owned(s) => closing[s] = 0 BY <2>1 DEF CloseInv
    <3> HIDE DEF C
    <3>4. Closers(s) = closing[s] + o BY <2>1, <2>2, <2>o, <3>2
    <3>5. Closers(s) <= 1 BY <2>1, <2>o, <3>3, <3>4
    <3>6. Closers(s) = 0 => closing[s] = 0 /\ ~Owned(s) BY <2>1, <2>o, <3>4
    <3> QED BY <2>3, <3>5, <3>6 DEF Closer
  <2>4. CASE ~NoClose(s)
    <3>1. PICK c \in 1..Len(wire) : wire[c] = Close(s) BY <2>4 DEF NoClose
    <3>2. C = {c} BY <2>1, <3>1 DEF CloseInv, OneClose
    <3>3. Cardinality(C) = 1 BY <3>2, FS_Singleton
    <3>4. closing[s] = 0 /\ ~Owned(s) BY <2>1, <2>4 DEF CloseInv
    <3> HIDE DEF C
    <3> QED BY <2>2, <2>o, <3>3, <3>4
  <2> QED BY <2>3, <2>4
<1>2. ASSUME CursorsInv, NEW s \in Statements, conn = "up", server[s].state = "open", Closers(s) = 0
      PROVE  pc[s] \in {"executing", "abandoned"} \/ s \in OffRuntime \cup FailedPages
  <2>1. ~Closer(s) BY <1>1, <1>2 DEF CursorsInv
  <2> QED BY <1>2, <2>1 DEF CursorsInv, CursorInv, Closable, Opening
<1>3. CursorsInv => ClosedByOwnerOnly BY <1>1, <1>2 DEF ClosedByOwnerOnly, CursorsInv
<1> QED BY <1>3, CursorsInvariant, PTL

(* Rows come in order; up to the first Err the stream is a prefix of the   *)
(* result set, and one that ends without an Err has yielded all of it,     *)
(* unless the daemon dresses a failure as an empty last page.              *)
THEOREM RowsComplete == Spec => []NoSilentLoss
<1>1. ASSUME RowsInv, NEW s \in Statements, Errors(s) = 0 PROVE Clean(s)
  <2> DEFINE E == {k \in 1..Len(seen[s]) : seen[s][k] = Err}
  <2>1. Len(seen[s]) \in Nat BY <1>1 DEF RowsInv, TypeOK
  <2>2. IsFiniteSet(1..Len(seen[s])) BY <2>1, FS_Interval
  <2>3. IsFiniteSet(E) BY <2>2, FS_Subset
  <2>4. E = {} BY <1>1, <2>3, FS_EmptySet DEF Errors
  <2> QED BY <2>4 DEF Clean
<1>2. RowsInv => NoSilentLoss
  BY <1>1 DEF RowsInv, PageInv, OrderInv, PrefixInv, EndInv, NoSilentLoss
<1> QED BY <1>2, RowsInvariant, PTL
=============================================================================
