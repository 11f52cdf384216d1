-------------------------- MODULE DispatcherProofs --------------------------
(***************************************************************************)
(* Proofs about Dispatcher, for any set of calls, any assignment of ids to *)
(* them, any queue capacity and any number of stray frames; at the end,    *)
(* that it implements RequestReply and what this means for callers.        *)
(***************************************************************************)
EXTENDS Dispatcher, FiniteSetTheorems, TLAPS

-----------------------------------------------------------------------------
(* The inductive invariants.                                               *)

(* `run' holds a reply slot in a local exactly between taking it from the  *)
(* queue or the map and passing it on.                                     *)
CurHeld == cur = NoCall <=> task \in {"select", "draining", "returned"}

(* An entry of the map is under the id its request was sent with.          *)
PendingById == \A i \in Ids : pending[i] # NoCall => IdOf[pending[i]] = i

(* The daemon copies the id of the request it answers.                     *)
AnswersById ==
  \A k \in 1..Len(inbox) :
    inbox[k].type = "response" /\ inbox[k].id \in Ids =>
      inbox[k].re \in Calls /\ IdOf[inbox[k].re] = inbox[k].id

(* An answer about to be delivered belongs to the slot that is held.       *)
ResultOwn == UniqueIds /\ result.tag = "ok" => task = "routing" /\ result.re = cur

(* A reply slot is in one place: once in the queue, in the local, or in    *)
(* the map; and only after its caller has handed it over.                  *)
Queued == {queue[k] : k \in 1..Len(queue)}

HeldOnce ==
  /\ \A j, k \in 1..Len(queue) : queue[j] = queue[k] => j = k
  /\ cur \notin Queued
  /\ \A i \in Ids : pending[i] \notin Queued /\ (cur # NoCall => pending[i] # cur)

HandedOver ==
  /\ \A c \in Owned \ {NoCall} : call[c] \notin {"idle", "sending"}
  /\ handles = "job" /\ ExitCall \in Calls => call[ExitCall] = "idle"

NoOrphanInv == TypeOK /\ CurHeld /\ NoOrphan
AnswerInv   == TypeOK /\ CurHeld /\ PendingById /\ AnswersById /\ ResultOwn /\ RepliesToOwnRequest
CountInv    == TypeOK /\ CurHeld /\ PendingById /\ HeldOnce /\ HandedOver /\ InFlightExact
-----------------------------------------------------------------------------
(* Lemmas about the operators.                                             *)

(* The values a reply slot can be given are results, and never Open.       *)
LEMMA ErrIsResult ==
  /\ \A why \in {"Closed", "Write", "Read", "Json", "Decode"} : Err(why) \in Result
  /\ Closed \in Result
  /\ \A type : FatalCause(type) \in Result
  /\ \A c \in Calls \cup {NoCall}, r \in Response : Ok(c, r) \in Result
  BY DEF Err, Closed, FatalCause, Ok, Result

(* What the task has for a caller is something a slot may hold.            *)
LEMMA ResultIsSlot ==
  /\ Result \subseteq Slot /\ Open \in Slot /\ Dropped \in Slot
  /\ Open \notin Result /\ Dropped # Open
  BY DEF Result, Slot, Open, Dropped

(* Remapping yields a response variant.                                    *)
LEMMA RemapIsResponse ==
  ASSUME NEW kind, NEW r \in Response
  PROVE  remap_response(kind, r) \in Response
  BY DEF remap_response, Response

(* The counter stays within its width.                                     *)
LEMMA CounterRange ==
  ASSUME NEW n \in 0..U32Max
  PROVE  fetch_add(n) \in 0..U32Max /\ fetch_sub(n) \in 0..U32Max
  BY BoundsAssumption DEF fetch_add, fetch_sub

(* What the daemon sends is a frame.                                       *)
LEMMA AnswersAreResponses ==
  ASSUME NEW request \in Request
  PROVE  daemon_answers(request) \subseteq Response
  BY DEF daemon_answers, Response

(* Stray frames are frames.                                                *)
LEMMA StraysAreFrames == StrayFrame \subseteq Frame
  BY CallsAssumption DEF StrayFrame, Frame, Response

(* The ends of a connection are frames.                                    *)
LEMMA EndsAreFrames == [type |-> "eof"] \in Frame /\ [type |-> "error"] \in Frame
  BY DEF Frame

(* A response frame has all the fields of one.                             *)
LEMMA ResponseFrame ==
  ASSUME NEW f \in Frame, f.type = "response"
  PROVE  f.id \in Ids \cup {NoId} /\ f.re \in Calls \cup {NoCall} /\ f.response \in Response
  BY DEF Frame
-----------------------------------------------------------------------------
(* Type correctness.                                                       *)

(* The initial state is well typed.                                        *)
LEMMA InitTypeOK == Init => TypeOK
  <1> SUFFICES ASSUME Init PROVE TypeOK
    OBVIOUS
  <1>1. result \in Result /\ slot \in [Calls -> Slot]
    BY ErrIsResult, ResultIsSlot DEF Init
  <1>2. inFlight \in 0..U32Max /\ strays \in 0..MaxStrays
    BY BoundsAssumption DEF Init
  <1>3. queue \in Seq(Calls) /\ Len(queue) <= Capacity /\ inbox \in Seq(Frame)
    BY BoundsAssumption DEF Init
  <1> QED
    BY <1>1, <1>2, <1>3 DEF Init, TypeOK

(* pending.remove(id) and the un-counting that follows keep the types.     *)
LEMMA TakePendingTypeOK ==
  ASSUME TypeOK, NEW i \in Ids, Outstanding(i), NEW v \in Result, TakePending(i, v)
  PROVE  /\ pending' \in [Ids -> Calls \cup {NoCall}]
         /\ inFlight' \in 0..U32Max
         /\ cur' \in Calls
         /\ result' \in Result
  BY CounterRange DEF TypeOK, Outstanding, TakePending

(* The actions of the callers keep the types.                              *)
LEMMA CallerTypeOK ==
  ASSUME TypeOK, NEW c \in Calls, Caller(c)
  PROVE  TypeOK'
  <1> USE DEF TypeOK, callerVars, daemonVars
  <1>1. CASE Send(c)
    BY <1>1 DEF Send
  <1>2. CASE SerializeError(c)
    BY <1>2, ErrIsResult, ResultIsSlot DEF SerializeError
  <1>3. CASE Enqueue(c)
    <2>1. queue' \in Seq(Calls) /\ Len(queue') <= Capacity
      BY <1>3, BoundsAssumption DEF Enqueue
    <2> QED
      BY <1>3, <2>1 DEF Enqueue
  <1>4. CASE SendClosed(c)
    BY <1>4, ResultIsSlot DEF SendClosed
  <1>5. CASE Receive(c)
    BY <1>5 DEF Receive
  <1>6. CASE Cancel(c)
    BY <1>6, ResultIsSlot DEF Cancel
  <1> QED
    BY <1>1, <1>2, <1>3, <1>4, <1>5, <1>6 DEF Caller

(* The end of the task keeps the types.                                    *)
LEMMA ReturnTypeOK ==
  ASSUME TypeOK, Return
  PROVE  TypeOK'
  <1>1. slot' \in [Calls -> Slot]
    BY ResultIsSlot DEF TypeOK, Return
  <1>2. queue' \in Seq(Calls) /\ Len(queue') <= Capacity /\ inbox' \in Seq(Frame)
    BY BoundsAssumption DEF Return, StopReading
  <1> QED
    BY <1>1, <1>2 DEF TypeOK, Return, StopReading, callerVars

(* The actions of the dispatcher task keep the types.                      *)
LEMMA RunTypeOK ==
  ASSUME TypeOK, Run \/ Transmit \/ Abort
  PROVE  TypeOK'
  <1> USE DEF callerVars, daemonVars
  <1>0. ASSUME inbox # << >>
        PROVE  Head(inbox) \in Frame /\ Tail(inbox) \in Seq(Frame)
    BY <1>0 DEF TypeOK
  <1>1. CASE Recv
    <2>1. /\ Head(queue) \in Calls
          /\ Tail(queue) \in Seq(Calls) /\ Len(Tail(queue)) <= Capacity
      BY <1>1, BoundsAssumption DEF TypeOK, Recv
    <2> QED
      BY <1>1, <2>1 DEF TypeOK, Recv
  <1>2. CASE Track
    BY <1>2, CounterRange, ResultIsSlot DEF TypeOK, Track
  <1>3. CASE ReadResponse
    <2> DEFINE f == Head(inbox)
               kind == pending_kind(RequestOf[pending[f.id]])
               v == Ok(f.re, remap_response(kind, f.response))
    <2>1. inbox' \in Seq(Frame)
      BY <1>3, <1>0 DEF ReadResponse
    <2>2. v \in Result
      BY <1>3, <1>0, ResponseFrame, RemapIsResponse, ErrIsResult DEF ReadResponse
    <2>3. CASE Outstanding(f.id)
      <3>1. TakePending(f.id, v) /\ task' = "routing"
        BY <1>3, <2>3 DEF ReadResponse
      <3>2. f.id \in Ids
        BY <2>3 DEF Outstanding
      <3> HIDE DEF f, v
      <3>3. /\ pending' \in [Ids -> Calls \cup {NoCall}] /\ inFlight' \in 0..U32Max
            /\ cur' \in Calls /\ result' \in Result
        BY <2>2, <2>3, <3>1, <3>2, TakePendingTypeOK
      <3> QED
        BY <1>3, <2>1, <3>1, <3>3 DEF TypeOK, ReadResponse
    <2>4. CASE ~Outstanding(f.id)
      BY <1>3, <2>1, <2>4 DEF TypeOK, ReadResponse
    <2> QED
      BY <2>3, <2>4
  <1>4. CASE ReadUndecodable
    <2> DEFINE f == Head(inbox)
    <2>1. inbox' \in Seq(Frame)
      BY <1>4, <1>0 DEF ReadUndecodable
    <2>2. CASE Outstanding(f.id)
      <3>1. TakePending(f.id, Err("Decode")) /\ task' = "routing"
        BY <1>4, <2>2 DEF ReadUndecodable
      <3>2. f.id \in Ids /\ Err("Decode") \in Result
        BY <2>2, ErrIsResult DEF Outstanding
      <3> HIDE DEF f
      <3>3. /\ pending' \in [Ids -> Calls \cup {NoCall}] /\ inFlight' \in 0..U32Max
            /\ cur' \in Calls /\ result' \in Result
        BY <2>2, <3>1, <3>2, TakePendingTypeOK
      <3> QED
        BY <1>4, <2>1, <3>1, <3>3 DEF TypeOK, ReadUndecodable
    <2>3. CASE ~Outstanding(f.id)
      BY <1>4, <2>1, <2>3 DEF TypeOK, ReadUndecodable
    <2> QED
      BY <2>2, <2>3
  <1>5. CASE ReadFatal
    <2>1. result' \in Result /\ inbox' \in Seq(Frame)
      BY <1>5, ErrIsResult DEF ReadFatal, StopReading
    <2> QED
      BY <1>5, <2>1 DEF TypeOK, ReadFatal, StopReading
  <1>6. CASE SendReply
    BY <1>6, ErrIsResult, ResultIsSlot DEF TypeOK, SendReply
  <1>7. CASE DrainNext
    <2>1. PICK i \in Ids : Outstanding(i) /\ TakePending(i, result)
      BY <1>7 DEF DrainNext
    <2>2. /\ pending' \in [Ids -> Calls \cup {NoCall}] /\ inFlight' \in 0..U32Max
          /\ cur' \in Calls /\ result' \in Result
      BY <2>1, TakePendingTypeOK DEF TypeOK
    <2> QED
      BY <1>7, <2>2 DEF TypeOK, DrainNext
  <1>8. CASE DrainDone \/ RecvNone \/ Abort
    BY <1>8, ReturnTypeOK DEF DrainDone, RecvNone, Abort
  <1>9. CASE Write
    BY <1>9 DEF TypeOK, Write
  <1>10. CASE WriteError
    <2>1. Err("Write") \in Slot
      BY ErrIsResult, ResultIsSlot
    <2>2. slot' \in [Calls -> Slot]
      BY <1>10, <2>1 DEF TypeOK, WriteError
    <2>3. result' \in Result /\ inbox' \in Seq(Frame)
      BY <1>10, ErrIsResult DEF WriteError, StopReading
    <2> QED
      BY <1>10, <2>2, <2>3 DEF TypeOK, WriteError, StopReading
  <1> QED
    BY <1>1, <1>2, <1>3, <1>4, <1>5, <1>6, <1>7, <1>8, <1>9, <1>10 DEF Run, Transmit

(* The actions of the daemon and of the network keep the types.            *)
LEMMA NetworkTypeOK ==
  ASSUME TypeOK, Network \/ \E c \in Calls : Answer(c) \/ AnswerUndecodable(c)
  PROVE  TypeOK'
  <1> USE DEF callerVars
  <1>0. ASSUME NEW f \in Frame
        PROVE  Append(inbox, f) \in Seq(Frame)
    BY DEF TypeOK
  <1>1. ASSUME NEW c \in Calls, Answer(c)
        PROVE  TypeOK'
    <2>1. PICK r \in daemon_answers(RequestOf[c]) :
            inbox' = Append(inbox, [type |-> "response", id |-> IdOf[c], re |-> c, response |-> r])
      BY <1>1 DEF Answer
    <2>2. r \in Response
      BY AnswersAreResponses, CallsAssumption
    <2>3. [type |-> "response", id |-> IdOf[c], re |-> c, response |-> r] \in Frame
      BY <2>2, CallsAssumption DEF Frame
    <2>4. inbox' \in Seq(Frame)
      BY <1>0, <2>1, <2>3
    <2> QED
      BY <1>1, <2>4 DEF TypeOK, Answer
  <1>2. ASSUME NEW c \in Calls, AnswerUndecodable(c)
        PROVE  TypeOK'
    <2>1. [type |-> "undecodable", id |-> IdOf[c]] \in Frame
      BY CallsAssumption DEF Frame
    <2>2. inbox' \in Seq(Frame)
      BY <1>0, <1>2, <2>1 DEF AnswerUndecodable
    <2> QED
      BY <1>2, <2>2 DEF TypeOK, AnswerUndecodable
  <1>3. CASE Stray
    <2>1. inbox' \in Seq(Frame)
      BY <1>0, <1>3, StraysAreFrames DEF Stray
    <2>2. strays' \in 0..MaxStrays
      BY <1>3, BoundsAssumption DEF TypeOK, Stray
    <2> QED
      BY <1>3, <2>1, <2>2 DEF TypeOK, Stray
  <1>4. CASE PeerClose
    <2>1. inbox' \in Seq(Frame)
      BY <1>0, <1>4, EndsAreFrames DEF PeerClose
    <2> QED
      BY <1>4, <2>1 DEF TypeOK, PeerClose
  <1>5. CASE Reset
    <2>1. PICK k \in 0..Len(inbox) : inbox' = Append(SubSeq(inbox, 1, k), [type |-> "error"])
      BY <1>5 DEF Reset
    <2>2. SubSeq(inbox, 1, k) \in Seq(Frame)
      BY DEF TypeOK
    <2>3. inbox' \in Seq(Frame)
      BY <2>1, <2>2, EndsAreFrames
    <2> QED
      BY <1>5, <2>3 DEF TypeOK, Reset
  <1>6. CASE LoseLink
    BY <1>6 DEF TypeOK, LoseLink
  <1> QED
    BY <1>1, <1>2, <1>3, <1>4, <1>5, <1>6 DEF Network

(* Every step keeps the types.                                             *)
LEMMA NextTypeOK == TypeOK /\ [Next]_vars => TypeOK'
  <1> SUFFICES ASSUME TypeOK, [Next]_vars PROVE TypeOK'
    OBVIOUS
  <1>1. ASSUME NEW c \in Calls, Caller(c) PROVE TypeOK'
    BY <1>1, CallerTypeOK
  <1>2. CASE DropJob
    <2>1. call' \in [Calls -> {"idle", "sending", "waiting", "done", "cancelled"}]
      BY <1>2 DEF TypeOK, DropJob
    <2> QED
      BY <1>2, <2>1 DEF TypeOK, DropJob, daemonVars
  <1>3. CASE DropClones
    BY <1>3 DEF TypeOK, DropClones, daemonVars
  <1>4. CASE Run \/ Transmit \/ Abort
    BY <1>4, RunTypeOK
  <1>5. CASE Network \/ \E c \in Calls : Answer(c) \/ AnswerUndecodable(c)
    BY <1>5, NetworkTypeOK
  <1>6. CASE UNCHANGED vars
    BY <1>6 DEF vars, TypeOK
  <1> QED
    BY <1>1, <1>2, <1>3, <1>4, <1>5, <1>6 DEF Next

(* Every reachable state is well typed; in particular the queue never      *)
(* holds more than SEND_QUEUE_CAPACITY requests and the counter never      *)
(* leaves its width.                                                       *)
THEOREM Typing == Spec => []TypeOK
  BY InitTypeOK, NextTypeOK, PTL DEF Spec

-----------------------------------------------------------------------------
(* No caller is orphaned.                                                  *)

(* The steps of callers, daemon and network leave the task's locals alone. *)
LEMMA OthersKeepTask ==
  ASSUME \/ \E c \in Calls : Caller(c) \/ Answer(c) \/ AnswerUndecodable(c)
         \/ DropJob \/ DropClones \/ Network \/ UNCHANGED vars
  PROVE  UNCHANGED <<task, cur, result, pending, inFlight>>
  BY DEF Caller, Send, SerializeError, Enqueue, SendClosed, Receive, Cancel, Answer,
         AnswerUndecodable, DropJob, DropClones, Network, Stray, PeerClose, Reset,
         LoseLink, vars

(* Every step keeps track of whether the task holds a reply slot.          *)
LEMMA NextCurHeld == TypeOK /\ CurHeld /\ [Next]_vars => CurHeld'
  <1> SUFFICES ASSUME TypeOK, CurHeld, [Next]_vars PROVE CurHeld'
    OBVIOUS
  <1>1. CASE \/ \E c \in Calls : Caller(c) \/ Answer(c) \/ AnswerUndecodable(c)
             \/ DropJob \/ DropClones \/ Network \/ UNCHANGED vars
    BY <1>1, OthersKeepTask DEF CurHeld
  <1>2. CASE Recv
    <2>1. Head(queue) \in Calls
      BY <1>2 DEF TypeOK, Recv
    <2> QED
      BY <1>2, <2>1, CallsAssumption DEF CurHeld, Recv
  <1>3. CASE Track \/ SendReply \/ WriteError
    BY <1>3 DEF CurHeld, Track, SendReply, WriteError
  <1>4. CASE ReadResponse \/ ReadUndecodable
    BY <1>4 DEF CurHeld, ReadResponse, ReadUndecodable, TakePending, Outstanding
  <1>5. CASE ReadFatal \/ Write
    BY <1>5 DEF CurHeld, ReadFatal, Write
  <1>6. CASE DrainNext
    BY <1>6 DEF CurHeld, DrainNext, TakePending, Outstanding
  <1>7. CASE DrainDone \/ RecvNone \/ Abort
    BY <1>7 DEF CurHeld, DrainDone, RecvNone, Abort, Return
  <1> QED
    BY <1>1, <1>2, <1>3, <1>4, <1>5, <1>6, <1>7 DEF Next, Run, Transmit

(* Moving a slot from the map to the local loses nothing.                  *)
LEMMA TakePendingOwned ==
  ASSUME TypeOK, cur = NoCall, NEW i \in Ids, NEW v, TakePending(i, v), UNCHANGED queue
  PROVE  Owned \ {NoCall} \subseteq Owned'
  BY DEF TypeOK, TakePending, Owned

(* Every step keeps the slot of a waiting caller in somebody's hands.      *)
LEMMA NextNoOrphan == NoOrphanInv /\ [Next]_vars => NoOrphan'
  <1> SUFFICES ASSUME TypeOK, CurHeld, NoOrphan, [Next]_vars,
                      NEW c \in Calls, call'[c] = "waiting", slot'[c] = Open
               PROVE  task' # "returned" /\ c \in Owned'
    BY DEF NoOrphanInv, NoOrphan
  <1> USE DEF callerVars, daemonVars
  <1>0. c # NoCall
    BY CallsAssumption
  <1>1. ASSUME NEW d \in Calls, Caller(d)
        PROVE  task' # "returned" /\ c \in Owned'
    <2>1. CASE Enqueue(d)
      <3>1. task' # "returned"
        BY <2>1 DEF Enqueue
      <3>2. ASSUME c = d PROVE c \in Owned'
        <4>1. queue' = Append(queue, c) /\ queue \in Seq(Calls)
          BY <2>1, <3>2 DEF TypeOK, Enqueue
        <4>2. Len(queue') = Len(queue) + 1 /\ queue'[Len(queue) + 1] = c
          BY <4>1
        <4>3. Len(queue) + 1 \in 1..Len(queue')
          BY <4>1, <4>2
        <4> QED
          BY <4>2, <4>3 DEF Owned
      <3>3. ASSUME c # d PROVE c \in Owned'
        <4>1. c \in Owned
          BY <2>1, <3>3 DEF TypeOK, NoOrphan, Enqueue
        <4>2. \A k \in 1..Len(queue) : k \in 1..Len(queue') /\ queue'[k] = queue[k]
          BY <2>1 DEF TypeOK, Enqueue
        <4> QED
          BY <2>1, <4>1, <4>2 DEF Owned, Enqueue
      <3> QED
        BY <3>1, <3>2, <3>3
    <2>2. CASE Send(d) \/ SerializeError(d) \/ SendClosed(d) \/ Receive(d) \/ Cancel(d)
      <3>1. call[c] = "waiting" /\ slot[c] = Open /\ UNCHANGED <<task, queue, cur, pending>>
        BY <2>2, ResultIsSlot, ErrIsResult DEF TypeOK, Send, SerializeError, SendClosed,
           Receive, Cancel
      <3> QED
        BY <3>1 DEF NoOrphan, Owned
    <2> QED
      BY <1>1, <2>1, <2>2 DEF Caller
  <1>2. CASE \/ \E d \in Calls : Answer(d) \/ AnswerUndecodable(d)
             \/ DropJob \/ DropClones \/ Network \/ UNCHANGED vars
    <2>1. UNCHANGED <<slot, task, queue, cur, pending>>
      BY <1>2 DEF Answer, AnswerUndecodable, DropJob, DropClones, Network, Stray, PeerClose,
         Reset, LoseLink, vars
    <2>2. call[c] = "waiting"
      <3>1. CASE DropJob
        BY <3>1 DEF TypeOK, DropJob
      <3>2. CASE ~DropJob
        BY <1>2, <3>2 DEF Answer, AnswerUndecodable, DropClones, Network, Stray, PeerClose,
           Reset, LoseLink, vars
      <3> QED
        BY <3>1, <3>2
    <2> QED
      BY <2>1, <2>2 DEF NoOrphan, Owned
  <1>3. CASE Recv
    <2>1. c \in Owned /\ cur = NoCall
      BY <1>3 DEF NoOrphan, CurHeld, Recv
    <2>2. \A k \in 1..Len(queue) : k = 1 \/ (k - 1 \in 1..Len(queue') /\ queue'[k - 1] = queue[k])
      BY <1>3 DEF TypeOK, Recv
    <2>3. cur' = queue[1] /\ pending' = pending /\ task' # "returned"
      BY <1>3 DEF TypeOK, Recv
    <2> QED
      BY <1>0, <2>1, <2>2, <2>3 DEF Owned
  <1>4. CASE Track
    <2>1. slot[c] = Open /\ c # pending[IdOf[cur]]
      BY <1>4, ResultIsSlot DEF TypeOK, Track
    <2>2. c \in Owned
      BY <1>4, <2>1 DEF NoOrphan, Track
    <2>3. cur \in Calls /\ IdOf[cur] \in Ids
      BY <1>4, CallsAssumption DEF TypeOK, CurHeld, Track
    <2> QED
      BY <1>0, <1>4, <2>1, <2>2, <2>3 DEF TypeOK, Owned, Track
  <1>5. CASE ReadResponse \/ ReadUndecodable
    <2>1. c \in Owned /\ cur = NoCall /\ UNCHANGED queue /\ task' # "returned"
      BY <1>5 DEF NoOrphan, CurHeld, ReadResponse, ReadUndecodable
    <2>2. \/ \E i \in Ids : \E v : TakePending(i, v)
          \/ UNCHANGED <<pending, cur>>
      BY <1>5 DEF ReadResponse, ReadUndecodable, Outstanding
    <2> QED
      BY <1>0, <2>1, <2>2, TakePendingOwned DEF Owned
  <1>6. CASE ReadFatal \/ Write
    BY <1>6 DEF NoOrphan, Owned, ReadFatal, Write
  <1>7. CASE SendReply \/ WriteError
    <2>1. c # cur /\ slot[c] = Open
      BY <1>7, ResultIsSlot, ErrIsResult DEF TypeOK, SendReply, WriteError
    <2> QED
      BY <1>7, <2>1 DEF NoOrphan, Owned, SendReply, WriteError
  <1>8. CASE DrainNext
    <2>1. PICK i \in Ids : TakePending(i, result)
      BY <1>8 DEF DrainNext
    <2>2. c \in Owned /\ cur = NoCall /\ UNCHANGED queue /\ task' # "returned"
      BY <1>8 DEF NoOrphan, CurHeld, DrainNext
    <2> QED
      BY <1>0, <2>1, <2>2, TakePendingOwned
  <1>9. CASE DrainDone \/ RecvNone \/ Abort
    <2>1. Return
      BY <1>9 DEF DrainDone, RecvNone, Abort
    <2>2. c \notin Owned /\ slot[c] = Open
      BY <2>1, ResultIsSlot DEF TypeOK, Return
    <2> QED
      BY <2>1, <2>2 DEF NoOrphan, Return
  <1> QED
    BY <1>1, <1>2, <1>3, <1>4, <1>5, <1>6, <1>7, <1>8, <1>9 DEF Next, Run, Transmit

(* "so no caller hangs": in every reachable state, whoever waits for a     *)
(* reply waits for a running task that holds the slot to reply to.         *)
THEOREM NobodyOrphaned == Spec => []NoOrphan
  <1>1. Init => NoOrphanInv
    BY InitTypeOK DEF Init, NoOrphanInv, CurHeld, NoOrphan
  <1>2. NoOrphanInv /\ [Next]_vars => NoOrphanInv'
    BY NextTypeOK, NextCurHeld, NextNoOrphan DEF NoOrphanInv
  <1>3. NoOrphanInv => NoOrphan
    BY DEF NoOrphanInv
  <1> QED
    BY <1>1, <1>2, <1>3, PTL DEF Spec

-----------------------------------------------------------------------------
(* Answers reach the request they belong to.                               *)

(* Only the task changes the map, and it inserts under the request's id.   *)
LEMMA NextPendingById == TypeOK /\ PendingById /\ [Next]_vars => PendingById'
  <1> SUFFICES ASSUME TypeOK, PendingById, [Next]_vars PROVE PendingById'
    OBVIOUS
  <1>1. CASE \/ \E c \in Calls : Caller(c) \/ Answer(c) \/ AnswerUndecodable(c)
             \/ DropJob \/ DropClones \/ Network \/ UNCHANGED vars
    BY <1>1, OthersKeepTask DEF PendingById
  <1>2. CASE Recv \/ SendReply \/ ReadFatal \/ Write \/ WriteError
    BY <1>2 DEF PendingById, Recv, SendReply, ReadFatal, Write, WriteError
  <1>3. CASE Track
    BY <1>3 DEF TypeOK, PendingById, Track
  <1>4. CASE ReadResponse \/ ReadUndecodable \/ DrainNext
    BY <1>4 DEF TypeOK, PendingById, ReadResponse, ReadUndecodable, DrainNext, TakePending,
       Outstanding
  <1>5. CASE DrainDone \/ RecvNone \/ Abort
    BY <1>5 DEF PendingById, DrainDone, RecvNone, Abort, Return
  <1> QED
    BY <1>1, <1>2, <1>3, <1>4, <1>5 DEF Next, Run, Transmit

(* A frame that copies the id of the request it answers, if it has one.    *)
ById(f) == f.type = "response" /\ f.id \in Ids => f.re \in Calls /\ IdOf[f.re] = f.id

(* What the daemon may append to the inbox is such a frame.                *)
LEMMA AppendAnswersById ==
  ASSUME TypeOK, AnswersById, NEW f \in Frame, ById(f), inbox' = Append(inbox, f)
  PROVE  AnswersById'
  <1>1. /\ inbox \in Seq(Frame) /\ Len(inbox') = Len(inbox) + 1
        /\ inbox'[Len(inbox) + 1] = f
        /\ \A k \in 1..Len(inbox) : inbox'[k] = inbox[k]
    BY DEF TypeOK
  <1>2. SUFFICES ASSUME NEW k \in 1..Len(inbox') PROVE ById(inbox'[k])
    BY DEF AnswersById, ById
  <1>3. CASE k = Len(inbox) + 1
    BY <1>1, <1>3
  <1>4. CASE k \in 1..Len(inbox)
    BY <1>1, <1>4 DEF AnswersById, ById
  <1> QED
    BY <1>1, <1>2, <1>3, <1>4

(* No step puts a frame with somebody else's id into the inbox.            *)
LEMMA NextAnswersById == TypeOK /\ AnswersById /\ [Next]_vars => AnswersById'
  <1> SUFFICES ASSUME TypeOK, AnswersById, [Next]_vars PROVE AnswersById'
    OBVIOUS
  <1> USE DEF callerVars, daemonVars
  <1>1. CASE \/ UNCHANGED vars \/ DropJob \/ DropClones \/ LoseLink
             \/ \E c \in Calls : Caller(c)
             \/ Recv \/ Track \/ SendReply \/ DrainNext \/ Write
    <2>1. inbox' = inbox
      BY <1>1 DEF vars, DropJob, DropClones, LoseLink, Caller, Send, SerializeError, Enqueue,
         SendClosed, Receive, Cancel, Recv, Track, SendReply, DrainNext, Write
    <2> QED
      BY <2>1 DEF AnswersById
  <1>2. CASE ReadResponse \/ ReadUndecodable
    <2>1. inbox # << >> /\ inbox' = Tail(inbox) /\ inbox \in Seq(Frame)
      BY <1>2 DEF TypeOK, ReadResponse, ReadUndecodable
    <2>2. \A k \in 1..Len(inbox') : k + 1 \in 1..Len(inbox) /\ inbox'[k] = inbox[k + 1]
      BY <2>1
    <2> QED
      BY <2>2 DEF AnswersById
  <1>3. CASE ReadFatal \/ WriteError \/ DrainDone \/ RecvNone \/ Abort
    <2>1. inbox' = << >>
      BY <1>3 DEF ReadFatal, WriteError, DrainDone, RecvNone, Abort, Return, StopReading
    <2> QED
      BY <2>1 DEF AnswersById
  <1>4. ASSUME NEW c \in Calls, Answer(c)
        PROVE  AnswersById'
    <2>1. PICK r \in daemon_answers(RequestOf[c]) :
            inbox' = Append(inbox, [type |-> "response", id |-> IdOf[c], re |-> c, response |-> r])
      BY <1>4 DEF Answer
    <2> DEFINE f == [type |-> "response", id |-> IdOf[c], re |-> c, response |-> r]
    <2>2. r \in Response
      BY AnswersAreResponses, CallsAssumption
    <2>3. f \in Frame /\ ById(f)
      BY <2>2, CallsAssumption DEF Frame, ById
    <2> HIDE DEF f
    <2> QED
      BY <2>1, <2>3, AppendAnswersById DEF f
  <1>5. ASSUME NEW c \in Calls, AnswerUndecodable(c)
        PROVE  AnswersById'
    <2> DEFINE f == [type |-> "undecodable", id |-> IdOf[c]]
    <2>1. f \in Frame /\ ById(f)
      BY CallsAssumption DEF Frame, ById
    <2>2. inbox' = Append(inbox, f)
      BY <1>5 DEF AnswerUndecodable
    <2> HIDE DEF f
    <2> QED
      BY <2>1, <2>2, AppendAnswersById
  <1>6. CASE Stray
    <2>1. PICK f \in StrayFrame : inbox' = Append(inbox, f)
      BY <1>6 DEF Stray
    <2>2. f \in Frame /\ ById(f)
      BY StraysAreFrames, CallsAssumption DEF StrayFrame, ById
    <2> QED
      BY <2>1, <2>2, AppendAnswersById
  <1>7. CASE PeerClose
    <2> DEFINE f == [type |-> "eof"]
    <2>1. f \in Frame /\ ById(f) /\ inbox' = Append(inbox, f)
      BY <1>7, EndsAreFrames DEF ById, PeerClose
    <2> HIDE DEF f
    <2> QED
      BY <2>1, AppendAnswersById
  <1>8. CASE Reset
    <2>1. PICK n \in 0..Len(inbox) : inbox' = Append(SubSeq(inbox, 1, n), [type |-> "error"])
      BY <1>8 DEF Reset
    <2>2. /\ inbox \in Seq(Frame)
          /\ SubSeq(inbox, 1, n) \in Seq(Frame)
          /\ Len(SubSeq(inbox, 1, n)) = n
          /\ \A k \in 1..n : SubSeq(inbox, 1, n)[k] = inbox[k]
      BY DEF TypeOK
    <2>3. /\ Len(inbox') = n + 1
          /\ inbox'[n + 1] = [type |-> "error"]
          /\ \A k \in 1..n : inbox'[k] = inbox[k]
      BY <2>1, <2>2
    <2>4. SUFFICES ASSUME NEW k \in 1..(n + 1) PROVE ById(inbox'[k])
      BY <2>3 DEF AnswersById, ById
    <2>5. CASE k = n + 1
      BY <2>3, <2>5 DEF ById
    <2>6. CASE k \in 1..n
      BY <2>2, <2>3, <2>6 DEF AnswersById, ById
    <2> QED
      BY <2>5, <2>6
  <1> QED
    BY <1>1, <1>2, <1>3, <1>4, <1>5, <1>6, <1>7, <1>8 DEF Next, Run, Transmit, Network

(* Failures and dropped or open slots carry no answer.                     *)
LEMMA NoAnswerInFailure ==
  /\ \A why : Err(why).tag # "ok"
  /\ Closed.tag # "ok" /\ Open.tag # "ok" /\ Dropped.tag # "ok"
  /\ \A type : FatalCause(type).tag # "ok"
  /\ \A c, r : Ok(c, r).re = c
  BY DEF Err, Closed, Open, Dropped, FatalCause, Ok

(* Every step makes the answer about to be delivered that of the slot.     *)
LEMMA NextResultOwn == AnswerInv /\ [Next]_vars => ResultOwn'
  <1> SUFFICES ASSUME TypeOK, CurHeld, PendingById, AnswersById, ResultOwn, [Next]_vars,
                      UniqueIds, result'.tag = "ok"
               PROVE  task' = "routing" /\ result'.re = cur'
    BY DEF AnswerInv, ResultOwn, UniqueIds
  <1>1. CASE \/ \E c \in Calls : Caller(c) \/ Answer(c) \/ AnswerUndecodable(c)
             \/ DropJob \/ DropClones \/ Network \/ UNCHANGED vars
    BY <1>1, OthersKeepTask DEF ResultOwn
  <1>2. CASE Recv \/ Track \/ Write
    BY <1>2 DEF ResultOwn, Recv, Track, Write
  <1>3. CASE SendReply \/ ReadFatal \/ WriteError
    BY <1>3, NoAnswerInFailure DEF SendReply, ReadFatal, WriteError
  <1>4. CASE DrainNext
    BY <1>4 DEF ResultOwn, DrainNext, TakePending
  <1>5. CASE DrainDone \/ RecvNone \/ Abort
    BY <1>5 DEF ResultOwn, DrainDone, RecvNone, Abort, Return
  <1>6. CASE ReadUndecodable
    BY <1>6, NoAnswerInFailure DEF ResultOwn, ReadUndecodable, TakePending
  <1>7. CASE ReadResponse
    <2> DEFINE f == Head(inbox)
    <2>1. task = "select" /\ inbox # << >> /\ f.type = "response"
      BY <1>7 DEF ReadResponse
    <2>2. 1 \in 1..Len(inbox) /\ f = inbox[1]
      BY <2>1 DEF TypeOK
    <2>3. Outstanding(f.id)
      BY <1>7, <2>1 DEF ResultOwn, ReadResponse
    <2>4. /\ f.id \in Ids /\ pending[f.id] \in Calls /\ IdOf[pending[f.id]] = f.id
      BY <2>3 DEF TypeOK, Outstanding, PendingById
    <2>5. f.re \in Calls /\ IdOf[f.re] = f.id
      BY <2>1, <2>2, <2>4 DEF AnswersById
    <2>6. f.re = pending[f.id]
      BY <2>4, <2>5 DEF UniqueIds
    <2> QED
      BY <1>7, <2>3, <2>6, NoAnswerInFailure DEF ReadResponse, TakePending
  <1> QED
    BY <1>1, <1>2, <1>3, <1>4, <1>5, <1>6, <1>7 DEF Next, Run, Transmit

(* Every step leaves callers with their own answers.                       *)
LEMMA NextReplies == AnswerInv /\ [Next]_vars => RepliesToOwnRequest'
  <1> SUFFICES ASSUME TypeOK, CurHeld, ResultOwn, RepliesToOwnRequest, [Next]_vars, UniqueIds,
                      NEW c \in Calls, slot'[c].tag = "ok"
               PROVE  slot'[c].re = c
    BY DEF AnswerInv, RepliesToOwnRequest, UniqueIds
  <1>0. ASSUME slot'[c] = slot[c]
        PROVE  slot'[c].re = c
    BY <1>0 DEF RepliesToOwnRequest
  <1> USE DEF callerVars, daemonVars
  <1>1. ASSUME NEW d \in Calls, Caller(d)
        PROVE  slot'[c] = slot[c]
    BY <1>1, NoAnswerInFailure DEF TypeOK, Caller, Send, SerializeError, Enqueue, SendClosed,
       Receive, Cancel
  <1>2. CASE \/ \E d \in Calls : Answer(d) \/ AnswerUndecodable(d)
             \/ DropJob \/ DropClones \/ Network \/ UNCHANGED vars
    BY <1>0, <1>2 DEF Answer, AnswerUndecodable, DropJob, DropClones, Network, Stray, PeerClose,
       Reset, LoseLink, vars
  <1>3. CASE Recv \/ Write \/ ReadResponse \/ ReadUndecodable \/ ReadFatal \/ DrainNext
    BY <1>0, <1>3 DEF Recv, Write, ReadResponse, ReadUndecodable, ReadFatal, DrainNext
  <1>4. CASE Track \/ WriteError
    BY <1>0, <1>4, NoAnswerInFailure DEF TypeOK, Track, WriteError
  <1>5. CASE SendReply
    BY <1>0, <1>5 DEF TypeOK, ResultOwn, SendReply
  <1>6. CASE DrainDone \/ RecvNone \/ Abort
    BY <1>0, <1>6, NoAnswerInFailure DEF DrainDone, RecvNone, Abort, Return
  <1> QED
    BY <1>0, <1>1, <1>2, <1>3, <1>4, <1>5, <1>6 DEF Next, Run, Transmit

(* With distinct ids, an answer that is delivered is the answer to that    *)
(* very request, for any interleaving of callers, out-of-order answers,    *)
(* duplicates and unknown ids.                                             *)
THEOREM OwnAnswers == Spec => []RepliesToOwnRequest
  <1>1. Init => AnswerInv
    <2> SUFFICES ASSUME Init PROVE AnswerInv
      OBVIOUS
    <2>1. CurHeld /\ PendingById /\ AnswersById
      BY DEF Init, CurHeld, PendingById, AnswersById
    <2>2. ResultOwn /\ RepliesToOwnRequest
      BY NoAnswerInFailure DEF Init, ResultOwn, RepliesToOwnRequest
    <2> QED
      BY <2>1, <2>2, InitTypeOK DEF AnswerInv
  <1>2. AnswerInv /\ [Next]_vars => AnswerInv'
    BY NextTypeOK, NextCurHeld, NextPendingById, NextAnswersById, NextResultOwn, NextReplies
       DEF AnswerInv
  <1>3. AnswerInv => RepliesToOwnRequest
    BY DEF AnswerInv
  <1> QED
    BY <1>1, <1>2, <1>3, PTL DEF Spec

-----------------------------------------------------------------------------
(* The in-flight counter.                                                  *)

(* The ids with an entry in the map.                                       *)
Entries == {i \in Ids : Outstanding(i)}

(* A caller still in the queue's antechamber owns the only copy of its     *)
(* slot, so handing it over keeps slots in one place.                      *)
LEMMA EnqueueHeldOnce ==
  ASSUME TypeOK, HeldOnce, HandedOver, NEW c \in Calls, Enqueue(c)
  PROVE  HeldOnce' /\ HandedOver'
  <1>1. c \notin Owned
    BY CallsAssumption DEF HandedOver, Enqueue
  <1>2. /\ queue \in Seq(Calls) /\ Len(queue') = Len(queue) + 1
        /\ queue'[Len(queue) + 1] = c
        /\ \A k \in 1..Len(queue) : queue'[k] = queue[k]
    BY DEF TypeOK, Enqueue
  <1>3. Queued' = Queued \cup {c}
    BY <1>2 DEF Queued
  <1>4. Owned' = Owned \cup {c}
    <2>1. UNCHANGED <<pending, cur>>
      BY DEF Enqueue
    <2> QED
      BY <1>3, <2>1 DEF Owned, Queued
  <1>5. \A j, k \in 1..Len(queue') : queue'[j] = queue'[k] => j = k
    <2>1. \A j \in 1..Len(queue) : queue[j] # c
      BY <1>1 DEF Owned
    <2> QED
      BY <1>2, <2>1 DEF HeldOnce
  <1>6. cur' \notin Queued' /\ \A i \in Ids : pending'[i] \notin Queued' /\ (cur' # NoCall => pending'[i] # cur')
    BY <1>1, <1>3 DEF HeldOnce, Owned, Enqueue
  <1>7. HandedOver'
    BY <1>4 DEF TypeOK, HandedOver, Enqueue
  <1> QED
    BY <1>5, <1>6, <1>7 DEF HeldOnce

(* Moving a slot from the map to the local keeps it in one place.          *)
LEMMA TakePendingHeldOnce ==
  ASSUME TypeOK, PendingById, HeldOnce, HandedOver, cur = NoCall, NEW i \in Ids, Outstanding(i),
         NEW v, TakePending(i, v), UNCHANGED <<queue, call, handles>>
  PROVE  HeldOnce' /\ HandedOver'
  <1>1. /\ cur' = pending[i] /\ pending[i] # NoCall
        /\ \A j \in Ids : pending'[j] = IF j = i THEN NoCall ELSE pending[j]
    BY DEF TypeOK, Outstanding, TakePending
  <1>2. \A j \in Ids : j # i => pending[j] # pending[i]
    BY <1>1 DEF PendingById
  <1>3. Queued' = Queued /\ NoCall \notin Queued
    BY CallsAssumption DEF Queued, TypeOK
  <1>4. HeldOnce'
    BY <1>1, <1>2, <1>3 DEF HeldOnce
  <1>5. Owned' \subseteq Owned \cup {NoCall}
    BY <1>1 DEF Owned
  <1> QED
    BY <1>4, <1>5 DEF HandedOver

(* Every step keeps slots in one place.                                    *)
LEMMA NextHeldOnce ==
  TypeOK /\ CurHeld /\ PendingById /\ HeldOnce /\ HandedOver /\ [Next]_vars
    => HeldOnce' /\ HandedOver'
  <1> SUFFICES ASSUME TypeOK, CurHeld, PendingById, HeldOnce, HandedOver, [Next]_vars
               PROVE  HeldOnce' /\ HandedOver'
    OBVIOUS
  <1> USE DEF callerVars, daemonVars
  <1>0. ASSUME UNCHANGED <<queue, pending, cur>>
        PROVE  HeldOnce' /\ Owned' = Owned
    BY <1>0 DEF HeldOnce, Owned, Queued
  <1>1. ASSUME NEW c \in Calls, Caller(c)
        PROVE  HeldOnce' /\ HandedOver'
    <2>1. CASE Enqueue(c)
      BY <2>1, EnqueueHeldOnce
    <2>2. CASE Send(c) \/ SerializeError(c)
      <3>1. UNCHANGED <<queue, pending, cur, handles>> /\ call[c] = "idle" /\ c # ExitCall
        BY <2>2 DEF Send, SerializeError
      <3>2. c \notin Owned
        BY <3>1, CallsAssumption DEF HandedOver
      <3>3. \A d \in Calls : d # c => call'[d] = call[d]
        BY <2>2 DEF TypeOK, Send, SerializeError
      <3>4. Owned \subseteq Calls \cup {NoCall}
        BY DEF TypeOK, Owned
      <3> QED
        BY <1>0, <3>1, <3>2, <3>3, <3>4 DEF HandedOver
    <2>3. CASE SendClosed(c) \/ Receive(c) \/ Cancel(c)
      <3>1. /\ UNCHANGED <<queue, pending, cur, handles>> /\ call[c] # "idle"
            /\ call'[c] \notin {"idle", "sending"}
            /\ \A d \in Calls : d # c => call'[d] = call[d]
        BY <2>3 DEF TypeOK, SendClosed, Receive, Cancel
      <3>2. Owned \subseteq Calls \cup {NoCall}
        BY DEF TypeOK, Owned
      <3> QED
        BY <1>0, <3>1, <3>2 DEF HandedOver
    <2> QED
      BY <1>1, <2>1, <2>2, <2>3 DEF Caller
  <1>2. CASE DropJob
    <2>1. UNCHANGED <<queue, pending, cur>> /\ handles = "job" /\ handles' # "job"
      BY <1>2 DEF DropJob
    <2>2. call' = call \/ (ExitCall \in Calls /\ call' = [call EXCEPT ![ExitCall] = "sending"])
      BY <1>2 DEF DropJob
    <2>3. ExitCall \in Calls => ExitCall \notin Owned
      BY <2>1, CallsAssumption DEF HandedOver
    <2>4. \A c \in Owned \ {NoCall} : call'[c] = call[c]
      BY <2>2, <2>3 DEF TypeOK, Owned
    <2> QED
      BY <1>0, <2>1, <2>4 DEF HandedOver
  <1>3. CASE \/ \E c \in Calls : Answer(c) \/ AnswerUndecodable(c)
             \/ DropClones \/ Network \/ UNCHANGED vars \/ ReadFatal \/ Write
    <2>1. UNCHANGED <<queue, pending, cur, call>> /\ (handles' = "job" => handles = "job")
      BY <1>3 DEF Answer, AnswerUndecodable, DropClones, Network, Stray, PeerClose, Reset,
         LoseLink, ReadFatal, Write, vars
    <2> QED
      BY <1>0, <2>1 DEF HandedOver
  <1>4. CASE Recv
    <2>1. /\ queue \in Seq(Calls) /\ queue # << >> /\ queue' = Tail(queue)
          /\ cur = NoCall /\ UNCHANGED <<pending, call, handles>>
      BY <1>4 DEF TypeOK, CurHeld, Recv
    <2>2. /\ cur' = queue[1] /\ 1 \in 1..Len(queue)
          /\ \A k \in 1..Len(queue') : k + 1 \in 1..Len(queue) /\ queue'[k] = queue[k + 1]
      BY <1>4, <2>1 DEF Recv
    <2>3. Queued' \subseteq Queued /\ cur' \in Queued /\ cur' \notin Queued'
      BY <2>2 DEF HeldOnce, Queued
    <2>4. \A j, k \in 1..Len(queue') : queue'[j] = queue'[k] => j = k
      <3> SUFFICES ASSUME NEW j \in 1..Len(queue'), NEW k \in 1..Len(queue'), queue'[j] = queue'[k]
                   PROVE  j = k
        OBVIOUS
      <3>1. queue[j + 1] = queue[k + 1] /\ j + 1 \in 1..Len(queue) /\ k + 1 \in 1..Len(queue)
        BY <2>2
      <3>2. j + 1 = k + 1
        BY <3>1 DEF HeldOnce
      <3>3. j \in Nat /\ k \in Nat
        BY <2>1
      <3> QED
        BY <3>2, <3>3
    <2>5. Owned' \subseteq Owned
      BY <2>1, <2>3 DEF Owned, Queued
    <2> QED
      BY <2>1, <2>3, <2>4, <2>5 DEF HeldOnce, HandedOver
  <1>5. CASE Track
    <2>1. cur \in Calls /\ IdOf[cur] \in Ids /\ cur' = NoCall
      BY <1>5, CallsAssumption DEF TypeOK, CurHeld, Track
    <2>2. Queued' = Queued /\ NoCall \notin Queued /\ UNCHANGED <<queue, call, handles>>
      BY <1>5, CallsAssumption DEF Track, Queued, TypeOK
    <2>3. \A i \in Ids : pending'[i] = IF i = IdOf[cur] THEN cur ELSE pending[i]
      BY <1>5 DEF TypeOK, Track
    <2>4. Owned' \subseteq Owned \cup {NoCall}
      BY <2>1, <2>2, <2>3 DEF Owned
    <2>5. HeldOnce'
      BY <2>1, <2>2, <2>3 DEF HeldOnce
    <2> QED
      BY <2>2, <2>4, <2>5 DEF HandedOver
  <1>6. CASE ReadResponse \/ ReadUndecodable
    <2>1. cur = NoCall /\ UNCHANGED <<queue, call, handles>>
      BY <1>6 DEF CurHeld, ReadResponse, ReadUndecodable
    <2>2. \/ \E i \in Ids : Outstanding(i) /\ \E v : TakePending(i, v)
          \/ UNCHANGED <<pending, cur>>
      BY <1>6 DEF ReadResponse, ReadUndecodable, Outstanding
    <2> QED
      BY <1>0, <2>1, <2>2, TakePendingHeldOnce DEF HandedOver
  <1>7. CASE SendReply \/ WriteError
    <2>1. UNCHANGED <<queue, pending, call, handles>> /\ cur' = NoCall
      BY <1>7 DEF SendReply, WriteError
    <2>2. Queued' = Queued /\ NoCall \notin Queued /\ Owned' \subseteq Owned \cup {NoCall}
      BY <2>1, CallsAssumption DEF Queued, TypeOK, Owned
    <2> QED
      BY <2>1, <2>2 DEF HeldOnce, HandedOver
  <1>8. CASE DrainNext
    <2>1. cur = NoCall /\ UNCHANGED <<queue, call, handles>>
      BY <1>8 DEF CurHeld, DrainNext
    <2> QED
      BY <1>8, <2>1, TakePendingHeldOnce DEF DrainNext
  <1>9. CASE DrainDone \/ RecvNone \/ Abort
    <2>1. /\ queue' = << >> /\ cur' = NoCall /\ pending' = [i \in Ids |-> NoCall]
          /\ UNCHANGED <<call, handles>>
      BY <1>9 DEF DrainDone, RecvNone, Abort, Return
    <2>2. Queued' = {} /\ Owned' \subseteq {NoCall}
      BY <2>1 DEF Queued, Owned
    <2> QED
      BY <2>1, <2>2 DEF HeldOnce, HandedOver
  <1> QED
    BY <1>1, <1>2, <1>3, <1>4, <1>5, <1>6, <1>7, <1>8, <1>9 DEF Next, Run, Transmit

(* There are never more entries than calls, so the counter cannot wrap.    *)
LEMMA EntriesBounded ==
  ASSUME TypeOK, PendingById
  PROVE  /\ IsFiniteSet(Entries)
         /\ Cardinality(Entries) \in Nat
         /\ Cardinality(Entries) < U32Max
  <1> DEFINE used == {IdOf[c] : c \in Calls}
  <1>1. Entries \subseteq used
    BY DEF TypeOK, PendingById, Entries, Outstanding
  <1>2. IsFiniteSet(used) /\ Cardinality(used) <= Cardinality(Calls)
    <2>1. IdOf \in Surjection(Calls, used)
      BY CallsAssumption DEF Surjection
    <2> QED
      BY <2>1, CallsAssumption, FS_Surjection
  <1>3. IsFiniteSet(Entries) /\ Cardinality(Entries) <= Cardinality(used)
    BY <1>1, <1>2, FS_Subset
  <1>4. Cardinality(Entries) \in Nat /\ Cardinality(used) \in Nat /\ Cardinality(Calls) \in Nat
    BY <1>2, <1>3, CallsAssumption, FS_CardinalityType
  <1> QED
    BY <1>2, <1>3, <1>4, BoundsAssumption

(* Removing an entry and un-counting it go together.                       *)
LEMMA TakePendingExact ==
  ASSUME TypeOK, PendingById, inFlight = Cardinality(Entries),
         NEW i \in Ids, Outstanding(i), NEW v, TakePending(i, v)
  PROVE  inFlight' = Cardinality(Entries')
  <1>1. i \in Entries /\ Entries' = Entries \ {i}
    BY DEF TypeOK, Entries, Outstanding, TakePending
  <1>2. Cardinality(Entries \ {i}) = Cardinality(Entries) - 1
    BY <1>1, EntriesBounded, FS_RemoveElement
  <1>3. Cardinality(Entries) # 0
    BY <1>1, EntriesBounded, FS_EmptySet
  <1> QED
    BY <1>1, <1>2, <1>3 DEF TakePending, fetch_sub

(* Every step keeps the counter exact.                                     *)
LEMMA NextInFlightExact == CountInv /\ [Next]_vars => InFlightExact'
  <1> SUFFICES ASSUME CountInv, [Next]_vars, UniqueIds, handles' = "job"
               PROVE  inFlight' = Cardinality(Entries')
    BY DEF InFlightExact, UniqueIds, Entries
  <1> USE DEF callerVars, daemonVars
  <1>0. handles = "job"
    BY DEF Next, Caller, Send, SerializeError, Enqueue, SendClosed, Receive, Cancel, Answer,
       AnswerUndecodable, DropJob, DropClones, Run, Transmit, Abort, Network, Recv, RecvNone,
       Track, ReadResponse, ReadUndecodable, ReadFatal, SendReply, DrainNext, DrainDone,
       Return, Write, WriteError, Stray, PeerClose, Reset, LoseLink, vars
  <1>1. inFlight = Cardinality(Entries)
    BY <1>0 DEF CountInv, InFlightExact, UniqueIds, Entries
  <1>2. ASSUME UNCHANGED <<pending, inFlight>>
        PROVE  inFlight' = Cardinality(Entries')
    BY <1>1, <1>2 DEF Entries, Outstanding
  <1>3. CASE \/ \E c \in Calls : Caller(c) \/ Answer(c) \/ AnswerUndecodable(c)
             \/ DropJob \/ DropClones \/ Network \/ UNCHANGED vars
    BY <1>2, <1>3, OthersKeepTask
  <1>4. CASE Recv \/ SendReply \/ ReadFatal \/ Write \/ WriteError
    BY <1>2, <1>4 DEF Recv, SendReply, ReadFatal, Write, WriteError
  <1>5. CASE Track
    <2>1. cur \in Calls /\ IdOf[cur] \in Ids
      BY <1>5, CallsAssumption DEF CountInv, TypeOK, CurHeld, Track
    <2>2. IdOf[cur] \notin Entries
      <3> SUFFICES ASSUME Outstanding(IdOf[cur]) PROVE FALSE
        BY DEF Entries
      <3>1. pending[IdOf[cur]] \in Calls /\ IdOf[pending[IdOf[cur]]] = IdOf[cur]
        BY <2>1 DEF CountInv, TypeOK, PendingById, Outstanding
      <3>2. pending[IdOf[cur]] = cur
        BY <2>1, <3>1 DEF UniqueIds
      <3> QED
        BY <2>1, <3>2, CallsAssumption DEF CountInv, HeldOnce
    <2>3. Entries' = Entries \cup {IdOf[cur]}
      BY <1>5, <2>1, CallsAssumption DEF CountInv, TypeOK, Entries, Outstanding, Track
    <2>4. Cardinality(Entries') = Cardinality(Entries) + 1
      BY <2>2, <2>3, EntriesBounded, FS_AddElement DEF CountInv
    <2>5. inFlight' = inFlight + 1
      BY <1>1, <1>5, EntriesBounded, BoundsAssumption DEF CountInv, Track, fetch_add
    <2> QED
      BY <1>1, <2>4, <2>5
  <1>6. CASE ReadResponse \/ ReadUndecodable
    <2>1. \/ \E i \in Ids : Outstanding(i) /\ \E v : TakePending(i, v)
          \/ UNCHANGED <<pending, inFlight>>
      BY <1>6 DEF ReadResponse, ReadUndecodable, Outstanding
    <2> QED
      BY <1>1, <1>2, <2>1, TakePendingExact DEF CountInv
  <1>7. CASE DrainNext
    BY <1>1, <1>7, TakePendingExact DEF CountInv, DrainNext
  <1>8. CASE DrainDone
    <2>1. Entries = {} /\ Entries' = {} /\ inFlight' = inFlight
      BY <1>8 DEF Entries, Outstanding, DrainDone, Return
    <2> QED
      BY <1>1, <2>1
  <1>9. CASE RecvNone \/ Abort
    BY <1>0, <1>9 DEF RecvNone, Abort
  <1> QED
    BY <1>3, <1>4, <1>5, <1>6, <1>7, <1>8, <1>9 DEF Next, Run, Transmit

(* With distinct ids and fewer than u32::MAX calls, the counter the pool   *)
(* routes by is the number of requests outstanding for as long as the Job  *)
(* lives: failed writes, cancelled callers, unknown or undecodable answers *)
(* and the drain of a dead connection included.                            *)
THEOREM CounterExact == Spec => []InFlightExact
  <1>1. Init => CountInv
    <2> SUFFICES ASSUME Init PROVE CountInv
      OBVIOUS
    <2>1. CurHeld /\ PendingById
      BY DEF Init, CurHeld, PendingById
    <2>2. Queued = {} /\ Owned \subseteq {NoCall}
      BY DEF Init, Queued, Owned
    <2>3. HeldOnce /\ HandedOver
      BY <2>2 DEF Init, HeldOnce, HandedOver
    <2>4. {i \in Ids : Outstanding(i)} = {}
      BY DEF Init, Outstanding
    <2>5. InFlightExact
      BY <2>4, FS_EmptySet DEF Init, InFlightExact
    <2> QED
      BY <2>1, <2>3, <2>5, InitTypeOK DEF CountInv
  <1>2. CountInv /\ [Next]_vars => CountInv'
    BY NextTypeOK, NextCurHeld, NextPendingById, NextHeldOnce, NextInFlightExact DEF CountInv
  <1>3. CountInv => InFlightExact
    BY DEF CountInv
  <1> QED
    BY <1>1, <1>2, <1>3, PTL DEF Spec

-----------------------------------------------------------------------------
(* The counter and the pool's sentinel.                                    *)

(* Calls whose request has not been written and counted: not handed over,  *)
(* still queued, or in the local of a write that is not complete.          *)
Uncounted ==
  {c \in Calls : call[c] \in {"idle", "sending"}} \cup Queued
    \cup (IF task \in {"sending", "sent"} THEN {cur} ELSE {})

(* Each call is counted at most once, and un-counted only when an entry is *)
(* found, so the counter stays between the entries and the calls counted,  *)
(* also where two calls share an id.                                       *)
CounterBounded ==
  /\ Cardinality(Entries) <= inFlight
  /\ inFlight <= Cardinality(Calls \ Uncounted)

SentinelInv == TypeOK /\ CurHeld /\ PendingById /\ HeldOnce /\ HandedOver /\ CounterBounded

(* Removing an entry and un-counting it keep the counter in its bounds.    *)
LEMMA TakePendingBounded ==
  ASSUME TypeOK, PendingById, CounterBounded,
         NEW i \in Ids, Outstanding(i), NEW v, TakePending(i, v)
  PROVE  /\ Cardinality(Entries') <= inFlight'
         /\ inFlight' <= inFlight /\ inFlight' \in Nat
  <1>1. i \in Entries /\ Entries' = Entries \ {i}
    BY DEF TypeOK, Entries, Outstanding, TakePending
  <1>2. Cardinality(Entries \ {i}) = Cardinality(Entries) - 1
    BY <1>1, EntriesBounded, FS_RemoveElement
  <1>3. Cardinality(Entries) # 0 /\ Cardinality(Entries) \in Nat
    BY <1>1, EntriesBounded, FS_EmptySet
  <1>4. inFlight \in Nat /\ Cardinality(Entries) <= inFlight
    BY BoundsAssumption DEF TypeOK, CounterBounded
  <1>5. inFlight' = inFlight - 1
    BY <1>3, <1>4 DEF TakePending, fetch_sub
  <1> QED
    BY <1>1, <1>2, <1>3, <1>4, <1>5

(* The calls counted are finitely many, fewer than u32::MAX, and the more  *)
(* the smaller the rest.                                                   *)
LEMMA CountedBounded ==
  ASSUME NEW S, NEW T, S \subseteq T
  PROVE  /\ IsFiniteSet(Calls \ S)
         /\ Cardinality(Calls \ S) \in Nat
         /\ Cardinality(Calls \ S) < U32Max
         /\ Cardinality(Calls \ T) <= Cardinality(Calls \ S)
  <1>1. IsFiniteSet(Calls \ S) /\ Cardinality(Calls \ S) <= Cardinality(Calls)
    BY CallsAssumption, FS_Subset
  <1>2. IsFiniteSet(Calls \ T) /\ Cardinality(Calls \ T) <= Cardinality(Calls \ S)
    <2>1. Calls \ T \subseteq Calls \ S
      OBVIOUS
    <2> QED
      BY <1>1, <2>1, FS_Subset
  <1>3. Cardinality(Calls \ S) \in Nat /\ Cardinality(Calls) \in Nat
    BY <1>1, CallsAssumption, FS_CardinalityType
  <1> QED
    BY <1>1, <1>2, <1>3, BoundsAssumption

(* A step that counts nothing leaves the uncounted calls uncounted or      *)
(* takes them away from the connection for good.                           *)
LEMMA UncountedShrinks ==
  ASSUME TypeOK, CurHeld, HandedOver, [Next]_vars
  PROVE  Uncounted' \subseteq Uncounted
  <1> USE DEF callerVars, daemonVars
  <1>0. Queued \subseteq Calls /\ cur \in Calls \cup {NoCall}
    BY DEF TypeOK, Queued
  <1>1. ASSUME NEW c \in Calls, Caller(c) PROVE Uncounted' \subseteq Uncounted
    <2>1. CASE Enqueue(c)
      <3>1. Queued' = Queued \cup {c}
        BY <2>1 DEF TypeOK, Enqueue, Queued
      <3>2. call[c] = "sending" /\ UNCHANGED <<task, cur>>
        BY <2>1 DEF Enqueue
      <3>3. \A d \in Calls : call'[d] \in {"idle", "sending"} => call[d] \in {"idle", "sending"}
        BY <2>1 DEF TypeOK, Enqueue
      <3> QED
        BY <3>1, <3>2, <3>3 DEF Uncounted
    <2>2. CASE ~Enqueue(c)
      <3>1. UNCHANGED <<queue, task, cur>>
        BY <1>1, <2>2 DEF Caller, Send, SerializeError, SendClosed, Receive, Cancel
      <3>2. \A d \in Calls : call'[d] \in {"idle", "sending"} => call[d] \in {"idle", "sending"}
        BY <1>1, <2>2 DEF TypeOK, Caller, Send, SerializeError, SendClosed, Receive, Cancel
      <3> QED
        BY <3>1, <3>2 DEF Uncounted, Queued
    <2> QED
      BY <2>1, <2>2
  <1>2. CASE DropJob
    <2>1. UNCHANGED <<queue, task, cur>> /\ handles = "job"
      BY <1>2 DEF DropJob
    <2>2. \A d \in Calls : call'[d] \in {"idle", "sending"} => call[d] \in {"idle", "sending"}
      BY <1>2, <2>1 DEF TypeOK, DropJob, HandedOver
    <2> QED
      BY <2>1, <2>2 DEF Uncounted, Queued
  <1>3. CASE \/ \E c \in Calls : Answer(c) \/ AnswerUndecodable(c)
             \/ DropClones \/ Network \/ UNCHANGED vars
    <2>1. UNCHANGED <<queue, task, cur, call>>
      BY <1>3 DEF Answer, AnswerUndecodable, DropClones, Network, Stray, PeerClose, Reset,
         LoseLink, vars
    <2> QED
      BY <2>1 DEF Uncounted, Queued
  <1>4. CASE Recv
    <2>1. queue # << >> /\ queue' = Tail(queue) /\ cur' = Head(queue) /\ UNCHANGED call
      BY <1>4 DEF Recv
    <2>2. Queued' \subseteq Queued /\ cur' \in Queued
      BY <2>1 DEF TypeOK, Queued
    <2> QED
      BY <2>1, <2>2 DEF Uncounted
  <1>5. CASE Write
    <2>1. UNCHANGED <<queue, cur, call>> /\ task = "sending"
      BY <1>5 DEF Write
    <2> QED
      BY <2>1 DEF Uncounted, Queued
  <1>6. CASE \/ Track \/ WriteError \/ ReadResponse \/ ReadUndecodable \/ ReadFatal
             \/ SendReply \/ DrainNext \/ DrainDone \/ RecvNone \/ Abort
    <2>1. UNCHANGED call /\ task' \notin {"sending", "sent"}
      BY <1>6 DEF Track, WriteError, ReadResponse, ReadUndecodable, ReadFatal, SendReply,
         DrainNext, DrainDone, RecvNone, Abort, Return
    <2>2. queue' = queue \/ queue' = << >>
      BY <1>6 DEF Track, WriteError, ReadResponse, ReadUndecodable, ReadFatal, SendReply,
         DrainNext, DrainDone, RecvNone, Abort, Return
    <2>3. Queued' \subseteq Queued
      BY <2>2 DEF Queued
    <2> QED
      BY <2>1, <2>3 DEF Uncounted
  <1> QED
    BY <1>1, <1>2, <1>3, <1>4, <1>5, <1>6 DEF Next, Run, Transmit

(* Every step keeps the counter in its bounds.                             *)
LEMMA NextCounterBounded == SentinelInv /\ [Next]_vars => CounterBounded'
  <1> SUFFICES ASSUME SentinelInv, [Next]_vars PROVE CounterBounded'
    OBVIOUS
  <1> USE DEF callerVars, daemonVars
  <1>1. /\ TypeOK /\ CurHeld /\ PendingById /\ HeldOnce /\ HandedOver /\ CounterBounded
        /\ TypeOK' /\ PendingById' /\ inFlight \in Nat
    BY NextTypeOK, NextPendingById, BoundsAssumption DEF SentinelInv, TypeOK
  <1>2. /\ Cardinality(Calls \ Uncounted) \in Nat /\ Cardinality(Calls \ Uncounted') \in Nat
        /\ Cardinality(Calls \ Uncounted) <= Cardinality(Calls \ Uncounted')
        /\ Cardinality(Calls \ Uncounted') < U32Max
    BY <1>1, UncountedShrinks, CountedBounded
  <1>3. ASSUME UNCHANGED <<pending, inFlight>> PROVE CounterBounded'
    <2>1. Entries' = Entries
      BY <1>3 DEF Entries, Outstanding
    <2> QED
      BY <1>1, <1>2, <1>3, <2>1 DEF CounterBounded
  <1>4. ASSUME NEW i \in Ids, Outstanding(i), NEW v, TakePending(i, v) PROVE CounterBounded'
    <2>1. Cardinality(Entries') <= inFlight' /\ inFlight' <= inFlight /\ inFlight' \in Nat
      BY <1>1, <1>4, TakePendingBounded
    <2> QED
      BY <1>1, <1>2, <2>1 DEF CounterBounded
  <1>5. CASE \/ \E c \in Calls : Caller(c) \/ Answer(c) \/ AnswerUndecodable(c)
             \/ DropJob \/ DropClones \/ Network \/ UNCHANGED vars
    BY <1>3, <1>5, OthersKeepTask
  <1>6. CASE Recv \/ SendReply \/ ReadFatal \/ Write \/ WriteError
    BY <1>3, <1>6 DEF Recv, SendReply, ReadFatal, Write, WriteError
  <1>7. CASE ReadResponse \/ ReadUndecodable \/ DrainNext
    <2>1. \/ \E i \in Ids : Outstanding(i) /\ \E v : TakePending(i, v)
          \/ UNCHANGED <<pending, inFlight>>
      BY <1>7 DEF ReadResponse, ReadUndecodable, DrainNext, Outstanding
    <2> QED
      BY <1>3, <1>4, <2>1
  <1>8. CASE Track
    <2>1. cur \in Calls /\ IdOf[cur] \in Ids /\ cur # NoCall
      BY <1>1, <1>8, CallsAssumption DEF TypeOK, CurHeld, Track
    <2>2. Entries' = Entries \cup {IdOf[cur]}
      BY <1>1, <1>8, <2>1 DEF TypeOK, Entries, Outstanding, Track
    <2>3. Cardinality(Entries') <= Cardinality(Entries) + 1 /\ Cardinality(Entries) \in Nat
      BY <1>1, <2>2, EntriesBounded, FS_AddElement
    <2>4. cur \in Uncounted /\ cur \notin Uncounted'
      <3>1. cur \in Owned \ {NoCall}
        BY <2>1 DEF Owned
      <3>2. call[cur] \notin {"idle", "sending"} /\ cur \notin Queued
        BY <1>1, <3>1 DEF HandedOver, HeldOnce
      <3>3. UNCHANGED <<call, queue>> /\ task = "sent" /\ task' = "select"
        BY <1>8 DEF Track
      <3> QED
        BY <3>2, <3>3 DEF Uncounted, Queued
    <2>5. Cardinality(Calls \ Uncounted) + 1 <= Cardinality(Calls \ Uncounted')
      <3>1. (Calls \ Uncounted) \cup {cur} \subseteq Calls \ Uncounted'
        BY <1>1, <2>1, <2>4, UncountedShrinks
      <3>2. IsFiniteSet(Calls \ Uncounted') /\ IsFiniteSet(Calls \ Uncounted)
        BY CountedBounded
      <3>3. Cardinality((Calls \ Uncounted) \cup {cur}) = Cardinality(Calls \ Uncounted) + 1
        BY <2>4, <3>2, FS_AddElement
      <3> QED
        BY <3>1, <3>2, <3>3, FS_Subset
    <2>6. inFlight' = inFlight + 1
      <3>1. inFlight # U32Max
        BY <1>1, <1>2, BoundsAssumption DEF CounterBounded
      <3> QED
        BY <1>8, <3>1 DEF Track, fetch_add
    <2>7. Cardinality(Entries') \in Nat
      BY <1>1, <2>2, <2>3, EntriesBounded, FS_AddElement
    <2> QED
      BY <1>1, <1>2, <2>3, <2>5, <2>6, <2>7 DEF CounterBounded
  <1>9. CASE DrainDone \/ RecvNone \/ Abort
    <2>1. Entries' = {} /\ inFlight' = inFlight
      BY <1>9 DEF Entries, Outstanding, DrainDone, RecvNone, Abort, Return
    <2>2. Cardinality(Entries') = 0
      BY <2>1, FS_EmptySet
    <2> QED
      BY <1>1, <1>2, <2>1, <2>2 DEF CounterBounded
  <1> QED
    BY <1>5, <1>6, <1>7, <1>8, <1>9 DEF Next, Run, Transmit

(* The counter never takes the value u32::MAX, which the pool uses to mark *)
(* a reserved connection, whether or not calls share ids and also after    *)
(* the task was aborted with entries left in the map.                      *)
THEOREM SentinelNeverReached == Spec => []SentinelFree
  <1>1. Init => SentinelInv
    <2> SUFFICES ASSUME Init PROVE SentinelInv
      OBVIOUS
    <2>1. CurHeld /\ PendingById
      BY DEF Init, CurHeld, PendingById
    <2>2. Queued = {} /\ Owned \subseteq {NoCall}
      BY DEF Init, Queued, Owned
    <2>3. HeldOnce /\ HandedOver
      BY <2>2 DEF Init, HeldOnce, HandedOver
    <2>4. Entries = {} /\ inFlight = 0
      BY DEF Init, Entries, Outstanding
    <2>5. CounterBounded
      BY <2>4, FS_EmptySet, CountedBounded DEF CounterBounded
    <2> QED
      BY <2>1, <2>3, <2>5, InitTypeOK DEF SentinelInv
  <1>2. SentinelInv /\ [Next]_vars => SentinelInv'
    BY NextTypeOK, NextCurHeld, NextPendingById, NextHeldOnce, NextCounterBounded DEF SentinelInv
  <1>3. SentinelInv => SentinelFree
    <2> SUFFICES ASSUME SentinelInv PROVE inFlight # U32Max
      BY DEF SentinelFree
    <2>1. inFlight \in Nat /\ inFlight <= Cardinality(Calls \ Uncounted)
      BY BoundsAssumption DEF SentinelInv, TypeOK, CounterBounded
    <2>2. Cardinality(Calls \ Uncounted) \in Nat /\ Cardinality(Calls \ Uncounted) < U32Max
      BY CountedBounded
    <2> QED
      BY <2>1, <2>2, BoundsAssumption
  <1> QED
    BY <1>1, <1>2, <1>3, PTL DEF Spec

-----------------------------------------------------------------------------
(* With distinct ids, Dispatcher implements RequestReply.                  *)

(* The oneshot of a call is open until the call is decided, whoever holds  *)
(* its sender; and `send' returns only once it is decided.                 *)
SlotsOpen ==
  /\ \A c \in Calls : call[c] \in {"idle", "sending"} => slot[c] = Open
  /\ \A c \in Owned \ {NoCall} : slot[c] = Open
  /\ \A c \in Calls : call[c] = "done" => slot[c] # Open

RefinementInv == AnswerInv /\ HeldOnce /\ HandedOver /\ SlotsOpen

-----------------------------------------------------------------------------
(* The refinement mapping, call by call.                                   *)

(* What a caller sees depends on its own future and oneshot only.          *)
Mapped(c) ==
  /\ call[c] \in {"sending", "waiting"} => phase[c] = "active"
  /\ call[c] = "done" => phase[c] = "returned"
  /\ call[c] \notin {"sending", "waiting", "done"} => phase[c] = call[c]
  /\ slot[c] = Open \/ call[c] = "cancelled" => outcome[c] = "none"
  /\ slot[c] # Open /\ call[c] # "cancelled" =>
       /\ slot[c].tag = "ok" /\ slot[c].re = c => outcome[c] = "answered"
       /\ slot[c].tag # "ok" => outcome[c] = "failed"

(* The mapping says so, before and after a step.                           *)
LEMMA MappedCall == \A c \in Calls : Mapped(c) /\ Mapped(c)'
  BY DEF Mapped, phase, outcome

(* The mapped variables are functions on the calls.                        *)
LEMMA MappedFunctions ==
  /\ phase = [c \in Calls |-> phase[c]] /\ phase' = [c \in Calls |-> phase'[c]]
  /\ outcome = [c \in Calls |-> outcome[c]] /\ outcome' = [c \in Calls |-> outcome'[c]]
  BY DEF phase, outcome

(* A call whose future and oneshot do not change is seen not to change.    *)
LEMMA SameSeen ==
  ASSUME NEW c \in Calls, call'[c] = call[c], slot'[c] = slot[c]
  PROVE  phase'[c] = phase[c] /\ outcome'[c] = outcome[c]
  BY DEF phase, outcome

(* A decided call fails or is answered: the values sent into a slot.       *)
LEMMA FailureSeen ==
  /\ Dropped.tag # "ok" /\ Dropped # Open
  /\ \A why : Err(why).tag # "ok" /\ Err(why) # Open
  BY DEF Dropped, Open, Err

(* A set of undecided calls fails, and the connection may close.           *)
LEMMA FailStep ==
  ASSUME NEW S \in SUBSET Calls,
         \A c \in S : phase[c] = "active" /\ outcome[c] = "none" /\ outcome'[c] = "failed",
         \A c \in Calls \ S : outcome'[c] = outcome[c],
         \A c \in Calls : phase'[c] = phase[c],
         open' = FALSE \/ open' = open
  PROVE  RR!Next
  <1>1. phase' = phase
    BY MappedFunctions
  <1>2. outcome' = [c \in Calls |-> IF c \in S THEN "failed" ELSE outcome[c]]
    BY MappedFunctions
  <1>3. RR!Fail(S)
    BY <1>1, <1>2 DEF RR!Fail, RR!Undecided
  <1> QED
    BY <1>3 DEF RR!Next

(* The slots in S are given a failure value: the callers among them that   *)
(* have not given up fail, the others notice nothing.                      *)
LEMMA FailSlots ==
  ASSUME TypeOK, SlotsOpen, HandedOver, NEW S \in SUBSET Calls, S \subseteq Owned, UNCHANGED call,
         \A c \in S : slot'[c] # Open /\ slot'[c].tag # "ok",
         \A c \in Calls \ S : slot'[c] = slot[c],
         open' = FALSE \/ open' = open
  PROVE  RR!Next
  <1> DEFINE T == {c \in S : call[c] # "cancelled"}
  <1>1. \A c \in S : slot[c] = Open /\ call[c] \in {"waiting", "cancelled"}
    BY CallsAssumption DEF TypeOK, SlotsOpen, HandedOver
  <1>2. \A c \in T : phase[c] = "active" /\ outcome[c] = "none" /\ outcome'[c] = "failed"
    BY <1>1, MappedCall DEF Mapped
  <1>3. \A c \in Calls \ T : outcome'[c] = outcome[c]
    <2> SUFFICES ASSUME NEW c \in Calls \ T PROVE outcome'[c] = outcome[c]
      OBVIOUS
    <2>1. CASE c \in S
      BY <2>1, MappedCall DEF Mapped
    <2>2. CASE c \notin S
      BY <2>2, SameSeen
    <2> QED
      BY <2>1, <2>2
  <1>4. \A c \in Calls : phase'[c] = phase[c]
    BY DEF phase
  <1> HIDE DEF T
  <1>5. T \in SUBSET Calls
    BY DEF T
  <1> QED
    BY <1>2, <1>3, <1>4, <1>5, FailStep

-----------------------------------------------------------------------------
(* Slots stay open until they are decided.                                 *)

(* A call that has not been handed over is not in the task's hands.        *)
LEMMA NotHandedOver ==
  ASSUME HandedOver, NEW c \in Calls, call[c] \in {"idle", "sending"}
  PROVE  c \notin Owned
  BY CallsAssumption DEF HandedOver

(* Every step keeps undecided slots open.                                  *)
LEMMA NextSlotsOpen == RefinementInv /\ [Next]_vars => SlotsOpen'
  <1> SUFFICES ASSUME RefinementInv, [Next]_vars PROVE SlotsOpen'
    OBVIOUS
  <1> USE DEF callerVars, daemonVars
  <1>0. /\ TypeOK /\ CurHeld /\ PendingById /\ HeldOnce /\ HandedOver /\ SlotsOpen
        /\ NoCall \notin Calls /\ Owned \subseteq Calls \cup {NoCall}
    BY CallsAssumption DEF RefinementInv, AnswerInv, TypeOK, Owned
  <1>1. ASSUME UNCHANGED <<call, slot>>, Owned' \subseteq Owned \cup {NoCall}
        PROVE  SlotsOpen'
    BY <1>0, <1>1 DEF SlotsOpen
  <1>2. ASSUME NEW c \in Calls, Caller(c) PROVE SlotsOpen'
    <2>1. CASE Send(c) \/ Receive(c)
      <3>1. UNCHANGED <<slot, queue, pending, cur>>
        BY <2>1 DEF Send, Receive
      <3>2. Owned' = Owned
        BY <3>1 DEF Owned
      <3>3. \A d \in Calls : call'[d] = IF d # c THEN call[d] ELSE IF Send(c) THEN "sending" ELSE "done"
        BY <1>0, <2>1 DEF TypeOK, Send, Receive
      <3>4. (Send(c) => call[c] = "idle") /\ (~Send(c) => slot[c] # Open)
        BY <2>1 DEF Send, Receive
      <3> QED
        BY <1>0, <3>1, <3>2, <3>3, <3>4 DEF SlotsOpen
    <2>2. CASE Enqueue(c)
      <3>1. UNCHANGED <<slot, pending, cur>> /\ call[c] = "sending"
        BY <2>2 DEF Enqueue
      <3>2. Owned' \subseteq Owned \cup {c}
        BY <1>0, <2>2 DEF TypeOK, Enqueue, Owned
      <3>3. \A d \in Calls : call'[d] = IF d # c THEN call[d] ELSE "waiting"
        BY <1>0, <2>2 DEF TypeOK, Enqueue
      <3> QED
        BY <1>0, <3>1, <3>2, <3>3 DEF SlotsOpen
    <2>3. CASE SerializeError(c) \/ SendClosed(c) \/ Cancel(c)
      <3>1. UNCHANGED <<queue, pending, cur>>
        BY <2>3 DEF SerializeError, SendClosed, Cancel
      <3>2. Owned' = Owned
        BY <3>1 DEF Owned
      <3>3. \A d \in Calls : d # c => call'[d] = call[d] /\ slot'[d] = slot[d]
        BY <1>0, <2>3 DEF TypeOK, SerializeError, SendClosed, Cancel
      <3>4. call'[c] \in {"done", "cancelled"} /\ (call'[c] = "done" => slot'[c] # Open)
        BY <1>0, <2>3, ErrIsResult, ResultIsSlot DEF TypeOK, SerializeError, SendClosed, Cancel
      <3>5. c \in Owned => slot'[c] = slot[c]
        BY <1>0, <2>3, NotHandedOver DEF SerializeError, SendClosed, Cancel
      <3> QED
        BY <1>0, <3>2, <3>3, <3>4, <3>5 DEF SlotsOpen
    <2> QED
      BY <1>2, <2>1, <2>2, <2>3 DEF Caller
  <1>3. CASE DropJob
    <2>1. UNCHANGED <<slot, queue, pending, cur>> /\ handles = "job"
      BY <1>3 DEF DropJob
    <2>2. Owned' = Owned
      BY <2>1 DEF Owned
    <2>3. call' = call \/ (ExitCall \in Calls /\ call' = [call EXCEPT ![ExitCall] = "sending"])
      BY <1>3 DEF DropJob
    <2>4. ExitCall \in Calls => call[ExitCall] = "idle"
      BY <1>0, <2>1 DEF HandedOver
    <2>5. \A d \in Calls : call'[d] = call[d] \/ (call[d] = "idle" /\ call'[d] = "sending")
      BY <1>0, <2>3, <2>4 DEF TypeOK
    <2> QED
      BY <1>0, <2>1, <2>2, <2>5 DEF SlotsOpen
  <1>4. CASE \/ \E c \in Calls : Answer(c) \/ AnswerUndecodable(c)
             \/ DropClones \/ Network \/ UNCHANGED vars \/ ReadFatal \/ Write
    <2>1. UNCHANGED <<slot, queue, pending, cur, call>>
      BY <1>4 DEF Answer, AnswerUndecodable, DropClones, Network, Stray, PeerClose, Reset,
         LoseLink, ReadFatal, Write, vars
    <2> QED
      BY <1>1, <2>1 DEF Owned
  <1>5. CASE Recv
    <2>1. UNCHANGED <<slot, pending, call>> /\ queue # << >>
      BY <1>5 DEF Recv
    <2>2. Owned' \subseteq Owned
      BY <1>0, <1>5 DEF TypeOK, Recv, Owned
    <2> QED
      BY <1>1, <2>1, <2>2
  <1>6. CASE Track
    <2> DEFINE old == pending[IdOf[cur]]
    <2>1. cur \in Calls /\ IdOf[cur] \in Ids /\ cur' = NoCall /\ UNCHANGED <<queue, call>>
      BY <1>0, <1>6, CallsAssumption DEF TypeOK, CurHeld, Track
    <2>2. \A i \in Ids : pending'[i] = IF i = IdOf[cur] THEN cur ELSE pending[i]
      BY <1>0, <1>6 DEF TypeOK, Track
    <2>3. \A d \in Calls : slot'[d] = IF d = old THEN Dropped ELSE slot[d]
      BY <1>6 DEF Track
    <2>4. ASSUME old # NoCall PROVE old \notin Owned'
      <3>1. old \notin Queued /\ old # cur
        BY <1>0, <2>1, CallsAssumption DEF HeldOnce
      <3>2. \A i \in Ids : i # IdOf[cur] => pending[i] # old
        BY <1>0, <2>1, <2>4 DEF PendingById
      <3> QED
        BY <2>1, <2>2, <2>4, <3>1, <3>2 DEF Owned, Queued
    <2>5. Owned' \subseteq Owned \cup {NoCall}
      BY <2>1, <2>2 DEF Owned
    <2>6. ASSUME old # NoCall PROVE old \in Calls /\ call[old] \notin {"idle", "sending"}
      BY <1>0, <2>1, <2>6 DEF TypeOK, HandedOver, Owned
    <2> QED
      BY <1>0, <2>1, <2>3, <2>4, <2>5, <2>6, ResultIsSlot DEF SlotsOpen
  <1>7. CASE ReadResponse \/ ReadUndecodable \/ DrainNext
    <2>1. UNCHANGED <<slot, call, queue>> /\ cur = NoCall
      BY <1>0, <1>7 DEF CurHeld, ReadResponse, ReadUndecodable, DrainNext
    <2>2. \/ \E i \in Ids : Outstanding(i) /\ \E v : TakePending(i, v)
          \/ UNCHANGED <<pending, cur>>
      BY <1>7 DEF ReadResponse, ReadUndecodable, DrainNext, Outstanding
    <2>3. Owned' \subseteq Owned \cup {NoCall}
      BY <1>0, <2>1, <2>2 DEF TypeOK, Owned, TakePending
    <2> QED
      BY <1>1, <2>1, <2>3
  <1>8. CASE SendReply \/ WriteError
    <2>1. /\ cur \in Calls /\ cur' = NoCall /\ UNCHANGED <<queue, pending, call>>
          /\ \A d \in Calls : d # cur => slot'[d] = slot[d]
          /\ slot'[cur] # Open
      BY <1>0, <1>8, ErrIsResult, ResultIsSlot DEF TypeOK, CurHeld, SendReply, WriteError
    <2>2. cur \notin Owned' /\ Owned' \subseteq Owned \cup {NoCall}
      BY <1>0, <2>1 DEF HeldOnce, Owned, Queued
    <2>3. call[cur] \notin {"idle", "sending"}
      BY <1>0, <2>1 DEF HandedOver, Owned
    <2> QED
      BY <1>0, <2>1, <2>2, <2>3 DEF SlotsOpen
  <1>9. CASE DrainDone \/ RecvNone \/ Abort
    <2>1. /\ queue' = << >> /\ pending' = [i \in Ids |-> NoCall] /\ cur' = NoCall
          /\ slot' = [c \in Calls |-> IF c \in Owned THEN Dropped ELSE slot[c]]
          /\ UNCHANGED call
      BY <1>9 DEF DrainDone, RecvNone, Abort, Return
    <2>2. Owned' \subseteq {NoCall}
      BY <2>1 DEF Owned
    <2> QED
      BY <1>0, <2>1, <2>2, NotHandedOver, ResultIsSlot DEF SlotsOpen
  <1> QED
    BY <1>2, <1>3, <1>4, <1>5, <1>6, <1>7, <1>8, <1>9 DEF Next, Run, Transmit

-----------------------------------------------------------------------------
(* The refinement, step by step.                                           *)

(* Each step of a caller is a step of that call or changes nothing.        *)
LEMMA CallerRefines ==
  ASSUME RefinementInv, NEW c \in Calls, Caller(c)
  PROVE  RR!Next \/ UNCHANGED <<phase, outcome, open>>
  <1> USE DEF callerVars, daemonVars
  <1>1. TypeOK /\ SlotsOpen /\ UNCHANGED open
    BY OthersKeepTask DEF RefinementInv, AnswerInv, open
  <1>2. \A d \in Calls \ {c} : phase'[d] = phase[d] /\ outcome'[d] = outcome[d]
    <2>1. \A d \in Calls \ {c} : call'[d] = call[d] /\ slot'[d] = slot[d]
      BY <1>1 DEF TypeOK, Caller, Send, SerializeError, Enqueue, SendClosed, Receive, Cancel
    <2> QED
      BY <2>1, SameSeen
  <1>3. /\ phase' = [phase EXCEPT ![c] = phase'[c]]
        /\ outcome' = [outcome EXCEPT ![c] = outcome'[c]]
    BY <1>2, MappedFunctions
  <1>4. outcome'[c] = outcome[c] => UNCHANGED outcome
    BY <1>2, MappedFunctions
  <1>5. phase'[c] = phase[c] => UNCHANGED phase
    BY <1>2, MappedFunctions
  <1>6. Mapped(c) /\ Mapped(c)'
    BY MappedCall
  <1>7. CASE Send(c)
    <2>1. call[c] = "idle" /\ call'[c] = "sending" /\ slot[c] = Open /\ slot'[c] = Open
      BY <1>1, <1>7 DEF TypeOK, SlotsOpen, Send
    <2>2. phase[c] = "idle" /\ phase'[c] = "active" /\ outcome'[c] = outcome[c]
      BY <1>6, <2>1 DEF Mapped
    <2>3. RR!Submit(c)
      BY <1>1, <1>3, <1>4, <2>2 DEF RR!Submit
    <2> QED
      BY <2>3 DEF RR!Next
  <1>8. CASE SerializeError(c)
    <2>1. call[c] = "idle" /\ call'[c] = "done" /\ slot'[c] = Err("Json")
      BY <1>1, <1>8 DEF TypeOK, SerializeError
    <2>2. phase[c] = "idle" /\ phase'[c] = "returned" /\ outcome'[c] = "failed"
      BY <1>6, <2>1, FailureSeen DEF Mapped
    <2>3. RR!Reject(c)
      BY <1>1, <1>3, <2>2 DEF RR!Reject
    <2> QED
      BY <2>3 DEF RR!Next
  <1>9. CASE Enqueue(c)
    <2>1. call[c] = "sending" /\ call'[c] = "waiting" /\ slot[c] = Open /\ slot'[c] = Open
      BY <1>1, <1>9 DEF TypeOK, SlotsOpen, Enqueue
    <2>2. phase'[c] = phase[c] /\ outcome'[c] = outcome[c]
      BY <1>6, <2>1 DEF Mapped
    <2> QED
      BY <1>1, <1>4, <1>5, <2>2
  <1>10. CASE SendClosed(c)
    <2>1. /\ call[c] = "sending" /\ call'[c] = "done" /\ slot[c] = Open
          /\ slot'[c] = Dropped /\ task = "returned"
      BY <1>1, <1>10 DEF TypeOK, SlotsOpen, SendClosed
    <2>2. /\ phase[c] = "active" /\ outcome[c] = "none" /\ ~open
          /\ phase'[c] = "returned" /\ outcome'[c] = "failed"
      BY <1>6, <2>1, FailureSeen DEF Mapped, open
    <2>3. RR!Reject(c)
      BY <1>1, <1>3, <2>2 DEF RR!Reject, RR!Undecided
    <2> QED
      BY <2>3 DEF RR!Next
  <1>11. CASE Receive(c)
    <2>1. call[c] = "waiting" /\ call'[c] = "done" /\ slot[c] # Open /\ slot'[c] = slot[c]
      BY <1>1, <1>11 DEF TypeOK, Receive
    <2>2. phase[c] = "active" /\ phase'[c] = "returned" /\ outcome'[c] = outcome[c] /\ outcome[c] # "none"
      BY <2>1 DEF phase, outcome
    <2>3. RR!Return(c)
      BY <1>1, <1>3, <1>4, <2>2 DEF RR!Return
    <2> QED
      BY <2>3 DEF RR!Next
  <1>12. CASE Cancel(c)
    <2>1. call[c] \in {"sending", "waiting"} /\ call'[c] = "cancelled"
      BY <1>1, <1>12 DEF TypeOK, Cancel
    <2>2. phase[c] = "active" /\ phase'[c] = "cancelled" /\ outcome'[c] = "none"
      BY <1>6, <2>1 DEF Mapped
    <2>3. RR!Cancel(c)
      BY <1>1, <1>3, <2>2 DEF RR!Cancel
    <2> QED
      BY <2>3 DEF RR!Next
  <1> QED
    BY <1>7, <1>8, <1>9, <1>10, <1>11, <1>12 DEF Caller

(* Each step of the task decides the call it replies to, fails the ones it *)
(* drops, or changes nothing that a caller sees.                           *)
LEMMA TaskRefines ==
  ASSUME UniqueIds, RefinementInv, Run \/ Transmit \/ Abort
  PROVE  RR!Next \/ UNCHANGED <<phase, outcome, open>>
  <1> USE DEF callerVars, daemonVars
  <1>0. /\ TypeOK /\ CurHeld /\ PendingById /\ ResultOwn /\ HeldOnce /\ HandedOver /\ SlotsOpen
        /\ Owned \subseteq Calls \cup {NoCall}
    BY CallsAssumption DEF RefinementInv, AnswerInv, TypeOK, Owned
  <1>1. ASSUME UNCHANGED <<call, slot, open>>
        PROVE  UNCHANGED <<phase, outcome, open>>
    BY <1>1 DEF phase, outcome
  <1>2. CASE Recv \/ Write \/ ReadResponse \/ ReadUndecodable \/ DrainNext
    <2>1. UNCHANGED <<call, slot, open>>
      BY <1>2 DEF Recv, Write, ReadResponse, ReadUndecodable, DrainNext, open
    <2> QED
      BY <1>1, <2>1
  <1>3. CASE ReadFatal
    <2>1. UNCHANGED <<call, slot>> /\ open' = FALSE
      BY <1>3 DEF ReadFatal, open
    <2>2. {} \in SUBSET Calls /\ {} \subseteq Owned
      OBVIOUS
    <2> QED
      BY <1>0, <2>1, <2>2, FailSlots
  <1>4. CASE WriteError
    <2>1. cur \in Calls /\ cur \in Owned /\ UNCHANGED call /\ open' = FALSE
      BY <1>0, <1>4 DEF TypeOK, CurHeld, WriteError, open, Owned
    <2>2. slot'[cur] = Err("Write") /\ \A c \in Calls \ {cur} : slot'[c] = slot[c]
      BY <1>0, <1>4, <2>1 DEF TypeOK, WriteError
    <2>3. {cur} \in SUBSET Calls /\ {cur} \subseteq Owned
      BY <2>1
    <2> QED
      BY <1>0, <2>1, <2>2, <2>3, FailureSeen, FailSlots
  <1>5. CASE Track
    <2> DEFINE old == pending[IdOf[cur]]
    <2>1. cur \in Calls /\ IdOf[cur] \in Ids /\ UNCHANGED <<call, open>>
      BY <1>0, <1>5, CallsAssumption DEF TypeOK, CurHeld, Track, open
    <2>2. \A c \in Calls : slot'[c] = IF c = old THEN Dropped ELSE slot[c]
      BY <1>5 DEF Track
    <2>3. old \in Owned
      BY <2>1 DEF Owned
    <2> HIDE DEF old
    <2>4. {old} \cap Calls \in SUBSET Calls /\ {old} \cap Calls \subseteq Owned
      BY <2>3
    <2> QED
      BY <1>0, <2>1, <2>2, <2>4, FailureSeen, FailSlots
  <1>6. CASE SendReply
    <2>1. cur \in Calls /\ cur \in Owned /\ UNCHANGED <<call, open>>
      BY <1>0, <1>6 DEF TypeOK, CurHeld, SendReply, open, Owned
    <2>2. slot'[cur] = result /\ result # Open /\ \A c \in Calls \ {cur} : slot'[c] = slot[c]
      BY <1>0, <1>6, <2>1, ResultIsSlot DEF TypeOK, SendReply
    <2>3. CASE result.tag # "ok"
      <3>1. {cur} \in SUBSET Calls /\ {cur} \subseteq Owned
        BY <2>1
      <3> QED
        BY <1>0, <2>1, <2>2, <2>3, <3>1, FailSlots
    <2>4. CASE result.tag = "ok"
      <3>1. task = "routing" /\ result.re = cur /\ open
        BY <1>0, <2>4 DEF ResultOwn, open
      <3>2. slot[cur] = Open /\ call[cur] \in {"waiting", "cancelled"}
        BY <1>0, <2>1, CallsAssumption DEF TypeOK, SlotsOpen, HandedOver
      <3>3. \A c \in Calls \ {cur} : phase'[c] = phase[c] /\ outcome'[c] = outcome[c]
        BY <2>1, <2>2, SameSeen
      <3>4. Mapped(cur)
        BY <2>1, MappedCall
      <3>5. phase'[cur] = phase[cur]
        BY <2>1 DEF phase
      <3>6. UNCHANGED phase
        BY <3>3, <3>5, MappedFunctions
      <3>7. CASE call[cur] = "cancelled"
        <4>1. outcome'[cur] = outcome[cur]
          BY <2>1, <3>7 DEF outcome
        <4> QED
          BY <2>1, <3>3, <3>6, <4>1, MappedFunctions
      <3>8. CASE call[cur] = "waiting"
        <4>1. phase[cur] = "active" /\ outcome[cur] = "none"
          BY <3>2, <3>4, <3>8 DEF Mapped
        <4>2. slot'[cur].tag = "ok" /\ slot'[cur].re = cur /\ slot'[cur] # Open
          BY <2>2, <2>4, <3>1
        <4>3. outcome'[cur] = "answered"
          BY <2>1, <3>8, <4>2 DEF outcome
        <4>4. outcome' = [outcome EXCEPT ![cur] = "answered"]
          BY <3>3, <4>3, MappedFunctions
        <4>5. RR!Answer(cur)
          BY <2>1, <3>1, <3>6, <4>1, <4>4 DEF RR!Answer, RR!Undecided
        <4> QED
          BY <2>1, <4>5 DEF RR!Next
      <3> QED
        BY <3>2, <3>7, <3>8
    <2> QED
      BY <2>3, <2>4
  <1>7. CASE DrainDone \/ RecvNone \/ Abort
    <2>1. /\ slot' = [c \in Calls |-> IF c \in Owned THEN Dropped ELSE slot[c]]
          /\ UNCHANGED call /\ open' = FALSE
      BY <1>7 DEF DrainDone, RecvNone, Abort, Return, open
    <2>2. Owned \cap Calls \in SUBSET Calls /\ Owned \cap Calls \subseteq Owned
      OBVIOUS
    <2>3. \A c \in Owned \cap Calls : slot'[c] # Open /\ slot'[c].tag # "ok"
      BY <2>1, FailureSeen
    <2>4. \A c \in Calls \ (Owned \cap Calls) : slot'[c] = slot[c]
      BY <2>1
    <2> QED
      BY <1>0, <2>1, <2>2, <2>3, <2>4, FailSlots
  <1> QED
    BY <1>2, <1>3, <1>4, <1>5, <1>6, <1>7 DEF Run, Transmit

(* Every step of the connection is one RequestReply allows, or changes     *)
(* nothing that a caller sees.                                             *)
LEMMA NextRefines ==
  ASSUME UniqueIds, RefinementInv, [Next]_vars
  PROVE  RR!Next \/ UNCHANGED <<phase, outcome, open>>
  <1>1. ASSUME NEW c \in Calls, Caller(c)
        PROVE  RR!Next \/ UNCHANGED <<phase, outcome, open>>
    BY <1>1, CallerRefines
  <1>2. CASE Run \/ Transmit \/ Abort
    BY <1>2, TaskRefines
  <1>3. CASE DropJob
    <2>1. UNCHANGED <<slot, open>> /\ handles = "job"
      BY <1>3 DEF DropJob, open
    <2>2. CASE call' = call
      BY <2>1, <2>2 DEF phase, outcome
    <2>3. CASE call' # call
      <3>1. ExitCall \in Calls /\ call' = [call EXCEPT ![ExitCall] = "sending"]
        BY <1>3, <2>3 DEF DropJob
      <3>2. call[ExitCall] = "idle" /\ slot[ExitCall] = Open /\ call \in [Calls -> {"idle", "sending", "waiting", "done", "cancelled"}]
        BY <2>1, <3>1 DEF RefinementInv, AnswerInv, TypeOK, HandedOver, SlotsOpen
      <3>3. \A d \in Calls \ {ExitCall} : phase'[d] = phase[d] /\ outcome'[d] = outcome[d]
        BY <2>1, <3>1, <3>2, SameSeen
      <3>4. Mapped(ExitCall) /\ Mapped(ExitCall)' /\ call'[ExitCall] = "sending" /\ slot'[ExitCall] = Open
        BY <2>1, <3>1, <3>2, MappedCall
      <3>5. /\ phase[ExitCall] = "idle" /\ phase'[ExitCall] = "active"
            /\ outcome'[ExitCall] = outcome[ExitCall]
        BY <3>2, <3>4 DEF Mapped
      <3>6. phase' = [phase EXCEPT ![ExitCall] = "active"] /\ outcome' = outcome
        BY <3>3, <3>5, MappedFunctions
      <3>7. RR!Submit(ExitCall)
        BY <2>1, <3>5, <3>6 DEF RR!Submit
      <3> QED
        BY <3>1, <3>7 DEF RR!Next
    <2> QED
      BY <2>2, <2>3
  <1>4. CASE \/ \E c \in Calls : Answer(c) \/ AnswerUndecodable(c)
             \/ DropClones \/ Network \/ UNCHANGED vars
    <2>1. UNCHANGED <<call, slot, open>>
      BY <1>4 DEF Answer, AnswerUndecodable, DropClones, Network, Stray, PeerClose, Reset,
         LoseLink, vars, callerVars, daemonVars, open
    <2> QED
      BY <2>1 DEF phase, outcome
  <1> QED
    BY <1>1, <1>2, <1>3, <1>4 DEF Next

(* The initial state of the connection is one of RequestReply.             *)
LEMMA InitRefines == Init => RR!Init
  <1> SUFFICES ASSUME Init PROVE RR!Init
    OBVIOUS
  <1>1. phase = [c \in Calls |-> "idle"]
    BY DEF Init, phase
  <1>2. outcome = [c \in Calls |-> "none"]
    BY DEF Init, outcome
  <1>3. open = TRUE
    BY DEF Init, open
  <1> QED
    BY <1>1, <1>2, <1>3 DEF RR!Init

(* The invariant the refinement rests on.                                  *)
LEMMA RefinementInvariant == Spec => []RefinementInv
  <1>1. Init => RefinementInv
    <2> SUFFICES ASSUME Init PROVE RefinementInv
      OBVIOUS
    <2>1. CurHeld /\ PendingById /\ AnswersById
      BY DEF Init, CurHeld, PendingById, AnswersById
    <2>2. ResultOwn /\ RepliesToOwnRequest
      BY NoAnswerInFailure DEF Init, ResultOwn, RepliesToOwnRequest
    <2>3. Queued = {} /\ Owned \subseteq {NoCall}
      BY DEF Init, Queued, Owned
    <2>4. HeldOnce /\ HandedOver /\ SlotsOpen
      BY <2>3 DEF Init, HeldOnce, HandedOver, SlotsOpen
    <2> QED
      BY <2>1, <2>2, <2>4, InitTypeOK DEF RefinementInv, AnswerInv
  <1>2. RefinementInv /\ [Next]_vars => RefinementInv'
    BY NextTypeOK, NextCurHeld, NextPendingById, NextAnswersById, NextResultOwn, NextReplies,
       NextHeldOnce, NextSlotsOpen DEF RefinementInv, AnswerInv
  <1> QED
    BY <1>1, <1>2, PTL DEF Spec

(* Where no two calls share an id, the connection implements RequestReply: *)
(* whatever the interleaving of callers, cancellations, writes, answers,   *)
(* drains and aborts, a call is decided at most once, by its own answer or *)
(* by a failure; it returns only what was decided; and nothing is answered *)
(* once the connection has started to close.                               *)
THEOREM Refinement ==
  ASSUME UniqueIds
  PROVE  Spec => ImplementsRequestReply
  <1>1. RefinementInv /\ [Next]_vars => [RR!Next]_(RR!vars)
    BY NextRefines DEF RR!vars
  <1> QED
    BY <1>1, InitRefines, RefinementInvariant, PTL DEF Spec, ImplementsRequestReply, RR!Spec

(* What RequestReply means for the callers of `send', step by step: a call *)
(* that has returned or given up never changes again, a decision is taken  *)
(* once and only a caller that gives up forgets it, no call is answered    *)
(* before it was sent or after the connection has started to close, and a  *)
(* connection that closes stays closed.                                    *)
DecidedForGood ==
  /\ \A c \in Calls : phase[c] \in {"returned", "cancelled"} =>
       phase'[c] = phase[c] /\ outcome'[c] = outcome[c]
  /\ \A c \in Calls : outcome[c] # "none" => outcome'[c] = outcome[c] \/ phase'[c] = "cancelled"
  /\ \A c \in Calls : outcome'[c] = "answered" /\ outcome[c] # "answered" => phase[c] = "active" /\ open
  /\ open' => open

(* Where no two calls share an id: DispatcherHandle::send resolves once,   *)
(* and drain_pending, drain_queued and late frames change no call that was *)
(* decided before.                                                         *)
THEOREM Decisions ==
  ASSUME UniqueIds
  PROVE  Spec => [][DecidedForGood]_vars
  <1>1. ASSUME RefinementInv, Next PROVE DecidedForGood
    <2>1. /\ DOMAIN phase = Calls /\ DOMAIN outcome = Calls
          /\ phase = [c \in Calls |-> phase[c]] /\ outcome = [c \in Calls |-> outcome[c]]
      BY DEF phase, outcome
    <2>2. \A c \in Calls : phase[c] = "idle" => outcome[c] = "none"
      <3> SUFFICES ASSUME NEW c \in Calls, phase[c] = "idle" PROVE outcome[c] = "none"
        OBVIOUS
      <3>1. call[c] = "idle"
        BY <1>1, MappedCall DEF Mapped, RefinementInv, AnswerInv, TypeOK
      <3> QED
        BY <1>1, <3>1 DEF outcome, SlotsOpen, RefinementInv, AnswerInv
    <2>3. RR!Next \/ UNCHANGED <<phase, outcome, open>>
      BY <1>1, NextRefines DEF RR!vars
    <2>4. ASSUME NEW c \in Calls, RR!Submit(c) PROVE DecidedForGood
      <3>1. /\ phase[c] = "idle" /\ \A d \in Calls \ {c} : phase'[d] = phase[d]
            /\ UNCHANGED <<outcome, open>>
        BY <2>1, <2>4 DEF RR!Submit
      <3> QED
        BY <3>1 DEF DecidedForGood
    <2>5. ASSUME NEW c \in Calls, RR!Reject(c) PROVE DecidedForGood
      <3>1. /\ phase[c] \in {"idle", "active"} /\ outcome[c] = "none" /\ outcome'[c] = "failed"
            /\ \A d \in Calls \ {c} : phase'[d] = phase[d] /\ outcome'[d] = outcome[d]
            /\ UNCHANGED open
        BY <2>1, <2>2, <2>5 DEF RR!Reject, RR!Undecided
      <3> QED
        BY <3>1 DEF DecidedForGood
    <2>6. ASSUME NEW c \in Calls, RR!Answer(c) PROVE DecidedForGood
      <3>1. /\ open /\ phase[c] = "active" /\ outcome[c] = "none"
            /\ \A d \in Calls \ {c} : outcome'[d] = outcome[d]
            /\ UNCHANGED <<phase, open>>
        BY <2>1, <2>6 DEF RR!Answer, RR!Undecided
      <3> QED
        BY <3>1 DEF DecidedForGood
    <2>7. ASSUME NEW c \in Calls, RR!Return(c) PROVE DecidedForGood
      <3>1. /\ phase[c] = "active" /\ \A d \in Calls \ {c} : phase'[d] = phase[d]
            /\ UNCHANGED <<outcome, open>>
        BY <2>1, <2>7 DEF RR!Return
      <3> QED
        BY <3>1 DEF DecidedForGood
    <2>8. ASSUME NEW c \in Calls, RR!Cancel(c) PROVE DecidedForGood
      <3>1. /\ phase[c] = "active" /\ phase'[c] = "cancelled" /\ outcome'[c] = "none"
            /\ \A d \in Calls \ {c} : phase'[d] = phase[d] /\ outcome'[d] = outcome[d]
            /\ UNCHANGED open
        BY <2>1, <2>8 DEF RR!Cancel
      <3> QED
        BY <3>1 DEF DecidedForGood
    <2>9. ASSUME NEW S \in SUBSET Calls, RR!Fail(S) PROVE DecidedForGood
      <3>1. /\ \A c \in S : phase[c] = "active" /\ outcome[c] = "none" /\ outcome'[c] = "failed"
            /\ \A c \in Calls \ S : outcome'[c] = outcome[c]
            /\ UNCHANGED phase
        BY <2>9 DEF RR!Fail, RR!Undecided
      <3>2. open' => open
        BY <2>9 DEF RR!Fail
      <3> QED
        BY <3>1, <3>2 DEF DecidedForGood
    <2>10. CASE UNCHANGED <<phase, outcome, open>>
      BY <2>10 DEF DecidedForGood
    <2> QED
      BY <2>3, <2>4, <2>5, <2>6, <2>7, <2>8, <2>9, <2>10 DEF RR!Next
  <1>2. RefinementInv /\ [Next]_vars => [DecidedForGood]_vars
    BY <1>1
  <1> QED
    BY <1>2, RefinementInvariant, PTL DEF Spec
=============================================================================
