----------------------------- MODULE Dispatcher -----------------------------
(***************************************************************************)
(* One connection: the callers of DispatcherHandle::send, the bounded      *)
(* outbound queue, the dispatcher task that owns the WebSocket, and the    *)
(* daemon at the other end.                                                *)
(*                                                                         *)
(* Atomicity.  The task is cooperative: it can be interrupted (aborted)    *)
(* only at an await, that is in "select", "sending" and "sent".  Between   *)
(* awaits it still runs in parallel with callers on other threads, so each *)
(* effect another thread can observe (a counter update, a oneshot send) is *)
(* a step of its own.                                                      *)
(***************************************************************************)
EXTENDS Protocol, Naturals, Sequences, FiniteSets

CONSTANTS
  Calls,        \* the calls of DispatcherHandle::send made on this connection
  ExitCall,     \* the one `Drop for Job' spawns, NoCall outside a runtime
  RequestOf,    \* the request each call carries
  Ids,          \* correlation ids
  IdOf,         \* the id its caller gave to each call
  Capacity,     \* SEND_QUEUE_CAPACITY
  U32Max,       \* u32::MAX, the largest value of the in-flight counter
  MaxStrays,    \* bound: frames the daemon sends that answer no request
  NoCall, NoId  \* absent values

ASSUME CallsAssumption ==
  /\ IsFiniteSet(Calls)
  /\ ExitCall \in Calls \cup {NoCall}
  /\ NoCall \notin Calls
  /\ NoId \notin Ids
  /\ IdOf \in [Calls -> Ids]
  /\ RequestOf \in [Calls -> Request]

ASSUME BoundsAssumption ==
  /\ Capacity \in Nat \ {0}
  /\ U32Max \in Nat
  /\ Cardinality(Calls) < U32Max
  /\ MaxStrays \in Nat

VARIABLES
  call,      \* where each caller's `send' future is
  slot,      \* the oneshot channel each call is answered through
  queue,     \* mpsc channel between the callers and the task
  task,      \* program counter of `run'
  cur,       \* the call whose Outbound or reply slot `run' holds in a local
  result,    \* the value `run' will send next into a reply slot
  pending,   \* HashMap from id to reply slot
  inFlight,  \* AtomicU32 shared with JobInner and the pool router
  handles,   \* who holds a DispatcherHandle: the Job (and others), only Rows
             \* and Query values ("clones"), or calls under way alone ("none")
  link,      \* the TCP/TLS/WebSocket connection
  daemon,    \* external: what the daemon has done about each call
  inbox,     \* frames on their way to the task, in order
  strays     \* how many frames that answer nothing were sent

callerVars == <<call, handles>>
daemonVars == <<link, daemon, inbox, strays>>
vars == <<call, slot, queue, task, cur, result, pending, inFlight,
          handles, link, daemon, inbox, strays>>
-----------------------------------------------------------------------------
(* Oneshot channels: Open while the sender half exists and is unused, then *)
(* either dropped or holding the one value that was sent.                  *)
Open    == [tag |-> "open"]
Dropped == [tag |-> "dropped"]
Ok(c, response) == [tag |-> "ok", re |-> c, response |-> response]
Err(why)        == [tag |-> "err", why |-> why]
Closed          == Err("Closed")

Result == [tag : {"ok"}, re : Calls \cup {NoCall}, response : Response]
            \cup [tag : {"err"}, why : {"Closed", "Write", "Read", "Json", "Decode"}]
Slot   == {Open, Dropped} \cup Result

(* Frames the task can read.  `re' is the call the daemon was answering.   *)
Frame ==
  [type : {"response"}, id : Ids \cup {NoId}, re : Calls \cup {NoCall}, response : Response]
    \cup [type : {"undecodable"}, id : Ids \cup {NoId}]
    \cup [type : {"garbage", "error", "eof"}]

(* AtomicU32::fetch_add(1) and fetch_sub(1) wrap.                          *)
fetch_add(n) == IF n = U32Max THEN 0 ELSE n + 1
fetch_sub(n) == IF n = 0 THEN U32Max ELSE n - 1

TypeOK ==
  /\ call \in [Calls -> {"idle", "sending", "waiting", "done", "cancelled"}]
  /\ slot \in [Calls -> Slot]
  /\ queue \in Seq(Calls) /\ Len(queue) <= Capacity
  /\ task \in {"select", "sending", "sent", "routing", "failing", "draining", "returned"}
  /\ cur \in Calls \cup {NoCall}
  /\ result \in Result
  /\ pending \in [Ids -> Calls \cup {NoCall}]
  /\ inFlight \in 0..U32Max
  /\ handles \in {"job", "clones", "none"}
  /\ link \in {"up", "closed", "reset", "lost"}
  /\ daemon \in [Calls -> {"none", "asked", "answered"}]
  /\ inbox \in Seq(Frame)
  /\ strays \in 0..MaxStrays

Init ==
  /\ call = [c \in Calls |-> "idle"]
  /\ slot = [c \in Calls |-> Open]
  /\ queue = << >>
  /\ task = "select"
  /\ cur = NoCall
  /\ result = Closed
  /\ pending = [i \in Ids |-> NoCall]
  /\ inFlight = 0
  /\ handles = "job"
  /\ link = "up"
  /\ daemon = [c \in Calls |-> "none"]
  /\ inbox = << >>
  /\ strays = 0
-----------------------------------------------------------------------------
(* DispatcherHandle::send, one action per await.                           *)

(* The caller builds the request and its oneshot, and asks for queue room. *)
Send(c) ==
  /\ call[c] = "idle" /\ c # ExitCall
  /\ handles # "none"
  /\ call' = [call EXCEPT ![c] = "sending"]
  /\ UNCHANGED <<slot, queue, task, cur, result, pending, inFlight, handles, daemonVars>>

(* The request does not serialize: an early return.                        *)
SerializeError(c) ==
  /\ call[c] = "idle" /\ c # ExitCall
  /\ handles # "none"
  /\ call' = [call EXCEPT ![c] = "done"]
  /\ slot' = [slot EXCEPT ![c] = Err("Json")]
  /\ UNCHANGED <<queue, task, cur, result, pending, inFlight, handles, daemonVars>>

(* Mutant of Enqueue: an unbounded channel.                                *)
EnqueueUnbounded(c) ==
  /\ call[c] = "sending" /\ task # "returned"
  /\ queue' = Append(queue, c)
  /\ call' = [call EXCEPT ![c] = "waiting"]
  /\ UNCHANGED <<slot, task, cur, result, pending, inFlight, handles, daemonVars>>

(* tx.send().await completes once the queue has room.                      *)
Enqueue(c) ==
  /\ call[c] = "sending" /\ task # "returned"
  /\ Len(queue) < Capacity
  /\ queue' = Append(queue, c)
  /\ call' = [call EXCEPT ![c] = "waiting"]
  /\ UNCHANGED <<slot, task, cur, result, pending, inFlight, handles, daemonVars>>

(* tx.send().await fails once the receiver is gone: Err(Closed), and the   *)
(* Outbound, with its reply sender, is dropped.                            *)
SendClosed(c) ==
  /\ call[c] = "sending" /\ task = "returned"
  /\ call' = [call EXCEPT ![c] = "done"]
  /\ slot' = [slot EXCEPT ![c] = Dropped]
  /\ UNCHANGED <<queue, task, cur, result, pending, inFlight, handles, daemonVars>>

(* reply_rx.await completes: with the value sent, or with Err(Closed) when *)
(* the sender was dropped.                                                 *)
Receive(c) ==
  /\ call[c] = "waiting" /\ slot[c] # Open
  /\ call' = [call EXCEPT ![c] = "done"]
  /\ UNCHANGED <<slot, queue, task, cur, result, pending, inFlight, handles, daemonVars>>

(* The caller drops the future (a timeout, a lost select! race).  Nothing  *)
(* tells the task: an entry already handed over stays where it is.         *)
Cancel(c) ==
  /\ call[c] \in {"sending", "waiting"}
  /\ call' = [call EXCEPT ![c] = "cancelled"]
  /\ slot' = IF call[c] = "sending" THEN [slot EXCEPT ![c] = Dropped] ELSE slot
  /\ UNCHANGED <<queue, task, cur, result, pending, inFlight, handles, daemonVars>>

(* Drop for Job: spawn_best_effort(Exit), which needs a runtime, then Drop *)
(* for Dispatcher requests the abort that Abort below carries out.         *)
DropJob ==
  /\ handles = "job"
  /\ handles' \in {"clones", "none"}
  /\ call' \in {call} \cup {[call EXCEPT ![c] = "sending"] : c \in Calls \cap {ExitCall}}
  /\ UNCHANGED <<slot, queue, task, cur, result, pending, inFlight, daemonVars>>

(* The last Rows, stream or Query that outlived the Job is dropped.        *)
DropClones ==
  /\ handles = "clones"
  /\ handles' = "none"
  /\ UNCHANGED <<call, slot, queue, task, cur, result, pending, inFlight, daemonVars>>
-----------------------------------------------------------------------------
(* The dispatcher task, `run'.                                             *)

(* First arm of select!: take the next Outbound and start writing it.      *)
Recv ==
  /\ task = "select" /\ queue # << >>
  /\ cur' = Head(queue)
  /\ queue' = Tail(queue)
  /\ task' = "sending"
  /\ UNCHANGED <<slot, result, pending, inFlight, callerVars, daemonVars>>

(* transport.send(bytes): the frame leaves.  A daemon that can still be    *)
(* reached may answer before the await returns.                            *)
Write ==
  /\ task = "sending"
  /\ daemon' = IF link = "up" THEN [daemon EXCEPT ![cur] = "asked"] ELSE daemon
  /\ task' = "sent"
  /\ UNCHANGED <<slot, queue, cur, result, pending, inFlight, callerVars,
                 link, inbox, strays>>

(* The task stops reading, so what happens on the connection from here on  *)
(* is of no consequence; the socket closes when `run' drops the transport. *)
StopReading == link' = "closed" /\ inbox' = << >> /\ UNCHANGED <<daemon, strays>>

(* transport.send(bytes) fails: the call gets the error, everyone else is  *)
(* drained with Closed.                                                    *)
WriteError ==
  /\ task = "sending"
  /\ slot' = [slot EXCEPT ![cur] = Err("Write")]
  /\ cur' = NoCall
  /\ result' = Closed
  /\ task' = "draining"
  /\ StopReading
  /\ UNCHANGED <<queue, pending, inFlight, callerVars>>

(* The write returned: count the request, then insert it.  HashMap::insert *)
(* drops the reply slot it displaces when the id is in use.                *)
Track ==
  /\ task = "sent"
  /\ inFlight' = fetch_add(inFlight)
  /\ pending' = [pending EXCEPT ![IdOf[cur]] = cur]
  /\ slot' = [c \in Calls |-> IF c = pending[IdOf[cur]] THEN Dropped ELSE slot[c]]
  /\ cur' = NoCall
  /\ task' = "select"
  /\ UNCHANGED <<queue, result, callerVars, daemonVars>>

(* pending.remove(id) found a slot: un-count it, then reply (SendReply).   *)
TakePending(i, value) ==
  /\ pending' = [pending EXCEPT ![i] = NoCall]
  /\ inFlight' = fetch_sub(inFlight)
  /\ cur' = pending[i]
  /\ result' = value

(* Whether a frame's id names an outstanding request.                      *)
Outstanding(i) == i \in Ids /\ pending[i] # NoCall

(* Mutant of ReadResponse: un-counts before it looks the id up.            *)
ReadResponseUncountsFirst ==
  /\ task = "select" /\ inbox # << >> /\ Head(inbox).type = "response"
  /\ LET f == Head(inbox) IN
       IF Outstanding(f.id)
       THEN TakePending(f.id, Ok(f.re, f.response)) /\ task' = "routing"
       ELSE inFlight' = fetch_sub(inFlight) /\ UNCHANGED <<pending, cur, result, task>>
  /\ inbox' = Tail(inbox)
  /\ UNCHANGED <<slot, queue, callerVars, link, daemon, strays>>

(* Mutant of ReadResponse: answers some outstanding request, as if answers *)
(* came in order.                                                          *)
ReadResponseAnySlot ==
  /\ task = "select" /\ inbox # << >> /\ Head(inbox).type = "response"
  /\ LET f == Head(inbox) IN
       \/ \E i \in Ids : /\ Outstanding(i)
                         /\ TakePending(i, Ok(f.re, f.response)) /\ task' = "routing"
       \/ /\ \A i \in Ids : ~Outstanding(i)
          /\ UNCHANGED <<pending, inFlight, cur, result, task>>
  /\ inbox' = Tail(inbox)
  /\ UNCHANGED <<slot, queue, callerVars, link, daemon, strays>>

(* Second arm of select!: a decodable response.                            *)
ReadResponse ==
  /\ task = "select" /\ inbox # << >> /\ Head(inbox).type = "response"
  /\ LET f == Head(inbox) IN
       IF Outstanding(f.id)
       THEN /\ TakePending(f.id,
                 Ok(f.re, remap_response(pending_kind(RequestOf[pending[f.id]]), f.response)))
            /\ task' = "routing"
       ELSE UNCHANGED <<pending, inFlight, cur, result, task>>
  /\ inbox' = Tail(inbox)
  /\ UNCHANGED <<slot, queue, callerVars, link, daemon, strays>>

(* Mutant of ReadUndecodable: the frame is skipped.                        *)
ReadUndecodableSkips ==
  /\ task = "select" /\ inbox # << >> /\ Head(inbox).type = "undecodable"
  /\ inbox' = Tail(inbox)
  /\ UNCHANGED <<pending, inFlight, cur, result, task, slot, queue, callerVars,
                 link, daemon, strays>>

(* Second arm: JSON that is no known response fails its own request only.  *)
ReadUndecodable ==
  /\ task = "select" /\ inbox # << >> /\ Head(inbox).type = "undecodable"
  /\ LET f == Head(inbox) IN
       IF Outstanding(f.id)
       THEN TakePending(f.id, Err("Decode")) /\ task' = "routing"
       ELSE UNCHANGED <<pending, inFlight, cur, result, task>>
  /\ inbox' = Tail(inbox)
  /\ UNCHANGED <<slot, queue, callerVars, link, daemon, strays>>

(* Second arm: a frame that is not JSON, a read error and the peer's close *)
(* end the task; the first drained entry gets the cause.                   *)
FatalCause(type) ==
  CASE type = "garbage" -> Err("Json") [] type = "error" -> Err("Read") [] OTHER -> Closed

ReadFatal ==
  /\ task = "select" /\ inbox # << >>
  /\ Head(inbox).type \in {"garbage", "error", "eof"}
  /\ result' = FatalCause(Head(inbox).type)
  /\ task' = "draining"
  /\ StopReading
  /\ UNCHANGED <<slot, queue, cur, pending, inFlight, callerVars>>

(* slot.reply.send(result), while routing and while draining.              *)
SendReply ==
  /\ task \in {"routing", "failing"}
  /\ slot' = [slot EXCEPT ![cur] = result]
  /\ cur' = NoCall
  /\ result' = Closed
  /\ task' = IF task = "routing" THEN "select" ELSE "draining"
  /\ UNCHANGED <<queue, pending, inFlight, callerVars, daemonVars>>

(* Mutant of DrainNext: the drained entry stays counted.                   *)
DrainNextCounted ==
  /\ task = "draining"
  /\ \E i \in Ids : /\ Outstanding(i)
                    /\ pending' = [pending EXCEPT ![i] = NoCall]
                    /\ cur' = pending[i]
  /\ task' = "failing"
  /\ UNCHANGED <<slot, queue, result, inFlight, callerVars, daemonVars>>

(* drain_pending and drain_pending_with_error: entries in no fixed order.  *)
DrainNext ==
  /\ task = "draining"
  /\ \E i \in Ids : Outstanding(i) /\ TakePending(i, result)
  /\ task' = "failing"
  /\ UNCHANGED <<slot, queue, callerVars, daemonVars>>

(* Every reply sender the task still owns.                                 *)
Owned == {queue[k] : k \in 1..Len(queue)} \cup {pending[i] : i \in Ids} \cup {cur}

(* Mutant of Return: the map outlives the task, as it would behind an Arc  *)
(* shared with the handles.                                                *)
ReturnKeepsPending ==
  /\ slot' = [c \in Calls |-> IF c \in {queue[k] : k \in 1..Len(queue)} \cup {cur} THEN Dropped ELSE slot[c]]
  /\ queue' = << >>
  /\ cur' = NoCall
  /\ task' = "returned"
  /\ StopReading
  /\ UNCHANGED <<pending, result, inFlight, callerVars>>

(* `run' ends: its locals, the map and the receiver with what is queued    *)
(* are dropped.                                                            *)
Return ==
  /\ slot' = [c \in Calls |-> IF c \in Owned THEN Dropped ELSE slot[c]]
  /\ queue' = << >>
  /\ pending' = [i \in Ids |-> NoCall]
  /\ cur' = NoCall
  /\ task' = "returned"
  /\ StopReading
  /\ UNCHANGED <<result, inFlight, callerVars>>

(* Mutant of DrainDone: the loop goes on after the drain.                  *)
DrainDoneLoops ==
  /\ task = "draining" /\ (\A i \in Ids : ~Outstanding(i))
  /\ task' = "select"
  /\ UNCHANGED <<slot, queue, cur, result, pending, inFlight, callerVars, daemonVars>>

DrainDone == task = "draining" /\ (\A i \in Ids : ~Outstanding(i)) /\ Return

(* rx.recv() returns None: every handle is gone, and with it every caller. *)
RecvNone ==
  /\ task = "select" /\ queue = << >>
  /\ handles = "none"
  /\ \A c \in Calls : call[c] \notin {"sending", "waiting"}
  /\ Return

(* The abort requested by DropJob lands at an await of the task.           *)
Abort == handles # "job" /\ task \in {"select", "sending", "sent"} /\ Return
-----------------------------------------------------------------------------
(* External: the daemon and the network.                                   *)

(* The daemon answers requests in any order.  (An error response is routed *)
(* as any other; the answers of a request that succeeds are the ambiguous  *)
(* ones.)                                                                  *)
Answer(c) ==
  /\ link = "up" /\ daemon[c] = "asked"
  /\ daemon' = [daemon EXCEPT ![c] = "answered"]
  /\ \E r \in daemon_answers(RequestOf[c]) :
       inbox' = Append(inbox, [type |-> "response", id |-> IdOf[c], re |-> c, response |-> r])
  /\ UNCHANGED <<slot, queue, task, cur, result, pending, inFlight, callerVars,
                 link, strays>>

(* It answers in a form this client version does not know.                 *)
AnswerUndecodable(c) ==
  /\ link = "up" /\ daemon[c] = "asked"
  /\ daemon' = [daemon EXCEPT ![c] = "answered"]
  /\ inbox' = Append(inbox, [type |-> "undecodable", id |-> IdOf[c]])
  /\ UNCHANGED <<slot, queue, task, cur, result, pending, inFlight, callerVars,
                 link, strays>>

(* A frame that answers nothing: an unknown id, none at all, not JSON, or  *)
(* a second answer to the same request.                                    *)
StrayFrame ==
  { [type |-> "response", id |-> NoId, re |-> NoCall, response |-> "Error"],
    [type |-> "undecodable", id |-> NoId],
    [type |-> "garbage"] }
  \cup { [type |-> "response", id |-> IdOf[c], re |-> c, response |-> "Error"] :
         c \in {d \in Calls : daemon[d] = "answered"} }

Stray ==
  /\ link = "up" /\ strays < MaxStrays
  /\ \E f \in StrayFrame : inbox' = Append(inbox, f)
  /\ strays' = strays + 1
  /\ UNCHANGED <<slot, queue, task, cur, result, pending, inFlight, callerVars,
                 link, daemon>>

(* The peer closes the WebSocket: what it sent before is still read.       *)
PeerClose ==
  /\ link = "up"
  /\ link' = "closed"
  /\ inbox' = Append(inbox, [type |-> "eof"])
  /\ UNCHANGED <<slot, queue, task, cur, result, pending, inFlight, callerVars,
                 daemon, strays>>

(* The connection is reset: frames not yet read may be lost with it.       *)
Reset ==
  /\ link = "up"
  /\ link' = "reset"
  /\ \E k \in 0..Len(inbox) : inbox' = Append(SubSeq(inbox, 1, k), [type |-> "error"])
  /\ UNCHANGED <<slot, queue, task, cur, result, pending, inFlight, callerVars,
                 daemon, strays>>

(* The path is cut without a sign (a firewall dropping an idle session).   *)
LoseLink ==
  /\ link = "up"
  /\ link' = "lost"
  /\ UNCHANGED <<slot, queue, task, cur, result, pending, inFlight, callerVars,
                 daemon, inbox, strays>>
-----------------------------------------------------------------------------
Caller(c) == \/ Send(c) \/ SerializeError(c) \/ Enqueue(c) \/ SendClosed(c)
             \/ Receive(c) \/ Cancel(c)

Transmit == Write \/ WriteError

Run == \/ Recv \/ RecvNone \/ Track
       \/ ReadResponse \/ ReadUndecodable \/ ReadFatal
       \/ SendReply \/ DrainNext \/ DrainDone

Network == Stray \/ PeerClose \/ Reset \/ LoseLink

Next == \/ \E c \in Calls : Caller(c) \/ Answer(c) \/ AnswerUndecodable(c)
        \/ DropJob \/ DropClones \/ Run \/ Transmit \/ Abort \/ Network

Spec == Init /\ [][Next]_vars

(* What the runtime guarantees: the task and the callers are polled when   *)
(* they can go on, and an abort is carried out.  Nobody has to call,       *)
(* cancel or drop anything; a write may block; the network may stay idle.  *)
Polled == /\ WF_vars(Run) /\ WF_vars(Abort)
          /\ \A c \in Calls : WF_vars(Enqueue(c) \/ SendClosed(c) \/ Receive(c))

FairSpec == Spec /\ Polled

(* Moreover the peer is responsive: it takes what is written to it, and    *)
(* answers what it was asked in some form.                                 *)
Responsive == /\ WF_vars(Transmit)
              /\ \A c \in Calls : WF_vars(Answer(c) \/ AnswerUndecodable(c))
-----------------------------------------------------------------------------
(* Properties.                                                             *)

(* No two calls on this connection use one id.                             *)
UniqueIds == \A c, d \in Calls : IdOf[c] = IdOf[d] => c = d

(* The counter the pool routes by is exact for as long as the Job lives:   *)
(* it is the number of entries of `pending', also when the connection died *)
(* under the Job, a write failed half way, a caller gave up, or the drain  *)
(* is still going on.                                                      *)
InFlightExact ==
  UniqueIds /\ handles = "job" => inFlight = Cardinality({i \in Ids : Outstanding(i)})

(* Without two calls using one id, or even with them, the counter never    *)
(* reaches u32::MAX on its own: that value stays free to mean "reserved".  *)
SentinelFree == inFlight # U32Max

(* No caller waits on a reply that nobody can send: while its oneshot is   *)
(* open, the task is running and holds its sender in the queue, in a local *)
(* or in `pending'.  ("so no caller hangs", dispatcher.rs)                 *)
NoOrphan ==
  \A c \in Calls : call[c] = "waiting" /\ slot[c] = Open =>
    task # "returned" /\ c \in Owned

(* A caller is handed the daemon's answer to its own request and no other, *)
(* whatever the order of answers, duplicates and unknown ids.              *)
RepliesToOwnRequest ==
  UniqueIds => \A c \in Calls : slot[c].tag = "ok" => slot[c].re = c

(* What the callers see of it, in the terms of RequestReply.  A caller     *)
(* that gave up sees nothing more.                                         *)
phase ==
  [c \in Calls |-> CASE call[c] \in {"sending", "waiting"} -> "active"
                     [] call[c] = "done" -> "returned"
                     [] OTHER -> call[c]]

outcome ==
  [c \in Calls |-> IF slot[c] = Open \/ call[c] = "cancelled" THEN "none"
                   ELSE IF slot[c].tag # "ok" THEN "failed"
                   ELSE IF slot[c].re = c THEN "answered" ELSE "misrouted"]

open == task \notin {"draining", "failing", "returned"}

RR == INSTANCE RequestReply
        WITH Calls <- Calls, phase <- phase, outcome <- outcome, open <- open

(* The connection implements RequestReply.                                 *)
ImplementsRequestReply == RR!Spec

(* Once the task has started to wind down, for whatever reason, every call *)
(* of `send' returns, whether it is queued, blocked on a full queue,       *)
(* written, or about to be made.                                           *)
ClosingFreesCallers ==
  \A c \in Calls : (task \in {"draining", "failing", "returned"} /\ call[c] \in {"sending", "waiting"})
                      ~> (call[c] \in {"done", "cancelled"})

(* With a responsive peer every call returns, unless the path was cut      *)
(* silently: `send' has no timeout of its own.                             *)
EveryCallReturns ==
  Responsive /\ [](link # "lost") => \A c \in Calls :
    (call[c] \in {"sending", "waiting"}) ~> (call[c] \in {"done", "cancelled"})
=============================================================================
