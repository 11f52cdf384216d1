-------------------------------- MODULE Pool --------------------------------
(***************************************************************************)
(* The connection pool: three-tier routing of one-shot statements          *)
(* (Pool::execute), exclusive checkouts (Pool::acquire, Reserved), the     *)
(* registry of weak references the router reads, the manager that creates  *)
(* and recycles Jobs, the idle reaper, and the eager opens of the builder. *)
(* deadpool, which owns the idle slots and the checkout semaphore, is      *)
(* external.                                                               *)
(*                                                                         *)
(* A connection is what Dispatcher shows it to be, reduced to what the     *)
(* router can observe: requests are queued, counted once written, un-      *)
(* counted when answered, and drained when the socket dies.  The order of  *)
(* requests on one connection is left open.                                *)
(***************************************************************************)
EXTENDS Naturals, Sequences, FiniteSets, Functions

CONSTANTS
  Executors,     \* clients that call Pool::execute
  Reservers,     \* clients that call Pool::acquire
  Builder,       \* the client that is PoolBuilder::build
  MaxJobs,       \* bound: names for the connections alive at one time
  MaxGhosts,     \* bound: requests of one connection nobody waits for
  MaxSize,       \* PoolBuilder::max_size
  StartingSize,  \* PoolBuilder::starting_size
  Reaping,       \* idle_timeout is Some(_): a reaper runs
  Threshold,     \* SATURATION_THRESHOLD
  U32Max         \* u32::MAX, the Reserved sentinel

Clients == Executors \cup Reservers \cup {Builder}
Jobs    == 1..MaxJobs
NoJob   == 0

ASSUME PoolAssumption ==
  /\ IsFiniteSet(Clients) /\ Builder \notin Executors \cup Reservers
  /\ MaxSize \in Nat \ {0}
  /\ MaxJobs \in Nat /\ MaxJobs >= MaxSize + Cardinality(Executors)
  /\ MaxGhosts \in Nat /\ StartingSize \in Nat
  /\ Reaping \in BOOLEAN
  /\ Threshold \in Nat \ {0} /\ U32Max \in Nat /\ Threshold < U32Max
  /\ Cardinality(Clients) + MaxGhosts < U32Max

VARIABLES
  pc,        \* where each client is
  mode,      \* what it is doing: "execute", "acquire", "eager"
  job,       \* the connection it deals with
  hold,      \* how it holds that Job: an "arc" of its own, deadpool's
             \* "unready" object while it is pinged, or the "object"
  req,       \* its request on that connection
  outcome,   \* how its last operation ended
  conn,      \* "none", "up" or "dead" (the dispatcher has returned)
  inFlight,  \* the AtomicU32 of each Job
  ghosts,    \* requests whose caller is gone: still queued, and written
  slots,     \* deadpool: idle Jobs, in order of return
  size,      \* deadpool: Jobs it accounts for
  registry,  \* weak references, in order of creation
  opened     \* turns of the builder's eager loop

vars == <<pc, mode, job, hold, req, outcome, conn, inFlight, ghosts, slots,
          size, registry, opened>>
-----------------------------------------------------------------------------
TypeOK ==
  /\ pc \in [Clients -> {"idle", "scan", "get", "checkout", "creating", "recycle",
                         "got", "ready", "exec", "reserved"}]
  /\ mode \in [Clients -> {"execute", "acquire", "eager"}]
  /\ job \in [Clients -> Jobs \cup {NoJob}]
  /\ hold \in [Clients -> {"none", "arc", "unready", "object"}]
  /\ req \in [Clients -> {"none", "queued", "written", "ok", "err"}]
  /\ outcome \in [Clients -> {"none", "ok", "err"}]
  /\ conn \in [Jobs -> {"none", "up", "dead"}]
  /\ inFlight \in [Jobs -> 0..U32Max]
  /\ ghosts \in [Jobs -> [queued : 0..MaxGhosts, written : 0..MaxGhosts]]
  /\ slots \in Seq(Jobs) /\ size \in 0..MaxSize
  /\ registry \in Seq(Jobs)
  /\ opened \in 0..StartingSize

Init ==
  /\ pc = [c \in Clients |-> "idle"]
  /\ mode = [c \in Clients |-> IF c = Builder THEN "eager" ELSE "execute"]
  /\ job = [c \in Clients |-> NoJob]
  /\ hold = [c \in Clients |-> "none"]
  /\ req = [c \in Clients |-> "none"]
  /\ outcome = [c \in Clients |-> "none"]
  /\ conn = [j \in Jobs |-> "none"]
  /\ inFlight = [j \in Jobs |-> 0]
  /\ ghosts = [j \in Jobs |-> [queued |-> 0, written |-> 0]]
  /\ slots = << >> /\ size = 0
  /\ registry = << >>
  /\ opened = 0

(* AtomicU32 arithmetic wraps.                                             *)
Add(n, k) == (n + k) % (U32Max + 1)
Sub(n, k) == (n + (U32Max + 1) - k) % (U32Max + 1)

Holders(j)  == {c \in Clients : job[c] = j /\ hold[c] # "none"}
Written(j)  == {c \in Clients : job[c] = j /\ req[c] = "written"}

(* The Object of a Job: deadpool moves the Arc from the slot into the      *)
(* Object and back, so there is one base reference in either case.         *)
CheckedOut(j) == \E c \in Holders(j) : hold[c] \in {"unready", "object"}

(* Arc::strong_count, without the reference a scan adds by upgrading.      *)
Strong(j) == Cardinality(Holders(j)) + (IF j \in Range(slots) THEN 1 ELSE 0)
Alive(j)  == Strong(j) > 0

Reserved(j) == \E c \in Holders(j) : mode[c] = "acquire" /\ pc[c] \in {"reserved", "exec"}
                                       /\ hold[c] = "object"
-----------------------------------------------------------------------------
(* pool::routing::Registry.                                                *)

(* Vec::retain, of the elements in Keep: the i-th of the result is the     *)
(* kept element with i kept ones up to it.  (SelectSeq computes the same;  *)
(* this form needs no recursion, so that it can be reasoned about.)        *)
retain(s, Keep) ==
  LET kept == {k \in 1..Len(s) : s[k] \in Keep}
      rank(k) == Cardinality({m \in kept : m <= k})
  IN  [i \in 1..Cardinality(kept) |-> s[CHOOSE k \in kept : rank(k) = i]]

(* Mutant of Live: collects a Job that only its slot keeps alive.          *)
LiveShared == retain(registry, {j \in Jobs : Strong(j) > 1})

(* Dead weak references are dropped by every scan.                         *)
Live == retain(registry, {j \in Jobs : Alive(j)})

First(S) ==
  {Live[k] : k \in {k \in 1..Len(Live) : Live[k] \in S /\ \A m \in 1..(k - 1) : Live[m] \notin S}}

(* peek_idle: the first Job that reads idle and that nobody else upgraded. *)
peek_idle ==
  First({j \in Range(Live) : inFlight[j] # U32Max /\ inFlight[j] = 0 /\ Strong(j) + 1 = 2})

(* least_busy and pick_unsaturated: of at most min(size, 8) Jobs by rising *)
(* load, sentinels left out, the first below the threshold, if any.        *)
pick_unsaturated ==
  LET candidates == {j \in Range(Live) : inFlight[j] # U32Max}
      least      == {j \in candidates : \A k \in candidates : inFlight[j] <= inFlight[k]}
      limit      == IF size < 8 THEN size ELSE 8
  IN  IF limit = 0 THEN {} ELSE First(least) \cap {j \in Jobs : inFlight[j] < Threshold}
-----------------------------------------------------------------------------
(* deadpool (external), as get_or_timeout and Drop use it.                 *)

(* The semaphore: each client between its permit and the return of its     *)
(* Object owns one of MaxSize permits.                                     *)
Permits == MaxSize - Cardinality({c \in Clients :
             pc[c] \in {"checkout", "creating"} \/ hold[c] \in {"unready", "object"}})

(* The future of get resolves or is dropped: the client is done.           *)
Done(c, how) ==
  /\ pc' = [pc EXCEPT ![c] = "idle"]
  /\ outcome' = [outcome EXCEPT ![c] = how]

Release(c) ==
  /\ job' = [job EXCEPT ![c] = NoJob]
  /\ hold' = [hold EXCEPT ![c] = "none"]
  /\ req' = [req EXCEPT ![c] = "none"]

(* Drop of an Object: the Job goes to the back of the idle slots.          *)
ReturnObject(c) == slots' = Append(slots, job[c]) /\ size' = size

(* Drop of an UnreadyObject: the Job leaves the pool.                      *)
Detach(c) == size' = size - 1 /\ slots' = slots
-----------------------------------------------------------------------------
(* Pool::execute, step 1: the registry fast path.                          *)
StartExecute(c) ==
  /\ c \in Executors /\ pc[c] = "idle" /\ opened = StartingSize
  /\ mode' = [mode EXCEPT ![c] = "execute"]
  /\ registry' = Live
  /\ \/ \E j \in peek_idle :
          /\ pc' = [pc EXCEPT ![c] = "ready"]
          /\ job' = [job EXCEPT ![c] = j]
          /\ hold' = [hold EXCEPT ![c] = "arc"]
     \/ /\ peek_idle = {}
        /\ pc' = [pc EXCEPT ![c] = "scan"]
        /\ UNCHANGED <<job, hold>>
  /\ UNCHANGED <<req, outcome, conn, inFlight, ghosts, slots, size, opened>>

(* Pool::execute, step 2: the least-busy scan, and step 3: the fair queue. *)
Scan(c) ==
  /\ pc[c] = "scan"
  /\ registry' = Live
  /\ \/ \E j \in pick_unsaturated :
          /\ pc' = [pc EXCEPT ![c] = "ready"]
          /\ job' = [job EXCEPT ![c] = j]
          /\ hold' = [hold EXCEPT ![c] = "arc"]
     \/ /\ pick_unsaturated = {}
        /\ pc' = [pc EXCEPT ![c] = "get"]
        /\ UNCHANGED <<job, hold>>
  /\ UNCHANGED <<mode, req, outcome, conn, inFlight, ghosts, slots, size, opened>>

(* Mutant of StartGet: one turn of the eager loop too many.                *)
StartGetOnceMore(c) ==
  /\ pc[c] = "idle"
  /\ \/ /\ c \in Reservers /\ opened = StartingSize
        /\ mode' = [mode EXCEPT ![c] = "acquire"]
     \/ /\ c = Builder /\ opened <= StartingSize /\ outcome[c] # "err"
        /\ mode' = mode
  /\ pc' = [pc EXCEPT ![c] = "get"]
  /\ UNCHANGED <<job, hold, req, outcome, conn, inFlight, ghosts, slots, size,
                 registry, opened>>

(* Pool::acquire, and a turn of the builder's loop, go straight to get.    *)
StartGet(c) ==
  /\ pc[c] = "idle"
  /\ \/ /\ c \in Reservers /\ opened = StartingSize
        /\ mode' = [mode EXCEPT ![c] = "acquire"]
     \/ /\ c = Builder /\ opened < StartingSize /\ outcome[c] # "err"
        /\ mode' = mode
  /\ pc' = [pc EXCEPT ![c] = "get"]
  /\ UNCHANGED <<job, hold, req, outcome, conn, inFlight, ghosts, slots, size,
                 registry, opened>>

(* get: a permit.                                                          *)
Permit(c) ==
  /\ pc[c] = "get" /\ Permits > 0
  /\ pc' = [pc EXCEPT ![c] = "checkout"]
  /\ UNCHANGED <<mode, job, hold, req, outcome, conn, inFlight, ghosts, slots,
                 size, registry, opened>>

(* get: acquire_timeout elapses first, PoolExhausted.                      *)
WaitTimeout(c) ==
  /\ pc[c] = "get" /\ Permits = 0
  /\ Done(c, "err")
  /\ UNCHANGED <<mode, job, hold, req, conn, inFlight, ghosts, slots, size,
                 registry, opened>>

(* get: the oldest idle Job is taken out of its slot, to be pinged.        *)
PopSlot(c) ==
  /\ pc[c] = "checkout" /\ slots # << >>
  /\ job' = [job EXCEPT ![c] = Head(slots)]
  /\ slots' = Tail(slots)
  /\ hold' = [hold EXCEPT ![c] = "unready"]
  /\ pc' = [pc EXCEPT ![c] = "recycle"]
  /\ UNCHANGED <<mode, req, outcome, conn, inFlight, ghosts, size, registry, opened>>

(* get: no idle Job, JobManager::create starts to connect.                 *)
StartCreate(c) ==
  /\ pc[c] = "checkout" /\ slots = << >>
  /\ pc' = [pc EXCEPT ![c] = "creating"]
  /\ UNCHANGED <<mode, job, hold, req, outcome, conn, inFlight, ghosts, slots,
                 size, registry, opened>>

(* JobManager::create: Job::connect succeeded (its Connect was counted and *)
(* un-counted), and the new Job is tracked.  It takes a name no live Job   *)
(* has; a dead weak reference under that name is as good as collected.     *)
CreateOk(c) ==
  /\ pc[c] = "creating"
  /\ \E j \in Jobs :
       /\ ~Alive(j) /\ \A k \in 1..(j - 1) : Alive(k)
       /\ conn' = [conn EXCEPT ![j] = "up"]
       /\ inFlight' = [inFlight EXCEPT ![j] = 0]
       /\ ghosts' = [ghosts EXCEPT ![j] = [queued |-> 0, written |-> 0]]
       /\ registry' = Append(retain(registry, Jobs \ {j}), j)
       /\ job' = [job EXCEPT ![c] = j]
  /\ size' = size + 1
  /\ hold' = [hold EXCEPT ![c] = "object"]
  /\ pc' = [pc EXCEPT ![c] = "got"]
  /\ UNCHANGED <<mode, req, outcome, slots, opened>>

(* JobManager::create: Job::connect failed; get returns the error, and     *)
(* with it `build' when this was an eager open.                            *)
CreateFail(c) ==
  /\ pc[c] = "creating"
  /\ Done(c, "err")
  /\ UNCHANGED <<mode, job, hold, req, conn, inFlight, ghosts, slots, size,
                 registry, opened>>

(* get has returned an Object: Pool::execute goes on with it, Reserved::   *)
(* new stores the sentinel, and the builder drops it again.                *)
UseObject(c) ==
  /\ pc[c] = "got" /\ mode[c] = "execute"
  /\ pc' = [pc EXCEPT ![c] = "ready"]
  /\ UNCHANGED <<mode, job, hold, req, outcome, conn, inFlight, ghosts, slots,
                 size, registry, opened>>

NewReserved(c) ==
  /\ pc[c] = "got" /\ mode[c] = "acquire"
  /\ inFlight' = [inFlight EXCEPT ![job[c]] = U32Max]
  /\ pc' = [pc EXCEPT ![c] = "reserved"]
  /\ outcome' = [outcome EXCEPT ![c] = "ok"]
  /\ UNCHANGED <<mode, job, hold, req, conn, ghosts, slots, size, registry, opened>>

EagerOpened(c) ==
  /\ pc[c] = "got" /\ mode[c] = "eager"
  /\ opened' = opened + 1
  /\ Done(c, "ok") /\ Release(c) /\ ReturnObject(c)
  /\ UNCHANGED <<mode, conn, inFlight, ghosts, registry>>
-----------------------------------------------------------------------------
(* Requests: a routed statement, a recycle ping, a statement of the holder *)
(* of a Reserved.                                                          *)
Submit(c) ==
  /\ pc[c] \in {"ready", "recycle", "reserved"}
  /\ req' = [req EXCEPT ![c] = IF conn[job[c]] = "up" THEN "queued" ELSE "err"]
  /\ pc' = [pc EXCEPT ![c] = "exec"]
  /\ UNCHANGED <<mode, job, hold, outcome, conn, inFlight, ghosts, slots, size,
                 registry, opened>>

(* The dispatcher writes it and counts it.                                 *)
Write(c) ==
  /\ req[c] = "queued" /\ conn[job[c]] = "up"
  /\ req' = [req EXCEPT ![c] = "written"]
  /\ inFlight' = [inFlight EXCEPT ![job[c]] = Add(@, 1)]
  /\ UNCHANGED <<pc, mode, job, hold, outcome, conn, ghosts, slots, size,
                 registry, opened>>

(* The dispatcher un-counts it and hands over the answer.                  *)
Answer(c) ==
  /\ req[c] = "written" /\ conn[job[c]] = "up"
  /\ req' = [req EXCEPT ![c] = "ok"]
  /\ inFlight' = [inFlight EXCEPT ![job[c]] = Sub(@, 1)]
  /\ UNCHANGED <<pc, mode, job, hold, outcome, conn, ghosts, slots, size,
                 registry, opened>>

(* The same for requests nobody waits for.                                 *)
WriteGhost(j) ==
  /\ Alive(j) /\ conn[j] = "up" /\ ghosts[j].queued > 0
  /\ ghosts' = [ghosts EXCEPT ![j] = [queued |-> @.queued - 1, written |-> @.written + 1]]
  /\ inFlight' = [inFlight EXCEPT ![j] = Add(@, 1)]
  /\ UNCHANGED <<pc, mode, job, hold, req, outcome, conn, slots, size, registry, opened>>

AnswerGhost(j) ==
  /\ Alive(j) /\ conn[j] = "up" /\ ghosts[j].written > 0
  /\ ghosts' = [ghosts EXCEPT ![j].written = @ - 1]
  /\ inFlight' = [inFlight EXCEPT ![j] = Sub(@, 1)]
  /\ UNCHANGED <<pc, mode, job, hold, req, outcome, conn, slots, size, registry, opened>>

(* Mutant of Die: the drain forgets the callers.                           *)
DieSilently(j) ==
  /\ Alive(j) /\ conn[j] = "up"
  /\ conn' = [conn EXCEPT ![j] = "dead"]
  /\ inFlight' = [inFlight EXCEPT ![j] = Sub(@, Cardinality(Written(j)) + ghosts[j].written)]
  /\ ghosts' = [ghosts EXCEPT ![j] = [queued |-> 0, written |-> 0]]
  /\ UNCHANGED <<pc, mode, job, hold, req, outcome, slots, size, registry, opened>>

(* The socket dies: everything counted is drained, everyone waiting fails. *)
Die(j) ==
  /\ Alive(j) /\ conn[j] = "up"
  /\ conn' = [conn EXCEPT ![j] = "dead"]
  /\ inFlight' = [inFlight EXCEPT ![j] = Sub(@, Cardinality(Written(j)) + ghosts[j].written)]
  /\ req' = [c \in Clients |->
               IF job[c] = j /\ req[c] \in {"queued", "written"} THEN "err" ELSE req[c]]
  /\ ghosts' = [ghosts EXCEPT ![j] = [queued |-> 0, written |-> 0]]
  /\ UNCHANGED <<pc, mode, job, hold, outcome, slots, size, registry, opened>>
-----------------------------------------------------------------------------
(* A request returns to its caller.                                        *)

(* JobManager::recycle: the ping came back, get returns the Object.        *)
Recycled(c) ==
  /\ pc[c] = "exec" /\ hold[c] = "unready" /\ req[c] = "ok"
  /\ pc' = [pc EXCEPT ![c] = "got"]
  /\ hold' = [hold EXCEPT ![c] = "object"]
  /\ req' = [req EXCEPT ![c] = "none"]
  /\ UNCHANGED <<mode, job, outcome, conn, inFlight, ghosts, slots, size, registry, opened>>

(* JobManager::recycle failed: the Job is dropped and get tries the next.  *)
RecycleFailed(c) ==
  /\ pc[c] = "exec" /\ hold[c] = "unready" /\ req[c] = "err"
  /\ pc' = [pc EXCEPT ![c] = "checkout"]
  /\ Release(c) /\ Detach(c)
  /\ UNCHANGED <<mode, outcome, conn, inFlight, ghosts, registry, opened>>

(* Pool::execute returns: the Arc, or the Object, it used is dropped.      *)
Executed(c) ==
  /\ pc[c] = "exec" /\ req[c] \in {"ok", "err"} /\ mode[c] = "execute"
  /\ hold[c] \in {"arc", "object"}
  /\ Done(c, req[c]) /\ Release(c)
  /\ IF hold[c] = "object" THEN ReturnObject(c) ELSE UNCHANGED <<slots, size>>
  /\ UNCHANGED <<mode, conn, inFlight, ghosts, registry, opened>>

(* A statement on a Reserved returns: the checkout goes on.                *)
ReservedExecuted(c) ==
  /\ pc[c] = "exec" /\ req[c] \in {"ok", "err"} /\ mode[c] = "acquire"
  /\ hold[c] = "object"
  /\ pc' = [pc EXCEPT ![c] = "reserved"]
  /\ req' = [req EXCEPT ![c] = "none"]
  /\ outcome' = [outcome EXCEPT ![c] = req[c]]
  /\ UNCHANGED <<mode, job, hold, conn, inFlight, ghosts, slots, size, registry, opened>>

(* Mutant of DropReserved: the Job is taken out of its Object, which then  *)
(* never returns it.                                                       *)
DropReservedTakes(c) ==
  /\ pc[c] = "reserved"
  /\ inFlight' = [inFlight EXCEPT ![job[c]] = 0]
  /\ pc' = [pc EXCEPT ![c] = "idle"]
  /\ Release(c)
  /\ UNCHANGED <<mode, outcome, conn, ghosts, slots, size, registry, opened>>

(* Drop for Reserved: perhaps a best-effort ROLLBACK, then the sentinel is *)
(* replaced by zero, then the Object is dropped.                           *)
DropReserved(c) ==
  /\ pc[c] = "reserved"
  /\ LET j == job[c] IN
       /\ ghosts' \in {ghosts} \cup
            {[ghosts EXCEPT ![j].queued = @ + 1] :
               k \in {k \in {j} : conn[k] = "up"
                                    /\ ghosts[k].queued + ghosts[k].written < MaxGhosts}}
       /\ inFlight' = [inFlight EXCEPT ![j] = 0]
  /\ pc' = [pc EXCEPT ![c] = "idle"]
  /\ Release(c) /\ ReturnObject(c)
  /\ UNCHANGED <<mode, outcome, conn, registry, opened>>

(* The request of a cancelled call stays with the dispatcher.              *)
Abandon(c) ==
  LET j == job[c] IN
    CASE req[c] = "queued"  -> [ghosts EXCEPT ![j].queued = @ + 1]
      [] req[c] = "written" -> [ghosts EXCEPT ![j].written = @ + 1]
      [] OTHER -> ghosts

(* The caller drops the future at one of its awaits: in get, while it      *)
(* connects or pings, or in a statement.                                   *)
CancelGet(c) ==
  /\ pc[c] \in {"get", "creating"} /\ c # Builder
  /\ Done(c, "err")
  /\ UNCHANGED <<mode, job, hold, req, conn, inFlight, ghosts, slots, size,
                 registry, opened>>

CancelRequest(c) ==
  /\ pc[c] = "exec" /\ c # Builder
  /\ req[c] \in {"queued", "written"} =>
       ghosts[job[c]].queued + ghosts[job[c]].written < MaxGhosts
  /\ ghosts' = Abandon(c)
  /\ \/ /\ hold[c] = "unready"
        /\ Done(c, "err") /\ Release(c) /\ Detach(c)
     \/ /\ hold[c] = "arc"
        /\ Done(c, "err") /\ Release(c) /\ UNCHANGED <<slots, size>>
     \/ /\ hold[c] = "object" /\ mode[c] = "execute"
        /\ Done(c, "err") /\ Release(c) /\ ReturnObject(c)
     \/ /\ hold[c] = "object" /\ mode[c] = "acquire"
        /\ pc' = [pc EXCEPT ![c] = "reserved"]
        /\ req' = [req EXCEPT ![c] = "none"]
        /\ UNCHANGED <<outcome, job, hold, slots, size>>
  /\ UNCHANGED <<mode, conn, inFlight, registry, opened>>

(* Mutant of Reap: only connections the router reads as busy are dropped.  *)
ReapBusy(j) ==
  /\ Reaping /\ opened = StartingSize /\ j \in Range(slots) /\ inFlight[j] > 0
  /\ slots' = retain(slots, Jobs \ {j})
  /\ size' = size - 1
  /\ UNCHANGED <<pc, mode, job, hold, req, outcome, conn, inFlight, ghosts,
                 registry, opened>>

(* The reaper's `retain' drops an idle Job that was last checked out       *)
(* idle_timeout ago or earlier.                                            *)
Reap(j) ==
  /\ Reaping /\ opened = StartingSize /\ j \in Range(slots)
  /\ slots' = retain(slots, Jobs \ {j})
  /\ size' = size - 1
  /\ UNCHANGED <<pc, mode, job, hold, req, outcome, conn, inFlight, ghosts,
                 registry, opened>>
-----------------------------------------------------------------------------
Checkout(c) == \/ Permit(c) \/ PopSlot(c) \/ StartCreate(c) \/ CreateOk(c)
               \/ UseObject(c) \/ NewReserved(c) \/ EagerOpened(c)

Request(c) == \/ Write(c) \/ Answer(c)
              \/ Recycled(c) \/ RecycleFailed(c) \/ Executed(c) \/ ReservedExecuted(c)

Cancel(c) == CancelGet(c) \/ CancelRequest(c)

Next == \/ \E c \in Clients : \/ StartExecute(c) \/ Scan(c) \/ StartGet(c)
                              \/ Checkout(c) \/ WaitTimeout(c) \/ CreateFail(c)
                              \/ Submit(c) \/ Request(c) \/ DropReserved(c) \/ Cancel(c)
        \/ \E j \in Jobs : WriteGhost(j) \/ AnswerGhost(j) \/ Die(j) \/ Reap(j)

Spec == Init /\ [][Next]_vars

(* Tasks are polled when they can go on, connections answer or die, a      *)
(* Reserved is dropped some day, and the daemon accepts connections.  The  *)
(* semaphore of deadpool serves its waiters in turn.  Nobody has to cancel *)
(* anything, and no timeout has to fire.                                   *)
Progress ==
  /\ \A c \in Clients :
       /\ WF_vars(Scan(c)) /\ SF_vars(Permit(c))
       /\ WF_vars(PopSlot(c) \/ StartCreate(c)) /\ WF_vars(CreateOk(c))
       /\ WF_vars(UseObject(c) \/ NewReserved(c) \/ EagerOpened(c))
       /\ WF_vars(pc[c] # "reserved" /\ Submit(c))
       /\ WF_vars(Request(c)) /\ SF_vars(DropReserved(c))

FairSpec == Spec /\ Progress

(* From some time on nothing new goes wrong.                               *)
Calm == <>[][ /\ \A c \in Clients : /\ ~(CreateFail(c) \/ WaitTimeout(c) \/ CancelGet(c))
                                    /\ ~(req[c] # "err" /\ CancelRequest(c))
              /\ \A j \in Jobs : ~Die(j) ]_vars

(* The builder runs and executors try again, for ever; the reaper, if      *)
(* there is one, wakes up.                                                 *)
Retrying == /\ \A c \in Clients : WF_vars(StartExecute(c)) /\ WF_vars(c = Builder /\ StartGet(c))
            /\ \A j \in Jobs : WF_vars(Reap(j))
-----------------------------------------------------------------------------
(* Properties.                                                             *)

(* Every connection that exists can be found by the router, exactly once:  *)
(* garbage collection by concurrent scans never loses one.                 *)
RegistryCoversLive ==
  \A j \in Jobs : Alive(j) => Cardinality({k \in 1..Len(registry) : registry[k] = j}) = 1

(* A Job has one base reference, in a slot or in one client's Object, so   *)
(* two Reserved never share a connection; deadpool's `size' is exactly the *)
(* number of those references, and with the connections that are being     *)
(* opened it stays within MaxSize, whatever is reaped, detached or         *)
(* cancelled meanwhile.                                                    *)
CheckoutExclusive ==
  LET out(j) == {c \in Holders(j) : hold[c] # "arc"} IN
  /\ \A j \in Jobs :
       Cardinality(out(j)) + Cardinality({k \in 1..Len(slots) : slots[k] = j}) <= 1
  /\ size = Len(slots) + Cardinality({c \in Clients : hold[c] \in {"unready", "object"}})
  /\ size + Cardinality({c \in Clients : pc[c] = "creating"}) <= MaxSize

(* Every operation on the pool returns: nobody waits for a permit, a ping, *)
(* a connection or an answer for ever.                                     *)
OperationsReturn ==
  \A c \in Clients : (pc[c] \notin {"idle", "reserved"}) ~> (pc[c] \in {"idle", "reserved"})

(* Once things calm down, a caller whose statement failed because the      *)
(* connection had died gets through by trying again.  (runtime.rs: "the    *)
(* caller's retry / fair-queue fallback handles it")                       *)
RetryRecovers ==
  Calm /\ Retrying => \A c \in Executors : (outcome[c] = "err") ~> (outcome[c] = "ok")

(* runtime.rs, Pool::acquire: "so the pool's least-busy-job scan never     *)
(* picks this connection for one-shot work".                               *)
ScanSkipsReserved ==
  [][\A c \in Executors : pc[c] \in {"idle", "scan"} /\ pc'[c] = "ready"
                            => ~Reserved(job'[c])]_vars
=============================================================================
