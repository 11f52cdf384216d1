----------------------------- MODULE PoolProofs -----------------------------
(***************************************************************************)
(* Theorems about Pool: its type invariant, that a Job is never checked    *)
(* out twice and deadpool's `size' is right, and that the registry covers  *)
(* the live Jobs, for any number of clients and any sizes.                 *)
(***************************************************************************)
EXTENDS Pool, FiniteSetTheorems, TLAPS

(* No element twice.                                                       *)
Distinct(s) == \A k, m \in 1..Len(s) : s[k] = s[m] => k = m

(* Clients that own a permit, that own an Object (or its UnreadyObject),   *)
(* and that connect.                                                       *)
Out      == {c \in Clients : hold[c] \in {"unready", "object"}}
Creating == {c \in Clients : pc[c] = "creating"}
Using    == {c \in Clients : pc[c] \in {"checkout", "creating"} \/ hold[c] \in {"unready", "object"}}

(* How a client holds a Job goes with where it is.                         *)
Unheld == {"idle", "scan", "get", "checkout", "creating"}
ClientInv(c) ==
  /\ hold[c] = "none" <=> job[c] = NoJob
  /\ hold[c] = "none" <=> pc[c] \in Unheld
  /\ req[c] # "none" => pc[c] = "exec"
  /\ pc[c] \in {"got", "reserved"} => hold[c] = "object"
  /\ mode[c] = "eager" <=> c = Builder

(* The builder's loop ends with StartingSize turns.                        *)
BuilderInv == pc[Builder] # "idle" => opened < StartingSize

GhostInv == \A j \in Jobs : ghosts[j].queued + ghosts[j].written <= MaxGhosts

(* One base reference per Job.                                             *)
ExclusiveInv ==
  /\ Distinct(slots)
  /\ \A c \in Out : job[c] \notin Range(slots)
  /\ \A c, d \in Out : job[c] = job[d] => c = d

(* The permits bound the clients in a checkout; a connection under way is  *)
(* one that deadpool has room for, because a client starts to connect only *)
(* when no Job is idle, and those that are out own permits too.            *)
SizeInv ==
  /\ size = Len(slots) + Cardinality(Out)
  /\ Cardinality(Using) <= MaxSize
  /\ size + Cardinality(Creating) <= MaxSize

RegistryInv ==
  /\ Distinct(registry)
  /\ \A j \in Jobs : Alive(j) => j \in Range(registry)

PoolInv ==
  /\ TypeOK /\ \A c \in Clients : ClientInv(c)
  /\ BuilderInv /\ GhostInv /\ ExclusiveInv /\ SizeInv /\ RegistryInv

(* Kept positions and their ranks, as in retain.                           *)
Kept(s, Keep) == {k \in 1..Len(s) : s[k] \in Keep}
Rank(K, k) == Cardinality({m \in K : m <= k})
-----------------------------------------------------------------------------
(* What retain does to a sequence.                                         *)

(* Ranks count a set of positions off.                                     *)
LEMMA RankBijective ==
  ASSUME NEW n \in Nat, NEW K \in SUBSET (1..n)
  PROVE  /\ IsFiniteSet(K) /\ Cardinality(K) \in Nat
         /\ \A k \in K : Rank(K, k) \in 1..Cardinality(K)
         /\ \A k, m \in K : Rank(K, k) = Rank(K, m) => k = m
         /\ \A i \in 1..Cardinality(K) : \E k \in K : Rank(K, k) = i
<1>0. \A k \in K : k \in Nat
  OBVIOUS
<1>1. IsFiniteSet(K) /\ Cardinality(K) \in Nat
  <2>1. IsFiniteSet(1..n)
    BY FS_Interval
  <2> QED BY <2>1, FS_Subset, FS_CardinalityType
<1>2. \A k \in K : /\ IsFiniteSet({m \in K : m <= k})
                   /\ Rank(K, k) \in 1..Cardinality(K)
  <2> TAKE k \in K
  <2> DEFINE below == {m \in K : m <= k}
  <2>1. below \in SUBSET K /\ k \in below
    BY <1>0
  <2>2. IsFiniteSet(below) /\ Cardinality(below) <= Cardinality(K) /\ Cardinality(below) \in Nat
    BY <1>1, <2>1, FS_Subset, FS_CardinalityType
  <2>3. Cardinality(below) # 0
    BY <2>1, <2>2, FS_EmptySet
  <2> QED BY <1>1, <2>2, <2>3 DEF Rank
<1>3. ASSUME NEW k \in K, NEW m \in K, k < m PROVE Rank(K, k) # Rank(K, m)
  <2> DEFINE lower == {x \in K : x <= k}
             upper == {x \in K : x <= m}
  <2>1. lower \in SUBSET upper
    <3> SUFFICES ASSUME NEW x \in K, x <= k PROVE x <= m
      OBVIOUS
    <3> QED BY <1>0, <1>3
  <2>2. m \in upper /\ m \notin lower
    BY <1>0, <1>3
  <2>3. IsFiniteSet(upper)
    BY <1>2
  <2> HIDE DEF lower, upper
  <2>4. Cardinality(upper) # Cardinality(lower)
    BY <2>1, <2>2, <2>3, FS_Subset
  <2> QED BY <2>4 DEF Rank, lower, upper
<1>4. \A k, m \in K : Rank(K, k) = Rank(K, m) => k = m
  BY <1>3
<1>5. \A i \in 1..Cardinality(K) : \E k \in K : Rank(K, k) = i
  <2> DEFINE f == [k \in K |-> Rank(K, k)]
             T == 1..Cardinality(K)
  <2>1. f \in Injection(K, T)
    BY <1>2, <1>4 DEF Injection, IsInjective
  <2>2. IsFiniteSet(T) /\ Cardinality(T) = Cardinality(K)
    BY <1>1, FS_Interval
  <2>3. f \in Surjection(K, T)
    BY <2>1, <2>2, FS_Injection
  <2> QED BY <2>3 DEF Surjection
<1> QED BY <1>1, <1>2, <1>4, <1>5

(* It keeps exactly the elements to keep, each as often as it was there.   *)
LEMMA RetainKeeps ==
  ASSUME NEW S, NEW s \in Seq(S), Distinct(s), NEW Keep
  PROVE  /\ retain(s, Keep) \in Seq(S) /\ Distinct(retain(s, Keep))
         /\ \A x : x \in Range(retain(s, Keep)) <=> x \in Range(s) /\ x \in Keep
         /\ Len(retain(s, Keep)) = Cardinality(Kept(s, Keep))
<1> DEFINE K == Kept(s, Keep)
           r == retain(s, Keep)
           at(i) == CHOOSE k \in K : Rank(K, k) = i
<1>1. K \in SUBSET (1..Len(s)) /\ Len(s) \in Nat /\ \A k \in K : s[k] \in Keep
  BY DEF Kept
<1>2. /\ Cardinality(K) \in Nat
      /\ \A k \in K : Rank(K, k) \in 1..Cardinality(K)
      /\ \A k, m \in K : Rank(K, k) = Rank(K, m) => k = m
      /\ \A i \in 1..Cardinality(K) : \E k \in K : Rank(K, k) = i
  BY <1>1, RankBijective
<1>3. r = [i \in 1..Cardinality(K) |-> s[at(i)]]
  BY DEF retain, Kept, Rank
<1>4. \A i \in 1..Cardinality(K) : at(i) \in K /\ Rank(K, at(i)) = i
  BY <1>2
<1> HIDE DEF K, at, r
<1>5. r \in Seq(S) /\ Len(r) = Cardinality(K)
  <2>1. \A k \in 1..Len(s) : s[k] \in S
    OBVIOUS
  <2>2. \A i \in 1..Cardinality(K) : s[at(i)] \in S
    <3> TAKE i \in 1..Cardinality(K)
    <3>1. at(i) \in 1..Len(s)
      BY <1>1, <1>4
    <3> QED BY <2>1, <3>1
  <2> QED BY <1>2, <1>3, <2>2
<1>6. Distinct(r)
  <2> SUFFICES ASSUME NEW k \in 1..Len(r), NEW m \in 1..Len(r), r[k] = r[m] PROVE k = m
    BY DEF Distinct
  <2>1. s[at(k)] = s[at(m)] /\ at(k) \in 1..Len(s) /\ at(m) \in 1..Len(s)
    BY <1>1, <1>3, <1>4, <1>5
  <2>2. at(k) = at(m)
    BY <2>1 DEF Distinct
  <2> QED BY <1>4, <1>5, <2>2
<1>7. ASSUME NEW x PROVE x \in Range(r) <=> x \in Range(s) /\ x \in Keep
  <2>1. ASSUME x \in Range(r) PROVE x \in Range(s) /\ x \in Keep
    <3>1. PICK i \in 1..Cardinality(K) : x = s[at(i)]
      BY <1>3, <2>1 DEF Range
    <3>2. at(i) \in K
      BY <1>4
    <3>3. at(i) \in 1..Len(s)
      BY <1>1, <3>2
    <3>4. x \in Keep
      BY <1>1, <3>1, <3>2
    <3> QED BY <3>1, <3>3, <3>4 DEF Range
  <2>2. ASSUME x \in Range(s), x \in Keep PROVE x \in Range(r)
    <3>1. PICK k \in K : x = s[k]
      BY <2>2 DEF Range, K, Kept
    <3>2. Rank(K, k) \in 1..Cardinality(K)
      BY <1>2
    <3>3. at(Rank(K, k)) = k
      BY <1>2, <1>4, <3>2
    <3> QED BY <1>3, <3>1, <3>2, <3>3 DEF Range
  <2> QED BY <2>1, <2>2
<1> QED BY <1>5, <1>6, <1>7 DEF K, r

(* One element less, when one is not kept.                                 *)
LEMMA RetainDrops ==
  ASSUME NEW S, NEW s \in Seq(S), Distinct(s), NEW j \in S, j \in Range(s)
  PROVE  Len(retain(s, S \ {j})) = Len(s) - 1
<1>1. PICK p \in 1..Len(s) : s[p] = j
  BY DEF Range
<1>2. Kept(s, S \ {j}) = (1..Len(s)) \ {p}
  BY <1>1 DEF Kept, Distinct
<1>3. Cardinality((1..Len(s)) \ {p}) = Len(s) - 1
  <2>1. Len(s) \in Nat /\ Len(s) >= 1
    BY <1>1
  <2>2. IsFiniteSet(1..Len(s)) /\ Cardinality(1..Len(s)) = Len(s)
    BY <2>1, FS_Interval
  <2> QED BY <1>1, <2>2, FS_RemoveElement
<1> QED BY <1>2, <1>3, RetainKeeps
-----------------------------------------------------------------------------
(* What a step does to the references to Jobs.                             *)

Holds(c, j, how) == job' = [job EXCEPT ![c] = j] /\ hold' = [hold EXCEPT ![c] = how]

TakesArc(c) == /\ hold[c] = "none" /\ \E j \in Jobs : Alive(j) /\ Holds(c, j, "arc")
               /\ UNCHANGED <<slots, size>>
DropsArc(c) == hold[c] = "arc" /\ Holds(c, NoJob, "none") /\ UNCHANGED <<slots, size>>
Pops(c)     == /\ hold[c] = "none" /\ slots # << >> /\ Holds(c, Head(slots), "unready")
               /\ slots' = Tail(slots) /\ size' = size
Readies(c)  == hold[c] = "unready" /\ Holds(c, job[c], "object") /\ UNCHANGED <<slots, size>>
Returns(c)  == /\ hold[c] = "object" /\ Holds(c, NoJob, "none")
               /\ slots' = Append(slots, job[c]) /\ size' = size
Detaches(c) == /\ hold[c] = "unready" /\ Holds(c, NoJob, "none")
               /\ slots' = slots /\ size' = size - 1
Creates(c)  == /\ hold[c] = "none"
               /\ \E j \in Jobs : /\ ~Alive(j) /\ Holds(c, j, "object")
                                  /\ registry' = Append(retain(registry, Jobs \ {j}), j)
               /\ slots' = slots /\ size' = size + 1
Reaps(j)    == /\ j \in Range(slots) /\ slots' = retain(slots, Jobs \ {j}) /\ size' = size - 1
               /\ UNCHANGED <<job, hold>>

Moves(c) == TakesArc(c) \/ DropsArc(c) \/ Pops(c) \/ Readies(c) \/ Returns(c) \/ Detaches(c)
Still    == UNCHANGED <<job, hold, slots, size>>
Collects == registry' \in {registry, Live}

Refers ==
  \/ Collects /\ (Still \/ (\E c \in Clients : Moves(c)) \/ \E j \in Jobs : Reaps(j))
  \/ \E c \in Clients : Creates(c)

(* A Job is alive while a client or a slot refers to it.                   *)
LEMMA AliveMeans ==
  ASSUME NEW j
  PROVE  /\ Alive(j) <=> (\E c \in Clients : job[c] = j /\ hold[c] # "none") \/ j \in Range(slots)
         /\ Alive(j)' <=> (\E c \in Clients : job'[c] = j /\ hold'[c] # "none") \/ j \in Range(slots')
<1>1. \A H \in SUBSET Clients : Cardinality(H) \in Nat /\ (Cardinality(H) = 0 <=> H = {})
  <2> TAKE H \in SUBSET Clients
  <2>1. IsFiniteSet(H)
    BY PoolAssumption, FS_Subset
  <2> QED BY <2>1, FS_CardinalityType, FS_EmptySet
<1>2. ASSUME NEW H \in SUBSET Clients, NEW n \in {0, 1}
      PROVE  Cardinality(H) + n > 0 <=> H # {} \/ n = 1
  BY <1>1
<1>3. Alive(j) <=> Holders(j) # {} \/ j \in Range(slots)
  <2>1. Holders(j) \in SUBSET Clients
    BY DEF Holders
  <2> QED BY <1>2, <2>1 DEF Alive, Strong
<1>4. Alive(j)' <=> Holders(j)' # {} \/ j \in Range(slots')
  <2>1. Holders(j)' \in SUBSET Clients
    BY DEF Holders
  <2> QED BY <1>2, <2>1 DEF Alive, Strong
<1> QED BY <1>3, <1>4 DEF Holders

(* The router only picks Jobs that are alive.                              *)
LEMMA RouterPicksLive ==
  ASSUME PoolInv, NEW j \in peek_idle \cup pick_unsaturated
  PROVE  j \in Jobs /\ Alive(j)
<1>1. registry \in Seq(Jobs) /\ Distinct(registry)
  BY DEF PoolInv, TypeOK, RegistryInv
<1>2. \A i \in Range(Live) : i \in Jobs /\ Alive(i)
  <2> DEFINE A == {i \in Jobs : Alive(i)}
  <2>1. \A i : i \in Range(retain(registry, A)) <=> i \in Range(registry) /\ i \in A
    BY <1>1, RetainKeeps
  <2> QED BY <2>1 DEF Live
<1>3. \A S : First(S) \subseteq S
  BY DEF First
<1>4. j \in Range(Live)
  BY <1>3 DEF peek_idle, pick_unsaturated
<1> QED BY <1>2, <1>4

(* Every step changes who refers to a Job in one of these ways.            *)
LEMMA NextRefers == PoolInv /\ Next => Refers
<1> SUFFICES ASSUME PoolInv, Next PROVE Refers
  OBVIOUS
<1>0. job \in [Clients -> Jobs \cup {NoJob}] /\ hold \in [Clients -> {"none", "arc", "unready", "object"}]
  BY DEF PoolInv, TypeOK
<1>1. ASSUME NEW c \in Clients,
             \/ StartGet(c) \/ WaitTimeout(c) \/ CreateFail(c) \/ Submit(c) \/ Permit(c)
             \/ StartCreate(c) \/ UseObject(c) \/ NewReserved(c) \/ Write(c) \/ Answer(c)
             \/ ReservedExecuted(c) \/ CancelGet(c)
      PROVE  Refers
  <2>1. Still /\ Collects
    BY <1>1 DEF StartGet, WaitTimeout, CreateFail, Submit, Permit, StartCreate, UseObject,
                NewReserved, Write, Answer, ReservedExecuted, CancelGet, Still, Collects
  <2> QED BY <2>1 DEF Refers
<1>2. ASSUME NEW c \in Clients, StartExecute(c) \/ Scan(c) PROVE Refers
  <2>0. ClientInv(c) /\ hold[c] = "none"
    BY <1>2 DEF PoolInv, ClientInv, Unheld, StartExecute, Scan
  <2>1. registry' = Live /\ UNCHANGED <<slots, size>>
    BY <1>2 DEF StartExecute, Scan
  <2>2. CASE UNCHANGED <<job, hold>>
    BY <2>1, <2>2 DEF Refers, Still, Collects
  <2>3. CASE \E j \in peek_idle \cup pick_unsaturated : Holds(c, j, "arc")
    <3>1. TakesArc(c)
      BY <2>0, <2>1, <2>3, RouterPicksLive DEF TakesArc
    <3> QED BY <2>1, <3>1 DEF Refers, Moves, Collects
  <2>4. \/ UNCHANGED <<job, hold>>
        \/ \E j \in peek_idle \cup pick_unsaturated : Holds(c, j, "arc")
    BY <1>2 DEF StartExecute, Scan, Holds
  <2> QED BY <2>2, <2>3, <2>4
<1>3. ASSUME NEW c \in Clients, Moves(c), registry' = registry PROVE Refers
  BY <1>3 DEF Refers, Collects
<1>4. ASSUME NEW c \in Clients, PopSlot(c) PROVE Refers
  <2>0. hold[c] = "none"
    BY <1>4 DEF PoolInv, ClientInv, Unheld, PopSlot
  <2> QED BY <1>3, <1>4, <2>0 DEF PopSlot, Moves, Pops, Holds
<1>5. ASSUME NEW c \in Clients, CreateOk(c) PROVE Refers
  <2>0. hold[c] = "none"
    BY <1>5 DEF PoolInv, ClientInv, Unheld, CreateOk
  <2>1. Creates(c)
    BY <1>5, <2>0 DEF CreateOk, Creates, Holds
  <2> QED BY <2>1 DEF Refers
<1>6. ASSUME NEW c \in Clients, EagerOpened(c) \/ DropReserved(c) PROVE Refers
  <2>1. Returns(c) /\ registry' = registry
    BY <1>6 DEF PoolInv, ClientInv, EagerOpened, DropReserved, Returns, Holds, Release, ReturnObject
  <2> QED BY <1>3, <2>1 DEF Moves
<1>7. ASSUME NEW c \in Clients, Recycled(c) PROVE Refers
  <2>1. job' = [job EXCEPT ![c] = job[c]]
    BY <1>0, <1>7 DEF Recycled
  <2>2. Readies(c) /\ registry' = registry
    BY <1>7, <2>1 DEF Recycled, Readies, Holds
  <2> QED BY <1>3, <2>2 DEF Moves
<1>8. ASSUME NEW c \in Clients, RecycleFailed(c) PROVE Refers
  <2>1. Detaches(c) /\ registry' = registry
    BY <1>8 DEF RecycleFailed, Detaches, Holds, Release, Detach
  <2> QED BY <1>3, <2>1 DEF Moves
<1>9. ASSUME NEW c \in Clients, Executed(c) PROVE Refers
  <2>1. (Returns(c) \/ DropsArc(c)) /\ registry' = registry
    BY <1>9 DEF Executed, Returns, DropsArc, Holds, Release, ReturnObject
  <2> QED BY <1>3, <2>1 DEF Moves
<1>10. ASSUME NEW c \in Clients, CancelRequest(c) PROVE Refers
  <2>1. (Detaches(c) \/ DropsArc(c) \/ Returns(c) \/ Still) /\ registry' = registry
    BY <1>10 DEF CancelRequest, Detaches, DropsArc, Returns, Still, Holds, Release, Detach, ReturnObject
  <2> QED BY <1>3, <2>1 DEF Moves, Refers, Collects
<1>11. ASSUME NEW j \in Jobs, WriteGhost(j) \/ AnswerGhost(j) \/ Die(j) PROVE Refers
  BY <1>11 DEF WriteGhost, AnswerGhost, Die, Refers, Still, Collects
<1>12. ASSUME NEW j \in Jobs, Reap(j) PROVE Refers
  <2>1. Reaps(j) /\ Collects
    BY <1>12 DEF Reap, Reaps, Collects
  <2> QED BY <2>1 DEF Refers
<1> QED BY <1>1, <1>2, <1>4, <1>5, <1>6, <1>7, <1>8, <1>9, <1>10, <1>11, <1>12
        DEF Next, Checkout, Request, Cancel
-----------------------------------------------------------------------------
(* The facts on types that the following steps use.                        *)
LEMMA ReferTypes ==
  ASSUME PoolInv
  PROVE  /\ job \in [Clients -> Jobs \cup {NoJob}]
         /\ hold \in [Clients -> {"none", "arc", "unready", "object"}]
         /\ slots \in Seq(Jobs) /\ registry \in Seq(Jobs) /\ size \in 0..MaxSize
         /\ \A c \in Clients : hold[c] # "none" => job[c] \in Jobs
         /\ Out \subseteq Clients /\ IsFiniteSet(Out) /\ Cardinality(Out) \in Nat
<1>1. Out \subseteq Clients
  BY DEF Out
<1>2. IsFiniteSet(Out) /\ Cardinality(Out) \in Nat
  BY <1>1, PoolAssumption, FS_Subset, FS_CardinalityType
<1> QED BY <1>1, <1>2 DEF PoolInv, TypeOK, ClientInv

(* Idle Jobs stay distinct, and a Job that is out is not idle and is out   *)
(* once; deadpool counts them.                                             *)
LEMMA ReferExclusive ==
  ASSUME PoolInv, Refers
  PROVE  ExclusiveInv' /\ slots' \in Seq(Jobs) /\ size' = Len(slots') + Cardinality(Out')
<1> DEFINE Goal == ExclusiveInv' /\ slots' \in Seq(Jobs) /\ size' = Len(slots') + Cardinality(Out')
<1> SUFFICES Goal
  OBVIOUS
<1>0. /\ job \in [Clients -> Jobs \cup {NoJob}]
      /\ hold \in [Clients -> {"none", "arc", "unready", "object"}]
      /\ slots \in Seq(Jobs) /\ \A c \in Clients : hold[c] # "none" => job[c] \in Jobs
      /\ Out \subseteq Clients /\ IsFiniteSet(Out) /\ Cardinality(Out) \in Nat
  BY ReferTypes
<1>x. ExclusiveInv /\ size = Len(slots) + Cardinality(Out)
  BY DEF PoolInv, SizeInv
<1>1. ASSUME slots' = slots, size' = size, Out' = Out, \A d \in Out : job'[d] = job[d]
      PROVE  Goal
  BY <1>0, <1>1, <1>x DEF ExclusiveInv
<1>2. ASSUME Still PROVE Goal
  <2>1. Out' = Out
    BY <1>2 DEF Still, Out
  <2> QED BY <1>1, <1>2, <2>1 DEF Still
<1>3. ASSUME NEW c \in Clients, TakesArc(c) \/ DropsArc(c) \/ Readies(c) PROVE Goal
  <2>1. Out' = Out /\ \A d \in Out : job'[d] = job[d]
    BY <1>0, <1>3 DEF TakesArc, DropsArc, Readies, Holds, Out
  <2> QED BY <1>1, <1>3, <2>1 DEF TakesArc, DropsArc, Readies
<1>4. ASSUME NEW c \in Clients, Pops(c) PROVE Goal
  <2>1. Out' = Out \cup {c} /\ c \notin Out
    BY <1>0, <1>4 DEF Pops, Holds, Out
  <2>2. /\ slots' \in Seq(Jobs) /\ Len(slots') = Len(slots) - 1 /\ Len(slots) \in Nat
        /\ \A k \in 1..Len(slots') : slots'[k] = slots[k + 1] /\ k + 1 \in 1..Len(slots)
    BY <1>0, <1>4 DEF Pops
  <2>3. /\ job'[c] = slots[1] /\ 1 \in 1..Len(slots)
        /\ \A d \in Out : job'[d] = job[d]
    BY <1>0, <1>4, <2>1 DEF Pops, Holds
  <2>4. Distinct(slots')
    <3> SUFFICES ASSUME NEW k \in 1..Len(slots'), NEW m \in 1..Len(slots'), slots'[k] = slots'[m]
                 PROVE  k = m
      BY DEF Distinct
    <3>1. slots[k + 1] = slots[m + 1] /\ k + 1 \in 1..Len(slots) /\ m + 1 \in 1..Len(slots)
      BY <2>2
    <3>2. k + 1 = m + 1
      BY <1>x, <3>1 DEF ExclusiveInv, Distinct
    <3> QED BY <3>2, <2>2
  <2>5. \A x \in Range(slots') : x \in Range(slots) /\ x # slots[1]
    <3> TAKE x \in Range(slots')
    <3>1. PICK k \in 1..Len(slots') : x = slots'[k]
      BY <2>2 DEF Range
    <3>2. x = slots[k + 1] /\ k + 1 \in 1..Len(slots) /\ k + 1 # 1
      BY <2>2, <3>1
    <3> QED BY <1>0, <1>x, <2>3, <3>2 DEF Range, ExclusiveInv, Distinct
  <2>6. slots[1] \in Range(slots)
    BY <1>0, <2>3 DEF Range
  <2>7. ExclusiveInv'
    BY <1>x, <2>1, <2>3, <2>4, <2>5, <2>6 DEF ExclusiveInv
  <2>8. Cardinality(Out') = Cardinality(Out) + 1
    BY <1>0, <2>1, FS_AddElement
  <2> QED BY <1>0, <1>4, <1>x, <2>2, <2>7, <2>8 DEF Pops
<1>5. ASSUME NEW c \in Clients, Returns(c) \/ Detaches(c) PROVE Goal
  <2>1. Out' = Out \ {c} /\ c \in Out /\ \A d \in Out \ {c} : job'[d] = job[d]
    BY <1>0, <1>5 DEF Returns, Detaches, Holds, Out
  <2>2. Cardinality(Out') = Cardinality(Out) - 1
    BY <1>0, <2>1, FS_RemoveElement
  <2>3. CASE Detaches(c)
    BY <1>0, <1>x, <2>1, <2>2, <2>3 DEF Detaches, ExclusiveInv
  <2>4. CASE Returns(c)
    <3>1. /\ slots' \in Seq(Jobs) /\ Len(slots') = Len(slots) + 1 /\ Len(slots) \in Nat
          /\ slots'[Len(slots) + 1] = job[c]
          /\ \A k \in 1..Len(slots) : slots'[k] = slots[k]
      BY <1>0, <2>4 DEF Returns
    <3>2. job[c] \notin Range(slots) /\ \A d \in Out \ {c} : job[d] # job[c]
      BY <1>x, <2>1 DEF ExclusiveInv
    <3>3. \A k \in 1..Len(slots) : slots[k] \in Range(slots)
      BY <1>0 DEF Range
    <3>4. Distinct(slots')
      <4> SUFFICES ASSUME NEW k \in 1..Len(slots'), NEW m \in 1..Len(slots'), slots'[k] = slots'[m]
                   PROVE  k = m
        BY DEF Distinct
      <4>1. CASE k \in 1..Len(slots) /\ m \in 1..Len(slots)
        BY <1>x, <3>1, <4>1 DEF ExclusiveInv, Distinct
      <4>2. CASE k = Len(slots) + 1 \/ m = Len(slots) + 1
        BY <3>1, <3>2, <3>3, <4>2
      <4> QED BY <3>1, <4>1, <4>2
    <3>5. \A x \in Range(slots') : x \in Range(slots) \/ x = job[c]
      <4> TAKE x \in Range(slots')
      <4>1. PICK k \in 1..Len(slots') : x = slots'[k]
        BY <3>1 DEF Range
      <4> QED BY <3>1, <3>3, <4>1
    <3>6. ExclusiveInv'
      BY <1>x, <2>1, <3>2, <3>4, <3>5 DEF ExclusiveInv
    <3> QED BY <1>0, <1>x, <2>2, <2>4, <3>1, <3>6 DEF Returns
  <2> QED BY <1>5, <2>3, <2>4
<1>6. ASSUME NEW c \in Clients, Creates(c) PROVE Goal
  <2>1. PICK j \in Jobs : ~Alive(j) /\ Holds(c, j, "object")
    BY <1>6 DEF Creates
  <2>2. /\ Out' = Out \cup {c} /\ c \notin Out /\ job'[c] = j
        /\ \A d \in Out : job'[d] = job[d]
    BY <1>0, <1>6, <2>1 DEF Creates, Holds, Out
  <2>3. j \notin Range(slots) /\ \A d \in Out : job[d] # j
    BY <1>0, <2>1, AliveMeans DEF Out
  <2>4. ExclusiveInv'
    BY <1>6, <1>x, <2>2, <2>3 DEF ExclusiveInv, Creates
  <2>5. Cardinality(Out') = Cardinality(Out) + 1
    BY <1>0, <2>2, FS_AddElement
  <2> QED BY <1>0, <1>6, <1>x, <2>4, <2>5 DEF Creates
<1>7. ASSUME NEW j \in Jobs, Reaps(j) PROVE Goal
  <2>1. Out' = Out /\ job' = job
    BY <1>7 DEF Reaps, Out
  <2>2. /\ slots' \in Seq(Jobs) /\ Distinct(slots')
        /\ \A x : x \in Range(slots') => x \in Range(slots)
    BY <1>0, <1>7, <1>x, RetainKeeps DEF Reaps, ExclusiveInv
  <2>3. Len(slots') = Len(slots) - 1
    BY <1>0, <1>7, <1>x, RetainDrops DEF Reaps, ExclusiveInv
  <2>4. ExclusiveInv'
    BY <1>x, <2>1, <2>2 DEF ExclusiveInv
  <2> QED BY <1>0, <1>7, <1>x, <2>1, <2>2, <2>3, <2>4 DEF Reaps
<1> HIDE DEF Goal
<1> QED BY <1>2, <1>3, <1>4, <1>5, <1>6, <1>7 DEF Refers, Moves

(* Only JobManager::create brings a Job to life, and then it is tracked;   *)
(* every other step only collects Jobs that are dead.                      *)
LEMMA ReferRegistry ==
  ASSUME PoolInv, Refers
  PROVE  RegistryInv' /\ registry' \in Seq(Jobs)
<1>0. /\ job \in [Clients -> Jobs \cup {NoJob}]
      /\ hold \in [Clients -> {"none", "arc", "unready", "object"}]
      /\ slots \in Seq(Jobs) /\ registry \in Seq(Jobs)
      /\ \A c \in Clients : hold[c] # "none" => job[c] \in Jobs
  BY ReferTypes
<1>x. /\ Distinct(registry) /\ \A j \in Jobs : Alive(j) => j \in Range(registry)
      /\ Distinct(slots)
  BY DEF PoolInv, RegistryInv, ExclusiveInv
<1>1. ASSUME Collects, \A j \in Jobs : Alive(j)' => Alive(j)
      PROVE  RegistryInv' /\ registry' \in Seq(Jobs)
  <2>1. CASE registry' = registry
    BY <1>0, <1>1, <1>x, <2>1 DEF RegistryInv
  <2>2. CASE registry' = Live
    <3> DEFINE A == {j \in Jobs : Alive(j)}
    <3>1. /\ retain(registry, A) \in Seq(Jobs) /\ Distinct(retain(registry, A))
          /\ \A x : x \in Range(retain(registry, A)) <=> x \in Range(registry) /\ x \in A
      BY <1>0, <1>x, RetainKeeps
    <3> QED BY <1>1, <1>x, <2>2, <3>1 DEF RegistryInv, Live
  <2> QED BY <1>1, <2>1, <2>2 DEF Collects
<1>2. ASSUME NEW c \in Clients, Moves(c), NEW j \in Jobs, Alive(j)' PROVE Alive(j)
  <2>1. CASE TakesArc(c)
    BY <1>0, <1>2, <2>1, AliveMeans DEF TakesArc, Holds
  <2>2. CASE DropsArc(c) \/ Readies(c) \/ Detaches(c)
    BY <1>0, <1>2, <2>2, AliveMeans DEF DropsArc, Readies, Detaches, Holds
  <2>3. CASE Pops(c)
    <3>1. /\ Head(slots) \in Range(slots) /\ \A x \in Range(Tail(slots)) : x \in Range(slots)
      BY <1>0, <2>3 DEF Pops, Range
    <3> QED BY <1>0, <1>2, <2>3, <3>1, AliveMeans DEF Pops, Holds
  <2>4. CASE Returns(c)
    <3>1. \A x \in Range(Append(slots, job[c])) : x \in Range(slots) \/ x = job[c]
      BY <1>0, <2>4 DEF Returns, Range
    <3> QED BY <1>0, <1>2, <2>4, <3>1, AliveMeans DEF Returns, Holds
  <2> QED BY <1>2, <2>1, <2>2, <2>3, <2>4 DEF Moves
<1>3. ASSUME NEW i \in Jobs, Reaps(i), NEW j \in Jobs, Alive(j)' PROVE Alive(j)
  <2>1. \A x : x \in Range(slots') => x \in Range(slots)
    BY <1>0, <1>3, <1>x, RetainKeeps DEF Reaps
  <2> QED BY <1>3, <2>1, AliveMeans DEF Reaps
<1>4. ASSUME Still, NEW j \in Jobs, Alive(j)' PROVE Alive(j)
  BY <1>4, AliveMeans DEF Still
<1>5. ASSUME NEW c \in Clients, Creates(c) PROVE RegistryInv' /\ registry' \in Seq(Jobs)
  <2>1. PICK i \in Jobs : /\ ~Alive(i) /\ Holds(c, i, "object")
                           /\ registry' = Append(retain(registry, Jobs \ {i}), i)
    BY <1>5 DEF Creates
  <2> DEFINE r == retain(registry, Jobs \ {i})
  <2>2. /\ r \in Seq(Jobs) /\ Distinct(r)
        /\ \A x : x \in Range(r) <=> x \in Range(registry) /\ x \in Jobs \ {i}
    BY <1>0, <1>x, RetainKeeps
  <2> HIDE DEF r
  <2>3. /\ registry' \in Seq(Jobs) /\ Len(registry') = Len(r) + 1 /\ Len(r) \in Nat
        /\ registry'[Len(r) + 1] = i /\ \A k \in 1..Len(r) : registry'[k] = r[k]
    BY <2>1, <2>2 DEF r
  <2>4. \A k \in 1..Len(r) : r[k] \in Range(r)
    BY <2>2 DEF Range
  <2>5. Distinct(registry')
    <3> SUFFICES ASSUME NEW k \in 1..Len(registry'), NEW m \in 1..Len(registry'),
                        registry'[k] = registry'[m]
                 PROVE  k = m
      BY DEF Distinct
    <3>1. CASE k \in 1..Len(r) /\ m \in 1..Len(r)
      BY <2>2, <2>3, <3>1 DEF Distinct
    <3>2. CASE k = Len(r) + 1 \/ m = Len(r) + 1
      BY <2>2, <2>3, <2>4, <3>2
    <3> QED BY <2>3, <3>1, <3>2
  <2>6. \A x : x \in Range(r) \/ x = i => x \in Range(registry')
    BY <2>2, <2>3 DEF Range
  <2>7. ASSUME NEW j \in Jobs, Alive(j)', j # i PROVE Alive(j)
    BY <1>0, <1>5, <2>1, <2>7, AliveMeans DEF Holds, Creates
  <2> QED BY <1>x, <2>2, <2>3, <2>5, <2>6, <2>7 DEF RegistryInv
<1> QED BY <1>1, <1>2, <1>3, <1>4, <1>5 DEF Refers
-----------------------------------------------------------------------------
(* Every action of a client moves that client on from where it is to where *)
(* the code goes next, with the Job held as that place requires.           *)
LEMMA NextClients == PoolInv /\ Next => \A d \in Clients : ClientInv(d)'
<1> SUFFICES ASSUME PoolInv, Next, NEW d \in Clients PROVE ClientInv(d)'
  OBVIOUS
<1>0. /\ pc \in [Clients -> {"idle", "scan", "get", "checkout", "creating", "recycle",
                              "got", "ready", "exec", "reserved"}]
      /\ mode \in [Clients -> {"execute", "acquire", "eager"}]
      /\ job \in [Clients -> Jobs \cup {NoJob}]
      /\ hold \in [Clients -> {"none", "arc", "unready", "object"}]
      /\ req \in [Clients -> {"none", "queued", "written", "ok", "err"}]
      /\ slots \in Seq(Jobs) /\ NoJob \notin Jobs
      /\ \A c \in Clients : ClientInv(c)
  BY PoolAssumption DEF PoolInv, TypeOK, Jobs, NoJob
<1> USE <1>0 DEF ClientInv, Unheld
<1>1. ASSUME NEW c \in Clients, StartExecute(c) \/ Scan(c) PROVE ClientInv(d)'
  <2>1. Builder \notin Executors
    BY PoolAssumption
  <2>2. \A j \in peek_idle \cup pick_unsaturated : j \in Jobs
    BY RouterPicksLive
  <2>3. CASE StartExecute(c)
    BY <2>1, <2>2, <2>3 DEF StartExecute
  <2>4. CASE Scan(c)
    BY <2>2, <2>4 DEF Scan
  <2> QED BY <1>1, <2>3, <2>4
<1>2. ASSUME NEW c \in Clients, StartGet(c) PROVE ClientInv(d)'
  <2>1. Builder \notin Reservers
    BY PoolAssumption
  <2> QED BY <1>2, <2>1 DEF StartGet
<1>3. ASSUME NEW c \in Clients, Permit(c) \/ WaitTimeout(c) \/ StartCreate(c) \/ CreateFail(c) \/ CancelGet(c)
      PROVE  ClientInv(d)'
  BY <1>3 DEF Permit, WaitTimeout, StartCreate, CreateFail, CancelGet, Done
<1>4. ASSUME NEW c \in Clients, PopSlot(c) PROVE ClientInv(d)'
  <2>1. Head(slots) \in Jobs
    BY <1>4 DEF PopSlot
  <2> QED BY <1>4, <2>1 DEF PopSlot
<1>5. ASSUME NEW c \in Clients, CreateOk(c) PROVE ClientInv(d)'
  BY <1>5 DEF CreateOk
<1>6. ASSUME NEW c \in Clients, UseObject(c) \/ NewReserved(c) PROVE ClientInv(d)'
  BY <1>6 DEF UseObject, NewReserved
<1>7. ASSUME NEW c \in Clients, EagerOpened(c) \/ DropReserved(c) PROVE ClientInv(d)'
  BY <1>7 DEF EagerOpened, DropReserved, Done, Release
<1>8. ASSUME NEW c \in Clients, Submit(c) \/ Write(c) \/ Answer(c) PROVE ClientInv(d)'
  BY <1>8 DEF Submit, Write, Answer
<1>9. ASSUME NEW c \in Clients, Recycled(c) \/ RecycleFailed(c) PROVE ClientInv(d)'
  BY <1>9 DEF Recycled, RecycleFailed, Release
<1>10. ASSUME NEW c \in Clients, Executed(c) \/ ReservedExecuted(c) PROVE ClientInv(d)'
  BY <1>10 DEF Executed, ReservedExecuted, Done, Release
<1>11. ASSUME NEW c \in Clients, CancelRequest(c) PROVE ClientInv(d)'
  BY <1>11 DEF CancelRequest, Done, Release
<1>12. ASSUME NEW j \in Jobs, WriteGhost(j) \/ AnswerGhost(j) \/ Die(j) \/ Reap(j) PROVE ClientInv(d)'
  BY <1>12 DEF WriteGhost, AnswerGhost, Die, Reap
<1> QED BY <1>1, <1>2, <1>3, <1>4, <1>5, <1>6, <1>7, <1>8, <1>9, <1>10, <1>11, <1>12
        DEF Next, Checkout, Request, Cancel

(* The eager loop stops in time.                                           *)
LEMMA NextBuilder == PoolInv /\ Next => BuilderInv' /\ opened' \in 0..StartingSize
<1> SUFFICES ASSUME PoolInv, Next PROVE BuilderInv' /\ opened' \in 0..StartingSize
  OBVIOUS
<1>0. /\ pc \in [Clients -> {"idle", "scan", "get", "checkout", "creating", "recycle",
                              "got", "ready", "exec", "reserved"}]
      /\ opened \in 0..StartingSize /\ StartingSize \in Nat /\ BuilderInv
      /\ Builder \in Clients /\ Builder \notin Executors \cup Reservers
      /\ \A c \in Clients : mode[c] = "eager" <=> c = Builder
  BY PoolAssumption DEF PoolInv, TypeOK, ClientInv, Clients
<1> USE <1>0 DEF BuilderInv
<1>1. ASSUME NEW c \in Clients, EagerOpened(c) PROVE BuilderInv' /\ opened' \in 0..StartingSize
  BY <1>1 DEF EagerOpened, Done
<1>2. ASSUME NEW c \in Clients, StartGet(c) PROVE BuilderInv' /\ opened' \in 0..StartingSize
  BY <1>2 DEF StartGet
<1>3. ASSUME NEW c \in Clients,
             \/ StartExecute(c) \/ Scan(c) \/ Permit(c) \/ WaitTimeout(c) \/ PopSlot(c)
             \/ StartCreate(c) \/ CreateFail(c) \/ CancelGet(c) \/ CreateOk(c) \/ UseObject(c)
             \/ NewReserved(c)
      PROVE  BuilderInv' /\ opened' \in 0..StartingSize
  BY <1>3 DEF StartExecute, Scan, Permit, WaitTimeout, PopSlot, StartCreate, CreateFail, CancelGet,
              CreateOk, UseObject, NewReserved, Done
<1>4. ASSUME NEW c \in Clients,
             \/ DropReserved(c) \/ Submit(c) \/ Write(c) \/ Answer(c) \/ Recycled(c)
             \/ RecycleFailed(c) \/ Executed(c) \/ ReservedExecuted(c) \/ CancelRequest(c)
      PROVE  BuilderInv' /\ opened' \in 0..StartingSize
  BY <1>4 DEF DropReserved, Submit, Write, Answer, Recycled, RecycleFailed, Executed,
              ReservedExecuted, CancelRequest, Done
<1>5. ASSUME NEW j \in Jobs, WriteGhost(j) \/ AnswerGhost(j) \/ Die(j) \/ Reap(j)
      PROVE  BuilderInv' /\ opened' \in 0..StartingSize
  BY <1>5 DEF WriteGhost, AnswerGhost, Die, Reap
<1> QED BY <1>1, <1>2, <1>3, <1>4, <1>5 DEF Next, Checkout, Request, Cancel

(* Requests nobody waits for stay within their bound.                      *)
LEMMA NextGhosts ==
  PoolInv /\ Next => /\ GhostInv'
                     /\ ghosts' \in [Jobs -> [queued : 0..MaxGhosts, written : 0..MaxGhosts]]
<1> DEFINE G == [queued : 0..MaxGhosts, written : 0..MaxGhosts]
           Few(g) == g \in G /\ g.queued + g.written <= MaxGhosts
<1> SUFFICES ASSUME PoolInv, Next PROVE GhostInv' /\ ghosts' \in [Jobs -> G]
  OBVIOUS
<1>0. /\ ghosts \in [Jobs -> G] /\ MaxGhosts \in Nat
      /\ \A j \in Jobs : ghosts[j].queued + ghosts[j].written <= MaxGhosts
      /\ \A j \in Jobs : ghosts[j].queued \in 0..MaxGhosts /\ ghosts[j].written \in 0..MaxGhosts
  BY PoolAssumption DEF PoolInv, TypeOK, GhostInv
<1>1. ASSUME ghosts' = ghosts PROVE GhostInv' /\ ghosts' \in [Jobs -> G]
  BY <1>0, <1>1 DEF GhostInv
<1>2. ASSUME NEW j \in Jobs, NEW g, Few(g), ghosts' = [ghosts EXCEPT ![j] = g]
      PROVE  GhostInv' /\ ghosts' \in [Jobs -> G]
  <2>1. ghosts' \in [Jobs -> G]
    BY <1>0, <1>2
  <2>2. ASSUME NEW i \in Jobs PROVE ghosts'[i].queued + ghosts'[i].written <= MaxGhosts
    <3>1. CASE i = j
      <4>1. ghosts'[i] = g
        BY <1>0, <1>2, <3>1
      <4> QED BY <1>2, <4>1
    <3>2. CASE i # j
      <4>1. ghosts'[i] = ghosts[i]
        BY <1>0, <1>2, <3>2
      <4> QED BY <1>0, <4>1
    <3> QED BY <3>1, <3>2
  <2> QED BY <2>1, <2>2 DEF GhostInv
<1>3. ASSUME NEW j \in Jobs, NEW q \in Nat, NEW w \in Nat, q + w <= MaxGhosts
      PROVE  Few([queued |-> q, written |-> w])
  BY <1>0, <1>3
<1>4. ASSUME NEW j \in Jobs
      PROVE  /\ \A q : [ghosts EXCEPT ![j].queued = q] =
                        [ghosts EXCEPT ![j] = [queued |-> q, written |-> ghosts[j].written]]
             /\ \A w : [ghosts EXCEPT ![j].written = w] =
                        [ghosts EXCEPT ![j] = [queued |-> ghosts[j].queued, written |-> w]]
  <2>0. ghosts[j] \in G
    BY <1>0, <1>4
  <2>1. \A q : [ghosts[j] EXCEPT !.queued = q] = [queued |-> q, written |-> ghosts[j].written]
    BY <2>0
  <2>2. \A w : [ghosts[j] EXCEPT !.written = w] = [queued |-> ghosts[j].queued, written |-> w]
    BY <2>0
  <2> QED BY <1>0, <2>1, <2>2
<1> HIDE DEF Few
<1>5. ASSUME NEW j \in Jobs, WriteGhost(j) PROVE GhostInv' /\ ghosts' \in [Jobs -> G]
  <2> DEFINE q == ghosts[j].queued - 1
             w == ghosts[j].written + 1
  <2>1. q \in Nat /\ w \in Nat /\ q + w <= MaxGhosts
    BY <1>0, <1>5 DEF WriteGhost
  <2>2. ghosts' = [ghosts EXCEPT ![j] = [queued |-> q, written |-> w]]
    BY <1>0, <1>5 DEF WriteGhost
  <2> HIDE DEF q, w
  <2> QED BY <1>2, <1>3, <2>1, <2>2
<1>6. ASSUME NEW j \in Jobs, AnswerGhost(j) PROVE GhostInv' /\ ghosts' \in [Jobs -> G]
  <2> DEFINE q == ghosts[j].queued
             w == ghosts[j].written - 1
  <2>1. q \in Nat /\ w \in Nat /\ q + w <= MaxGhosts
    BY <1>0, <1>6 DEF AnswerGhost
  <2>2. ghosts' = [ghosts EXCEPT ![j] = [queued |-> q, written |-> w]]
    BY <1>0, <1>4, <1>6 DEF AnswerGhost
  <2> HIDE DEF q, w
  <2> QED BY <1>2, <1>3, <2>1, <2>2
<1>7. ASSUME NEW j \in Jobs, ghosts' = [ghosts EXCEPT ![j] = [queued |-> 0, written |-> 0]]
      PROVE  GhostInv' /\ ghosts' \in [Jobs -> G]
  <2>1. 0 + 0 <= MaxGhosts
    BY <1>0
  <2> QED BY <1>2, <1>3, <1>7, <2>1
<1>8. ASSUME NEW j \in Jobs, ghosts[j].queued + ghosts[j].written < MaxGhosts,
             \/ ghosts' = [ghosts EXCEPT ![j].queued = ghosts[j].queued + 1]
             \/ ghosts' = [ghosts EXCEPT ![j].written = ghosts[j].written + 1]
      PROVE  GhostInv' /\ ghosts' \in [Jobs -> G]
  <2>1. PICK q \in Nat, w \in Nat : q + w <= MaxGhosts
                                  /\ ghosts' = [ghosts EXCEPT ![j] = [queued |-> q, written |-> w]]
    <3>1. CASE ghosts' = [ghosts EXCEPT ![j].queued = ghosts[j].queued + 1]
      <4>1. ghosts[j].queued + 1 \in Nat /\ ghosts[j].written \in Nat
            /\ ghosts[j].queued + 1 + ghosts[j].written <= MaxGhosts
        BY <1>0, <1>8
      <4>2. ghosts' = [ghosts EXCEPT ![j] = [queued |-> ghosts[j].queued + 1, written |-> ghosts[j].written]]
        BY <1>4, <3>1
      <4> QED BY <4>1, <4>2
    <3>2. CASE ghosts' = [ghosts EXCEPT ![j].written = ghosts[j].written + 1]
      <4>1. ghosts[j].queued \in Nat /\ ghosts[j].written + 1 \in Nat
            /\ ghosts[j].queued + (ghosts[j].written + 1) <= MaxGhosts
        BY <1>0, <1>8
      <4>2. ghosts' = [ghosts EXCEPT ![j] = [queued |-> ghosts[j].queued, written |-> ghosts[j].written + 1]]
        BY <1>4, <3>2
      <4> QED BY <4>1, <4>2
    <3> QED BY <1>8, <3>1, <3>2
  <2> QED BY <1>2, <1>3, <2>1
<1>9. ASSUME NEW c \in Clients, DropReserved(c) PROVE GhostInv' /\ ghosts' \in [Jobs -> G]
  <2>1. job[c] \in Jobs
    BY <1>9, ReferTypes DEF PoolInv, ClientInv, DropReserved
  <2>2. \/ ghosts' = ghosts
        \/ /\ ghosts' = [ghosts EXCEPT ![job[c]].queued = ghosts[job[c]].queued + 1]
           /\ ghosts[job[c]].queued + ghosts[job[c]].written < MaxGhosts
    BY <1>0, <1>9, <2>1 DEF DropReserved
  <2> QED BY <1>1, <1>8, <2>1, <2>2
<1>10. ASSUME NEW c \in Clients, CancelRequest(c) PROVE GhostInv' /\ ghosts' \in [Jobs -> G]
  <2>1. job[c] \in Jobs
    BY <1>10, ReferTypes DEF PoolInv, ClientInv, CancelRequest, Unheld
  <2>2. CASE req[c] \in {"queued", "written"}
    <3>1. ghosts[job[c]].queued + ghosts[job[c]].written < MaxGhosts
      BY <1>10, <2>2 DEF CancelRequest
    <3>2. \/ ghosts' = [ghosts EXCEPT ![job[c]].queued = ghosts[job[c]].queued + 1]
          \/ ghosts' = [ghosts EXCEPT ![job[c]].written = ghosts[job[c]].written + 1]
      BY <1>0, <1>10, <2>1, <2>2 DEF CancelRequest, Abandon
    <3> QED BY <1>8, <2>1, <3>1, <3>2
  <2>3. CASE req[c] \notin {"queued", "written"}
    BY <1>1, <1>10, <2>3 DEF CancelRequest, Abandon
  <2> QED BY <2>2, <2>3
<1>11. ASSUME NEW c \in Clients, CreateOk(c) PROVE GhostInv' /\ ghosts' \in [Jobs -> G]
  BY <1>7, <1>11 DEF CreateOk
<1>12. ASSUME NEW j \in Jobs, Die(j) PROVE GhostInv' /\ ghosts' \in [Jobs -> G]
  BY <1>7, <1>12 DEF Die
<1>13. ASSUME NEW c \in Clients,
              \/ StartExecute(c) \/ Scan(c) \/ StartGet(c) \/ WaitTimeout(c) \/ CreateFail(c)
              \/ Submit(c) \/ Permit(c) \/ PopSlot(c) \/ StartCreate(c) \/ UseObject(c)
              \/ NewReserved(c) \/ EagerOpened(c) \/ Write(c) \/ Answer(c) \/ Recycled(c)
              \/ RecycleFailed(c) \/ Executed(c) \/ ReservedExecuted(c) \/ CancelGet(c)
       PROVE  ghosts' = ghosts
  BY <1>13 DEF StartExecute, Scan, StartGet, WaitTimeout, CreateFail, Submit, Permit, PopSlot,
     StartCreate, UseObject, NewReserved, EagerOpened, Write, Answer, Recycled, RecycleFailed,
     Executed, ReservedExecuted, CancelGet
<1>14. ASSUME NEW j \in Jobs, Reap(j) PROVE ghosts' = ghosts
  BY <1>14 DEF Reap
<1> QED BY <1>1, <1>5, <1>6, <1>9, <1>10, <1>11, <1>12, <1>13, <1>14 DEF Next, Checkout, Request, Cancel
(* No more than MaxSize clients own permits, and there is room for every   *)
(* connection that is being opened.                                        *)
LEMMA NextPermits ==
  PoolInv /\ Next => /\ Cardinality(Using') <= MaxSize
                     /\ size' + Cardinality(Creating') <= MaxSize
<1> SUFFICES ASSUME PoolInv, Next
             PROVE  Cardinality(Using') <= MaxSize /\ size' + Cardinality(Creating') <= MaxSize
  OBVIOUS
<1> DEFINE Goal == Cardinality(Using') <= MaxSize /\ size' + Cardinality(Creating') <= MaxSize
<1>0. /\ pc \in [Clients -> {"idle", "scan", "get", "checkout", "creating", "recycle",
                              "got", "ready", "exec", "reserved"}]
      /\ hold \in [Clients -> {"none", "arc", "unready", "object"}]
      /\ size \in Nat /\ MaxSize \in Nat /\ \A c \in Clients : ClientInv(c)
      /\ size = Len(slots) + Cardinality(Out)
      /\ Cardinality(Using) <= MaxSize /\ size + Cardinality(Creating) <= MaxSize
  BY PoolAssumption DEF PoolInv, TypeOK, SizeInv
<1>1. \A H \in SUBSET Clients : IsFiniteSet(H) /\ Cardinality(H) \in Nat
  BY PoolAssumption, FS_Subset, FS_CardinalityType
<1>2. Using \in SUBSET Clients /\ Creating \in SUBSET Clients /\ Out \in SUBSET Clients
  BY DEF Using, Creating, Out
<1>3. ASSUME Using' \subseteq Using, Creating' \subseteq Creating, size' \in {size, size - 1}
      PROVE  Goal
  <2>1. /\ Cardinality(Using') <= Cardinality(Using) /\ Cardinality(Creating') <= Cardinality(Creating)
        /\ Cardinality(Using') \in Nat /\ Cardinality(Creating') \in Nat
    BY <1>1, <1>2, <1>3, FS_Subset
  <2>2. Cardinality(Using) \in Nat /\ Cardinality(Creating) \in Nat
    BY <1>1, <1>2
  <2> QED BY <1>0, <1>3, <2>1, <2>2
<1>4. ASSUME NEW c \in Clients, Permit(c) PROVE Goal
  <2>1. Using' \subseteq Using \cup {c} /\ Creating' = Creating /\ size' = size
    BY <1>0, <1>4 DEF Permit, Using, Creating
  <2>2. Cardinality(Using) < MaxSize
    BY <1>0, <1>1, <1>2, <1>4 DEF Permit, Permits, Using
  <2>3. /\ IsFiniteSet(Using \cup {c}) /\ Cardinality(Using \cup {c}) <= Cardinality(Using) + 1
        /\ Cardinality(Using) \in Nat /\ Cardinality(Using \cup {c}) \in Nat
    BY <1>1, <1>2, FS_AddElement, FS_CardinalityType
  <2>4. Cardinality(Using') <= Cardinality(Using \cup {c}) /\ Cardinality(Using') \in Nat
    BY <2>1, <2>3, FS_Subset, FS_CardinalityType
  <2> QED BY <1>0, <2>1, <2>2, <2>3, <2>4
<1>5. ASSUME NEW c \in Clients, StartCreate(c) PROVE Goal
  <2>1. Using' = Using /\ size' = size /\ Out' = Out
    BY <1>0, <1>5 DEF StartCreate, Using, Out
  <2>2. Creating' \in SUBSET Using /\ Out \in SUBSET Using /\ Out \cap Creating' = {}
    BY <1>0, <1>5 DEF StartCreate, Using, Creating, Out, ClientInv, Unheld
  <2>3. IsFiniteSet(Using) /\ IsFiniteSet(Out) /\ IsFiniteSet(Creating')
    BY <1>1, <1>2, <2>2, FS_Subset
  <2>4. Cardinality(Out \cup Creating') = Cardinality(Out) + Cardinality(Creating')
    <3>1. Cardinality(Out \cup Creating') =
            Cardinality(Out) + Cardinality(Creating') - Cardinality(Out \cap Creating')
      BY <2>3, FS_Union
    <3>2. Cardinality(Out \cap Creating') = 0
      BY <2>2, FS_EmptySet
    <3> QED BY <2>3, <3>1, <3>2, FS_CardinalityType
  <2>5. Cardinality(Out \cup Creating') <= Cardinality(Using)
    <3>1. Out \cup Creating' \in SUBSET Using
      BY <2>2
    <3> QED BY <2>3, <3>1, FS_Subset
  <2>6. size = Cardinality(Out)
    BY <1>0, <1>1, <1>2, <1>5 DEF StartCreate
  <2>7. Cardinality(Out) \in Nat /\ Cardinality(Creating') \in Nat /\ Cardinality(Using) \in Nat
    BY <2>3, FS_CardinalityType
  <2>8. Cardinality(Out) + Cardinality(Creating') <= Cardinality(Using)
    BY <2>4, <2>5
  <2>9. \A o, n, u, m \in Nat : o + n <= u /\ u <= m => o + n <= m
    OBVIOUS
  <2>10. size + Cardinality(Creating') <= MaxSize
    BY <1>0, <2>6, <2>7, <2>8, <2>9
  <2>11. Cardinality(Using') <= MaxSize
    BY <1>0, <2>1
  <2> QED BY <2>1, <2>10, <2>11
<1>6. ASSUME NEW c \in Clients, CreateOk(c) PROVE Goal
  <2>1. Using' = Using /\ Creating' = Creating \ {c} /\ c \in Creating /\ size' = size + 1
    BY <1>0, <1>6 DEF CreateOk, Using, Creating
  <2>2. Cardinality(Creating') = Cardinality(Creating) - 1 /\ Cardinality(Creating) \in Nat
    BY <1>1, <1>2, <2>1, FS_RemoveElement
  <2> QED BY <1>0, <2>1, <2>2
<1>7. ASSUME NEW c \in Clients,
             \/ StartExecute(c) \/ Scan(c) \/ StartGet(c) \/ WaitTimeout(c) \/ CreateFail(c)
             \/ PopSlot(c) \/ UseObject(c) \/ NewReserved(c) \/ EagerOpened(c) \/ CancelGet(c)
      PROVE  Goal
  <2>1. Using' \subseteq Using /\ Creating' \subseteq Creating /\ size' \in {size, size - 1}
    BY <1>0, <1>7 DEF StartExecute, Scan, StartGet, WaitTimeout, CreateFail, PopSlot, UseObject,
       NewReserved, EagerOpened, CancelGet, Done, Release, ReturnObject, Using, Creating
  <2> QED BY <1>3, <2>1
<1>8. ASSUME NEW c \in Clients,
             \/ Submit(c) \/ Write(c) \/ Answer(c) \/ Recycled(c) \/ RecycleFailed(c) \/ Executed(c)
             \/ ReservedExecuted(c) \/ DropReserved(c) \/ CancelRequest(c)
      PROVE  Goal
  <2>1. Using' \subseteq Using /\ Creating' \subseteq Creating /\ size' \in {size, size - 1}
    BY <1>0, <1>8 DEF Submit, Write, Answer, Recycled, RecycleFailed, Executed, ReservedExecuted,
       DropReserved, CancelRequest, Done, Release, ReturnObject, Detach, Using, Creating
  <2> QED BY <1>3, <2>1
<1>9. ASSUME NEW j \in Jobs, WriteGhost(j) \/ AnswerGhost(j) \/ Die(j) \/ Reap(j) PROVE Goal
  <2>1. Using' \subseteq Using /\ Creating' \subseteq Creating /\ size' \in {size, size - 1}
    BY <1>9 DEF WriteGhost, AnswerGhost, Die, Reap, Using, Creating
  <2> QED BY <1>3, <2>1
<1> HIDE DEF Goal
<1>10. Goal
  BY <1>4, <1>5, <1>6, <1>7, <1>8, <1>9 DEF Next, Checkout, Request, Cancel
<1> QED BY <1>10 DEF Goal

(* The AtomicU32 wraps.                                                    *)
LEMMA WrapType ==
  ASSUME NEW n \in 0..U32Max, NEW k \in Nat
  PROVE  Add(n, k) \in 0..U32Max /\ Sub(n, k) \in 0..U32Max
<1>1. U32Max + 1 \in Nat \ {0} /\ n + k \in Int /\ n + (U32Max + 1) - k \in Int /\ U32Max \in Nat
  BY PoolAssumption
<1>2. \A x \in Int, m \in Nat \ {0} : x % m \in 0..(m - 1)
  OBVIOUS
<1> QED BY <1>1, <1>2 DEF Add, Sub
(* The types of what belongs to one client or to one connection.           *)
ClientTypes ==
  /\ pc \in [Clients -> {"idle", "scan", "get", "checkout", "creating", "recycle",
                         "got", "ready", "exec", "reserved"}]
  /\ mode \in [Clients -> {"execute", "acquire", "eager"}]
  /\ job \in [Clients -> Jobs \cup {NoJob}]
  /\ hold \in [Clients -> {"none", "arc", "unready", "object"}]
  /\ req \in [Clients -> {"none", "queued", "written", "ok", "err"}]
  /\ outcome \in [Clients -> {"none", "ok", "err"}]
ConnTypes ==
  /\ conn \in [Jobs -> {"none", "up", "dead"}]
  /\ inFlight \in [Jobs -> 0..U32Max]

(* Every step keeps the types of the clients.                              *)
LEMMA NextClientTypes == PoolInv /\ Next => ClientTypes'
<1> SUFFICES ASSUME PoolInv, Next PROVE ClientTypes'
  OBVIOUS
<1>0. ClientTypes /\ slots \in Seq(Jobs)
  BY DEF PoolInv, TypeOK, ClientTypes
<1> USE <1>0 DEF ClientTypes
<1>1. ASSUME NEW c \in Clients, StartExecute(c) \/ Scan(c) PROVE ClientTypes'
  <2>1. \A j \in peek_idle \cup pick_unsaturated : j \in Jobs
    BY RouterPicksLive
  <2>2. CASE StartExecute(c)
    BY <2>1, <2>2 DEF StartExecute
  <2>3. CASE Scan(c)
    BY <2>1, <2>3 DEF Scan
  <2> QED BY <1>1, <2>2, <2>3
<1>2. ASSUME NEW c \in Clients,
             \/ StartGet(c) \/ Permit(c) \/ WaitTimeout(c) \/ StartCreate(c) \/ CreateFail(c)
             \/ CancelGet(c) \/ UseObject(c) \/ NewReserved(c)
      PROVE  ClientTypes'
  BY <1>2 DEF StartGet, Permit, WaitTimeout, StartCreate, CreateFail, CancelGet, UseObject,
              NewReserved, Done
<1>3. ASSUME NEW c \in Clients, PopSlot(c) PROVE ClientTypes'
  <2>1. Head(slots) \in Jobs
    BY <1>3 DEF PopSlot
  <2> QED BY <1>3, <2>1 DEF PopSlot
<1>4. ASSUME NEW c \in Clients, CreateOk(c) PROVE ClientTypes'
  BY <1>4 DEF CreateOk
<1>5. ASSUME NEW c \in Clients, EagerOpened(c) \/ DropReserved(c) PROVE ClientTypes'
  BY <1>5 DEF EagerOpened, DropReserved, Done, Release
<1>6. ASSUME NEW c \in Clients, Submit(c) \/ Write(c) \/ Answer(c) \/ Recycled(c) \/ RecycleFailed(c)
      PROVE  ClientTypes'
  BY <1>6 DEF Submit, Write, Answer, Recycled, RecycleFailed, Release
<1>7. ASSUME NEW c \in Clients, Executed(c) \/ ReservedExecuted(c) PROVE ClientTypes'
  <2>1. CASE Executed(c) BY <2>1 DEF Executed, Done, Release
  <2>2. CASE ReservedExecuted(c)
    <3>1. req[c] \in {"ok", "err"} BY <2>2 DEF ReservedExecuted
    <3> QED BY <2>2, <3>1 DEF ReservedExecuted
  <2> QED BY <1>7, <2>1, <2>2
<1>8. ASSUME NEW c \in Clients, CancelRequest(c) PROVE ClientTypes'
  BY <1>8 DEF CancelRequest, Done, Release
<1>9. ASSUME NEW j \in Jobs, WriteGhost(j) \/ AnswerGhost(j) \/ Die(j) \/ Reap(j) PROVE ClientTypes'
  BY <1>9 DEF WriteGhost, AnswerGhost, Die, Reap
<1> QED BY <1>1, <1>2, <1>3, <1>4, <1>5, <1>6, <1>7, <1>8, <1>9 DEF Next, Checkout, Request, Cancel

(* Every step keeps the types of the connections.                          *)
LEMMA NextConnTypes == PoolInv /\ Next => ConnTypes'
<1> SUFFICES ASSUME PoolInv, Next PROVE ConnTypes'
  OBVIOUS
<1>0. ConnTypes /\ U32Max \in Nat
  BY PoolAssumption DEF PoolInv, TypeOK, ConnTypes
<1> USE <1>0 DEF ConnTypes
<1>1. \A j \in Jobs : inFlight[j] \in 0..U32Max
  OBVIOUS
<1>2. \A j \in Jobs : Add(inFlight[j], 1) \in 0..U32Max /\ Sub(inFlight[j], 1) \in 0..U32Max
  BY <1>1, WrapType
<1>3. ASSUME NEW c \in Clients, Write(c) \/ Answer(c) PROVE ConnTypes'
  BY <1>2, <1>3 DEF Write, Answer
<1>4. ASSUME NEW j \in Jobs, WriteGhost(j) \/ AnswerGhost(j) PROVE ConnTypes'
  BY <1>2, <1>4 DEF WriteGhost, AnswerGhost
<1>5. ASSUME NEW j \in Jobs, Die(j) PROVE ConnTypes'
  <2>1. Cardinality(Written(j)) \in Nat
    <3>1. Written(j) \in SUBSET Clients
      BY DEF Written
    <3> QED BY <3>1, PoolAssumption, FS_Subset, FS_CardinalityType
  <2>2. ghosts[j].written \in Nat
    BY PoolAssumption DEF PoolInv, TypeOK
  <2> DEFINE n == Cardinality(Written(j)) + ghosts[j].written
  <2>3. n \in Nat
    BY <2>1, <2>2
  <2>4. inFlight' = [inFlight EXCEPT ![j] = Sub(inFlight[j], n)] /\ conn' = [conn EXCEPT ![j] = "dead"]
    BY <1>5 DEF Die
  <2> HIDE DEF n
  <2>5. Sub(inFlight[j], n) \in 0..U32Max
    BY <1>1, <2>3, WrapType
  <2> QED BY <2>4, <2>5
<1>6. ASSUME NEW c \in Clients, CreateOk(c) \/ NewReserved(c) \/ DropReserved(c) PROVE ConnTypes'
  <2>1. CASE CreateOk(c)
    BY <2>1 DEF CreateOk
  <2>2. ASSUME NEW n \in 0..U32Max, inFlight' = [inFlight EXCEPT ![job[c]] = n], conn' = conn
        PROVE  ConnTypes'
    BY <2>2
  <2>3. 0 \in 0..U32Max /\ U32Max \in 0..U32Max
    OBVIOUS
  <2>4. CASE NewReserved(c)
    BY <2>2, <2>3, <2>4 DEF NewReserved
  <2>5. CASE DropReserved(c)
    BY <2>2, <2>3, <2>5 DEF DropReserved
  <2> QED BY <1>6, <2>1, <2>4, <2>5
<1>7. ASSUME NEW c \in Clients,
             \/ StartExecute(c) \/ Scan(c) \/ StartGet(c) \/ WaitTimeout(c) \/ CreateFail(c)
             \/ Submit(c) \/ Permit(c) \/ PopSlot(c) \/ StartCreate(c) \/ UseObject(c)
             \/ EagerOpened(c) \/ Recycled(c) \/ RecycleFailed(c) \/ Executed(c)
             \/ ReservedExecuted(c) \/ CancelGet(c) \/ CancelRequest(c)
      PROVE  ConnTypes'
  BY <1>7 DEF StartExecute, Scan, StartGet, WaitTimeout, CreateFail, Submit, Permit, PopSlot,
     StartCreate, UseObject, EagerOpened, Recycled, RecycleFailed, Executed, ReservedExecuted,
     CancelGet, CancelRequest
<1>8. ASSUME NEW j \in Jobs, Reap(j) PROVE ConnTypes'
  BY <1>8 DEF Reap
<1> QED BY <1>3, <1>4, <1>5, <1>6, <1>7, <1>8 DEF Next, Checkout, Request, Cancel
-----------------------------------------------------------------------------
(* The new pool is empty.                                                  *)
LEMMA InitPool == Init => PoolInv
<1> SUFFICES ASSUME Init PROVE PoolInv
  OBVIOUS
<1>1. Out = {} /\ Using = {} /\ Creating = {}
  BY DEF Init, Out, Using, Creating
<1>2. TypeOK
  BY PoolAssumption DEF Init, TypeOK, Jobs, NoJob
<1>3. \A c \in Clients : ClientInv(c)
  BY DEF Init, ClientInv, Unheld
<1>4. BuilderInv /\ GhostInv
  BY PoolAssumption DEF Init, BuilderInv, GhostInv, Clients
<1>5. Len(<< >>) = 0 /\ Range(<< >>) = {} /\ Distinct(<< >>)
  BY DEF Range, Distinct
<1>6. ExclusiveInv
  BY <1>1, <1>5 DEF Init, ExclusiveInv
<1>7. SizeInv
  BY <1>1, <1>5, FS_EmptySet, PoolAssumption DEF Init, SizeInv
<1>8. \A j \in Jobs : ~Alive(j)
  BY <1>5, AliveMeans DEF Init
<1> QED BY <1>2, <1>3, <1>4, <1>5, <1>6, <1>7, <1>8 DEF Init, PoolInv, RegistryInv

(* Every step keeps the invariant.                                         *)
LEMMA NextPool == PoolInv /\ [Next]_vars => PoolInv'
<1>1. ASSUME PoolInv, Next PROVE PoolInv'
  <2>1. Refers
    BY <1>1, NextRefers
  <2>2. ExclusiveInv' /\ slots' \in Seq(Jobs) /\ size' = Len(slots') + Cardinality(Out')
    BY <1>1, <2>1, ReferExclusive
  <2>3. RegistryInv' /\ registry' \in Seq(Jobs)
    BY <1>1, <2>1, ReferRegistry
  <2>4. Cardinality(Using') <= MaxSize /\ size' + Cardinality(Creating') <= MaxSize
    BY <1>1, NextPermits
  <2>5. size' \in 0..MaxSize
    <3>1. Out' \in SUBSET Clients /\ Creating' \in SUBSET Clients
      BY DEF Out, Creating
    <3>2. Cardinality(Out') \in Nat /\ Cardinality(Creating') \in Nat
      BY <3>1, PoolAssumption, FS_Subset, FS_CardinalityType
    <3>3. Len(slots') \in Nat /\ MaxSize \in Nat
      BY <2>2, PoolAssumption
    <3> QED BY <2>2, <2>4, <3>2, <3>3
  <2>6. ClientTypes' /\ ConnTypes'
    BY <1>1, NextClientTypes, NextConnTypes
  <2>7. BuilderInv' /\ opened' \in 0..StartingSize
    BY <1>1, NextBuilder
  <2>8. GhostInv' /\ ghosts' \in [Jobs -> [queued : 0..MaxGhosts, written : 0..MaxGhosts]]
    BY <1>1, NextGhosts
  <2>9. TypeOK'
    BY <2>2, <2>3, <2>5, <2>6, <2>7, <2>8 DEF TypeOK, ClientTypes, ConnTypes
  <2>10. \A c \in Clients : ClientInv(c)'
    BY <1>1, NextClients
  <2> QED BY <2>2, <2>3, <2>4, <2>7, <2>8, <2>9, <2>10 DEF PoolInv, SizeInv
<1>2. ASSUME PoolInv, UNCHANGED vars PROVE PoolInv'
  <2>1. Still /\ Collects
    BY <1>2 DEF vars, Still, Collects
  <2>2. ExclusiveInv' /\ RegistryInv'
    BY <1>2, <2>1, ReferExclusive, ReferRegistry DEF Refers
  <2>3. Out' = Out /\ Using' = Using /\ Creating' = Creating
    BY <1>2 DEF vars, Out, Using, Creating
  <2>4. TypeOK' /\ BuilderInv' /\ GhostInv' /\ \A c \in Clients : ClientInv(c)'
    BY <1>2 DEF vars, PoolInv, TypeOK, BuilderInv, GhostInv, ClientInv
  <2>5. SizeInv'
    BY <1>2, <2>3 DEF vars, PoolInv, SizeInv
  <2> QED BY <2>2, <2>4, <2>5 DEF PoolInv
<1> QED BY <1>1, <1>2

(* The inductive invariant holds throughout.                               *)
LEMMA PoolInvariant == Spec => []PoolInv
<1>1. Init => PoolInv
  BY InitPool
<1>2. PoolInv /\ [Next]_vars => PoolInv'
  BY NextPool
<1> QED BY <1>1, <1>2, PTL DEF Spec
-----------------------------------------------------------------------------
(* Types, and with them the bounds: deadpool never accounts for more than  *)
(* max_size connections, although it connects without a slot reserved for  *)
(* the result, and the eager loop opens no more than starting_size.        *)
THEOREM PoolTypes == Spec => []TypeOK
<1>1. PoolInv => TypeOK
  BY DEF PoolInv
<1> QED BY <1>1, PoolInvariant, PTL

(* A connection is idle or in one checkout, never both and never in two,   *)
(* `size' counts exactly those, and there are at most MaxSize with those   *)
(* that are being opened, for any number of executors, reservers and       *)
(* connections.                                                            *)
THEOREM Exclusive == Spec => []CheckoutExclusive
<1>1. PoolInv => CheckoutExclusive
  <2> SUFFICES ASSUME PoolInv PROVE CheckoutExclusive
    OBVIOUS
  <2>0. /\ ExclusiveInv /\ slots \in Seq(Jobs) /\ size = Len(slots) + Cardinality(Out)
        /\ size + Cardinality(Creating) <= MaxSize
    BY DEF PoolInv, TypeOK, SizeInv
  <2>1. ASSUME NEW j \in Jobs
        PROVE  Cardinality({c \in Holders(j) : hold[c] # "arc"})
                 + Cardinality({k \in 1..Len(slots) : slots[k] = j}) <= 1
    <3> DEFINE O == {c \in Holders(j) : hold[c] # "arc"}
               P == {k \in 1..Len(slots) : slots[k] = j}
    <3>1. O = {c \in Out : job[c] = j}
      BY ReferTypes DEF Holders, Out
    <3>2. P = {} \/ \E k : P = {k}
      <4>1. \A k, m \in P : k = m
        BY <2>0 DEF ExclusiveInv, Distinct
      <4> QED BY <4>1
    <3>3. O = {} \/ \E c : O = {c}
      <4>1. \A c, d \in O : c = d
        BY <2>0, <3>1 DEF ExclusiveInv
      <4> QED BY <4>1
    <3>4. O = {} \/ P = {}
      <4>1. ASSUME NEW c \in O, NEW k \in P PROVE FALSE
        BY <2>0, <3>1, <4>1 DEF ExclusiveInv, Range
      <4> QED BY <4>1
    <3> HIDE DEF O, P
    <3>5. Cardinality(O) \in {0, 1} /\ Cardinality(P) \in {0, 1}
      BY <3>2, <3>3, FS_EmptySet, FS_Singleton
    <3>6. Cardinality(O) = 0 \/ Cardinality(P) = 0
      BY <3>4, FS_EmptySet
    <3> QED BY <3>5, <3>6 DEF O, P
  <2> QED BY <2>0, <2>1 DEF CheckoutExclusive, Out, Creating
<1> QED BY <1>1, PoolInvariant, PTL

(* The router can find every connection that exists, and finds it once,    *)
(* whatever scans collect while others create and drop connections.        *)
THEOREM Tracked == Spec => []RegistryCoversLive
<1>1. PoolInv => RegistryCoversLive
  <2> SUFFICES ASSUME PoolInv, NEW j \in Jobs, Alive(j)
               PROVE  Cardinality({k \in 1..Len(registry) : registry[k] = j}) = 1
    BY DEF RegistryCoversLive
  <2>1. Distinct(registry) /\ j \in Range(registry) /\ registry \in Seq(Jobs)
    BY DEF PoolInv, RegistryInv, TypeOK
  <2>2. PICK k \in 1..Len(registry) : registry[k] = j
    BY <2>1 DEF Range
  <2>3. {m \in 1..Len(registry) : registry[m] = j} = {k}
    BY <2>1, <2>2 DEF Distinct
  <2> QED BY <2>3, FS_Singleton
<1> QED BY <1>1, PoolInvariant, PTL
=============================================================================
