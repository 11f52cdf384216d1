---------------------------- MODULE BatchProofs -----------------------------
(***************************************************************************)
(* Theorems about the parameter sets in Prepared: the daemon executes      *)
(* those of a call in the order given, each at most once, or answers that  *)
(* one failed in the shape of a result, and a call that returned Ok has    *)
(* had such an answer for each, for any tasks, batches and number of       *)
(* calls.                                                                  *)
(***************************************************************************)
EXTENDS PreparedProofs, SequenceTheorems

Live(t) == call[t].st \in {"waiting", "ok"}

(* Requests on the way, other than sqlclose.                               *)
Requests == {queue[k] : k \in {j \in 1..Len(queue) : ~IsClose(queue[j])}}

(* A number belongs to one call, and a call has one request on the way at  *)
(* most, which is the one it waits for.                                    *)
NumberInv ==
  /\ \A r \in Requests : r.n \in 1..Len(given)
  /\ \A r, q \in Requests : r.n = q.n => r = q
  /\ \A t \in Tasks : Live(t) => call[t].n \in 1..Len(given)
  /\ \A t, u \in Tasks : Live(t) /\ Live(u) /\ call[t].n = call[u].n => t = u
  /\ \A r \in Requests, t \in Tasks : Waiting(t) /\ call[t].id = r.id => call[t].n = r.n
  /\ \A r \in Requests, t \in Tasks : Live(t) /\ call[t].n = r.n => Waiting(t) /\ call[t].id = r.id

(* What was given and what was executed are parameter sets.                *)
HistoryInv ==
  /\ log = [n \in 1..MaxCalls |-> log[n]]
  /\ \A n \in 1..MaxCalls : n \in 1..Len(given) \/ log[n] = << >>
  /\ \A n \in 1..Len(given) : given[n].sets \in Seq(ParamSets)

(* What came of the first m of the sets s, and no others, is in l.         *)
Account(l, s, m) ==
  /\ m \in 0..Len(s) /\ l \in Seq(ParamSets \cup {None}) /\ Len(l) = m
  /\ \A i \in 1..m : l[i] \in {s[i], None}

(* The sets of call n up to the m-th have been served, and those up to the *)
(* q-th are in request r.                                                  *)
Upto(n, m) == Account(log[n], given[n].sets, m)
Next_sets(r, m, q) ==
  /\ Upto(r.n, m) /\ q \in m..Len(given[r.n].sets)
  /\ Executions(r) = SubSeq(given[r.n].sets, m + 1, q)

(* The set a call is at: a batch sends one after the other.                *)
Through(c) == IF c.kind = "query" THEN c.pos ELSE Len(c.sets)

CallInv(t) ==
  Live(t) /\ call[t].kind # "prepare" =>
    LET n == call[t].n
    IN  /\ call[t].sets = given[n].sets /\ (call[t].kind = "query" => given[n].alone = TRUE)
        /\ Waiting(t) => Through(call[t]) \in 0..Len(call[t].sets)
        /\ ~Ambiguous(given[n]) =>
             /\ Waiting(t) /\ call[t].reply \in {"page", "done"} => Upto(n, Through(call[t]))
             /\ call[t].st = "ok" => Upto(n, Len(call[t].sets))

RequestInv(r) ==
  r.op # "prepare_sql" /\ ~Ambiguous(given[r.n]) =>
    \E m, q \in Nat : /\ Next_sets(r, m, q)
                      /\ \A t \in Tasks : Waiting(t) /\ call[t].id = r.id => q = Through(call[t])

BatchInv ==
  /\ NumberInv /\ HistoryInv
  /\ \A t \in Tasks : CallInv(t)
  /\ \A r \in Requests : RequestInv(r)
  /\ \A n \in 1..Len(given) : ~Ambiguous(given[n]) => \E m \in Nat : Upto(n, m)
-----------------------------------------------------------------------------
(* A part of a sequence.                                                   *)
LEMMA PartOf ==
  ASSUME NEW S, NEW s \in Seq(S), NEW m \in Nat, NEW q \in m..Len(s)
  PROVE  /\ SubSeq(s, m + 1, q) \in Seq(S) /\ Len(SubSeq(s, m + 1, q)) = q - m
         /\ \A i \in 1..(q - m) : SubSeq(s, m + 1, q)[i] = s[m + i]
<1>1. Len(s) \in Nat /\ q \in Nat /\ m + 1 \in 1..(Len(s) + 1) /\ q \in m..Len(s) OBVIOUS
<1>2. Len(SubSeq(s, m + 1, q)) = q - m BY <1>1
<1>3. \A i \in 1..(q - m) : SubSeq(s, m + 1, q)[i] = s[(m + 1) + i - 1] BY <1>1
<1>4. \A i \in 1..(q - m) : (m + 1) + i - 1 = m + i BY <1>1
<1>5. SubSeq(s, m + 1, q) \in Seq(S) BY <1>1
<1> QED BY <1>2, <1>3, <1>4, <1>5

(* What came of the first sets and of some of the next.                    *)
LEMMA Continues ==
  ASSUME NEW s \in Seq(ParamSets), NEW m \in Nat, NEW q \in m..Len(s), NEW l, NEW e, NEW k,
         Account(l, s, m), Account(e, SubSeq(s, m + 1, q), k)
  PROVE  /\ Account(l \o e, s, m + k)
         /\ m + k \in Nat /\ k \in 0..(q - m)
<1>1. Len(s) \in Nat /\ q \in Nat /\ q - m \in Nat OBVIOUS
<1>2. Len(SubSeq(s, m + 1, q)) = q - m /\ \A i \in 1..(q - m) : SubSeq(s, m + 1, q)[i] = s[m + i]
  BY PartOf
<1>3. k \in 0..(q - m) BY <1>2 DEF Account
<1>4. k \in Nat /\ m + k \in Nat /\ m + k \in 0..Len(s) BY <1>1, <1>3
<1>5. l \in Seq(ParamSets \cup {None}) /\ Len(l) = m /\ e \in Seq(ParamSets \cup {None}) /\ Len(e) = k
  BY DEF Account
<1>6. l \o e \in Seq(ParamSets \cup {None}) /\ Len(l \o e) = m + k BY <1>5
<1>7. ASSUME NEW i \in 1..(m + k) PROVE (l \o e)[i] \in {s[i], None}
  <2>1. CASE i \in 1..m
    <3>1. (l \o e)[i] = l[i] BY <1>5, <2>1
    <3> QED BY <2>1, <3>1 DEF Account
  <2>2. CASE i \notin 1..m
    <3>1. i - m \in 1..k /\ i - m \in 1..(q - m) /\ m + (i - m) = i BY <1>3, <1>4, <2>2
    <3>2. (l \o e)[i] = e[i - m] BY <1>4, <1>5, <2>2
    <3>3. SubSeq(s, m + 1, q)[i - m] = s[i] BY <1>2, <3>1
    <3>4. e[i - m] \in {SubSeq(s, m + 1, q)[i - m], None} BY <3>1 DEF Account
    <3> QED BY <3>2, <3>3, <3>4
  <2> QED BY <2>1, <2>2
<1> QED BY <1>3, <1>4, <1>6, <1>7 DEF Account

(* Nothing has come of no set.                                             *)
LEMMA NothingYet ==
  ASSUME NEW s, Len(s) \in Nat
  PROVE  Account(<< >>, s, 0)
<1>1. << >> \in Seq(ParamSets \cup {None}) /\ Len(<< >>) = 0 /\ 0 \in 0..Len(s) OBVIOUS
<1> QED BY <1>1 DEF Account

(* All of a sequence, and nothing of it.                                   *)
LEMMA WholeOf ==
  ASSUME NEW S, NEW s \in Seq(S)
  PROVE  SubSeq(s, 1, Len(s)) = s /\ SubSeq(s, 1, 0) = << >> /\ Len(s) \in Nat
<1>1. Len(s) \in Nat OBVIOUS
<1>2. SubSeq(s, 1, Len(s)) \in Seq(S) /\ Len(SubSeq(s, 1, Len(s))) = Len(s) BY <1>1
<1>3. \A i \in 1..Len(s) : SubSeq(s, 1, Len(s))[i] = s[i] BY <1>1
<1>4. SubSeq(s, 1, Len(s)) = [i \in 1..Len(s) |-> s[i]] BY <1>2, <1>3
<1>5. s = [i \in 1..Len(s) |-> s[i]] OBVIOUS
<1>6. SubSeq(s, 1, 0) = << >> BY <1>1
<1> QED BY <1>1, <1>4, <1>5, <1>6
-----------------------------------------------------------------------------
(* The one set of a request, none given being an empty one.                *)
OneSet(set) == IF set = None THEN << >> ELSE set

(* None is no parameter set, no list of them and no list of arrays.        *)
LEMMA SetsAreNotNone ==
  /\ \A set \in ParamSets : set # None /\ <<set>> # None /\ set \in Seq(ParamValues)
  /\ \A sets \in Batches : sets # None /\ sets \in Seq(ParamSets)
  /\ None # << >> /\ << << >> >> # << >>
<1>1. << >> \in Seq(ParamSets) OBVIOUS
<1>2. \A set \in ParamSets : <<set>> \in Seq(ParamSets) OBVIOUS
<1>3. << << >> >> # << >>
  <2>1. Len(<< << >> >>) = 1 /\ Len(<< >>) = 0 OBVIOUS
  <2> QED BY <2>1
<1> QED BY <1>1, <1>2, <1>3, BatchesAssumption

(* A set by itself: as it is with an execute, and read as it is otherwise, *)
(* unless there is nothing but arrays in it.                               *)
LEMMA ExecutesOne ==
  ASSUME NEW set \in ParamSets \cup {None}, NEW r,
         \/ r.op = "execute" /\ r.parameters = set
         \/ /\ r.op # "execute" /\ r.parameters = (IF set = None THEN None ELSE serialize(<<set>>))
            /\ ~(OneSet(set) # << >> /\ \A j \in 1..Len(OneSet(set)) : OneSet(set)[j].is_array)
  PROVE  Executions(r) = <<OneSet(set)>>
<1>n. /\ None # << >> /\ (set # None => set \in ParamSets /\ <<set>> # None /\ set \in Seq(ParamValues))
  BY SetsAreNotNone
<1>t. <<set>> # << >>
  <2>1. Len(<<set>>) = 1 /\ Len(<< >>) = 0 OBVIOUS
  <2> QED BY <2>1
<1>1. CASE r.op = "execute" /\ r.parameters = set
  <2>1. CASE set = None BY <1>1, <2>1 DEF Executions, OneSet
  <2>2. CASE set # None
    <3>1. <<set>> \notin {None, << >>} BY <1>n, <1>t, <2>2
    <3> QED BY <1>1, <2>2, <3>1 DEF Executions, OneSet
  <2> QED BY <2>1, <2>2
<1>2. CASE /\ r.op # "execute" /\ r.parameters = (IF set = None THEN None ELSE serialize(<<set>>))
           /\ ~(OneSet(set) # << >> /\ \A j \in 1..Len(OneSet(set)) : OneSet(set)[j].is_array)
  <2>1. CASE set = None
    <3>1. deserialize(r.parameters) = None BY <1>2, <2>1 DEF deserialize
    <3> QED BY <1>2, <2>1, <3>1 DEF Executions, OneSet
  <2>2. CASE set # None
    <3>1. r.parameters = set
      <4>1. Len(<<set>>) = 1 /\ <<set>>[1] = set OBVIOUS
      <4> QED BY <1>2, <1>n, <2>2, <4>1 DEF serialize
    <3>2. CASE set = << >>
      <4>1. Len(set) = 0 BY <3>2
      <4>2. deserialize(set) = [k \in 1..0 |-> set[k].items] BY <1>n, <2>2, <4>1 DEF deserialize
      <4>3. [k \in 1..0 |-> set[k].items] = << >> OBVIOUS
      <4>4. deserialize(r.parameters) \in {None, << >>} BY <3>1, <4>2, <4>3
      <4> QED BY <1>2, <3>2, <2>2, <4>4 DEF Executions, OneSet
    <3>3. CASE set # << >>
      <4>1. ~\A j \in 1..Len(set) : set[j].is_array BY <1>2, <2>2, <3>3 DEF OneSet
      <4>2. deserialize(set) = <<set>> BY <1>n, <2>2, <4>1 DEF deserialize
      <4>3. <<set>> \notin {None, << >>} BY <1>n, <1>t, <2>2
      <4> QED BY <1>2, <2>2, <3>1, <4>2, <4>3 DEF Executions, OneSet
    <3> QED BY <3>2, <3>3
  <2> QED BY <2>1, <2>2
<1> QED BY <1>1, <1>2

(* A batch in one request is read as what was sent.                        *)
LEMMA ExecutesAll ==
  ASSUME NEW sets \in Batches, sets # << >>, NEW r, r.op = "prepare_sql_execute",
         r.parameters = serialize(sets), ~Ambiguous([sets |-> sets, alone |-> Len(sets) = 1])
  PROVE  Executions(r) = sets
<1>n. sets \in Seq(ParamSets) /\ sets # None BY SetsAreNotNone
<1>l. Len(sets) \in Nat /\ Len(sets) # 0 /\ sets = [k \in 1..Len(sets) |-> sets[k]] BY <1>n
<1>1. CASE Len(sets) = 1
  <2>1. sets[1] \in ParamSets /\ sets = <<sets[1]>>
    <3>1. sets[1] \in ParamSets BY <1>n, <1>1
    <3> QED BY <1>l, <1>n, <1>1, <3>1
  <2>2. sets[1] # None /\ <<sets[1]>> # None BY <2>1, SetsAreNotNone
  <2>3. OneSet(sets[1]) = sets[1] BY <2>2 DEF OneSet
  <2>4. ~(sets[1] # << >> /\ \A j \in 1..Len(sets[1]) : sets[1][j].is_array)
    <3> DEFINE g == [sets |-> sets, alone |-> Len(sets) = 1]
    <3>1. g.sets = sets /\ g.alone BY <1>1
    <3>2. ~Ambiguous(g) OBVIOUS
    <3>3. 1 \in 1..Len(sets) BY <1>1
    <3> HIDE DEF g
    <3> QED BY <3>1, <3>2, <3>3 DEF Ambiguous
  <2>5. Executions(r) = <<OneSet(sets[1])>>
    <3>1. r.op # "execute" OBVIOUS
    <3>2. r.parameters = serialize(<<sets[1]>>) BY <2>1
    <3> QED BY <2>1, <2>2, <2>3, <2>4, <3>1, <3>2, ExecutesOne
  <2> QED BY <2>1, <2>3, <2>5
<1>2. CASE Len(sets) # 1
  <2> DEFINE items == [k \in 1..Len(sets) |-> Array(sets[k])]
  <2>1. r.parameters = items BY <1>2, <1>n DEF serialize
  <2>2. items \in Seq({Array(set) : set \in ParamSets}) /\ Len(items) = Len(sets)
    <3>1. \A k \in 1..Len(sets) : sets[k] \in ParamSets BY <1>n
    <3>2. items \in [1..Len(sets) -> {Array(set) : set \in ParamSets}] BY <3>1
    <3> QED BY <1>l, <3>2
  <2>3. items # None BY <2>2, BatchesAssumption
  <2>4. \A k \in 1..Len(sets) : items[k].is_array /\ items[k].items = sets[k] BY DEF Array
  <2> HIDE DEF items
  <2>5. deserialize(items) = [k \in 1..Len(items) |-> items[k].items] BY <2>2, <2>3, <2>4 DEF deserialize
  <2>6. deserialize(items) = [k \in 1..Len(sets) |-> sets[k]] BY <2>2, <2>4, <2>5
  <2>7. deserialize(r.parameters) = sets BY <1>l, <2>1, <2>6
  <2> QED BY <1>n, <2>7 DEF Executions
<1> QED BY <1>1, <1>2
-----------------------------------------------------------------------------
(* What may happen to the call of t when nothing is sent and nothing is    *)
(* executed: nothing, or it ends, or it returns what it has, or its        *)
(* connection goes away.                                                   *)
SameCall(t) ==
  /\ call'[t].n = call[t].n /\ call'[t].kind = call[t].kind /\ call'[t].sets = call[t].sets
Settles(t) ==
  \/ call'[t] = call[t]
  \/ ~Live(t)'
  \/ /\ Waiting(t) /\ call[t].reply # None /\ call'[t].st = "ok" /\ SameCall(t)
     /\ call[t].kind # "prepare" => call[t].reply \in {"page", "done"} /\ Through(call[t]) = Len(call[t].sets)
  \/ /\ Waiting(t) /\ call'[t].st = "waiting" /\ SameCall(t)
     /\ call'[t].pos = call[t].pos /\ call'[t].id = call[t].id /\ call'[t].reply = "fail"

Quiet ==
  /\ UNCHANGED <<given, log>> /\ Requests' \subseteq Requests
  /\ \A t \in Tasks : Settles(t)

(* The call that waits for a request has no answer yet.                    *)
LEMMA Unanswered ==
  ASSUME QueueInv, NEW r \in Requests, NEW t \in Tasks, Waiting(t), call[t].id = r.id
  PROVE  call[t].reply = None
<1>1. PICK k \in 1..Len(queue) : ~IsClose(queue[k]) /\ r = queue[k] BY DEF Requests
<1> QED BY <1>1 DEF QueueInv

(* Such steps keep the invariant.                                          *)
LEMMA QuietKeeps ==
  ASSUME PreparedInv, BatchInv, Quiet
  PROVE  BatchInv'
<1>i. /\ QueueInv /\ NumberInv /\ HistoryInv /\ \A t \in Tasks : CallInv(t)
      /\ \A r \in Requests : RequestInv(r)
      /\ \A n \in 1..Len(given) : ~Ambiguous(given[n]) => \E m \in Nat : Upto(n, m)
  BY DEF PreparedInv, BatchInv
<1>q. UNCHANGED <<given, log>> /\ Requests' \subseteq Requests /\ \A t \in Tasks : Settles(t) BY DEF Quiet
<1>1. \A t \in Tasks : Live(t)' => Live(t) /\ call'[t].n = call[t].n
  BY <1>q DEF Settles, Live, Waiting, SameCall
<1>2. \A t \in Tasks : Waiting(t)' => Waiting(t) /\ call'[t].id = call[t].id /\ SameCall(t)
                                      /\ Through(call'[t]) = Through(call[t])
  BY <1>q DEF Settles, Live, Waiting, SameCall, Through
<1>3. ASSUME NEW r \in Requests', NEW t \in Tasks, Live(t)', call'[t].n = r.n
      PROVE  Waiting(t)' /\ call'[t].id = r.id
  <2>1. r \in Requests BY <1>q
  <2>2. Waiting(t) /\ call[t].id = r.id BY <1>1, <1>3, <1>i, <2>1 DEF NumberInv
  <2>3. call[t].reply = None BY <1>i, <2>1, <2>2, Unanswered
  <2>4. Settles(t) BY <1>q
  <2> QED BY <1>3, <2>2, <2>3, <2>4 DEF Settles, Live, Waiting
<1>4. NumberInv'
  <2>1. \A r \in Requests' : r \in Requests BY <1>q
  <2>2. \A r \in Requests', t \in Tasks : Waiting(t)' /\ call'[t].id = r.id => call'[t].n = r.n
    BY <1>2, <1>i, <2>1 DEF NumberInv, SameCall
  <2>3. \A r \in Requests', t \in Tasks : Live(t)' /\ call'[t].n = r.n => Waiting(t)' /\ call'[t].id = r.id
    BY <1>3
  <2>4. \A t, u \in Tasks : Live(t)' /\ Live(u)' /\ call'[t].n = call'[u].n => t = u BY <1>1, <1>i DEF NumberInv
  <2>5. \A t \in Tasks : Live(t)' => call'[t].n \in 1..Len(given') BY <1>1, <1>i, <1>q DEF NumberInv
  <2>6. /\ \A r \in Requests' : r.n \in 1..Len(given')
        /\ \A r, p \in Requests' : r.n = p.n => r = p
    BY <1>i, <1>q, <2>1 DEF NumberInv
  <2> QED BY <2>2, <2>3, <2>4, <2>5, <2>6 DEF NumberInv
<1>5. HistoryInv' BY <1>i, <1>q DEF HistoryInv
<1>6. ASSUME NEW t \in Tasks PROVE CallInv(t)'
  <2>1. SUFFICES ASSUME Live(t)', call'[t].kind # "prepare"
                 PROVE  /\ call'[t].sets = given[call'[t].n].sets
                        /\ call'[t].kind = "query" => given[call'[t].n].alone = TRUE
                        /\ Waiting(t)' => Through(call'[t]) \in 0..Len(call'[t].sets)
                        /\ ~Ambiguous(given[call'[t].n]) =>
                             /\ Waiting(t)' /\ call'[t].reply \in {"page", "done"} => Upto(call'[t].n, Through(call'[t]))
                             /\ call'[t].st = "ok" => Upto(call'[t].n, Len(call'[t].sets))
    BY <1>q DEF CallInv, Upto
  <2>2. Settles(t) /\ CallInv(t) BY <1>i, <1>q
  <2>3. CASE call'[t] = call[t] BY <2>1, <2>2, <2>3 DEF CallInv, Live, Waiting
  <2>4. CASE /\ Waiting(t) /\ call[t].reply # None /\ call'[t].st = "ok" /\ SameCall(t)
             /\ call[t].kind # "prepare" => call[t].reply \in {"page", "done"} /\ Through(call[t]) = Len(call[t].sets)
    <3>1. Live(t) /\ call[t].kind # "prepare" BY <2>1, <2>4 DEF Live, Waiting, SameCall
    <3>2. /\ call[t].sets = given[call[t].n].sets /\ (call[t].kind = "query" => given[call[t].n].alone = TRUE)
          /\ ~Ambiguous(given[call[t].n]) => Upto(call[t].n, Len(call[t].sets))
      BY <2>2, <2>4, <3>1 DEF CallInv
    <3>3. ~Waiting(t)' BY <2>4 DEF Waiting
    <3> QED BY <2>4, <3>2, <3>3 DEF SameCall
  <2>5. CASE /\ Waiting(t) /\ call'[t].st = "waiting" /\ SameCall(t)
             /\ call'[t].pos = call[t].pos /\ call'[t].id = call[t].id /\ call'[t].reply = "fail"
    <3>1. Live(t) /\ call[t].kind # "prepare" BY <2>1, <2>5 DEF Live, Waiting, SameCall
    <3>2. /\ call[t].sets = given[call[t].n].sets /\ (call[t].kind = "query" => given[call[t].n].alone = TRUE)
          /\ Through(call[t]) \in 0..Len(call[t].sets)
      BY <2>2, <2>5, <3>1 DEF CallInv
    <3>3. Through(call'[t]) = Through(call[t]) BY <2>5 DEF Through, SameCall
    <3> QED BY <2>5, <3>2, <3>3 DEF SameCall
  <2> QED BY <2>1, <2>2, <2>3, <2>4, <2>5 DEF Settles
<1>7. ASSUME NEW r \in Requests' PROVE RequestInv(r)'
  <2>1. r \in Requests /\ RequestInv(r) BY <1>i, <1>q
  <2>2. SUFFICES ASSUME r.op # "prepare_sql", ~Ambiguous(given[r.n])
                 PROVE  \E m, q \in Nat : /\ Next_sets(r, m, q)'
                                          /\ \A t \in Tasks : Waiting(t)' /\ call'[t].id = r.id => q = Through(call'[t])
    BY <1>q DEF RequestInv
  <2>3. PICK m \in Nat, q \in Nat : /\ Next_sets(r, m, q)
                                    /\ \A t \in Tasks : Waiting(t) /\ call[t].id = r.id => q = Through(call[t])
    BY <2>1, <2>2 DEF RequestInv
  <2>4. Next_sets(r, m, q)' BY <1>q, <2>3 DEF Next_sets, Upto
  <2>5. \A t \in Tasks : Waiting(t)' /\ call'[t].id = r.id => q = Through(call'[t]) BY <1>2, <2>3
  <2> QED BY <2>4, <2>5
<1>8. \A n \in 1..Len(given') : ~Ambiguous(given'[n]) => \E m \in Nat : Upto(n, m)'
  BY <1>i, <1>q DEF Upto
<1> QED BY <1>4, <1>5, <1>6, <1>7, <1>8 DEF BatchInv

(* The daemon serves the first sets of request r, all of them if it        *)
(* answers with a result, and e is what came of them.                      *)
Serves(r, rep, e) ==
  /\ r \in Requests /\ Requests' \subseteq Requests \ {r} /\ UNCHANGED given /\ Answer(r, rep)
  /\ \/ /\ r.op # "prepare_sql" /\ log' = [log EXCEPT ![r.n] = log[r.n] \o e]
        /\ Executions(r) \in Seq(ParamSets) =>
             \E k \in Nat : /\ Account(e, Executions(r), k)
                            /\ k = Len(Executions(r)) \/ rep = "fail"
     \/ r.op = "prepare_sql" /\ UNCHANGED log /\ rep \notin {"page", "done"}

(* Serving what is due next keeps the invariant: it is recorded for the    *)
(* call of the request alone, behind what was served before.               *)
LEMMA ServesKeeps ==
  ASSUME PreparedInv, BatchInv, NEW r, NEW rep, NEW e, Serves(r, rep, e)
  PROVE  BatchInv'
<1>i. /\ NumberInv /\ HistoryInv /\ \A t \in Tasks : CallInv(t)
      /\ \A q \in Requests : RequestInv(q)
      /\ \A n \in 1..Len(given) : ~Ambiguous(given[n]) => \E m \in Nat : Upto(n, m)
  BY DEF BatchInv
<1>s. r \in Requests /\ Requests' \subseteq Requests \ {r} /\ given' = given BY DEF Serves
<1>n. r.n \in 1..Len(given) /\ Len(given) \in Nat /\ Len(given) <= MaxCalls /\ MaxCalls \in Nat
  BY <1>i, <1>s, PreparedAssumption DEF NumberInv, PreparedInv, Types, IsSeq
<1>m. r.n \in 1..MaxCalls BY <1>n
<1>a. \A t \in Tasks :
        /\ Waiting(t) /\ call[t].id = r.id =>
             /\ call'[t].st = "waiting" /\ SameCall(t) /\ call'[t].pos = call[t].pos
             /\ call'[t].id = call[t].id /\ call'[t].reply = rep
        /\ ~(Waiting(t) /\ call[t].id = r.id) => call'[t] = call[t]
  <2>1. call' = [t \in Tasks |-> IF call[t].st = "waiting" /\ call[t].id = r.id
                                 THEN [call[t] EXCEPT !.reply = rep] ELSE call[t]]
    BY DEF Serves, Answer
  <2>2. ASSUME NEW t \in Tasks, Waiting(t), call[t].id = r.id
        PROVE  /\ call'[t].st = "waiting" /\ SameCall(t) /\ call'[t].pos = call[t].pos
               /\ call'[t].id = call[t].id /\ call'[t].reply = rep
    <3>1. call'[t] = [call[t] EXCEPT !.reply = rep] BY <2>1, <2>2 DEF Waiting
    <3>2. IsCall(call[t]) BY <2>2 DEF PreparedInv, Types, CallType
    <3> QED BY <2>2, <3>1, <3>2 DEF IsCall, Waiting, SameCall
  <2>3. \A t \in Tasks : ~(Waiting(t) /\ call[t].id = r.id) => call'[t] = call[t] BY <2>1 DEF Waiting
  <2> QED BY <2>2, <2>3
<1>b. \A t \in Tasks : /\ Live(t)' <=> Live(t)
                       /\ Waiting(t)' <=> Waiting(t)
                       /\ Live(t) => SameCall(t)
                       /\ Waiting(t) => call'[t].id = call[t].id /\ Through(call'[t]) = Through(call[t])
  BY <1>a DEF Live, Waiting, SameCall, Through
<1>o. \A t \in Tasks : Live(t) /\ call[t].n # r.n => call'[t] = call[t] BY <1>a, <1>i, <1>s DEF NumberInv
<1>l. /\ log' = [n \in 1..MaxCalls |-> log'[n]]
      /\ \A n \in 1..MaxCalls : n # r.n => log'[n] = log[n]
      /\ r.op # "prepare_sql" => log'[r.n] = log[r.n] \o e
      /\ r.op = "prepare_sql" => log' = log
  <2>1. log = [n \in 1..MaxCalls |-> log[n]] BY <1>i DEF HistoryInv
  <2>2. r.op # "prepare_sql" => log' = [log EXCEPT ![r.n] = log[r.n] \o e]
    BY DEF Serves
  <2>3. r.op = "prepare_sql" => log' = log BY DEF Serves
  <2> QED BY <1>m, <2>1, <2>2, <2>3
<1>u. ASSUME r.op # "prepare_sql", ~Ambiguous(given[r.n])
      PROVE  \E m \in Nat : /\ Upto(r.n, m)'
                            /\ rep \in {"page", "done"} =>
                                 \A t \in Tasks : Waiting(t) /\ call[t].id = r.id => m = Through(call[t])
  <2>1. PICK m \in Nat, q \in Nat : /\ Next_sets(r, m, q)
                                    /\ \A t \in Tasks : Waiting(t) /\ call[t].id = r.id => q = Through(call[t])
    BY <1>i, <1>s, <1>u DEF RequestInv
  <2> DEFINE s == given[r.n].sets
  <2>2. s \in Seq(ParamSets) BY <1>i, <1>n DEF HistoryInv
  <2>3. q \in m..Len(s) /\ Account(log[r.n], s, m) /\ Executions(r) = SubSeq(s, m + 1, q)
    BY <2>1 DEF Next_sets, Upto
  <2> HIDE DEF s
  <2>4. Executions(r) \in Seq(ParamSets) /\ Len(Executions(r)) = q - m BY <2>2, <2>3, PartOf
  <2>5. PICK k \in Nat : Account(e, Executions(r), k) /\ (k = q - m \/ rep = "fail")
    BY <1>u, <2>4 DEF Serves
  <2>6. Account(log[r.n] \o e, s, m + k) /\ m + k \in Nat BY <2>2, <2>3, <2>5, Continues
  <2>7. rep \in {"page", "done"} => m + k = q
    <3>1. Len(s) \in Nat BY <2>2
    <3>2. m + (q - m) = q BY <2>3, <3>1
    <3> QED BY <2>5, <3>2
  <2>8. Upto(r.n, m + k)' BY <1>l, <1>s, <1>u, <2>6 DEF Upto, s
  <2> QED BY <2>1, <2>6, <2>7, <2>8
<1>1. NumberInv'
  <2>1. \A q \in Requests' : q \in Requests BY <1>s
  <2> QED BY <1>b, <1>i, <1>s, <2>1 DEF NumberInv, SameCall, Live, Waiting
<1>2. HistoryInv' BY <1>i, <1>l, <1>n, <1>s DEF HistoryInv
<1>3. ASSUME NEW t \in Tasks PROVE CallInv(t)'
  <2>1. CASE Live(t) /\ call[t].n = r.n
    <3>1. Waiting(t) /\ call[t].id = r.id BY <1>i, <1>s, <2>1 DEF NumberInv
    <3>2. /\ call'[t].st = "waiting" /\ SameCall(t) /\ call'[t].reply = rep
          /\ Through(call'[t]) = Through(call[t])
      BY <1>a, <1>b, <3>1
    <3>3. SUFFICES ASSUME call[t].kind # "prepare"
                   PROVE  /\ call[t].sets = given[r.n].sets /\ (call[t].kind = "query" => given[r.n].alone = TRUE)
                          /\ Through(call[t]) \in 0..Len(call[t].sets)
                          /\ ~Ambiguous(given[r.n]) /\ rep \in {"page", "done"} =>
                               Account(log'[r.n], given[r.n].sets, Through(call[t]))
      BY <1>s, <2>1, <3>2 DEF CallInv, SameCall, Waiting, Upto
    <3>4. /\ call[t].sets = given[r.n].sets /\ (call[t].kind = "query" => given[r.n].alone = TRUE)
          /\ Through(call[t]) \in 0..Len(call[t].sets)
      BY <1>i, <2>1, <3>1, <3>3 DEF CallInv
    <3>5. ASSUME ~Ambiguous(given[r.n]), rep \in {"page", "done"}
          PROVE  Account(log'[r.n], given[r.n].sets, Through(call[t]))
      <4>1. r.op # "prepare_sql" BY <3>5 DEF Serves
      <4>2. PICK m \in Nat : Upto(r.n, m)' /\ m = Through(call[t]) BY <1>u, <3>1, <3>5, <4>1
      <4> QED BY <1>s, <4>2 DEF Upto
    <3> QED BY <3>4, <3>5
  <2>2. CASE Live(t) /\ call[t].n # r.n
    <3>1. call'[t] = call[t] BY <1>o, <2>2
    <3>2. call[t].n \in 1..MaxCalls BY <1>i, <1>n, <2>2 DEF NumberInv
    <3>3. log'[call[t].n] = log[call[t].n] BY <1>l, <2>2, <3>2
    <3>4. CallInv(t) BY <1>i
    <3> QED BY <1>s, <3>1, <3>3, <3>4 DEF CallInv, Live, Waiting, Upto
  <2>3. CASE ~Live(t) BY <1>b, <2>3 DEF CallInv
  <2> QED BY <2>1, <2>2, <2>3
<1>4. ASSUME NEW p \in Requests' PROVE RequestInv(p)'
  <2>1. p \in Requests /\ p # r /\ RequestInv(p) BY <1>i, <1>s
  <2>2. p.n # r.n /\ p.n \in 1..MaxCalls BY <1>i, <1>n, <1>s, <2>1 DEF NumberInv
  <2>3. log'[p.n] = log[p.n] BY <1>l, <2>2
  <2>4. SUFFICES ASSUME p.op # "prepare_sql", ~Ambiguous(given[p.n])
                 PROVE  \E m, q \in Nat : /\ Next_sets(p, m, q)'
                                          /\ \A t \in Tasks : Waiting(t)' /\ call'[t].id = p.id => q = Through(call'[t])
    BY <1>s DEF RequestInv
  <2>5. PICK m \in Nat, q \in Nat : /\ Next_sets(p, m, q)
                                    /\ \A t \in Tasks : Waiting(t) /\ call[t].id = p.id => q = Through(call[t])
    BY <2>1, <2>4 DEF RequestInv
  <2>6. Next_sets(p, m, q)' BY <1>s, <2>3, <2>5 DEF Next_sets, Upto
  <2>7. \A t \in Tasks : Waiting(t)' /\ call'[t].id = p.id => q = Through(call'[t]) BY <1>b, <2>5
  <2> QED BY <2>6, <2>7
<1>5. ASSUME NEW n \in 1..Len(given'), ~Ambiguous(given'[n]) PROVE \E m \in Nat : Upto(n, m)'
  <2>1. n \in 1..Len(given) /\ ~Ambiguous(given[n]) /\ n \in 1..MaxCalls BY <1>5, <1>n, <1>s
  <2>2. CASE n = r.n /\ r.op # "prepare_sql" BY <1>u, <2>1, <2>2
  <2>3. CASE n # r.n \/ r.op = "prepare_sql"
    <3>1. log'[n] = log[n] BY <1>l, <2>1, <2>3
    <3> QED BY <1>i, <1>s, <2>1, <3>1 DEF Upto
  <2> QED BY <2>2, <2>3
<1> QED BY <1>1, <1>2, <1>3, <1>4, <1>5 DEF BatchInv
-----------------------------------------------------------------------------
(* Task t is in call c, whose first sets up to the m-th were executed: it  *)
(* sends request r for the next ones, or has nothing to send.  The call is *)
(* new, or the same as before with the last request answered.              *)
Asks(t, c, r, m) ==
  /\ UNCHANGED log /\ Others(t) /\ call'[t] = c /\ Requests' \subseteq Requests \cup {r}
  /\ r.id = ids + 1 /\ r.n = c.n /\ c.id = ids + 1 /\ c.reply \in {None, "fail"}
  /\ c.st = "waiting" \/ (c.st = "ok" /\ c.sets = << >> /\ Requests' \subseteq Requests)
  /\ \A n \in 1..Len(given) : given'[n] = given[n]
  /\ \/ c.n = Len(given) + 1 /\ Len(given') = Len(given) + 1 /\ ~Live(t)
     \/ c.n = call[t].n /\ Len(given') = Len(given) /\ Waiting(t) /\ call[t].reply # None
  /\ Len(given') <= MaxCalls
  /\ given'[c.n].sets = c.sets /\ c.sets \in Seq(ParamSets) /\ (c.kind = "query" => given'[c.n].alone = TRUE)
  /\ c.st = "waiting" => Through(c) \in 0..Len(c.sets)
  /\ ~Ambiguous(given'[c.n]) =>
       /\ Account(log[c.n], c.sets, m)
       /\ r.op # "prepare_sql" =>
            Through(c) \in m..Len(c.sets) /\ Executions(r) = SubSeq(c.sets, m + 1, Through(c))

(* The number and the id of such a call are its own.                       *)
LEMMA OwnNumber ==
  ASSUME PreparedInv, BatchInv, NEW t \in Tasks, NEW c, NEW r, NEW m, Asks(t, c, r, m)
  PROVE  /\ c.n \in 1..Len(given') /\ Len(given') \in Nat /\ Len(given) <= Len(given')
         /\ \A n \in 1..Len(given') : n \in 1..Len(given) \/ n = c.n
         /\ \A p \in Requests : p.n # c.n /\ p.id # c.id /\ p.n \in 1..Len(given)
         /\ \A u \in Tasks : u # t /\ Live(u) => call[u].n # c.n /\ call[u].n \in 1..Len(given)
         /\ \A u \in Tasks : Waiting(u) => call[u].id # c.id
<1>i. Types /\ QueueInv /\ NumberInv BY DEF PreparedInv, BatchInv
<1>l. Len(given) \in Nat /\ ids \in Nat /\ MaxCalls \in Nat
  BY <1>i, PreparedAssumption DEF Types, IsSeq
<1>f. /\ \A k \in 1..ids : k # ids + 1
      /\ \A k \in 1..Len(given) : k # Len(given) + 1
      /\ Len(given) + 1 \in 1..(Len(given) + 1) /\ Len(given) <= Len(given) + 1 /\ Len(given) + 1 \in Nat
      /\ \A k \in 1..(Len(given) + 1) : k \in 1..Len(given) \/ k = Len(given) + 1
  BY <1>l
<1>w. \A u \in Tasks : Waiting(u) => call[u].id \in 1..ids /\ Live(u) BY <1>i DEF Types, CallType, Live, Waiting
<1>r. \A p \in Requests : p.id \in 1..ids BY <1>i DEF Types, RequestType, Requests
<1>n. /\ \A p \in Requests : p.n \in 1..Len(given)
      /\ \A u \in Tasks : Live(u) => call[u].n \in 1..Len(given)
      /\ \A u, v \in Tasks : Live(u) /\ Live(v) /\ call[u].n = call[v].n => u = v
      /\ \A p \in Requests, u \in Tasks : Live(u) /\ call[u].n = p.n => Waiting(u) /\ call[u].id = p.id
  BY <1>i DEF NumberInv
<1>c. c.id = ids + 1 BY DEF Asks
<1>1. CASE c.n = Len(given) + 1 /\ Len(given') = Len(given) + 1 BY <1>1, <1>c, <1>f, <1>l, <1>n, <1>r, <1>w
<1>2. CASE c.n = call[t].n /\ Len(given') = Len(given) /\ Waiting(t) /\ call[t].reply # None
  <2>1. \A p \in Requests : p.n # c.n
    <3>1. ASSUME NEW p \in Requests, p.n = c.n PROVE FALSE
      <4>1. Waiting(t) /\ call[t].id = p.id BY <1>2, <1>n, <1>w, <3>1
      <4> QED BY <1>2, <1>i, <4>1, Unanswered
    <3> QED BY <3>1
  <2>2. Live(t) BY <1>2, <1>w
  <2> QED BY <1>2, <1>c, <1>f, <1>l, <1>n, <1>r, <1>w, <2>1, <2>2
<1> QED BY <1>1, <1>2 DEF Asks

(* Sending what is due next keeps the invariant.                           *)
LEMMA AsksKeeps ==
  ASSUME PreparedInv, BatchInv, NEW t \in Tasks, NEW c, NEW r, NEW m, Asks(t, c, r, m)
  PROVE  BatchInv'
<1>i. /\ NumberInv /\ HistoryInv /\ \A u \in Tasks : CallInv(u)
      /\ \A q \in Requests : RequestInv(q)
      /\ \A n \in 1..Len(given) : ~Ambiguous(given[n]) => \E k \in Nat : Upto(n, k)
  BY DEF BatchInv
<1>a. /\ log' = log /\ Others(t) /\ call'[t] = c /\ Requests' \subseteq Requests \cup {r}
      /\ r.id = c.id /\ r.n = c.n /\ c.reply \in {None, "fail"}
      /\ c.st = "waiting" \/ (c.st = "ok" /\ c.sets = << >> /\ Requests' \subseteq Requests)
      /\ \A n \in 1..Len(given) : given'[n] = given[n]
      /\ Len(given') <= MaxCalls
  BY DEF Asks
<1>b. /\ given'[c.n].sets = c.sets /\ c.sets \in Seq(ParamSets) /\ (c.kind = "query" => given'[c.n].alone = TRUE)
      /\ c.st = "waiting" => Through(c) \in 0..Len(c.sets)
      /\ ~Ambiguous(given'[c.n]) =>
           /\ Account(log[c.n], c.sets, m)
           /\ r.op # "prepare_sql" =>
                Through(c) \in m..Len(c.sets) /\ Executions(r) = SubSeq(c.sets, m + 1, Through(c))
  BY DEF Asks
<1>o. /\ c.n \in 1..Len(given') /\ Len(given') \in Nat /\ Len(given) <= Len(given')
      /\ \A n \in 1..Len(given') : n \in 1..Len(given) \/ n = c.n
      /\ \A p \in Requests : p.n # c.n /\ p.id # c.id /\ p.n \in 1..Len(given)
      /\ \A u \in Tasks : u # t /\ Live(u) => call[u].n # c.n /\ call[u].n \in 1..Len(given)
      /\ \A u \in Tasks : Waiting(u) => call[u].id # c.id
  BY OwnNumber
<1>l. Len(given) \in Nat BY DEF PreparedInv, Types, IsSeq
<1>g. \A n \in 1..Len(given) : n \in 1..Len(given') BY <1>l, <1>o
<1>u. \A u \in Tasks : u # t => call'[u] = call[u] /\ (Live(u)' <=> Live(u)) /\ (Waiting(u)' <=> Waiting(u))
  BY <1>a DEF Others, Live, Waiting
<1>t. /\ Live(t)' /\ (Waiting(t)' <=> c.st = "waiting") /\ call'[t].n = c.n /\ call'[t].id = c.id
      /\ call'[t].reply \notin {"page", "done"}
  BY <1>a, PreparedAssumption DEF Live, Waiting
<1>p. \A p \in Requests' : p \in Requests \/ (p = r /\ c.st = "waiting")
  BY <1>a
<1>1. NumberInv'
  <2>1. \A p \in Requests' : p.n \in 1..Len(given') BY <1>a, <1>g, <1>o, <1>p
  <2>2. \A p, q \in Requests' : p.n = q.n => p = q BY <1>a, <1>i, <1>o, <1>p DEF NumberInv
  <2>3. \A u \in Tasks : Live(u)' => call'[u].n \in 1..Len(given') BY <1>g, <1>o, <1>t, <1>u
  <2>4. \A u, v \in Tasks : Live(u)' /\ Live(v)' /\ call'[u].n = call'[v].n => u = v
    BY <1>i, <1>o, <1>t, <1>u DEF NumberInv
  <2>5. \A p \in Requests', u \in Tasks : Waiting(u)' /\ call'[u].id = p.id => call'[u].n = p.n
    BY <1>a, <1>i, <1>o, <1>p, <1>t, <1>u DEF NumberInv
  <2>6. \A p \in Requests', u \in Tasks : Live(u)' /\ call'[u].n = p.n => Waiting(u)' /\ call'[u].id = p.id
    BY <1>a, <1>i, <1>o, <1>p, <1>t, <1>u DEF NumberInv
  <2> QED BY <2>1, <2>2, <2>3, <2>4, <2>5, <2>6 DEF NumberInv
<1>2. HistoryInv'
  <2>1. \A n \in 1..MaxCalls : n \in 1..Len(given') \/ log[n] = << >> BY <1>g, <1>i DEF HistoryInv
  <2>2. \A n \in 1..Len(given') : given'[n].sets \in Seq(ParamSets) BY <1>a, <1>b, <1>i, <1>o DEF HistoryInv
  <2>3. log = [n \in 1..MaxCalls |-> log[n]] BY <1>i DEF HistoryInv
  <2> QED BY <1>a, <2>1, <2>2, <2>3 DEF HistoryInv
<1>3. ASSUME NEW u \in Tasks PROVE CallInv(u)'
  <2>1. CASE u = t
    <3>1. ASSUME c.st = "ok", ~Ambiguous(given'[c.n]) PROVE Account(log[c.n], c.sets, Len(c.sets))
      <4>1. Account(log[c.n], c.sets, m) BY <1>b, <3>1
      <4>2. Len(c.sets) = 0 BY <1>a, <3>1
      <4>3. m = Len(c.sets) BY <4>1, <4>2 DEF Account
      <4> QED BY <4>1, <4>3
    <3>2. c.st = "ok" /\ ~Ambiguous(given'[c.n]) => Account(log[c.n], c.sets, Len(c.sets)) BY <3>1
    <3> QED BY <1>a, <1>b, <1>t, <2>1, <3>2 DEF CallInv, Upto
  <2>2. CASE u # t /\ Live(u)
    <3>1. /\ call'[u] = call[u] /\ given'[call[u].n] = given[call[u].n] /\ CallInv(u)
          /\ (Live(u)' <=> Live(u)) /\ (Waiting(u)' <=> Waiting(u))
      BY <1>a, <1>i, <1>o, <1>u, <2>2
    <3> QED BY <1>a, <3>1 DEF CallInv, Upto
  <2>3. CASE u # t /\ ~Live(u) BY <1>u, <2>3 DEF CallInv
  <2> QED BY <2>1, <2>2, <2>3
<1>4. ASSUME NEW p \in Requests' PROVE RequestInv(p)'
  <2>1. CASE p \in Requests
    <3>1. given'[p.n] = given[p.n] /\ RequestInv(p) BY <1>a, <1>i, <1>o, <2>1
    <3>2. SUFFICES ASSUME p.op # "prepare_sql", ~Ambiguous(given[p.n])
                   PROVE  \E k, q \in Nat : /\ Next_sets(p, k, q)'
                                            /\ \A u \in Tasks : Waiting(u)' /\ call'[u].id = p.id => q = Through(call'[u])
      BY <3>1 DEF RequestInv
    <3>3. PICK k \in Nat, q \in Nat : /\ Next_sets(p, k, q)
                                      /\ \A u \in Tasks : Waiting(u) /\ call[u].id = p.id => q = Through(call[u])
      BY <3>1, <3>2 DEF RequestInv
    <3>4. Next_sets(p, k, q)' BY <1>a, <3>1, <3>3 DEF Next_sets, Upto
    <3>5. \A u \in Tasks : Waiting(u)' /\ call'[u].id = p.id => q = Through(call'[u])
      BY <1>o, <1>t, <1>u, <2>1, <3>3
    <3> QED BY <3>4, <3>5
  <2>2. CASE p = r /\ p \notin Requests
    <3>1. SUFFICES ASSUME r.op # "prepare_sql", ~Ambiguous(given'[c.n])
                   PROVE  \E k, q \in Nat : /\ Next_sets(r, k, q)'
                                            /\ \A u \in Tasks : Waiting(u)' /\ call'[u].id = r.id => q = Through(call'[u])
      BY <1>a, <2>2 DEF RequestInv
    <3>2. /\ Account(log[c.n], c.sets, m) /\ m \in 0..Len(c.sets) /\ Through(c) \in m..Len(c.sets)
          /\ Executions(r) = SubSeq(c.sets, m + 1, Through(c))
      BY <1>b, <3>1 DEF Account
    <3>3. m \in Nat /\ Through(c) \in Nat BY <1>b, <1>p, <2>2, <3>2
    <3>4. PICK q \in Nat : q = Through(c) BY <3>3
    <3>5. Next_sets(r, m, q)' BY <1>a, <1>b, <3>2, <3>4 DEF Next_sets, Upto
    <3>6. \A u \in Tasks : Waiting(u)' /\ call'[u].id = r.id => q = Through(call'[u])
      BY <1>a, <1>o, <1>u, <3>4
    <3> QED BY <3>3, <3>5, <3>6
  <2> QED BY <1>p, <2>1, <2>2
<1>5. ASSUME NEW n \in 1..Len(given'), ~Ambiguous(given'[n]) PROVE \E k \in Nat : Upto(n, k)'
  <2>1. CASE n \in 1..Len(given)
    <3>1. given'[n] = given[n] BY <1>a, <2>1
    <3> QED BY <1>5, <1>a, <1>i, <2>1, <3>1 DEF Upto
  <2>2. CASE n = c.n
    <3>1. Account(log[c.n], c.sets, m) BY <1>5, <1>b, <2>2
    <3>2. m \in Nat BY <3>1 DEF Account
    <3> QED BY <1>a, <1>b, <2>2, <3>1, <3>2 DEF Upto
  <2> QED BY <1>o, <2>1, <2>2
<1> QED BY <1>1, <1>2, <1>3, <1>4, <1>5 DEF BatchInv
-----------------------------------------------------------------------------
(* A request behind the others.                                            *)
LEMMA RequestsGrow ==
  ASSUME NEW e, Extends(queue', queue, e)
  PROVE  Requests' \subseteq Requests \cup {e} /\ (IsClose(e) => Requests' \subseteq Requests)
<1>1. ASSUME NEW p \in Requests' PROVE p \in Requests \/ (p = e /\ ~IsClose(e))
  <2>1. PICK k \in 1..Len(queue') : ~IsClose(queue'[k]) /\ p = queue'[k] BY <1>1 DEF Requests, IsClose
  <2>2. CASE k \in 1..Len(queue)
    <3>1. queue'[k] = queue[k] BY <2>2 DEF Extends
    <3> QED BY <2>1, <2>2, <3>1 DEF Requests
  <2>3. CASE k = Len(queue) + 1 BY <2>1, <2>3 DEF Extends
  <2> QED BY <2>2, <2>3 DEF Extends
<1> QED BY <1>1

(* The first request is taken from the queue, and with its id there is no  *)
(* other.                                                                  *)
LEMMA RequestsShrink ==
  ASSUME PreparedInv, queue # << >>, queue' = Tail(queue)
  PROVE  /\ Requests' \subseteq Requests \ {Head(queue)}
         /\ ~IsClose(Head(queue)) => Head(queue) \in Requests
<1>1. Shifts(queue', queue) /\ Head(queue) = queue[1] BY TailShifts DEF PreparedInv, Types
<1>2. ~IsClose(Head(queue)) => Head(queue) \in Requests BY <1>1 DEF Shifts, Requests
<1>3. ASSUME NEW p \in Requests' PROVE p \in Requests /\ p # Head(queue)
  <2>1. PICK k \in 1..Len(queue') : ~IsClose(queue'[k]) /\ p = queue'[k] BY <1>3 DEF Requests, IsClose
  <2>2. k + 1 \in 1..Len(queue) /\ k + 1 # 1 /\ 1 \in 1..Len(queue) /\ p = queue[k + 1] BY <1>1, <2>1 DEF Shifts
  <2>3. ~IsClose(queue[k + 1]) BY <2>1, <2>2
  <2>4. p # queue[1]
    <3>1. SUFFICES ASSUME p = queue[1] PROVE FALSE OBVIOUS
    <3>2. ~IsClose(queue[1]) /\ queue[1].id = queue[k + 1].id BY <2>2, <2>3, <3>1
    <3>3. 1 = k + 1 BY <2>2, <2>3, <3>2 DEF PreparedInv, QueueInv
    <3> QED BY <2>2, <3>3
  <2> QED BY <1>1, <2>2, <2>3, <2>4 DEF Requests
<1> QED BY <1>2, <1>3

(* What is executed is seen from two fields of a request.                  *)
LEMMA SameExecutions ==
  ASSUME NEW r, NEW e, e.op = r.op, e.parameters = r.parameters
  PROVE  Executions(e) = Executions(r)
BY DEF Executions

(* The request that send queues for a call.                                *)
LEMMA SentRequest ==
  ASSUME PreparedInv, NEW t \in Tasks, NEW c, NEW r, send(t, c, r),
         r.op \in {"sql", "prepare_sql", "prepare_sql_execute", "execute"}
  PROVE  \E e : /\ e.id = ids + 1 /\ e.n = c.n /\ e.op = r.op /\ Executions(e) = Executions(r)
                /\ Requests' \subseteq Requests \cup {e}
<1> DEFINE e == [id |-> ids + 1, n |-> c.n, op |-> r.op, of |-> r.of,
                 parameters |-> r.parameters, rows |-> r.rows]
<1>1. e.id = ids + 1 /\ e.n = c.n /\ e.op = r.op /\ e.parameters = r.parameters OBVIOUS
<1>2. (conn = "up" => Extends(queue', queue, e)) /\ (conn = "down" => queue' = queue) /\ conn \in {"up", "down"}
  BY SendShape DEF PreparedInv, Types
<1> HIDE DEF e
<1>3. queue' = queue => Requests' = Requests BY DEF Requests, IsClose
<1>4. Requests' \subseteq Requests \cup {e} BY <1>2, <1>3, RequestsGrow
<1>5. Executions(e) = Executions(r) BY <1>1, SameExecutions
<1> QED BY <1>1, <1>4, <1>5

(* A call that starts has a number of its own.                             *)
LEMMA StartsNew ==
  ASSUME PreparedInv, BatchInv, NEW t \in Tasks, NEW sets, NEW alone, Starts(t, sets, alone)
  PROVE  /\ given'[Len(given) + 1] = [sets |-> sets, alone |-> alone] /\ Len(given') = Len(given) + 1
         /\ \A n \in 1..Len(given) : given'[n] = given[n]
         /\ Len(given') <= MaxCalls /\ log[Len(given) + 1] = << >> /\ ~Live(t)
<1>i. Types /\ HistoryInv BY DEF PreparedInv, BatchInv
<1> DEFINE g == [sets |-> sets, alone |-> alone]
<1>1. call[t].st = "idle" /\ Len(given) < MaxCalls /\ Extends(given', given, g)
  BY <1>i, AppendExtends DEF Starts, Types
<1> HIDE DEF g
<1>2. Len(given) \in Nat /\ MaxCalls \in Nat BY <1>1, PreparedAssumption DEF Extends
<1>3. /\ given'[Len(given) + 1] = g /\ Len(given') = Len(given) + 1
      /\ \A n \in 1..Len(given) : given'[n] = given[n]
  BY <1>1 DEF Extends
<1>4. Len(given') <= MaxCalls BY <1>1, <1>2, <1>3
<1>5. Len(given) + 1 \in 1..MaxCalls /\ Len(given) + 1 \notin 1..Len(given) BY <1>1, <1>2
<1>6. log[Len(given) + 1] = << >> BY <1>5, <1>i DEF HistoryInv
<1>7. ~Live(t) BY <1>1 DEF Live
<1> QED BY <1>3, <1>4, <1>6, <1>7 DEF g

(* The first request of a call.                                            *)
LEMMA FirstAsks ==
  ASSUME PreparedInv, BatchInv, NEW t \in Tasks, NEW sets \in Seq(ParamSets), NEW alone, Starts(t, sets, alone),
         NEW kind, NEW r, send(t, NewCall(kind, sets), r), UNCHANGED log,
         r.op \in {"sql", "prepare_sql", "prepare_sql_execute", "execute"},
         kind = "query" => 1 <= Len(sets) /\ alone = TRUE,
         r.op # "prepare_sql" /\ ~Ambiguous([sets |-> sets, alone |-> alone]) =>
           Executions(r) = SubSeq(sets, 1, IF kind = "query" THEN 1 ELSE Len(sets))
  PROVE  BatchInv'
<1> DEFINE c == NewCall(kind, sets)
           g == [sets |-> sets, alone |-> alone]
<1>c. /\ c.st = "waiting" /\ c.n = Len(given) + 1 /\ c.kind = kind /\ c.sets = sets /\ c.pos = 1
      /\ c.id = ids + 1 /\ c.reply \in {None, "fail"}
  BY DEF NewCall, InCall
<1>g. g.sets = sets /\ (kind = "query" => g.alone = TRUE) OBVIOUS
<1> HIDE DEF g
<1>e. PICK e : /\ e.id = ids + 1 /\ e.n = c.n /\ e.op = r.op /\ Executions(e) = Executions(r)
               /\ Requests' \subseteq Requests \cup {e}
  BY SentRequest
<1>o. Others(t) /\ call'[t] = c BY SendShape DEF PreparedInv
<1> HIDE DEF c
<1>s. /\ given'[c.n] = g /\ Len(given') = Len(given) + 1
      /\ \A n \in 1..Len(given) : given'[n] = given[n]
      /\ Len(given') <= MaxCalls /\ log[c.n] = << >> /\ ~Live(t)
  BY <1>c, StartsNew DEF g
<1>1. Len(sets) \in Nat /\ Account(<< >>, sets, 0) BY NothingYet
<1>2. Through(c) = IF kind = "query" THEN 1 ELSE Len(sets) BY <1>c DEF Through
<1>3. Through(c) \in 0..Len(sets) BY <1>1, <1>2
<1>4. ~Ambiguous(g) =>
        /\ Account(log[c.n], sets, 0)
        /\ e.op # "prepare_sql" =>
             Through(c) \in 0..Len(sets) /\ Executions(e) = SubSeq(sets, 0 + 1, Through(c))
  <2>1. ~Ambiguous(g) /\ e.op # "prepare_sql" => Executions(e) = SubSeq(sets, 1, Through(c))
    BY <1>2, <1>e DEF g
  <2> QED BY <1>1, <1>3, <1>s, <2>1
<1>5. Asks(t, c, e, 0) BY <1>3, <1>4, <1>c, <1>e, <1>g, <1>o, <1>s DEF Asks
<1> QED BY <1>5, AsksKeeps

(* A batch without sets is done at once.                                   *)
LEMMA EmptyKeeps ==
  ASSUME PreparedInv, BatchInv, NEW t \in Tasks, Starts(t, << >>, TRUE), UNCHANGED <<ids, queue, log>>,
         call' = [call EXCEPT ![t] = [NewCall("query", << >>) EXCEPT !.st = "ok"]]
  PROVE  BatchInv'
<1> DEFINE c == [NewCall("query", << >>) EXCEPT !.st = "ok"]
           e == [id |-> ids + 1, n |-> Len(given) + 1, op |-> "prepare_sql"]
           g == [sets |-> << >>, alone |-> TRUE]
<1>c. /\ c.st = "ok" /\ c.n = Len(given) + 1 /\ c.sets = << >> /\ c.id = ids + 1 /\ c.reply \in {None, "fail"}
  BY DEF NewCall, InCall
<1>e. e.id = ids + 1 /\ e.n = Len(given) + 1 /\ e.op = "prepare_sql" OBVIOUS
<1>g. g.sets = << >> /\ g.alone = TRUE OBVIOUS
<1> HIDE DEF c, e, g
<1>o. Others(t) /\ call'[t] = c
  <2>1. call = [u \in Tasks |-> call[u]] BY DEF PreparedInv, Types
  <2>2. call' = [call EXCEPT ![t] = c] BY DEF c
  <2> QED BY <2>1, <2>2 DEF Others
<1>s. /\ given'[c.n] = g /\ Len(given') = Len(given) + 1
      /\ \A n \in 1..Len(given) : given'[n] = given[n]
      /\ Len(given') <= MaxCalls /\ log[c.n] = << >> /\ ~Live(t)
  BY <1>c, StartsNew DEF g
<1>1. Requests' = Requests BY DEF Requests, IsClose
<1>2. << >> \in Seq(ParamSets) OBVIOUS
<1>3. Len(c.sets) = 0 BY <1>c
<1>4. Account(log[c.n], c.sets, 0) BY <1>3, <1>s, NothingYet
<1>5. Asks(t, c, e, 0) BY <1>1, <1>2, <1>4, <1>c, <1>e, <1>g, <1>o, <1>s DEF Asks
<1> QED BY <1>5, AsksKeeps

(* A step of task t that sends nothing.                                    *)
LEMMA TaskQuiet ==
  ASSUME NEW t \in Tasks, Others(t), Settles(t), UNCHANGED <<given, log, queue>>
  PROVE  Quiet
<1>1. Requests' = Requests BY DEF Requests, IsClose
<1>2. \A u \in Tasks : Settles(u) BY DEF Others, Settles
<1> QED BY <1>1, <1>2 DEF Quiet

(* A call that is rejected.                                                *)
LEMMA RejectedQuiet ==
  ASSUME PreparedInv, NEW t \in Tasks, Rejected(t), UNCHANGED log
  PROVE  Quiet
<1>1. call = [u \in Tasks |-> call[u]] BY DEF PreparedInv, Types
<1>2. Others(t) BY <1>1 DEF Others, Rejected
<1>3. call'[t] = [call[t] EXCEPT !.st = "err"] BY <1>1 DEF Rejected
<1>4. call'[t].st \notin {"waiting", "ok"}
  BY <1>3
<1>5. Settles(t) BY <1>4 DEF Settles, Live
<1> QED BY <1>2, <1>5, TaskQuiet DEF Rejected

(* Job::execute and Query::execute send one set, or none as an empty one.  *)
LEMMA OneRequest ==
  ASSUME NEW set \in ParamSets \cup {None}, NEW size,
         NEW r \in {JobRequest(set, size), QueryRequest(set, size)}
  PROVE  /\ r.op \in {"sql", "prepare_sql_execute", "execute"}
         /\ ~(OneSet(set) # << >> /\ \A j \in 1..Len(OneSet(set)) : OneSet(set)[j].is_array) =>
              Executions(r) = <<OneSet(set)>>
<1> DEFINE Plain == ~(OneSet(set) # << >> /\ \A j \in 1..Len(OneSet(set)) : OneSet(set)[j].is_array)
<1>n. set # None => <<set>> # None BY SetsAreNotNone
<1>1. CASE r = JobRequest(set, size)
  <2>1. CASE set = None
    <3>1. r.op = "sql" /\ r.parameters = None BY <1>1, <2>1 DEF JobRequest
    <3> QED BY <2>1, <3>1, ExecutesOne
  <2>2. CASE set # None
    <3>1. r.op = "prepare_sql_execute" /\ r.parameters = serialize(<<set>>) BY <1>1, <2>2 DEF JobRequest
    <3> QED BY <2>2, <3>1, ExecutesOne
  <2> QED BY <2>1, <2>2
<1>2. CASE r = QueryRequest(set, size)
  <2>1. CASE query.cont_id # None
    <3>1. r.op = "execute" /\ r.parameters = set BY <1>2, <2>1 DEF QueryRequest
    <3> QED BY <3>1, ExecutesOne
  <2>2. CASE query.cont_id = None
    <3>1. r.op = "prepare_sql_execute" /\ r.parameters = serialize(IF set = None THEN None ELSE <<set>>)
      BY <1>2, <2>2 DEF QueryRequest
    <3>2. r.parameters = (IF set = None THEN None ELSE serialize(<<set>>))
      <4>1. serialize(None) = None BY DEF serialize
      <4> QED BY <3>1, <4>1
    <3> QED BY <3>1, <3>2, ExecutesOne
  <2> QED BY <2>1, <2>2
<1> QED BY <1>1, <1>2

(* One set as a list.                                                      *)
LEMMA Single ==
  ASSUME NEW S, NEW x \in S
  PROVE  <<x>> \in Seq(S) /\ Len(<<x>>) = 1 /\ <<x>>[1] = x /\ SubSeq(<<x>>, 1, 1) = <<x>>
<1>1. <<x>> \in Seq(S) /\ Len(<<x>>) = 1 /\ <<x>>[1] = x OBVIOUS
<1> QED BY <1>1, WholeOf

(* One element of a sequence.                                              *)
LEMMA OneOf ==
  ASSUME NEW S, NEW s \in Seq(S), NEW m \in Nat, m + 1 <= Len(s)
  PROVE  SubSeq(s, m + 1, m + 1) = <<s[m + 1]>>
<1> DEFINE a == SubSeq(s, m + 1, m + 1)
<1>1. Len(s) \in Nat /\ m + 1 \in m..Len(s) /\ (m + 1) - m = 1 OBVIOUS
<1>2. a \in Seq(S) /\ Len(a) = 1 /\ \A i \in 1..1 : a[i] = s[m + i] BY <1>1, PartOf
<1>3. s[m + 1] \in S BY <1>1
<1>4. <<s[m + 1]>> \in Seq(S) /\ Len(<<s[m + 1]>>) = 1 /\ <<s[m + 1]>>[1] = s[m + 1] BY <1>3, Single
<1> HIDE DEF a
<1>5. \A i \in 1..1 : a[i] = <<s[m + 1]>>[i] BY <1>2, <1>4
<1>6. a = <<s[m + 1]>> BY <1>2, <1>4, <1>5, SeqEqual
<1> QED BY <1>6 DEF a

(* The parameters that are passed.                                         *)
LEMMA ParamsAre == Params \subseteq ParamSets \cup {None}
<1>1. ASSUME NEW sets \in Batches, sets # << >> PROVE sets[1] \in ParamSets
  <2>1. sets \in Seq(ParamSets) BY SetsAreNotNone
  <2> QED BY <1>1, <2>1
<1> QED BY <1>1 DEF Params

(* A set that goes alone is not read as it was meant if there are only     *)
(* arrays in it.                                                           *)
LEMMA AloneIsPlain ==
  ASSUME NEW sets, NEW k \in 1..Len(sets), NEW g, g.sets = sets, g.alone, ~Ambiguous(g)
  PROVE  ~(sets[k] # << >> /\ \A j \in 1..Len(sets[k]) : sets[k][j].is_array)
BY DEF Ambiguous

(* Calls that start.                                                       *)
LEMMA StartKeeps ==
  ASSUME PreparedInv, BatchInv, NEW t \in Tasks,
         \/ Prepare(t)
         \/ \E rows \in PageSizes : \/ \E sets \in Batches : ExecuteSets(t, sets, rows)
                                    \/ \E set \in Params : JobExecute(t, set, rows) \/ QueryExecute(t, set, rows)
         \/ \E sets \in Batches : ExecuteBatch(t, sets)
  PROVE  BatchInv'
<1>1. CASE Prepare(t)
  <2> DEFINE r == [op |-> "prepare_sql", of |-> None, parameters |-> None, rows |-> None]
  <2>1. Starts(t, << >>, TRUE) /\ send(t, NewCall("prepare", << >>), r) /\ UNCHANGED log
    BY <1>1 DEF Prepare
  <2>2. r.op = "prepare_sql" /\ << >> \in Seq(ParamSets) OBVIOUS
  <2> HIDE DEF r
  <2> QED BY <2>1, <2>2, FirstAsks
<1>2. ASSUME NEW rows \in PageSizes, NEW sets \in Batches, ExecuteSets(t, sets, rows) PROVE BatchInv'
  <2> DEFINE r == [op |-> "prepare_sql_execute", of |-> None,
                   parameters |-> serialize(owned_parameter_sets(sets)), rows |-> resolved_rows(rows)]
             alone == Len(sets) = 1
  <2>1. CASE Rejected(t) BY <1>2, <2>1, RejectedQuiet, QuietKeeps DEF ExecuteSets
  <2>2. CASE owned_parameter_sets(sets) # None /\ Starts(t, sets, alone) /\ send(t, NewCall("one", sets), r)
    <3>1. sets # << >> /\ owned_parameter_sets(sets) = sets BY <2>2 DEF owned_parameter_sets
    <3>2. r.op = "prepare_sql_execute" /\ r.parameters = serialize(sets) BY <3>1
    <3>3. sets \in Seq(ParamSets) BY SetsAreNotNone
    <3>4. ~Ambiguous([sets |-> sets, alone |-> alone]) => Executions(r) = sets
      <4> HIDE DEF r
      <4> QED BY <3>1, <3>2, ExecutesAll
    <3>5. SubSeq(sets, 1, Len(sets)) = sets BY <3>3, WholeOf
    <3>6. UNCHANGED log BY <1>2 DEF ExecuteSets
    <3> HIDE DEF r, alone
    <3>7. ~Ambiguous([sets |-> sets, alone |-> alone]) =>
             Executions(r) = SubSeq(sets, 1, IF "one" = "query" THEN 1 ELSE Len(sets))
      BY <3>4, <3>5
    <3> QED BY <2>2, <3>2, <3>3, <3>6, <3>7, FirstAsks
  <2> QED BY <1>2, <2>1, <2>2 DEF ExecuteSets
<1>3. ASSUME NEW set \in Params, NEW size, NEW kind \in {"one", "query"},
             NEW r \in {JobRequest(set, size), QueryRequest(set, size)},
             Starts(t, <<OneSet(set)>>, TRUE), send(t, NewCall(kind, <<OneSet(set)>>), r), UNCHANGED log
      PROVE  BatchInv'
  <2> DEFINE x == OneSet(set)
             sets == <<x>>
             g == [sets |-> sets, alone |-> TRUE]
  <2>1. set \in ParamSets \cup {None} BY ParamsAre
  <2>2. x \in ParamSets
    <3>1. << >> \in ParamSets BY DEF ParamSets
    <3> QED BY <2>1, <3>1 DEF OneSet
  <2>3. r.op \in {"sql", "prepare_sql_execute", "execute"} BY <1>3, <2>1, OneRequest
  <2> HIDE DEF x
  <2>4. sets \in Seq(ParamSets) /\ Len(sets) = 1 /\ sets[1] = x /\ SubSeq(sets, 1, 1) = sets BY <2>2, Single
  <2>5. Starts(t, sets, TRUE) /\ send(t, NewCall(kind, sets), r) BY <1>3 DEF x
  <2>6. (~(x # << >> /\ \A j \in 1..Len(x) : x[j].is_array)) => Executions(r) = sets
    BY <1>3, <2>1, OneRequest DEF x
  <2> HIDE DEF sets
  <2>7. ~Ambiguous(g) => Executions(r) = sets
    <3>1. g.sets = sets /\ g.alone OBVIOUS
    <3> HIDE DEF g
    <3>2. 1 \in 1..Len(sets) BY <2>4
    <3>3. ~Ambiguous(g) => ~(sets[1] # << >> /\ \A j \in 1..Len(sets[1]) : sets[1][j].is_array)
      BY <3>1, <3>2, AloneIsPlain
    <3> QED BY <2>4, <2>6, <3>3
  <2>8. ~Ambiguous(g) => Executions(r) = SubSeq(sets, 1, IF kind = "query" THEN 1 ELSE Len(sets))
    BY <2>4, <2>7
  <2>9. 1 <= Len(sets) /\ UNCHANGED log BY <1>3, <2>4
  <2> QED BY <2>3, <2>4, <2>5, <2>8, <2>9, FirstAsks
<1>4. ASSUME NEW rows \in PageSizes, NEW set \in Params, JobExecute(t, set, rows) \/ QueryExecute(t, set, rows)
      PROVE  BatchInv'
  <2> DEFINE size == resolved_rows(rows)
  <2>1. CASE Rejected(t) /\ UNCHANGED log BY <2>1, RejectedQuiet, QuietKeeps
  <2>2. CASE JobExecute(t, set, rows) /\ ~Rejected(t)
    <3>1. /\ Starts(t, <<OneSet(set)>>, TRUE) /\ send(t, NewCall("one", <<OneSet(set)>>), JobRequest(set, size))
          /\ UNCHANGED log
      BY <2>2 DEF JobExecute, OneSet
    <3> HIDE DEF size
    <3> QED BY <1>3, <3>1
  <2>3. CASE QueryExecute(t, set, rows) /\ ~Rejected(t)
    <3>1. /\ Starts(t, <<OneSet(set)>>, TRUE) /\ send(t, NewCall("query", <<OneSet(set)>>), QueryRequest(set, size))
          /\ UNCHANGED log
      BY <2>3 DEF QueryExecute, OneSet
    <3> HIDE DEF size
    <3> QED BY <1>3, <3>1
  <2>4. UNCHANGED log BY <1>4 DEF JobExecute, QueryExecute
  <2> QED BY <1>4, <2>1, <2>2, <2>3, <2>4
<1>5. ASSUME NEW sets \in Batches, ExecuteBatch(t, sets) PROVE BatchInv'
  <2>1. Starts(t, sets, TRUE) /\ UNCHANGED log BY <1>5 DEF ExecuteBatch
  <2>s. sets \in Seq(ParamSets) BY SetsAreNotNone
  <2>2. CASE sets = << >>
    <3>1. /\ call' = [call EXCEPT ![t] = [NewCall("query", << >>) EXCEPT !.st = "ok"]]
          /\ UNCHANGED <<ids, queue>>
      BY <1>5, <2>2 DEF ExecuteBatch
    <3>2. Starts(t, << >>, TRUE) BY <2>1, <2>2
    <3> QED BY <2>1, <3>1, <3>2, EmptyKeeps
  <2>3. CASE sets # << >>
    <3> DEFINE r == QueryRequest(sets[1], DEFAULT_ROWS)
               g == [sets |-> sets, alone |-> TRUE]
    <3>1. send(t, NewCall("query", sets), r) BY <1>5, <2>3 DEF ExecuteBatch
    <3>2. Len(sets) \in Nat /\ 1 <= Len(sets) /\ 1 \in 1..Len(sets) BY <2>3, <2>s
    <3>3. sets[1] \in ParamSets BY <2>s, <3>2
    <3>4. OneSet(sets[1]) = sets[1] BY <3>3, SetsAreNotNone DEF OneSet
    <3>5. r.op \in {"sql", "prepare_sql_execute", "execute"} BY <3>3, OneRequest
    <3>6. ~Ambiguous(g) => Executions(r) = <<sets[1]>>
      <4>1. g.sets = sets /\ g.alone OBVIOUS
      <4> HIDE DEF g, r
      <4>2. ~Ambiguous(g) => ~(sets[1] # << >> /\ \A j \in 1..Len(sets[1]) : sets[1][j].is_array)
        BY <3>2, <4>1, AloneIsPlain
      <4> QED BY <3>3, <3>4, <4>2, OneRequest DEF r
    <3>7. SubSeq(sets, 1, 1) = <<sets[1]>> BY <2>s, <3>2, OneOf
    <3>8. ~Ambiguous(g) => Executions(r) = SubSeq(sets, 1, IF "query" = "query" THEN 1 ELSE Len(sets))
      BY <3>6, <3>7
    <3> HIDE DEF r
    <3> QED BY <2>1, <2>s, <3>1, <3>2, <3>5, <3>8, FirstAsks
  <2> QED BY <2>2, <2>3
<1> QED BY <1>1, <1>2, <1>4, <1>5

(* The next turn of a batch: the set after those that were executed.       *)
LEMMA BatchKeeps ==
  ASSUME PreparedInv, BatchInv, NEW t \in Tasks, BatchNext(t)
  PROVE  BatchInv'
<1> DEFINE pos == call[t].pos
           sets == call[t].sets
           n == call[t].n
           x == sets[pos + 1]
           r == QueryRequest(x, DEFAULT_ROWS)
           c == InCall(n, call[t].kind, sets, pos + 1, call[t].rows \cup NewRows(call[t]))
<1>i. Types /\ NumberInv /\ HistoryInv /\ CallInv(t) BY DEF PreparedInv, BatchInv
<1>1. /\ Waiting(t) /\ call[t].kind = "query" /\ call[t].reply \in {"page", "done"} /\ pos < Len(sets)
      /\ send(t, c, r) /\ UNCHANGED <<given, log>>
  BY DEF BatchNext, Waits, Waiting
<1>2. Live(t) /\ Through(call[t]) = pos /\ call[t].reply # None
  BY <1>1, PreparedAssumption DEF Live, Waiting, Through
<1>3. /\ sets = given[n].sets /\ given[n].alone = TRUE /\ pos \in 0..Len(sets)
      /\ ~Ambiguous(given[n]) => Upto(n, pos)
  BY <1>1, <1>2, <1>i DEF CallInv
<1>4. n \in 1..Len(given) /\ sets \in Seq(ParamSets) BY <1>2, <1>3, <1>i DEF NumberInv, HistoryInv
<1>5. Len(sets) \in Nat /\ pos \in Nat /\ pos + 1 \in 1..Len(sets) /\ pos + 1 <= Len(sets)
  <2> HIDE DEF pos, sets
  <2> QED BY <1>1, <1>3, <1>4
<1>6. x \in ParamSets BY <1>4, <1>5
<1>7. OneSet(x) = x BY <1>6, SetsAreNotNone DEF OneSet
<1>8. r.op \in {"sql", "prepare_sql_execute", "execute"} BY <1>6, OneRequest
<1>9. ~Ambiguous(given[n]) => Executions(r) = SubSeq(sets, pos + 1, pos + 1)
  <2>1. ~Ambiguous(given[n]) => ~(x # << >> /\ \A j \in 1..Len(x) : x[j].is_array)
    BY <1>3, <1>5, AloneIsPlain
  <2>2. SubSeq(sets, pos + 1, pos + 1) = <<x>>
    <3> HIDE DEF pos, sets
    <3> QED BY <1>4, <1>5, OneOf
  <2> HIDE DEF x, r
  <2>3. (~(x # << >> /\ \A j \in 1..Len(x) : x[j].is_array)) => Executions(r) = <<x>>
    BY <1>6, <1>7, OneRequest DEF r
  <2> QED BY <2>1, <2>2, <2>3
<1>c. /\ c.st = "waiting" /\ c.n = n /\ c.kind = "query" /\ c.sets = sets /\ c.pos = pos + 1
      /\ c.id = ids + 1 /\ c.reply \in {None, "fail"}
  BY <1>1 DEF InCall
<1> HIDE DEF r, c
<1>e. PICK e : /\ e.id = ids + 1 /\ e.n = c.n /\ e.op = r.op /\ Executions(e) = Executions(r)
               /\ Requests' \subseteq Requests \cup {e}
  BY <1>1, <1>8, SentRequest
<1>o. Others(t) /\ call'[t] = c BY <1>1, <1>i, SendShape
<1>t. Through(c) = pos + 1 BY <1>c DEF Through
<1> HIDE DEF pos, sets, n, x
<1>10. Through(c) \in 0..Len(sets) /\ Through(c) \in pos..Len(sets) /\ pos \in 0..Len(sets) BY <1>5, <1>t
<1>11. ~Ambiguous(given[n]) =>
         /\ Account(log[n], sets, pos)
         /\ e.op # "prepare_sql" =>
              Through(c) \in pos..Len(sets) /\ Executions(e) = SubSeq(sets, pos + 1, Through(c))
  BY <1>3, <1>9, <1>10, <1>e, <1>t DEF Upto
<1>12. Len(given') <= MaxCalls BY <1>1, <1>i DEF Types
<1>13. Waiting(t) /\ call[t].reply # None /\ c.n = call[t].n BY <1>1, <1>2, <1>c DEF n
<1>14. Asks(t, c, e, pos) BY <1>1, <1>3, <1>4, <1>10, <1>11, <1>12, <1>13, <1>c, <1>e, <1>o DEF Asks
<1> QED BY <1>14, AsksKeeps

(* A call returns, or is given up.                                         *)
LEMMA ResolveQuiet ==
  ASSUME PreparedInv, BatchInv, NEW t \in Tasks,
         Prepared(t) \/ PrepareFails(t) \/ ReturnRows(t) \/ Fails(t) \/ Cancel(t) \/ Take(t)
  PROVE  Quiet
<1>i. Types BY DEF PreparedInv
<1>s. UNCHANGED <<given, log, queue>> BY DEF Prepared, PrepareFails, ReturnRows, Fails, Cancel, Take
<1>1. CASE PrepareFails(t) \/ Fails(t)
  <2>1. Waiting(t) /\ call' = [call EXCEPT ![t].st = "err"] BY <1>1 DEF PrepareFails, Fails, Waits, Waiting
  <2>2. Others(t) /\ call'[t].st = "err" BY <1>i, <1>s, <2>1, Ended
  <2>3. Settles(t) BY <2>2 DEF Settles, Live
  <2> QED BY <1>s, <2>2, <2>3, TaskQuiet
<1>2. CASE Cancel(t) \/ Take(t)
  <2>1. call' = [call EXCEPT ![t] = Idle] BY <1>2 DEF Cancel, Take
  <2>2. Others(t) /\ call'[t].st = "idle" BY <1>i, <1>s, <2>1, BackToIdle
  <2>3. Settles(t) BY <2>2 DEF Settles, Live
  <2> QED BY <1>s, <2>2, <2>3, TaskQuiet
<1>3. CASE Prepared(t) \/ ReturnRows(t)
  <2>1. Waiting(t) /\ call' = [call EXCEPT ![t].st = "ok"] BY <1>3 DEF Prepared, ReturnRows, Waits, Waiting
  <2>2. Others(t) /\ call'[t].st = "ok" BY <1>i, <1>s, <2>1, Ended
  <2>3. call'[t] = [call[t] EXCEPT !.st = "ok"] /\ IsCall(call[t])
    BY <1>i, <2>1 DEF Types, CallType
  <2>4. SameCall(t) BY <2>3 DEF IsCall, SameCall
  <2>5. /\ call[t].reply \in {"page", "done", "handle", "ack"}
        /\ call[t].kind # "prepare" => call[t].reply \in {"page", "done"} /\ Through(call[t]) = Len(call[t].sets)
    BY <1>3 DEF Prepared, ReturnRows, Waits, Through
  <2>6. call[t].reply # None BY <2>5, PreparedAssumption
  <2>7. Settles(t) BY <2>1, <2>2, <2>4, <2>5, <2>6 DEF Settles
  <2> QED BY <1>s, <2>2, <2>7, TaskQuiet
<1> QED BY <1>1, <1>2, <1>3

(* Destructors, sqlclose and the end of the connection execute nothing.    *)
LEMMA CleanupQuiet ==
  ASSUME PreparedInv,
         \/ \E x \in held : DropRows(x)
         \/ \E x \in spawned : spawn_close(x)
         \/ DropQuery \/ ConnDown \/ IdleTimer \/ UNCHANGED vars
         \/ queue # << >> /\ ServeClose(Head(queue))
  PROVE  Quiet
<1>u. UNCHANGED call => \A t \in Tasks : Settles(t) BY DEF Settles
<1>q. UNCHANGED queue => Requests' = Requests BY DEF Requests, IsClose
<1>1. CASE (\E x \in held : DropRows(x)) \/ DropQuery \/ IdleTimer \/ UNCHANGED vars
  <2>1. UNCHANGED <<call, given, queue, log>> BY <1>1 DEF DropRows, DropQuery, IdleTimer, vars
  <2> QED BY <1>q, <1>u, <2>1 DEF Quiet
<1>2. ASSUME NEW x \in spawned, spawn_close(x) PROVE Quiet
  <2> DEFINE e == [id |-> 0, n |-> 0, op |-> "sqlclose", of |-> x, parameters |-> None, rows |-> None]
  <2>1. UNCHANGED <<call, given, log>> /\ queue' = IF conn = "up" THEN Append(queue, e) ELSE queue
    BY <1>2 DEF spawn_close
  <2>2. IsClose(e) BY DEF IsClose
  <2> HIDE DEF e
  <2>3. conn = "up" => Extends(queue', queue, e) BY <2>1, AppendExtends DEF PreparedInv, Types
  <2>4. Requests' \subseteq Requests BY <1>q, <2>1, <2>2, <2>3, RequestsGrow
  <2> QED BY <1>u, <2>1, <2>4 DEF Quiet
<1>3. CASE ConnDown
  <2>1. /\ queue' = << >> /\ UNCHANGED <<given, log>>
        /\ call' = [t \in Tasks |-> IF call[t].st = "waiting" /\ call[t].reply = None
                                    THEN [call[t] EXCEPT !.reply = "fail"] ELSE call[t]]
    BY <1>3 DEF ConnDown
  <2>2. Requests' \subseteq Requests
    <3>1. \A k \in 1..Len(queue') : FALSE BY <2>1
    <3> QED BY <3>1 DEF Requests
  <2>3. ASSUME NEW t \in Tasks PROVE Settles(t)
    <3>1. CASE Waiting(t) /\ call[t].reply = None
      <4>1. call'[t] = [call[t] EXCEPT !.reply = "fail"] BY <2>1, <3>1 DEF Waiting
      <4>2. IsCall(call[t]) BY <3>1 DEF PreparedInv, Types, CallType
      <4>3. /\ call'[t].st = "waiting" /\ SameCall(t)
            /\ call'[t].pos = call[t].pos /\ call'[t].id = call[t].id /\ call'[t].reply = "fail"
        BY <3>1, <4>1, <4>2 DEF IsCall, Waiting, SameCall
      <4> QED BY <3>1, <4>3 DEF Settles
    <3>2. CASE ~(Waiting(t) /\ call[t].reply = None)
      <4>1. call'[t] = call[t] BY <2>1, <3>2 DEF Waiting
      <4> QED BY <4>1 DEF Settles
    <3> QED BY <3>1, <3>2
  <2> QED BY <2>1, <2>2, <2>3 DEF Quiet
<1>4. CASE queue # << >> /\ ServeClose(Head(queue))
  <2>1. queue' = Tail(queue) /\ UNCHANGED <<call, given, log>> BY <1>4 DEF ServeClose, Serving
  <2>2. Requests' \subseteq Requests BY <1>4, <2>1, RequestsShrink
  <2> QED BY <1>u, <2>1, <2>2 DEF Quiet
<1> QED BY <1>1, <1>2, <1>3, <1>4

(* The first sets of a request, executed; those behind them too, or not.   *)
LEMMA FirstOnes ==
  ASSUME NEW s \in Seq(ParamSets), NEW k \in 0..Len(s)
  PROVE  /\ Account(SubSeq(s, 1, k), s, k)
         /\ Account([j \in 1..Len(s) |-> IF j <= k THEN s[j] ELSE None], s, Len(s))
<1> DEFINE f == [j \in 1..Len(s) |-> IF j <= k THEN s[j] ELSE None]
<1>1. Len(s) \in Nat /\ k \in Nat /\ \A j \in 1..Len(s) : s[j] \in ParamSets OBVIOUS
<1>2. /\ SubSeq(s, 1, k) \in Seq(ParamSets) /\ Len(SubSeq(s, 1, k)) = k
      /\ \A i \in 1..k : SubSeq(s, 1, k)[i] = s[i]
  BY <1>1
<1>3. SubSeq(s, 1, k) \in Seq(ParamSets \cup {None}) BY <1>2
<1>4. f \in [1..Len(s) -> ParamSets \cup {None}] BY <1>1
<1>5. f \in Seq(ParamSets \cup {None}) /\ Len(f) = Len(s) BY <1>1, <1>4
<1>6. \A j \in 1..Len(s) : f[j] \in {s[j], None} OBVIOUS
<1>7. Len(s) \in 0..Len(s) BY <1>1
<1> HIDE DEF f
<1>8. Account(f, s, Len(s)) BY <1>5, <1>6, <1>7 DEF Account
<1>9. Account(SubSeq(s, 1, k), s, k) BY <1>2, <1>3 DEF Account
<1> QED BY <1>8, <1>9 DEF f

(* The daemon serves a request.                                            *)
LEMMA DaemonServes ==
  ASSUME PreparedInv, Daemon, ~ServeClose(Head(queue))
  PROVE  \E rep, e : Serves(Head(queue), rep, e)
<1> DEFINE r == Head(queue)
           s == Executions(r)
<1>1. queue # << >> /\ (ServeExecute(r) \/ ServeError(r) \/ ServeFailedResult(r) \/ ServePrepare(r) \/ ServeGarbled(r))
  BY DEF Daemon
<1>2. Serving /\ r.op # "sqlclose"
  BY <1>1 DEF ServeExecute, ServeError, ServeFailedResult, ServePrepare, ServeGarbled, Executes
<1>3. queue' = Tail(queue) /\ UNCHANGED given BY <1>2 DEF Serving
<1>4. r \in Requests /\ Requests' \subseteq Requests \ {r} BY <1>1, <1>2, <1>3, RequestsShrink DEF IsClose
<1> HIDE DEF r
<1>5. ASSUME r.op # "prepare_sql", NEW rep, Answer(r, rep), Record(r, Len(s))
      PROVE  Serves(r, rep, SubSeq(s, 1, Len(s)))
  <2>1. log' = [log EXCEPT ![r.n] = log[r.n] \o SubSeq(s, 1, Len(s))] BY <1>5 DEF Record
  <2>2. s \in Seq(ParamSets) => Len(s) \in Nat /\ Account(SubSeq(s, 1, Len(s)), s, Len(s))
    <3>1. s \in Seq(ParamSets) => Len(s) \in Nat /\ Len(s) \in 0..Len(s) OBVIOUS
    <3> HIDE DEF s
    <3> QED BY <3>1, FirstOnes
  <2> HIDE DEF s
  <2> QED BY <1>3, <1>4, <1>5, <2>1, <2>2 DEF Serves, s
<1>6. CASE ServeExecute(r)
  <2>1. PICK rep \in {"done", "page"} : Answer(r, rep) BY <1>6 DEF ServeExecute
  <2>2. r.op # "prepare_sql" /\ Record(r, Len(s)) BY <1>6 DEF ServeExecute, Executes
  <2> QED BY <1>5, <2>1, <2>2 DEF r
<1>7. CASE ServeError(r)
  <2>1. PICK k \in 0..(Len(s) - 1) : Record(r, k) BY <1>7 DEF ServeError
  <2>2. r.op # "prepare_sql" /\ Answer(r, "fail") BY <1>7 DEF ServeError, Executes
  <2>3. log' = [log EXCEPT ![r.n] = log[r.n] \o SubSeq(s, 1, k)] BY <2>1 DEF Record
  <2>4. s \in Seq(ParamSets) => k \in Nat /\ Account(SubSeq(s, 1, k), s, k)
    <3>1. s \in Seq(ParamSets) => k \in Nat /\ k \in 0..Len(s) BY <2>1
    <3> HIDE DEF s
    <3> QED BY <3>1, FirstOnes
  <2>5. Serves(r, "fail", SubSeq(s, 1, k))
    <3> HIDE DEF s
    <3> QED BY <1>3, <1>4, <2>2, <2>3, <2>4 DEF Serves, s
  <2> QED BY <2>5 DEF r
<1>8. CASE ServeFailedResult(r)
  <2>1. PICK k \in 0..(Len(s) - 1) :
          log' = [log EXCEPT ![r.n] = log[r.n] \o [j \in 1..Len(s) |-> IF j <= k THEN s[j] ELSE None]]
    BY <1>8 DEF ServeFailedResult
  <2> DEFINE e == [j \in 1..Len(s) |-> IF j <= k THEN s[j] ELSE None]
  <2>2. r.op # "prepare_sql" /\ Answer(r, "done") BY <1>8 DEF ServeFailedResult, Executes
  <2>3. s \in Seq(ParamSets) => Len(s) \in Nat /\ Account(e, s, Len(s))
    <3>1. s \in Seq(ParamSets) => Len(s) \in Nat /\ k \in 0..Len(s) BY <2>1
    <3> HIDE DEF s
    <3> QED BY <3>1, FirstOnes
  <2>4. Serves(r, "done", e)
    <3>1. log' = [log EXCEPT ![r.n] = log[r.n] \o e] BY <2>1
    <3> HIDE DEF e
    <3>2. s \in Seq(ParamSets) => \E m \in Nat : Account(e, s, m) /\ m = Len(s) BY <2>3
    <3> QED BY <1>3, <1>4, <2>2, <3>1, <3>2 DEF Serves
  <2> QED BY <2>4 DEF r
<1>9. CASE ServePrepare(r)
  <2>1. PICK rep \in {"handle", "ack", "fail"} : Answer(r, rep) BY <1>9 DEF ServePrepare
  <2>2. Serves(r, rep, << >>) BY <1>3, <1>4, <1>9, <2>1 DEF Serves, ServePrepare
  <2> QED BY <2>2 DEF r
<1>10. CASE ServeGarbled(r)
  <2>1. Answer(r, "fail") BY <1>10 DEF ServeGarbled
  <2>2. CASE r.op = "prepare_sql"
    <3>1. UNCHANGED log BY <1>10, <2>2 DEF ServeGarbled
    <3>2. Serves(r, "fail", << >>) BY <1>3, <1>4, <2>1, <2>2, <3>1 DEF Serves
    <3> QED BY <3>2 DEF r
  <2>3. CASE r.op # "prepare_sql"
    <3>1. Record(r, Len(s)) BY <1>10, <2>3 DEF ServeGarbled
    <3> QED BY <1>5, <2>1, <2>3, <3>1 DEF r
  <2> QED BY <2>2, <2>3
<1> QED BY <1>1, <1>6, <1>7, <1>8, <1>9, <1>10
-----------------------------------------------------------------------------
(* At first nothing was given and nothing executed.                        *)
LEMMA InitBatch == Init => BatchInv
<1> SUFFICES ASSUME Init PROVE BatchInv OBVIOUS
<1>1. call = [t \in Tasks |-> Idle] /\ given = << >> /\ queue = << >> /\ log = [n \in 1..MaxCalls |-> << >>]
  BY DEF Init
<1>2. \A t \in Tasks : ~Live(t) BY <1>1 DEF Live, Idle
<1>3. (\A k \in 1..Len(queue) : FALSE) /\ (\A n \in 1..Len(given) : FALSE) BY <1>1
<1>4. Requests = {} BY <1>3 DEF Requests
<1>5. HistoryInv
  <2>1. log = [n \in 1..MaxCalls |-> log[n]] BY <1>1
  <2>2. \A n \in 1..MaxCalls : log[n] = << >> BY <1>1
  <2> QED BY <1>3, <2>1, <2>2 DEF HistoryInv
<1>6. NumberInv BY <1>2, <1>4 DEF NumberInv
<1> QED BY <1>2, <1>3, <1>4, <1>5, <1>6 DEF BatchInv, CallInv

(* Every step keeps the invariant.                                         *)
LEMMA NextBatch == PreparedInv /\ BatchInv /\ [Next]_vars => BatchInv'
<1> SUFFICES ASSUME PreparedInv, BatchInv, [Next]_vars PROVE BatchInv' OBVIOUS
<1>1. ASSUME NEW t \in Tasks,
             \/ Prepare(t)
             \/ \E rows \in PageSizes : \/ \E sets \in Batches : ExecuteSets(t, sets, rows)
                                        \/ \E set \in Params : JobExecute(t, set, rows) \/ QueryExecute(t, set, rows)
             \/ \E sets \in Batches : ExecuteBatch(t, sets)
      PROVE  BatchInv'
  BY <1>1, StartKeeps
<1>2. ASSUME NEW t \in Tasks, BatchNext(t) PROVE BatchInv' BY <1>2, BatchKeeps
<1>3. ASSUME NEW t \in Tasks, Prepared(t) \/ PrepareFails(t) \/ ReturnRows(t) \/ Fails(t) \/ Cancel(t) \/ Take(t)
      PROVE  BatchInv'
  BY <1>3, ResolveQuiet, QuietKeeps
<1>4. CASE \/ \E x \in held : DropRows(x)
           \/ \E x \in spawned : spawn_close(x)
           \/ DropQuery \/ ConnDown \/ IdleTimer \/ UNCHANGED vars
  BY <1>4, CleanupQuiet, QuietKeeps
<1>5. CASE Daemon
  <2>1. CASE ServeClose(Head(queue))
    <3>1. queue # << >> BY <1>5 DEF Daemon
    <3> QED BY <2>1, <3>1, CleanupQuiet, QuietKeeps
  <2>2. CASE ~ServeClose(Head(queue)) BY <1>5, <2>2, DaemonServes, ServesKeeps
  <2> QED BY <2>1, <2>2
<1> QED BY <1>1, <1>2, <1>3, <1>4, <1>5 DEF Next

(* Both invariants hold throughout.                                        *)
LEMMA BatchInvariant == Spec => [](PreparedInv /\ BatchInv)
<1>1. Init => PreparedInv /\ BatchInv BY InitPrepared, InitBatch
<1>2. PreparedInv /\ BatchInv /\ [Next]_vars => PreparedInv' /\ BatchInv' BY NextPrepared, NextBatch
<1> QED BY <1>1, <1>2, PTL DEF Spec
-----------------------------------------------------------------------------
(* Query::execute_batch, execute_sets and the execute family: whatever is  *)
(* shared, cancelled, refused half way or lost with the connection, the    *)
(* daemon has taken the first so many of the sets of a call, in order and  *)
(* once each, however they were put on the wire (parameter_sets), and one  *)
(* of them was left out only if its failure was answered like a result.    *)
THEOREM SetsInOrder == Spec => []ExecutedInOrder
<1>1. PreparedInv /\ BatchInv => ExecutedInOrder
  <2> SUFFICES ASSUME BatchInv, NEW n \in 1..Len(given), ~Ambiguous(given[n])
               PROVE  /\ Len(log[n]) <= Len(given[n].sets)
                      /\ \A k \in 1..Len(log[n]) : CameToBe(n, k)
    BY DEF ExecutedInOrder
  <2>1. PICK m \in Nat : Upto(n, m) BY DEF BatchInv
  <2>2. Len(given[n].sets) \in Nat BY DEF BatchInv, HistoryInv
  <2> QED BY <2>1, <2>2 DEF Upto, Account, CameToBe
<1> QED BY <1>1, BatchInvariant, PTL

(* A call that returned Ok, a batch of many round trips included, has had  *)
(* an answer for each of its sets: executed, or failed in the shape of a   *)
(* result.                                                                 *)
THEOREM OkIsServed == Spec => []OkMeansServed
<1>1. PreparedInv /\ BatchInv => OkMeansServed
  <2> SUFFICES ASSUME BatchInv, NEW t \in Tasks, call[t].st = "ok", call[t].kind # "prepare",
                      ~Ambiguous(given[call[t].n])
               PROVE  /\ Len(log[call[t].n]) = Len(call[t].sets)
                      /\ \A k \in 1..Len(call[t].sets) : CameToBe(call[t].n, k)
    BY DEF OkMeansServed
  <2>1. Upto(call[t].n, Len(call[t].sets)) BY DEF BatchInv, CallInv, Live
  <2> QED BY <2>1 DEF Upto, Account, CameToBe
<1> QED BY <1>1, BatchInvariant, PTL
=============================================================================
