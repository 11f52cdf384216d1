---------------------------- MODULE RequestReply ----------------------------
(***************************************************************************)
(* What a connection promises to the callers of `send', with no queue, no  *)
(* correlation map and no wire: a call that was submitted is decided at    *)
(* most once, by its own answer or by a failure; it is never answered once *)
(* the connection is closed; it returns only what was decided; and a       *)
(* caller that gave up is never heard of again.                            *)
(***************************************************************************)
CONSTANT Calls

VARIABLES
  phase,    \* "idle", "active", "returned" or "cancelled"
  outcome,  \* "none", "answered" by its own answer, or "failed"
  open      \* the connection can still answer

vars == <<phase, outcome, open>>

Init == /\ phase = [c \in Calls |-> "idle"]
        /\ outcome = [c \in Calls |-> "none"]
        /\ open = TRUE

Undecided == {c \in Calls : phase[c] = "active" /\ outcome[c] = "none"}

Submit(c) == /\ phase[c] = "idle"
             /\ phase' = [phase EXCEPT ![c] = "active"]
             /\ UNCHANGED <<outcome, open>>

(* A request that cannot be sent at all fails at once.                     *)
Reject(c) == /\ phase[c] = "idle" \/ (c \in Undecided /\ ~open)
             /\ phase' = [phase EXCEPT ![c] = "returned"]
             /\ outcome' = [outcome EXCEPT ![c] = "failed"]
             /\ UNCHANGED open

Answer(c) == /\ open /\ c \in Undecided
             /\ outcome' = [outcome EXCEPT ![c] = "answered"]
             /\ UNCHANGED <<phase, open>>

(* One call fails, or a close takes several with it.                       *)
Fail(S) == /\ S \subseteq Undecided
           /\ outcome' = [c \in Calls |-> IF c \in S THEN "failed" ELSE outcome[c]]
           /\ open' = FALSE \/ open' = open
           /\ UNCHANGED phase

Return(c) == /\ phase[c] = "active" /\ outcome[c] # "none"
             /\ phase' = [phase EXCEPT ![c] = "returned"]
             /\ UNCHANGED <<outcome, open>>

Cancel(c) == /\ phase[c] = "active"
             /\ phase' = [phase EXCEPT ![c] = "cancelled"]
             /\ outcome' = [outcome EXCEPT ![c] = "none"]
             /\ UNCHANGED open

(* Several calls may fail in one step, for a close drops them together.    *)
Next == \/ \E c \in Calls : \/ Submit(c) \/ Reject(c) \/ Answer(c)
                            \/ Return(c) \/ Cancel(c)
        \/ \E S \in SUBSET Calls : Fail(S)

Spec == Init /\ [][Next]_vars
=============================================================================
