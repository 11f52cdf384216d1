---------------------------- MODULE MCDispatcher ----------------------------
(* Instances of Dispatcher for TLC.                                        *)
EXTENDS Dispatcher, TLC

CONSTANTS c1, c2, exit, i1, i2, i3

MCIds == {i1, i2, i3}

(* Two callers; with and without the Exit that `Drop for Job' spawns.      *)
MCCallers == {c1, c2}
MCCalls   == MCCallers \cup {exit}

(* One allocator per connection: ids are distinct.                         *)
MCIdOf == [c \in Calls |-> CASE c = c1 -> i1 [] c = c2 -> i2 [] OTHER -> i3]

(* A stream allocates ids of its own: two allocators with one prefix.      *)
MCSharedIdOf == [c \in Calls |-> i1]

(* A request acknowledged ambiguously, one that returns rows, and Exit.    *)
MCRequestOf == [c \in Calls |-> CASE c = c1 -> "GetDbJob" [] c = c2 -> "Sql" [] OTHER -> "Exit"]
=============================================================================
