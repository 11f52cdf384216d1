------------------------------- MODULE MCRows -------------------------------
(* Instances of Rows for TLC.                                              *)
EXTENDS Rows, TLC

CONSTANTS s1, s2

MCTwo == {s1, s2}

(* Two full pages and a short one; a result set that ends with its page.   *)
MCRowCount == [s \in Statements |-> IF s = s1 THEN 5 ELSE 2]
=============================================================================
