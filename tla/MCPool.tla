------------------------------- MODULE MCPool -------------------------------
(* Instances of Pool for TLC.                                              *)
EXTENDS Pool

CONSTANTS e1, e2, r1, builder
=============================================================================
