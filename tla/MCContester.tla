----------------------------- MODULE MCContester -----------------------------
(* Small instances of Contester for TLC: the solutions are model values.   *)
EXTENDS Contester

CONSTANTS s1, s2, s3
=============================================================================
