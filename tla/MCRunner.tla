------------------------------ MODULE MCRunner ------------------------------
(* Small instances of Runner for TLC.                                      *)
EXTENDS Runner

(* Accepted, rejected, an error of check.exe itself, and 259.              *)
Codes == {0, 1, 5, 259}
=============================================================================
