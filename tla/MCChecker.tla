------------------------------ MODULE MCChecker ------------------------------
(* Small instances of Checker for TLC.                                     *)
EXTENDS Checker
=============================================================================
