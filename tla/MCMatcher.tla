----------------------------- MODULE MCMatcher -----------------------------
(* Small instances of Matcher for TLC.                                     *)
EXTENDS Matcher
=============================================================================
