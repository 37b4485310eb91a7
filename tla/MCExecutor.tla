----------------------------- MODULE MCExecutor -----------------------------
(* Small instances of Executor for TLC.                                    *)
EXTENDS Executor
=============================================================================
