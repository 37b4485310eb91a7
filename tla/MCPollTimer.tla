----------------------------- MODULE MCPollTimer -----------------------------
(* A small instance of PollTimer for TLC: a clock_t of four bits.          *)
EXTENDS PollTimer
=============================================================================
