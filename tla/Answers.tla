------------------------------ MODULE Answers ------------------------------
(***************************************************************************)
(* What a testlib checker, check.exe, promises the loop over the tests     *)
(* through the one file all of its reports go to: a call that is judged is *)
(* answered from the report of that call, and from nothing that others     *)
(* leave there or write meanwhile.  It promises nothing of the calls that  *)
(* are doubtful: no check.exe that reports, or one that was not alone.     *)
(***************************************************************************)
CONSTANTS
  Calls,     \* the outputs to be judged
  Nobody     \* no call

VARIABLES
  at,        \* the call that is being answered
  answer,    \* its answer, once it has one
  rep,       \* the report file
  doubtful   \* the calls that nothing is promised of

vars == <<at, answer, rep, doubtful>>

NoReport == [call |-> Nobody, accepted |-> FALSE]
Contents == [call : Calls, accepted : BOOLEAN] \union {NoReport}

Init == at = Nobody /\ answer = "none" /\ rep = NoReport /\ doubtful = {}

(* A check.exe, on whatever call, comes to something, and may leave, write *)
(* or remove a report.                                                     *)
ComesTo(c) ==
  /\ at = Nobody
  /\ rep' \in Contents
  /\ doubtful' \in {doubtful, doubtful \union {c}}
  /\ UNCHANGED answer

Run(c) == ComesTo(c) /\ UNCHANGED at

Judge(c) ==
  /\ ComesTo(c) /\ at' = c
  /\ c \notin doubtful' => rep'.call = c

(* Others may still write, but not to the report of a call that counts.    *)
Disturb ==
  /\ at \in doubtful
  /\ rep' \in Contents
  /\ UNCHANGED <<at, answer, doubtful>>

Answer ==
  /\ at # Nobody /\ answer = "none" /\ rep # NoReport
  /\ answer' = IF rep.accepted THEN "ok" ELSE "bad"
  /\ UNCHANGED <<at, rep, doubtful>>

(* There is no answer only if there is no report.                          *)
GiveUp ==
  /\ at # Nobody /\ answer = "none" /\ rep = NoReport
  /\ at' = Nobody
  /\ UNCHANGED <<answer, rep, doubtful>>

Remove ==
  /\ at # Nobody /\ answer # "none"
  /\ at' = Nobody /\ answer' = "none"
  /\ rep' \in {rep, NoReport}
  /\ UNCHANGED doubtful

Next ==
  \/ \E c \in Calls : Run(c) \/ Judge(c)
  \/ Disturb \/ Answer \/ GiveUp \/ Remove

Spec == Init /\ [][Next]_vars

=============================================================================
