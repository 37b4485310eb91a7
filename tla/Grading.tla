------------------------------ MODULE Grading ------------------------------
(***************************************************************************)
(* What the checkers promise whoever starts them: for each solution, once  *)
(* and for good, either no result, or a compilation error, or a result for *)
(* every one of the tests; and unless something goes wrong on that test,   *)
(* which nobody may know, what became of its own program on it.            *)
(***************************************************************************)
EXTENDS Naturals

CONSTANTS
  Solutions,         \* the solutions to be checked
  N,                 \* tests of a task are 1 .. N
  Pending, Aborted   \* solutions without a result, yet or for good

VARIABLES
  grades,            \* the result of each solution
  doubtful           \* the tests of a solution on which something went wrong

(* A foreign result is what another program, or another test, came to.     *)
Outcomes == {"ok", "bad", "tle", "mle", "crash"}

CompilationError == [status |-> "bad", tests |-> <<>>]

Judged(s) ==
  {g \in [status : {"ok"}, tests : [1 .. N -> Outcomes \union {"foreign"}]] :
     \A i \in 1 .. N : g.tests[i] = "foreign" => <<s, i>> \in doubtful}

Init == grades = [s \in Solutions |-> Pending] /\ doubtful = {}

Grade(s) ==
  /\ grades[s] = Pending
  /\ \/ grades'[s] \in {Aborted, CompilationError}
     \/ grades'[s] \in Judged(s)
  /\ grades' = [grades EXCEPT ![s] = grades'[s]]
  /\ UNCHANGED doubtful

GoWrong(s) ==
  /\ grades[s] = Pending
  /\ \E T \in SUBSET (1 .. N) : doubtful' = doubtful \union ({s} \X T)
  /\ UNCHANGED grades

Next == \E s \in Solutions : Grade(s) \/ GoWrong(s)

Spec == Init /\ [][Next]_<<grades, doubtful>>

=============================================================================
