------------------------------- MODULE Judging -------------------------------
(***************************************************************************)
(* What the judging service promises the web site, which sees nothing but  *)
(* the table of solutions: a submitted solution is judged once, and the    *)
(* row is left alone ever after.  Until something goes wrong it is judged  *)
(* with a report that it may have; nobody knows when that happens.         *)
(***************************************************************************)
CONSTANTS
  Solutions,   \* ids of the rows the web site may insert
  Blank,       \* the value of the column result before there is a report
  Allowed,     \* Allowed[s]: the reports solution s may be given
  Reports      \* all that may ever be taken for a report

VARIABLES status, result, sound

Init ==
  /\ status = [s \in Solutions |-> "absent"]
  /\ result = [s \in Solutions |-> Blank]
  /\ sound = TRUE

Submit(s) ==
  /\ status[s] = "absent"
  /\ status' = [status EXCEPT ![s] = "unchecked"]
  /\ UNCHANGED <<result, sound>>

Judge(s) ==
  /\ status[s] = "unchecked"
  /\ status' = [status EXCEPT ![s] = "checked"]
  /\ \E r \in Reports :
       /\ sound => r \in Allowed[s]
       /\ result' = [result EXCEPT ![s] = r]
  /\ UNCHANGED sound

Fail == sound /\ sound' = FALSE /\ UNCHANGED <<status, result>>

Next == Fail \/ \E s \in Solutions : Submit(s) \/ Judge(s)

Spec == Init /\ [][Next]_<<status, result, sound>>

=============================================================================
