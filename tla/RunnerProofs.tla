---------------------------- MODULE RunnerProofs ----------------------------
(***************************************************************************)
(* Theorems about Runner, for every number of calls, every limit and every *)
(* set of exit codes.                                                      *)
(***************************************************************************)
EXTENDS Runner, TLAPS

(* The places of a call between CreateProcess and the end of the loop.     *)
Open == {"start"} \union Watching

(* A call begins with nothing known of its check.exe, which runs only      *)
(* within the loop that watches it.                                        *)
CallInv ==
  /\ \A c \in Calls : c > call => ended[c] = NotEnded /\ results[c] = "none"
  /\ pc \in {"begin", "create"} => ended[call] = NotEnded
  /\ pc \notin {"remove", "done"} => results[call] = "none"
  /\ pc = "remove" => results[call] # "none"
  /\ state = "running" => pc \in Open

(* What the exit code was, within the loop and when the loop has ended.    *)
EndInv ==
  /\ pc \in Open =>
       /\ state \in {"none", "running"} => ended[call] = NotEnded
       /\ state = "ended" => ended[call] = code /\ code \in ExitCodes
  /\ pc = "report" /\ ret \in Verdicts =>
       /\ state \in {"none", "ended"}
       /\ state = "none" => ended[call] = NotEnded
       /\ state = "ended" => ended[call] = ret

(* Whose report the file holds, if no killed process was there still when  *)
(* check.exe was started.                                                  *)
ReportInv ==
  call \notin crowded /\ (pc \in Open \/ Answering) =>
    /\ dying = {}
    /\ pc # "remove" /\ rep # before => OwnReport

(* That there is one, if check.exe is there and leaves one.                *)
PresentInv ==
  call \notin missing \union crowded =>
    /\ pc \in Open =>
         /\ state # "none"
         /\ state = "ended" /\ code \in Verdicts => OwnReport
    /\ Answering => OwnReport

(* What it says, if check.exe is no liar either.                           *)
HonestInv ==
  call \notin liars \union crowded =>
    /\ pc \in Open =>
         /\ state # "none"
         /\ state = "ended" /\ code \in Verdicts => rep = Report(call, code)
    /\ pc = "report" /\ ret \in Verdicts =>
         state = "ended" /\ rep = Report(call, ret)

IInv == TypeOK /\ CallInv /\ EndInv

LEMMA Constants ==
  /\ N \in Nat \ {0} /\ MaxTime \in Nat /\ TickRange \in Nat \ {0} /\ Threads \in Nat
  /\ TimeLimit \in Nat /\ Eps \in Nat
  /\ StillActive \in Int \ Verdicts /\ ExitCodes \subseteq Int
  /\ NotEnded \notin Int /\ Killed \notin Int
  /\ Empty \notin Verdicts /\ NoFile \notin Reports
BY ConstantsAssumption, NoFileAssumption

LEMMA InitIInv == Init => IInv
BY Constants DEF Init, IInv, TypeOK, CallInv, EndInv, Calls, Open, Watching, Verdicts

(* The next call begins, or it was the last one.                           *)
LEMMA NextCallTyped ==
  ASSUME TypeOK, NextCall
  PROVE  /\ call' \in Calls /\ pc' \in {"begin", "done"}
         /\ pc' = "begin" => call' = call + 1
         /\ pc' = "done" => call' = call
BY Constants DEF TypeOK, NextCall, Calls

LEMMA ReportTyped ==
  ASSUME NEW c \in Calls, NEW n \in Verdicts \union {Empty}
  PROVE  /\ Report(c, n) \in Reports
         /\ Report(c, n).call = c /\ Report(c, n).number = n
BY DEF Report, Reports

LEMMA NextTypeOK == TypeOK /\ [Next]_vars => TypeOK'
<1> SUFFICES ASSUME TypeOK, [Next]_vars PROVE TypeOK'
  OBVIOUS
<1> USE Constants DEF TypeOK, time, history, Goto, Watching
<1>1. CASE Begin
  <2>1. CASE pc' = "create" /\ UNCHANGED <<call, results>>
    BY <1>1, <2>1 DEF Begin
  <2>2. CASE Abort
    BY <1>1, <2>2, NextCallTyped DEF Begin, Abort
  <2> QED BY <1>1, <2>1, <2>2 DEF Begin
<1>2. CASE CreateProcess    BY <1>2 DEF CreateProcess
<1>3. CASE StartTimer       BY <1>3 DEF StartTimer
<1>4. CASE GetExitCode      BY <1>4 DEF GetExitCode, Verdicts
<1>5. CASE GetProcessTimes  BY <1>5 DEF GetProcessTimes
<1>6. CASE CheckTime        BY <1>6 DEF CheckTime
<1>7. CASE Kill             BY <1>7 DEF Kill, Terminate, Verdicts
<1>8. CASE ReadReport
  <2>1. CASE Abort
    BY <1>8, <2>1, NextCallTyped DEF ReadReport, Abort
  <2>2. CASE /\ results' = [results EXCEPT ![call] = IF rep.number = 0 THEN "ok" ELSE "bad"]
             /\ pc' = "remove" /\ UNCHANGED call
    BY <1>8, <2>2 DEF ReadReport
  <2> QED BY <1>8, <2>1, <2>2 DEF ReadReport
<1>9. CASE RemoveReport
  BY <1>9, NextCallTyped DEF RemoveReport
<1>10. CASE \E c \in Calls : Write(c)
  BY <1>10 DEF Write, Report, Reports
<1>11. CASE \E c \in Calls : Gone(c)
  BY <1>11 DEF Gone
<1>12. CASE Exit
  BY <1>12, ReportTyped DEF Exit, OwnReport
<1>13. CASE Tick            BY <1>13 DEF Tick
<1>14. CASE UNCHANGED vars  BY <1>14 DEF vars
<1> QED BY <1>1, <1>2, <1>3, <1>4, <1>5, <1>6, <1>7, <1>8, <1>9, <1>10, <1>11, <1>12,
           <1>13, <1>14 DEF Next, AnswersMatch

(* The end of a call.                                                      *)
LEMMA NextCallKeeps ==
  ASSUME TypeOK, CallInv, EndInv, NextCall, state # "running",
         UNCHANGED <<state, code, ret, ended>>,
         \A c \in Calls : c > call => results'[c] = results[c]
  PROVE  CallInv' /\ EndInv'
<1>1. /\ call \in Calls /\ call' \in Calls /\ pc' \in {"begin", "done"}
      /\ pc' = "begin" => call' = call + 1
      /\ pc' = "done" => call' = call
  BY NextCallTyped DEF TypeOK
<1>2. \A c \in Calls : c > call' => c > call
  BY <1>1, Constants DEF Calls
<1>3. pc' = "begin" => call' > call
  BY <1>1, Constants DEF Calls
<1> QED BY <1>1, <1>2, <1>3 DEF CallInv, EndInv, Open, Watching

LEMMA NextIInv == IInv /\ [Next]_vars => IInv'
<1> SUFFICES ASSUME IInv, [Next]_vars PROVE IInv'
  OBVIOUS
<1>0. TypeOK' /\ TypeOK /\ CallInv /\ EndInv
  BY NextTypeOK DEF IInv
<1> SUFFICES CallInv' /\ EndInv'
  BY <1>0 DEF IInv
<1> USE <1>0, Constants DEF Goto, Open, Watching, history
<1>1. CASE Begin
  <2>1. CASE pc' = "create" /\ UNCHANGED <<call, results>>
    BY <1>1, <2>1 DEF Begin, CallInv, EndInv
  <2>2. CASE Abort
    <3>1. state # "running" /\ UNCHANGED <<state, code, ret, ended>>
      BY <1>1 DEF Begin, CallInv
    <3>2. \A c \in Calls : c > call => results'[c] = results[c]
      BY <2>2 DEF Abort, TypeOK, Calls
    <3> QED BY <2>2, <3>1, <3>2, NextCallKeeps DEF Abort
  <2> QED BY <1>1, <2>1, <2>2 DEF Begin
<1>2. CASE CreateProcess    BY <1>2 DEF CreateProcess, CallInv, EndInv
<1>3. CASE StartTimer       BY <1>3 DEF StartTimer, CallInv, EndInv
<1>4. CASE GetExitCode
  BY <1>4 DEF GetExitCode, ExitCode, TypeOK, CallInv, EndInv, Verdicts
<1>5. CASE GetProcessTimes  BY <1>5 DEF GetProcessTimes, CallInv, EndInv
<1>6. CASE CheckTime        BY <1>6 DEF CheckTime, CallInv, EndInv
<1>7. CASE Kill
  BY <1>7 DEF Kill, Terminate, TypeOK, CallInv, EndInv, Verdicts, Calls
<1>8. CASE ReadReport
  <2>1. state # "running" /\ UNCHANGED <<state, code, ret, ended>>
    BY <1>8 DEF ReadReport, CallInv
  <2>2. CASE Abort
    <3>2. \A c \in Calls : c > call => results'[c] = results[c]
      BY <2>2 DEF Abort, TypeOK, Calls
    <3> QED BY <2>1, <2>2, <3>2, NextCallKeeps DEF Abort
  <2>3. CASE /\ results' = [results EXCEPT ![call] = IF rep.number = 0 THEN "ok" ELSE "bad"]
             /\ pc' = "remove" /\ UNCHANGED call
    BY <2>1, <2>3 DEF TypeOK, CallInv, EndInv, Calls
  <2> QED BY <1>8, <2>2, <2>3 DEF ReadReport
<1>9. CASE RemoveReport
  <2>1. state # "running" /\ UNCHANGED <<state, code, ret, ended, results>>
    BY <1>9 DEF RemoveReport, CallInv
  <2> QED BY <1>9, <2>1, NextCallKeeps DEF RemoveReport
<1>10. CASE \E c \in Calls : Write(c)
  BY <1>10 DEF Write, CallInv, EndInv
<1>11. CASE \E c \in Calls : Gone(c)
  BY <1>11 DEF Gone, CallInv, EndInv
<1>12. CASE Exit
  BY <1>12 DEF Exit, TypeOK, CallInv, EndInv, Calls
<1>13. CASE Tick            BY <1>13 DEF Tick, CallInv, EndInv
<1>14. CASE UNCHANGED vars  BY <1>14 DEF vars, CallInv, EndInv
<1> QED BY <1>1, <1>2, <1>3, <1>4, <1>5, <1>6, <1>7, <1>8, <1>9, <1>10, <1>11, <1>12,
           <1>13, <1>14 DEF Next, AnswersMatch

LEMMA Invariance == Spec => []IInv
BY InitIInv, NextIInv, PTL DEF Spec

-----------------------------------------------------------------------------
(* The report.                                                             *)

LEMMA InitReportInv == Init => ReportInv
BY DEF Init, ReportInv, Open, Watching

LEMMA NextReportInv == IInv /\ ReportInv /\ [Next]_vars => ReportInv'
<1> SUFFICES ASSUME IInv, ReportInv, [Next]_vars PROVE ReportInv'
  OBVIOUS
<1>0. TypeOK /\ CallInv
  BY DEF IInv
<1> USE <1>0, Constants DEF Goto, Open, Watching, Answering, OwnReport, ReportInv, history
<1>1. CASE Begin
  <2>1. CASE Abort
    BY <1>1, <2>1, NextCallTyped DEF Abort
  <2> QED BY <1>1, <2>1 DEF Begin
<1>2. CASE CreateProcess    BY <1>2 DEF CreateProcess
<1>3. CASE StartTimer       BY <1>3 DEF StartTimer
<1>4. CASE GetExitCode      BY <1>4 DEF GetExitCode
<1>5. CASE GetProcessTimes  BY <1>5 DEF GetProcessTimes
<1>6. CASE CheckTime        BY <1>6 DEF CheckTime
<1>7. CASE Kill             BY <1>7 DEF Kill, Terminate, Verdicts
<1>8. CASE ReadReport
  <2>1. CASE Abort
    BY <1>8, <2>1, NextCallTyped DEF Abort
  <2> QED BY <1>8, <2>1 DEF ReadReport
<1>9. CASE RemoveReport
  BY <1>9, NextCallTyped DEF RemoveReport
<1>10. CASE \E c \in Calls : Write(c)
  <2>1. PICK c \in Calls : Write(c)
    BY <1>10
  <2>2. c \in Writers /\ rep' \in Reports /\ rep'.call = c
        /\ UNCHANGED <<call, pc, state, dying, ret, before, crowded>>
    BY <2>1 DEF Write, Report, Reports
  <2>3. CASE call \notin crowded /\ (pc \in Open \/ Answering)
    <3>1. dying = {}
      BY <2>3
    <3>2. state = "running" /\ c = call
      BY <2>2, <3>1 DEF Writers
    <3> QED BY <2>2, <3>1, <3>2
  <2> QED BY <2>2, <2>3
<1>11. CASE \E c \in Calls : Gone(c)
  BY <1>11 DEF Gone
<1>12. CASE Exit            BY <1>12 DEF Exit
<1>13. CASE Tick            BY <1>13 DEF Tick
<1>14. CASE UNCHANGED vars  BY <1>14 DEF vars
<1> QED BY <1>1, <1>2, <1>3, <1>4, <1>5, <1>6, <1>7, <1>8, <1>9, <1>10, <1>11, <1>12,
           <1>13, <1>14 DEF Next, AnswersMatch

LEMMA ReportInvariance == Spec => []ReportInv
BY NextReportInv, Invariance, InitReportInv, PTL DEF Spec

LEMMA InitPresent == Init => PresentInv
BY DEF Init, PresentInv, Open, Watching, Answering

LEMMA NextPresent == IInv /\ ReportInv /\ PresentInv /\ [Next]_vars => PresentInv'
<1> SUFFICES ASSUME IInv, ReportInv, PresentInv, [Next]_vars PROVE PresentInv'
  OBVIOUS
<1>0. TypeOK /\ CallInv
  BY DEF IInv
<1> USE <1>0, Constants DEF Goto, Open, Watching, Answering, OwnReport, PresentInv, history
<1>1. CASE Begin
  <2>1. CASE Abort
    BY <1>1, <2>1, NextCallTyped DEF Abort, Begin
  <2> QED BY <1>1, <2>1 DEF Begin
<1>2. CASE CreateProcess    BY <1>2 DEF CreateProcess
<1>3. CASE StartTimer       BY <1>3 DEF StartTimer
<1>4. CASE GetExitCode
  BY <1>4 DEF GetExitCode, ExitCode, TypeOK, Verdicts
<1>5. CASE GetProcessTimes  BY <1>5 DEF GetProcessTimes
<1>6. CASE CheckTime        BY <1>6 DEF CheckTime
<1>7. CASE Kill             BY <1>7 DEF Kill, Verdicts
<1>8. CASE ReadReport
  <2>1. CASE Abort
    BY <1>8, <2>1, NextCallTyped DEF Abort, ReadReport
  <2> QED BY <1>8, <2>1 DEF ReadReport
<1>9. CASE RemoveReport
  BY <1>9, NextCallTyped DEF RemoveReport
<1>10. CASE \E c \in Calls : Write(c)
  <2>1. PICK c \in Calls : Write(c)
    BY <1>10
  <2>2. c \in Writers /\ UNCHANGED <<call, pc, state, code, dying, ret, history>>
    BY <2>1 DEF Write
  <2>3. call \notin crowded /\ (pc \in Open \/ Answering) => state = "running"
    BY <2>2 DEF Writers, ReportInv
  <2> QED BY <2>2, <2>3 DEF CallInv
<1>11. CASE \E c \in Calls : Gone(c)
  BY <1>11 DEF Gone
<1>12. CASE Exit
  BY <1>12 DEF Exit, CallInv
<1>13. CASE Tick            BY <1>13 DEF Tick
<1>14. CASE UNCHANGED vars  BY <1>14 DEF vars
<1> QED BY <1>1, <1>2, <1>3, <1>4, <1>5, <1>6, <1>7, <1>8, <1>9, <1>10, <1>11, <1>12,
           <1>13, <1>14 DEF Next, AnswersMatch

LEMMA PresentInvariance == Spec => []PresentInv
BY NextPresent, Invariance, ReportInvariance, InitPresent, PTL DEF Spec

LEMMA InitHonest == Init => HonestInv /\ ResultIsExitCode
BY DEF Init, HonestInv, ResultIsExitCode, Open, Watching

(* A step that leaves the results of all calls, and how those that have    *)
(* one ended.                                                              *)
LEMMA ResultsKept ==
  ASSUME ResultIsExitCode, UNCHANGED results,
         liars \subseteq liars', crowded \subseteq crowded',
         \A c \in Calls : results[c] = "none" \/ ended'[c] = ended[c]
  PROVE  ResultIsExitCode'
BY DEF ResultIsExitCode

LEMMA AbortKept ==
  ASSUME TypeOK, ResultIsExitCode, Abort, UNCHANGED <<ended, liars, crowded>>
  PROVE  ResultIsExitCode'
BY DEF TypeOK, Abort, ResultIsExitCode

LEMMA NextHonest ==
  /\ IInv /\ ReportInv /\ HonestInv /\ ResultIsExitCode /\ [Next]_vars
  => HonestInv' /\ ResultIsExitCode'
<1> SUFFICES ASSUME IInv, ReportInv, HonestInv, ResultIsExitCode, [Next]_vars
             PROVE  HonestInv' /\ ResultIsExitCode'
  OBVIOUS
<1>0. TypeOK /\ CallInv /\ EndInv
  BY DEF IInv
<1> USE <1>0, Constants DEF Goto, Open, Watching, HonestInv, history
<1>1. CASE Begin
  <2>1. CASE Abort
    BY <1>1, <2>1, NextCallTyped, AbortKept DEF Abort, Begin
  <2> QED BY <1>1, <2>1, ResultsKept DEF Begin
<1>2. CASE CreateProcess    BY <1>2, ResultsKept DEF CreateProcess
<1>3. CASE StartTimer       BY <1>3, ResultsKept DEF StartTimer
<1>4. CASE GetExitCode
  BY <1>4, ResultsKept DEF GetExitCode, ExitCode, TypeOK, Verdicts
<1>5. CASE GetProcessTimes  BY <1>5, ResultsKept DEF GetProcessTimes
<1>6. CASE CheckTime        BY <1>6, ResultsKept DEF CheckTime
<1>7. CASE Kill
  <2>1. HonestInv'
    BY <1>7 DEF Kill, Verdicts
  <2>2. UNCHANGED <<results, liars, crowded>> /\ \A c \in Calls : c # call => ended'[c] = ended[c]
    BY <1>7 DEF Kill, Terminate, TypeOK
  <2>3. results[call] = "none"
    BY <1>7 DEF Kill, CallInv
  <2> QED BY <2>1, <2>2, <2>3, ResultsKept
<1>8. CASE ReadReport
  <2>1. CASE Abort
    BY <1>8, <2>1, NextCallTyped, AbortKept DEF Abort, ReadReport
  <2>2. CASE /\ ret \in Verdicts
             /\ results' = [results EXCEPT ![call] = IF rep.number = 0 THEN "ok" ELSE "bad"]
             /\ pc' = "remove" /\ UNCHANGED call
    <3>1. UNCHANGED <<ended, liars, crowded>> /\ HonestInv'
      BY <1>8, <2>2 DEF ReadReport
    <3> SUFFICES ASSUME call \notin liars \union crowded PROVE ResultIsExitCode'
      BY <2>2, <3>1 DEF TypeOK, ResultIsExitCode
    <3>3. rep = Report(call, ret) /\ ended[call] = ret
      BY <1>8, <2>2 DEF ReadReport, EndInv
    <3>2. rep.number = ret
      BY <3>3 DEF Report
    <3> QED BY <2>2, <3>1, <3>2, <3>3 DEF TypeOK, ResultIsExitCode
  <2> QED BY <1>8, <2>1, <2>2 DEF ReadReport
<1>9. CASE RemoveReport
  BY <1>9, NextCallTyped, ResultsKept DEF RemoveReport
<1>10. CASE \E c \in Calls : Write(c)
  <2>1. PICK c \in Calls : Write(c)
    BY <1>10
  <2>2. c \in Writers /\ UNCHANGED <<call, pc, state, code, dying, ret, results, history>>
    BY <2>1 DEF Write
  <2>3. call \notin crowded /\ (pc \in Open \/ (pc = "report" /\ ret \in Verdicts))
          => state = "running"
    BY <2>2 DEF Writers, ReportInv, Answering
  <2>4. HonestInv'
    BY <2>2, <2>3 DEF CallInv
  <2> QED BY <2>2, <2>4, ResultsKept
<1>11. CASE \E c \in Calls : Gone(c)
  BY <1>11, ResultsKept DEF Gone
<1>12. CASE Exit
  <2>1. PICK c \in ExitCodes :
          /\ liars' = IF c \in Verdicts /\ rep # Report(call, c)
                        THEN liars \union {call} ELSE liars
          /\ code' = c /\ ended' = [ended EXCEPT ![call] = c]
    BY <1>12 DEF Exit
  <2>2. state = "running" /\ pc \in Open /\ results[call] = "none"
        /\ UNCHANGED <<call, pc, rep, ret, results, crowded>> /\ state' = "ended"
    BY <1>12 DEF Exit, CallInv
  <2>3. HonestInv'
    BY <2>1, <2>2
  <2>4. \A d \in Calls : d # call => ended'[d] = ended[d]
    BY <2>1 DEF TypeOK
  <2> QED BY <2>1, <2>2, <2>3, <2>4, ResultsKept
<1>13. CASE Tick            BY <1>13, ResultsKept DEF Tick
<1>14. CASE UNCHANGED vars  BY <1>14, ResultsKept DEF vars
<1> QED BY <1>1, <1>2, <1>3, <1>4, <1>5, <1>6, <1>7, <1>8, <1>9, <1>10, <1>11, <1>12,
           <1>13, <1>14 DEF Next, AnswersMatch

-----------------------------------------------------------------------------
(* The theorems.                                                           *)

(* Every variable keeps its type; the code returned is testlib's, or -1.   *)
THEOREM TypeCorrect == Spec => []TypeOK
<1>1. IInv => TypeOK
  BY DEF IInv
<1> QED BY <1>1, Invariance, PTL

(* If no killed process was there still, the report that is read for a     *)
(* result is that of this call, or none was written; and nobody writes it. *)
THEOREM ReportSettledCorrect == Spec => []ReportSettled
<1>1. IInv /\ ReportInv => ReportSettled
  <2> SUFFICES ASSUME IInv, ReportInv, pc = "report", ret \in Verdicts
               PROVE  /\ state # "running" /\ ended[call] # Killed
                      /\ rep # before /\ call \notin crowded => OwnReport
                      /\ state = "ended" => ended[call] = ret
    BY DEF ReportSettled
  <2>1. EndInv /\ ReportInv /\ NotEnded # Killed
    BY ConstantsAssumption DEF IInv
  <2> QED BY <2>1, Constants DEF EndInv, ReportInv, Answering, Verdicts
<1> QED BY <1>1, Invariance, ReportInvariance, PTL

(* For a check.exe that is there, alone, and exits with what it wrote, an  *)
(* output is accepted if and only if it exited with 0 on it.               *)
THEOREM ResultIsExitCodeCorrect == Spec => []ResultIsExitCode
BY NextHonest, Invariance, ReportInvariance, InitHonest, PTL DEF Spec

-----------------------------------------------------------------------------
(* The refinement.                                                         *)

At == IF Answering THEN call ELSE 0

Answered == IF pc = "remove" THEN results[call] ELSE "none"

mapped == <<At, Answered, Read(rep), Doubtful>>

LEMMA ReadTyped ==
  ASSUME NEW r \in Reports \union {NoFile}
  PROVE  /\ Read(r) \in Answers!Contents
         /\ Read(r) = Answers!NoReport <=> r = NoFile
         /\ r # NoFile => Read(r).call = r.call /\ (Read(r).accepted <=> r.number = 0)
<1>1. CASE r = NoFile
  BY <1>1 DEF Read, Answers!Contents, Answers!NoReport
<1>2. CASE r # NoFile
  <2> DEFINE b == r.number = 0
  <2>1. r.call \in Calls /\ b \in BOOLEAN /\ Read(r) = [call |-> r.call, accepted |-> b]
    BY <1>2 DEF Read, Reports
  <2> HIDE DEF b
  <2>2. Read(r) \in [call : Calls, accepted : BOOLEAN]
    BY <2>1
  <2>3. Read(r).call = r.call /\ Read(r).accepted = b
    BY <2>1
  <2>4. Read(r) # Answers!NoReport
    BY <2>1, <2>3 DEF Answers!NoReport, Calls
  <2> QED BY <1>2, <2>2, <2>3, <2>4 DEF b, Answers!Contents
<1> QED BY <1>1, <1>2

LEMMA Places ==
  ASSUME TypeOK
  PROVE  /\ call \in Calls /\ 0 \notin Calls
         /\ Answering => At = call
         /\ ~Answering => At = 0
BY DEF TypeOK, Calls, At

(* A step that nobody sees but the check.exe of the call at hand.          *)
LEMMA RunStep ==
  ASSUME TypeOK, TypeOK', ~Answering, ~Answering',
         Doubtful' \in {Doubtful, Doubtful \union {call}}
  PROVE  Answers!Next
<1>1. call \in Calls /\ At = 0 /\ At' = 0 /\ Answered = "none" /\ Answered' = "none"
  BY Places DEF At, Answered, Answering
<1>2. Read(rep') \in Answers!Contents
  BY ReadTyped DEF TypeOK
<1>3. Answers!Run(call)
  BY <1>1, <1>2 DEF Answers!Run, Answers!ComesTo, At, Answered, Answering
<1> QED BY <1>1, <1>3 DEF Answers!Next

LEMMA StepAnswers ==
  ASSUME IInv, IInv', ReportInv, PresentInv, PresentInv', [Next]_vars
  PROVE  [Answers!Next]_mapped
<1>0. TypeOK /\ TypeOK' /\ CallInv
  BY DEF IInv
<1> USE <1>0 DEF Goto, history
<1>1. CASE Begin
  <2>1. ~Answering /\ Doubtful' = Doubtful
    BY <1>1 DEF Begin, Answering, Doubtful
  <2>2. ~Answering'
    BY <1>1, NextCallTyped DEF Begin, Abort, Answering
  <2> QED BY <2>1, <2>2, RunStep
<1>2. CASE CreateProcess
  <2>1. ~Answering /\ ~Answering'
    BY <1>2 DEF CreateProcess, Answering
  <2>2. Doubtful' \in {Doubtful, Doubtful \union {call}}
    BY <1>2 DEF CreateProcess, Doubtful
  <2> QED BY <2>1, <2>2, RunStep
<1>3. CASE StartTimer \/ GetProcessTimes \/ CheckTime \/ Kill \/ Tick
  <2>1. UNCHANGED Doubtful
    BY <1>3 DEF StartTimer, GetProcessTimes, CheckTime, Kill, Tick, Doubtful
  <2>2. ~Answering /\ ~Answering'
    BY <1>3 DEF StartTimer, GetProcessTimes, CheckTime, Kill, Tick, Answering,
                Watching, Verdicts
  <2> QED BY <2>1, <2>2, RunStep
<1>4. CASE GetExitCode
  <2>1. ~Answering /\ UNCHANGED <<call, rep, Doubtful>>
    BY <1>4 DEF GetExitCode, Answering, Doubtful
  <2>2. CASE ~Answering'
    BY <2>1, <2>2, RunStep
  <2>3. CASE Answering'
    <3>1. /\ call \in Calls /\ At = 0 /\ At' = call
          /\ Answered = "none" /\ Answered' = "none"
      BY <1>4, <2>1, <2>3, Places DEF At, Answered, Answering, GetExitCode
    <3>2. call \notin Doubtful' => rep' \in Reports /\ rep'.call = call
      BY <2>1, <2>3 DEF PresentInv, OwnReport, Doubtful
    <3>3. call \notin Doubtful' => Read(rep').call = call
      BY <3>2, ReadTyped, Constants
    <3>4. Read(rep') \in Answers!Contents
      BY ReadTyped DEF TypeOK
    <3>5. Answers!Judge(call)
      BY <2>1, <3>1, <3>3, <3>4 DEF Answers!Judge, Answers!ComesTo, At, Answered
    <3> QED BY <3>1, <3>5 DEF Answers!Next
  <2> QED BY <2>2, <2>3
<1>5. CASE ReadReport
  <2>1. UNCHANGED <<rep, Doubtful>> /\ Answered = "none" /\ pc = "report"
    BY <1>5 DEF ReadReport, Doubtful, Answered
  <2>2. CASE ret \in Verdicts /\ rep # NoFile
    <3>1. /\ results'[call] = IF rep.number = 0 THEN "ok" ELSE "bad"
          /\ pc' = "remove" /\ UNCHANGED call
      BY <1>5, <2>2 DEF ReadReport, TypeOK
    <3>2. /\ Answering /\ Answering' /\ At = call /\ At' = call /\ At # 0
          /\ Answered' = IF rep.number = 0 THEN "ok" ELSE "bad"
      BY <2>1, <2>2, <3>1, Places DEF At, Answered, Answering
    <3>3. Read(rep) # Answers!NoReport /\ (Read(rep).accepted <=> rep.number = 0)
      BY <2>2, ReadTyped DEF TypeOK
    <3>4. Answers!Answer
      BY <2>1, <3>2, <3>3 DEF Answers!Answer, At, Answered
    <3> QED BY <3>4 DEF Answers!Next
  <2>3. CASE ~(ret \in Verdicts /\ rep # NoFile)
    <3>1. pc' \in {"begin", "done"}
      BY <1>5, <2>3, NextCallTyped DEF ReadReport, Abort
    <3>2. At' = 0 /\ Answered' = "none"
      BY <3>1 DEF At, Answered, Answering
    <3>3. CASE ~Answering
      BY <2>1, <3>2, <3>3 DEF At, mapped
    <3>4. CASE Answering
      <4>1. At # 0 /\ Read(rep) = Answers!NoReport
        BY <2>1, <2>3, <3>4, Places, ReadTyped DEF Answering, TypeOK
      <4>2. Answers!GiveUp
        BY <2>1, <3>2, <4>1 DEF Answers!GiveUp, At, Answered
      <4> QED BY <4>2 DEF Answers!Next
    <3> QED BY <3>3, <3>4
  <2> QED BY <2>2, <2>3
<1>6. CASE RemoveReport
  <2>1. Answering /\ pc = "remove" /\ UNCHANGED Doubtful /\ rep' \in {rep, NoFile}
    BY <1>6 DEF RemoveReport, Answering, Doubtful
  <2>2. pc' \in {"begin", "done"}
    BY <1>6, NextCallTyped DEF RemoveReport
  <2>3. At # 0 /\ At' = 0 /\ Answered' = "none"
    BY <2>1, <2>2, Places DEF At, Answered, Answering
  <2>4. Answered # "none"
    BY <2>1 DEF Answered, CallInv
  <2>5. Read(rep') \in {Read(rep), Answers!NoReport}
    BY <2>1, ReadTyped
  <2>6. Answers!Remove
    BY <2>1, <2>3, <2>4, <2>5 DEF Answers!Remove, At, Answered
  <2> QED BY <2>6 DEF Answers!Next
<1>7. CASE \E c \in Calls : Write(c)
  <2>1. PICK c \in Calls : Write(c)
    BY <1>7
  <2>2. /\ c \in Writers
        /\ UNCHANGED <<call, pc, state, dying, ret, results, Doubtful, At, Answered>>
    BY <2>1 DEF Write, Doubtful, At, Answered, Answering
  <2>3. CASE ~Answering
    BY <2>2, <2>3, RunStep DEF Answering
  <2>4. CASE Answering
    <3>1. call \in crowded
      BY <2>2, <2>4 DEF Writers, ReportInv, CallInv, Answering, Open, Watching
    <3>2. At \in Doubtful
      BY <2>4, <3>1, Places DEF Doubtful
    <3>3. Read(rep') \in Answers!Contents
      BY ReadTyped DEF TypeOK
    <3>4. Answers!Disturb
      BY <2>2, <3>2, <3>3 DEF Answers!Disturb, At, Answered
    <3> QED BY <3>4 DEF Answers!Next
  <2> QED BY <2>3, <2>4
<1>8. CASE Exit
  <2>1. ~Answering /\ ~Answering'
    BY <1>8 DEF Exit, CallInv, Open, Watching, Answering
  <2>2. Doubtful' \in {Doubtful, Doubtful \union {call}}
    BY <1>8 DEF Exit, Doubtful
  <2> QED BY <2>1, <2>2, RunStep
<1>9. CASE (\E c \in Calls : Gone(c)) \/ UNCHANGED vars
  BY <1>9 DEF Gone, vars, mapped, At, Answered, Answering, Doubtful
<1> QED BY <1>1, <1>2, <1>3, <1>4, <1>5, <1>6, <1>7, <1>8, <1>9
        DEF Next, AnswersMatch

(* A call that is judged is answered from its own report, whatever reports *)
(* are there and whoever may still write one, unless it is doubtful.       *)
THEOREM ImplementsAnswersCorrect == Spec => ImplementsAnswers
<1>1. Init => Answers!Init
  BY DEF Init, Answers!Init, Answering, Read, Doubtful, Answers!NoReport
<1>2. mapped = Answers!vars /\ mapped' = Answers!vars'
  BY DEF mapped, Answers!vars, At, Answered
<1>3. IInv /\ IInv' /\ ReportInv /\ PresentInv /\ PresentInv' /\ [Next]_vars
        => [Answers!Next]_(Answers!vars)
  BY <1>2, StepAnswers
<1> QED
  BY <1>1, <1>2, <1>3, Invariance, ReportInvariance, PresentInvariance, PTL
     DEF Spec, ImplementsAnswers, Answers!Spec

-----------------------------------------------------------------------------
(* The clock.                                                              *)

(* What SMT needs to know of the modulus.                                  *)
LEMMA ModNat ==
  ASSUME NEW x \in Int, NEW m \in Nat \ {0}
  PROVE  x % m \in 0 .. m - 1
OBVIOUS

(* The difference of two readings of a counter that wraps around is the    *)
(* time between them, if that is less than a turn of the counter.          *)
LEMMA WrappedDifference ==
  ASSUME NEW m \in Nat \ {0}, NEW b \in Nat, NEW s \in Nat, NEW c \in Nat,
         s <= c, c - s < m
  PROVE  (((b + c) % m) - ((b + s) % m)) % m = c - s
<1> DEFINE rc == (b + c) % m
           rs == (b + s) % m
           q  == ((b + c) \div m) - ((b + s) \div m)
<1>1. rc \in 0 .. m - 1 /\ rs \in 0 .. m - 1
  BY ModNat
<1>2. b + c = m * ((b + c) \div m) + rc /\ b + s = m * ((b + s) \div m) + rs
  OBVIOUS
<1>3. q \in Int /\ m * q = (c - s) - (rc - rs)
  BY <1>1, <1>2
<1> HIDE DEF rc, rs, q
<1>4. q = 0 \/ q = 1
  <2>1. CASE q >= 2   BY <1>1, <1>3, <2>1
  <2>2. CASE q <= -1  BY <1>1, <1>3, <2>2
  <2> QED BY <1>3, <2>1, <2>2
<1>5. CASE q = 0
  <2>1. rc - rs = c - s  BY <1>1, <1>3, <1>5
  <2>2. c - s \in 0 .. m - 1  OBVIOUS
  <2> QED BY <2>1, <2>2 DEF rc, rs
<1>6. CASE q = 1
  <2>1. rc - rs = (c - s) - m  BY <1>1, <1>3, <1>6
  <2>2. \A d \in 0 .. m - 1 : (d - m) % m = d  OBVIOUS
  <2>3. c - s \in 0 .. m - 1  OBVIOUS
  <2> QED BY <2>1, <2>2, <2>3 DEF rc, rs
<1> QED BY <1>4, <1>5, <1>6

(* No check.exe is there, unseen, for longer than it may be.               *)
THEOREM KilledInTimeCorrect == Spec => KilledInTime
<1>1. ASSUME TypeOK, CheckTime, clock - started > TimeLimit + Eps
      PROVE  pc' = "kill"
  <2>1. /\ TickRange \in Nat \ {0} /\ TimeLimit \in Nat /\ Eps \in Nat
        /\ base \in Nat /\ started \in Nat /\ clock \in Nat /\ work \in Nat
        /\ started <= clock /\ clock - started < TickRange
    BY <1>1, ConstantsAssumption DEF TypeOK
  <2>2. Elapsed = clock - started
    BY <2>1, WrappedDifference DEF Elapsed, GetTickCount
  <2>3. work > TimeLimit \/ Distance(Elapsed, work) > Eps
    BY <1>1, <2>1, <2>2 DEF Distance
  <2> QED BY <1>1, <2>3 DEF CheckTime
<1>2. TypeOK /\ [Next]_vars =>
        [CheckTime /\ clock - started > TimeLimit + Eps => pc' = "kill"]_vars
  BY <1>1
<1>3. IInv => TypeOK
  BY DEF IInv
<1> QED BY <1>2, <1>3, Invariance, PTL DEF Spec, KilledInTime

=============================================================================
