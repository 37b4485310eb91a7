---------------------------- MODULE CheckerProofs ----------------------------
(* Proofs about Checker, for any number of solutions and of tests.         *)
EXTENDS Checker, TLAPS

(* The verdict grows by one element a test.                                *)
LoopInv ==
  /\ pc \in {"config", "build", "done"} => test = 1 /\ report = <<>>
  /\ pc \in {"read", "execute", "check", "parse"} => test <= N /\ Len(report) = test - 1
  /\ pc = "remove" => test <= N /\ Len(report) = test
  /\ pc = "save" => test = N + 1 /\ Len(report) = N
  /\ pc = "check" => out # NoFile
  /\ pc = "parse" => shown # NoFile
  /\ \A i \in DOMAIN report : report[i].id = i

Complete == TypeOK /\ LoopInv /\ CompleteReport

-----------------------------------------------------------------------------
(* What an ended process leaves behind.                                    *)
LEMMA EndStep ==
  ASSUME TypeOK, NEW r, End(r)
  PROVE  /\ job' \in Jobs /\ pc' \in {"config", "done"}
         /\ test' = 1 /\ report' = <<>>
         /\ results'[job] = r
         /\ \A j \in Jobs : j # job => results'[j] = results[j]
BY ConstantsAssumption DEF End, TypeOK, Jobs

(* A report with one element more.                                         *)
LEMMA AppendStep ==
  ASSUME NEW s \in Seq(Elements), NEW e \in Elements
  PROVE  /\ Append(s, e) \in Seq(Elements)
         /\ Len(Append(s, e)) = Len(s) + 1
         /\ DOMAIN Append(s, e) = 1 .. Len(s) + 1
         /\ \A i \in DOMAIN s : Append(s, e)[i] = s[i]
         /\ Append(s, e)[Len(s) + 1] = e
         /\ DOMAIN s = 1 .. Len(s) /\ Len(s) \in Nat
OBVIOUS

(* The elements the loop appends are well formed.                          *)
LEMMA ElementType ==
  ASSUME TypeOK, test <= N, NEW o \in Runs,
         NEW r \in {"ok", "bad", "tle", "mle", "crash"}, NEW b \in About \union {NoFile}
  PROVE  /\ Element(r, o, b) \in Elements
         /\ Element(r, o, b).id = test /\ Element(r, o, b).of = o
BY ConstantsAssumption DEF TypeOK, Element, Elements, Tests

(* The files, the processes nobody waits for and the histories are typed.  *)
OthersOK ==
  /\ exe \in Jobs \union {NoFile}
  /\ out \in Runs \union {NoFile} /\ shown \in Runs \union {NoFile}
  /\ rep \in About \union {NoFile}
  /\ compiling \subseteq Jobs /\ closing \subseteq Runs /\ dying \subseteq Outputs
  /\ silent \subseteq Jobs /\ overtaken \subseteq Jobs
  /\ crowded \subseteq Outputs /\ doubtful \subseteq Outputs

LEMMA MayStayIn ==
  ASSUME NEW S, NEW P, NEW T \in MayStay(S, P)
  PROVE  T \subseteq S \union P /\ S \subseteq T
BY DEF MayStay

(* While a test is at hand, it is one of the task.                         *)
LEMMA Places ==
  ASSUME TypeOK, LoopInv, pc \in {"read", "execute", "check", "parse", "remove"}
  PROVE  test \in Tests /\ <<job, test>> \in Outputs /\ Run \in Runs
BY ConstantsAssumption DEF TypeOK, LoopInv, Outputs, Tests, Run, Runs

(* The end of a process keeps the invariant, if what it leaves is a        *)
(* complete verdict or none.                                               *)
LEMMA EndKeepsComplete ==
  ASSUME Complete, NEW r \in Verdicts \union {Pending, Aborted}, End(r),
         OthersOK',
         r \notin {Pending, Aborted} =>
           IF r.status = "bad" THEN r.report = <<>>
           ELSE Len(r.report) = N /\ \A i \in Tests : r.report[i].id = i
  PROVE  Complete'
<1>1. End(r) /\ TypeOK
  BY DEF Complete
<1>2. /\ job' \in Jobs /\ pc' \in {"config", "done"}
      /\ test' = 1 /\ report' = <<>>
      /\ results'[job] = r
      /\ \A j \in Jobs : j # job => results'[j] = results[j]
  BY <1>1, EndStep
<1>3. TypeOK'
  <2>1. results' \in [Jobs -> Verdicts \union {Pending, Aborted}]
    BY <1>1 DEF End, TypeOK
  <2>2. test' \in 1 .. N + 1
    BY <1>2, ConstantsAssumption
  <2>3. report' \in Seq(Elements)
    BY <1>2
  <2> QED
    BY <1>2, <2>1, <2>2, <2>3 DEF TypeOK, OthersOK
<1>4. LoopInv'
  BY <1>2 DEF LoopInv
<1>5. CompleteReport'
  <2> SUFFICES ASSUME NEW j \in Jobs, results'[j] \notin {Pending, Aborted}
               PROVE  IF results'[j].status = "bad" THEN results'[j].report = <<>>
                      ELSE /\ Len(results'[j].report) = N
                           /\ \A i \in Tests : results'[j].report[i].id = i
    BY DEF CompleteReport, Finished
  <2>1. CASE j = job
    BY <2>1, <1>2
  <2>2. CASE j # job
    BY <2>2, <1>2 DEF Complete, CompleteReport, Finished
  <2> QED
    BY <2>1, <2>2
<1> QED
  BY <1>3, <1>4, <1>5 DEF Complete

LEMMA AbortKeepsComplete ==
  ASSUME Complete, Abort, OthersOK'
  PROVE  Complete'
BY EndKeepsComplete DEF Abort

LEMMA InitComplete == Init => Complete
<1> SUFFICES ASSUME Init PROVE Complete
  OBVIOUS
<1>1. TypeOK
  BY ConstantsAssumption DEF Init, TypeOK, Jobs
<1>2. LoopInv
  BY DEF Init, LoopInv
<1>3. CompleteReport
  BY DEF Init, CompleteReport, Finished
<1> QED
  BY <1>1, <1>2, <1>3 DEF Complete

(* The steps of the processes nobody waits for.                            *)
LEMMA OthersStep ==
  ASSUME OthersOK, Others
  PROVE  OthersOK' /\ UNCHANGED own
<1>1. CASE \E j \in Jobs : LateLink(j) \/ CompilerEnds(j)
  BY <1>1 DEF LateLink, CompilerEnds, OthersOK, own, history, files, late
<1>2. CASE \E r \in Runs : LateOutput(r) \/ FilesClosed(r)
  BY <1>2 DEF LateOutput, FilesClosed, OthersOK, own, history, files, late
<1>3. CASE \E j \in Jobs, i \in Tests : LateWrite(j, i) \/ Gone(j, i)
  BY <1>3 DEF LateWrite, Gone, ReportOn, About, OthersOK, own, history, files, late
<1> QED BY <1>1, <1>2, <1>3 DEF Others

LEMMA OthersTyped ==
  ASSUME Complete, [Next]_vars
  PROVE  OthersOK'
<1>0. OthersOK /\ TypeOK /\ LoopInv /\ job \in Jobs
  BY DEF Complete, TypeOK, OthersOK
<1> USE DEF history, files, late
<1>1. CASE ReadMainConfig \/ ReadTest \/ ParseReport \/ RemoveReport \/ SaveResult
  BY <1>0, <1>1 DEF OthersOK, ReadMainConfig, ReadTest, ParseReport, RemoveReport, SaveResult
<1>2. CASE BuildFromSource
  <2>1. PICK outcome \in Compiles : Compile(outcome) /\ NoteBuild(outcome)
    BY <1>2 DEF BuildFromSource
  <2>2. compiling' \subseteq Jobs
    BY <1>0, <2>1, MayStayIn DEF NoteBuild, OthersOK
  <2>3. /\ exe' \in Jobs \union {NoFile}
        /\ silent' \subseteq Jobs /\ overtaken' \subseteq Jobs
    BY <1>0, <2>1 DEF Compile, NoteBuild, OthersOK
  <2> QED BY <1>0, <1>2, <2>2, <2>3 DEF BuildFromSource, OthersOK
<1>3. CASE Execute
  <2>1. Run \in Runs /\ <<job, test>> \in Outputs
    BY <1>0, <1>3, Places DEF Execute
  <2>2. closing' \subseteq Runs /\ out' \in Runs \union {NoFile}
    BY <1>0, <1>3, <2>1, MayStayIn DEF Execute, NoteRun, OthersOK
  <2>3. crowded' \subseteq Outputs
    BY <1>0, <1>3, <2>1 DEF Execute, NoteRun, OthersOK
  <2> QED BY <1>0, <1>3, <2>2, <2>3 DEF Execute, OthersOK
<1>4. CASE RunJudge
  <2>1. /\ <<job, test>> \in Outputs
        /\ \A says \in {Accepted, Rejected} : Written(says) \in About
    BY <1>0, <1>4, Places DEF RunJudge, Written, ReportOn, About
  <2>2. dying' \subseteq Outputs
    BY <1>0, <1>4, <2>1, MayStayIn DEF RunJudge, OthersOK
  <2>3. doubtful' \subseteq Outputs
    BY <1>0, <1>4, <2>1 DEF RunJudge, Doubt, OthersOK
  <2> QED BY <1>0, <1>4, <2>1, <2>2, <2>3 DEF RunJudge, OthersOK
<1>5. CASE Others
  BY <1>0, <1>5, OthersStep
<1>6. CASE UNCHANGED vars
  BY <1>0, <1>6 DEF vars, OthersOK
<1> QED BY <1>1, <1>2, <1>3, <1>4, <1>5, <1>6 DEF Next, Check

(* A step within the process, that neither appends to the report nor moves *)
(* to another test.                                                        *)
LEMMA SameTest ==
  ASSUME Complete, OthersOK', UNCHANGED <<job, test, report, results>>,
         \/ pc = "config" /\ pc' = "build"
         \/ pc = "build" /\ pc' = IF N > 0 THEN "read" ELSE "save"
         \/ pc = "read" /\ pc' = "execute"
         \/ pc = "execute" /\ pc' = "check" /\ out' # NoFile
         \/ pc = "check" /\ pc' = "parse" /\ shown' # NoFile
  PROVE  Complete'
<1>1. TypeOK'
  BY ConstantsAssumption DEF Complete, TypeOK, OthersOK
<1>2. LoopInv'
  BY ConstantsAssumption DEF Complete, TypeOK, LoopInv
<1>3. CompleteReport'
  BY DEF Complete, CompleteReport, Finished
<1> QED BY <1>1, <1>2, <1>3 DEF Complete

(* A step that appends the result of the test at hand to the report.       *)
LEMMA TestJudged ==
  ASSUME Complete, OthersOK', UNCHANGED <<job, results>>,
         NEW e \in Elements, e.id = test, report' = Append(report, e),
         \/ pc = "execute" /\ NextTest
         \/ pc = "parse" /\ pc' = "remove" /\ test' = test
  PROVE  Complete'
<1>1. /\ test <= N /\ Len(report) = test - 1 /\ report \in Seq(Elements)
      /\ test \in Nat /\ N \in Nat /\ test >= 1
  BY ConstantsAssumption DEF Complete, LoopInv, TypeOK
<1>2. TypeOK'
  BY <1>1, AppendStep DEF Complete, TypeOK, OthersOK, NextTest
<1>3. LoopInv'
  BY <1>1, AppendStep DEF Complete, LoopInv, NextTest
<1>4. CompleteReport'
  BY DEF Complete, CompleteReport, Finished
<1> QED BY <1>2, <1>3, <1>4 DEF Complete

LEMMA NextComplete == Complete /\ [Next]_vars => Complete'
<1> SUFFICES ASSUME Complete, [Next]_vars PROVE Complete'
  OBVIOUS
<1> USE DEF history, files, late
<1>0. OthersOK' /\ TypeOK /\ LoopInv /\ N \in Nat
  BY ConstantsAssumption, OthersTyped DEF Complete
<1>a. ASSUME Abort PROVE Complete'
  BY <1>0, <1>a, AbortKeepsComplete
<1>1. CASE ReadMainConfig
  BY <1>0, <1>1, <1>a, SameTest DEF ReadMainConfig
<1>2. CASE BuildFromSource
  <2>1. CASE End([status |-> "bad", report |-> <<>>])
    <3>1. [status |-> "bad", report |-> <<>>] \in Verdicts
      BY DEF Verdicts
    <3> QED
      BY <1>0, <2>1, <3>1, EndKeepsComplete
  <2> QED
    BY <1>0, <1>2, <1>a, <2>1, SameTest DEF BuildFromSource
<1>3. CASE ReadTest
  BY <1>0, <1>3, <1>a, SameTest DEF ReadTest
<1>4. CASE Execute
  <2>1. CASE out' # NoFile /\ pc' = "check" /\ UNCHANGED <<test, report>>
    BY <1>0, <1>4, <2>1, SameTest DEF Execute
  <2>2. ASSUME NEW r \in {"tle", "mle", "crash"},
               report' = Append(report, Element(r, Run, NoFile)), NextTest
        PROVE  Complete'
    <3>1. pc = "execute" /\ test <= N /\ UNCHANGED <<job, results>>
      BY <1>0, <1>4 DEF Execute, LoopInv
    <3>2. Run \in Runs
      BY <1>0, <3>1, Places
    <3>3. Element(r, Run, NoFile) \in Elements /\ Element(r, Run, NoFile).id = test
      BY <1>0, <3>1, <3>2, ElementType
    <3> QED
      BY <1>0, <2>2, <3>1, <3>3, TestJudged
  <2> QED
    BY <1>4, <2>1, <2>2 DEF Execute
<1>5. CASE RunJudge
  BY <1>0, <1>5, <1>a, SameTest DEF RunJudge, LoopInv
<1>6. CASE ParseReport
  <2>1. CASE ~Abort
    <3>1. /\ rep \in About \union {NoFile} /\ shown \in Runs
          /\ pc = "parse" /\ test <= N
      BY <1>0, <1>6 DEF ParseReport, TypeOK, LoopInv
    <3>2. /\ report' = Append(report, Element(IF rep.says = Accepted THEN "ok" ELSE "bad",
                                              shown, rep))
          /\ pc' = "remove"
          /\ UNCHANGED <<job, test, results>>
      BY <1>6, <2>1 DEF ParseReport
    <3>3. PICK e \in Elements : report' = Append(report, e) /\ e.id = test
      BY <1>0, <3>1, <3>2, ElementType
    <3> QED
      BY <1>0, <3>1, <3>2, <3>3, TestJudged
  <2> QED
    BY <1>a, <2>1
<1>7. CASE RemoveReport
  <2>1. pc = "remove" /\ test <= N /\ Len(report) = test
    BY <1>0, <1>7 DEF RemoveReport, LoopInv
  <2>2. TypeOK'
    BY <1>0, <1>7, <2>1 DEF RemoveReport, NextTest, TypeOK, OthersOK
  <2>3. LoopInv'
    BY <1>0, <1>7, <2>1 DEF RemoveReport, NextTest, TypeOK, LoopInv
  <2> QED
    BY <1>7, <2>2, <2>3 DEF RemoveReport, Complete, CompleteReport, Finished
<1>8. CASE SaveResult
  <2> DEFINE r == [status |-> "ok", report |-> report]
  <2>1. r \in Verdicts
    BY <1>0 DEF TypeOK, Verdicts
  <2>2. Len(report) = N /\ \A i \in Tests : report[i].id = i
    BY <1>0, <1>8 DEF SaveResult, LoopInv, TypeOK, Tests
  <2>3. End(r)
    BY <1>8 DEF SaveResult
  <2>4. r.status = "ok" /\ r.report = report
    OBVIOUS
  <2> HIDE DEF r
  <2> QED
    BY <1>0, <2>1, <2>2, <2>3, <2>4, EndKeepsComplete
<1>9. CASE Others
  <2>1. UNCHANGED <<job, pc, test, shown, report, results>>
    BY <1>0, <1>9, OthersStep DEF own, TypeOK, OthersOK
  <2>2. out # NoFile => out' # NoFile
    BY <1>9, NoFileAssumption DEF Others, LateLink, CompilerEnds, LateOutput, FilesClosed,
       LateWrite, Gone
  <2> QED
    BY <1>0, <2>1, <2>2 DEF Complete, TypeOK, OthersOK, LoopInv, CompleteReport, Finished
<1>10. CASE UNCHANGED vars
  BY <1>10 DEF vars, Complete, TypeOK, LoopInv, CompleteReport, Finished
<1> QED
  BY <1>1, <1>2, <1>3, <1>4, <1>5, <1>6, <1>7, <1>8, <1>9, <1>10 DEF Next, Check

LEMMA AlwaysComplete == Spec => []Complete
BY InitComplete, NextComplete, PTL DEF Spec

(* Every variable keeps its type; the test at hand is a test, or the one   *)
(* after the last.                                                         *)
THEOREM TypeCorrect == Spec => []TypeOK
<1>1. Complete => TypeOK
  BY DEF Complete
<1> QED
  BY <1>1, AlwaysComplete, PTL

(* A saved verdict is a compilation error or the results of all tests in   *)
(* their order, whatever compilers and check.exe do.                       *)
THEOREM CompleteReportCorrect == Spec => []CompleteReport
<1>1. Complete => CompleteReport
  BY DEF Complete
<1> QED
  BY <1>1, AlwaysComplete, PTL

-----------------------------------------------------------------------------
(* Whose program was run.  A solution is on its own if its program was     *)
(* built, and no compiler given up was there.                              *)
Alone == job \notin silent \union overtaken

OwnRun == <<job, job, test>>

(* Then the executable stays its own to the end, as nobody else can link;  *)
(* and where no run before it has files open, so does the output, until it *)
(* is judged.                                                              *)
ProgramInv ==
  /\ Alone =>
       /\ pc \in {"read", "execute", "check", "parse", "remove", "save"} =>
            exe = job /\ compiling = {}
       /\ pc = "check" /\ <<job, test>> \notin crowded =>
            out = OwnRun /\ closing \subseteq {OwnRun}
       /\ pc = "parse" /\ <<job, test>> \notin crowded => shown = OwnRun
       /\ \A i \in DOMAIN report :
            <<job, i>> \notin crowded => report[i].of = <<job, job, i>>
  /\ OwnProgram

(* Where the results come from: unless it is doubtful, an output is judged *)
(* when nobody else can write the report.                                  *)
ReportInv ==
  /\ Answering /\ <<job, test>> \notin doubtful =>
       /\ dying = {}
       /\ rep # NoFile /\ rep.job = job /\ rep.test = test
  /\ \A i \in DOMAIN report : <<job, i>> \notin doubtful => JudgedBy(report[i], job, i)
  /\ OwnReport

(* What happened unnoticed is not forgotten.                               *)
LEMMA HistoryKept ==
  ASSUME [Next]_vars
  PROVE  /\ silent \subseteq silent' /\ overtaken \subseteq overtaken'
         /\ crowded \subseteq crowded' /\ doubtful \subseteq doubtful'
<1> USE DEF history
<1>1. CASE Check
  BY <1>1 DEF Check, ReadMainConfig, BuildFromSource, NoteBuild, ReadTest, Execute, NoteRun,
     RunJudge, Doubt, ParseReport, RemoveReport, SaveResult
<1>2. CASE Others
  BY <1>2 DEF Others, LateLink, CompilerEnds, LateOutput, FilesClosed, LateWrite, Gone, own
<1> QED BY <1>1, <1>2 DEF Next, vars

(* The end of a process keeps both, with the verdict it has, with an empty *)
(* one, or with none.                                                      *)
LEMMA EndKeepsProgram ==
  ASSUME TypeOK, ProgramInv, NEW r, End(r),
         silent \subseteq silent', overtaken \subseteq overtaken', crowded \subseteq crowded',
         r \notin {Pending, Aborted} => r.report \in {<<>>, report}
  PROVE  ProgramInv'
<1>1. /\ pc' \in {"config", "done"} /\ report' = <<>>
      /\ results'[job] = r
      /\ \A j \in Jobs : j # job => results'[j] = results[j]
  BY EndStep
<1>2. OwnProgram'
  <2> SUFFICES ASSUME NEW j \in Jobs, results'[j] \notin {Pending, Aborted},
                      j \notin silent' \union overtaken',
                      NEW i \in DOMAIN results'[j].report, <<j, i>> \notin crowded'
               PROVE  results'[j].report[i].of = <<j, j, i>>
    BY DEF OwnProgram, Finished
  <2>1. j \notin silent \union overtaken /\ <<j, i>> \notin crowded
    OBVIOUS
  <2>2. CASE j = job
    BY <1>1, <2>1, <2>2 DEF ProgramInv, Alone
  <2>3. CASE j # job
    BY <1>1, <2>1, <2>3 DEF ProgramInv, OwnProgram, Finished
  <2> QED BY <2>2, <2>3
<1> QED
  BY <1>1, <1>2 DEF ProgramInv

LEMMA EndKeepsReport ==
  ASSUME TypeOK, ReportInv, doubtful \subseteq doubtful', NEW r, End(r),
         r \notin {Pending, Aborted} => r.report \in {<<>>, report}
  PROVE  ReportInv'
<1>1. /\ pc' \in {"config", "done"} /\ report' = <<>>
      /\ results'[job] = r
      /\ \A j \in Jobs : j # job => results'[j] = results[j]
  BY EndStep
<1>2. OwnReport'
  <2> SUFFICES ASSUME NEW j \in Jobs, results'[j] \notin {Pending, Aborted},
                      NEW i \in DOMAIN results'[j].report, <<j, i>> \notin doubtful'
               PROVE  JudgedBy(results'[j].report[i], j, i)
    BY DEF OwnReport, JudgedBy, Finished
  <2>1. <<j, i>> \notin doubtful
    OBVIOUS
  <2> QED
    BY <1>1, <2>1 DEF ReportInv, OwnReport, Finished
<1> QED
  BY <1>1, <1>2 DEF ReportInv, Answering

(* A step that leaves the results, and what was reported before.           *)
LEMMA ProgramsKept ==
  ASSUME ProgramInv, UNCHANGED <<job, report, results>>, silent \subseteq silent',
         overtaken \subseteq overtaken', crowded \subseteq crowded'
  PROVE  /\ Alone' => Alone
         /\ Alone' => \A i \in DOMAIN report' :
              <<job', i>> \notin crowded' => report'[i].of = <<job', job', i>>
         /\ OwnProgram'
BY DEF ProgramInv, OwnProgram, Finished, Alone

(* A step that appends a result.                                           *)
LEMMA ProgramAppended ==
  ASSUME Complete, ProgramInv, NEW e \in Elements, report' = Append(report, e),
         UNCHANGED <<job, results, silent, overtaken>>, crowded \subseteq crowded',
         pc \in {"execute", "parse"},
         Alone /\ <<job, test>> \notin crowded' => e.of = OwnRun
  PROVE  /\ Alone' <=> Alone
         /\ Alone' => \A i \in DOMAIN report' :
              <<job', i>> \notin crowded' => report'[i].of = <<job', job', i>>
         /\ OwnProgram'
<1>1. Len(report) = test - 1 /\ report \in Seq(Elements) /\ test \in Nat
  BY ConstantsAssumption DEF Complete, LoopInv, TypeOK
<1>2. ASSUME Alone, NEW i \in DOMAIN report', <<job, i>> \notin crowded'
      PROVE  report'[i].of = <<job, job, i>>
  <2>1. CASE i \in DOMAIN report
    BY <1>1, <1>2, <2>1, AppendStep DEF ProgramInv
  <2>2. CASE i \notin DOMAIN report
    <3>1. i = test /\ report'[i] = e
      BY <1>1, <1>2, <2>2, AppendStep
    <3> QED BY <1>2, <3>1 DEF OwnRun
  <2> QED BY <2>1, <2>2
<1>3. OwnProgram'
  BY DEF ProgramInv, OwnProgram, Finished
<1> QED BY <1>2, <1>3 DEF Alone

LEMMA NextProgram ==
  ASSUME Complete, ProgramInv, [Next]_vars
  PROVE  ProgramInv'
<1>o. /\ silent \subseteq silent' /\ overtaken \subseteq overtaken'
      /\ crowded \subseteq crowded'
  BY HistoryKept
<1> USE <1>o DEF history, files, late
<1>0. TypeOK /\ LoopInv /\ N \in Nat /\ report \in Seq(Elements)
  BY ConstantsAssumption DEF Complete, TypeOK
<1>a. ASSUME Abort PROVE ProgramInv'
  BY <1>0, <1>a, EndKeepsProgram DEF Abort
<1>1. CASE ReadMainConfig
  BY <1>1, <1>a, ProgramsKept DEF ReadMainConfig, ProgramInv
<1>2. CASE BuildFromSource
  <2>1. PICK outcome \in Compiles :
          /\ Compile(outcome) /\ NoteBuild(outcome)
          /\ \/ /\ outcome \in {"built", "silent"}
                /\ pc' = IF N > 0 THEN "read" ELSE "save"
                /\ UNCHANGED <<job, test, report, results>>
             \/ End([status |-> "bad", report |-> <<>>])
             \/ Abort
    BY <1>2 DEF BuildFromSource
  <2>2. CASE /\ outcome \in {"built", "silent"}
             /\ pc' = IF N > 0 THEN "read" ELSE "save"
             /\ UNCHANGED <<job, test, report, results>>
    <3>1. Alone' => outcome = "built" /\ compiling = {}
      BY <2>1, <2>2 DEF NoteBuild, Alone
    <3>2. Alone' => exe' = job /\ compiling' = {}
      BY <2>1, <3>1 DEF Compile, NoteBuild
    <3> QED
      BY <2>2, <3>2, ProgramsKept DEF ProgramInv
  <2>3. CASE End([status |-> "bad", report |-> <<>>])
    BY <1>0, <2>3, EndKeepsProgram
  <2> QED
    BY <1>a, <2>1, <2>2, <2>3
<1>3. CASE ReadTest
  BY <1>3, <1>a, ProgramsKept DEF ReadTest, ProgramInv
<1>4. CASE Execute
  <2>1. /\ pc = "execute" /\ NoteRun
        /\ UNCHANGED <<job, exe, results, compiling, silent, overtaken>>
        /\ Alone => exe = job /\ compiling = {}
    BY <1>4 DEF Execute, ProgramInv
  <2>2. CASE out' # NoFile /\ pc' = "check" /\ UNCHANGED <<test, report>>
    <3>1. ASSUME Alone, <<job, test>> \notin crowded'
          PROVE  out' = OwnRun /\ closing' \subseteq {OwnRun}
      <4>1. closing = {} /\ Run = OwnRun
        BY <2>1, <3>1 DEF NoteRun, Run, OwnRun
      <4>2. out' = OwnRun
        BY <2>1, <2>2, <4>1 DEF NoteRun
      <4>3. closing' \subseteq {OwnRun}
        BY <2>1, <4>1, MayStayIn DEF NoteRun
      <4> QED BY <4>2, <4>3
    <3>2. OwnRun' = OwnRun
      BY <2>1, <2>2 DEF OwnRun
    <3> QED
      BY <2>1, <2>2, <3>1, <3>2, ProgramsKept DEF ProgramInv, Alone
  <2>3. ASSUME NEW r \in {"tle", "mle", "crash"},
               report' = Append(report, Element(r, Run, NoFile)), NextTest
        PROVE  ProgramInv'
    <3>1. /\ Element(r, Run, NoFile) \in Elements
          /\ Element(r, Run, NoFile).of = Run
      BY <1>0, <2>1, ElementType, Places DEF LoopInv
    <3>2. Alone => Run = OwnRun
      BY <2>1 DEF Run, OwnRun
    <3>3. pc' \in {"read", "save"}
      BY <2>3 DEF NextTest
    <3>4. /\ Alone' <=> Alone
          /\ Alone' => \A i \in DOMAIN report' :
               <<job', i>> \notin crowded' => report'[i].of = <<job', job', i>>
          /\ OwnProgram'
      BY <2>1, <2>3, <3>1, <3>2, ProgramAppended
    <3> QED
      BY <2>1, <3>3, <3>4 DEF ProgramInv
  <2> QED
    BY <1>4, <2>2, <2>3 DEF Execute
<1>5. CASE RunJudge
  <2>1. /\ pc = "check"
        /\ UNCHANGED <<exe, out, compiling, closing, silent, overtaken, crowded>>
    BY <1>5 DEF RunJudge
  <2>2. CASE shown' = out /\ pc' = "parse" /\ UNCHANGED <<job, test, report, results>>
    BY <2>1, <2>2, ProgramsKept DEF ProgramInv, OwnRun
  <2> QED
    BY <1>5, <1>a, <2>2 DEF RunJudge
<1>6. CASE ParseReport
  <2>1. CASE ~Abort
    <3> DEFINE r == IF rep.says = Accepted THEN "ok" ELSE "bad"
    <3>1. /\ pc = "parse" /\ test <= N /\ shown \in Runs /\ rep \in About \union {NoFile}
          /\ UNCHANGED <<exe, compiling, silent, overtaken, crowded>>
      BY <1>0, <1>6 DEF ParseReport, LoopInv, TypeOK
    <3>2. /\ report' = Append(report, Element(r, shown, rep))
          /\ pc' = "remove" /\ UNCHANGED <<job, test, results>>
      BY <1>6, <2>1 DEF ParseReport
    <3>3. r \in {"ok", "bad"}
      OBVIOUS
    <3> HIDE DEF r
    <3>4. /\ Element(r, shown, rep) \in Elements
          /\ Element(r, shown, rep).of = shown
      BY <1>0, <3>1, <3>3, ElementType
    <3>5. Alone /\ <<job, test>> \notin crowded' => shown = OwnRun
      BY <3>1 DEF ProgramInv
    <3>6. /\ Alone' <=> Alone
          /\ Alone' => \A i \in DOMAIN report' :
               <<job', i>> \notin crowded' => report'[i].of = <<job', job', i>>
          /\ OwnProgram'
      BY <3>1, <3>2, <3>4, <3>5, ProgramAppended
    <3> QED
      BY <3>1, <3>2, <3>6 DEF ProgramInv
  <2> QED
    BY <1>a, <2>1
<1>7. CASE RemoveReport
  BY <1>7, ProgramsKept DEF RemoveReport, NextTest, ProgramInv
<1>8. CASE SaveResult
  BY <1>0, <1>8, EndKeepsProgram DEF SaveResult
<1>9. CASE Others
  <2>1. UNCHANGED <<job, pc, test, shown, report, results, silent, overtaken, crowded>>
    BY <1>9 DEF Others, LateLink, CompilerEnds, LateOutput, FilesClosed, LateWrite, Gone, own
  <2>2. compiling' \subseteq compiling /\ closing' \subseteq closing
    BY <1>9 DEF Others, LateLink, CompilerEnds, LateOutput, FilesClosed, LateWrite, Gone
  <2>3. compiling = {} => exe' = exe
    BY <1>9 DEF Others, LateLink, CompilerEnds, LateOutput, FilesClosed, LateWrite, Gone
  <2>4. out' = out \/ out' \in closing
    BY <1>9 DEF Others, LateLink, CompilerEnds, LateOutput, FilesClosed, LateWrite, Gone
  <2>5. Alone' = Alone /\ OwnRun' = OwnRun
    BY <2>1 DEF Alone, OwnRun
  <2> QED
    BY <2>1, <2>2, <2>3, <2>4, <2>5, ProgramsKept DEF ProgramInv
<1>10. CASE UNCHANGED vars
  BY <1>10 DEF vars, ProgramInv, OwnProgram, Finished, Alone, OwnRun
<1> QED
  BY <1>1, <1>2, <1>3, <1>4, <1>5, <1>6, <1>7, <1>8, <1>9, <1>10 DEF Next, Check

(* A step that leaves the results, and the report so far.                  *)
LEMMA ReportsKept ==
  ASSUME ReportInv, UNCHANGED <<job, report, results>>, doubtful \subseteq doubtful'
  PROVE  /\ \A i \in DOMAIN report' :
              <<job', i>> \notin doubtful' => JudgedBy(report'[i], job', i)
         /\ OwnReport'
BY DEF ReportInv, OwnReport, Finished, JudgedBy

LEMMA NextReport ==
  ASSUME Complete, ReportInv, [Next]_vars
  PROVE  ReportInv'
<1>o. doubtful \subseteq doubtful'
  BY HistoryKept
<1> USE <1>o DEF history, files, late, Answering
<1>0. TypeOK /\ N \in Nat /\ report \in Seq(Elements)
  BY ConstantsAssumption DEF Complete, TypeOK
<1>a. ASSUME Abort PROVE ReportInv'
  BY <1>0, <1>a, EndKeepsReport DEF Abort
<1>1. CASE ReadMainConfig \/ ReadTest
  BY <1>1, <1>a, ReportsKept DEF ReadMainConfig, ReadTest, ReportInv
<1>2. CASE BuildFromSource
  <2>1. \/ /\ pc' \in {"read", "save"}
           /\ UNCHANGED <<job, test, report, results>>
        \/ End([status |-> "bad", report |-> <<>>])
        \/ Abort
    BY <1>2 DEF BuildFromSource
  <2>2. CASE End([status |-> "bad", report |-> <<>>])
    BY <1>0, <2>2, EndKeepsReport
  <2> QED
    BY <1>a, <2>1, <2>2, ReportsKept DEF ReportInv
<1>3. CASE Execute \/ ParseReport
  <2>1. ASSUME NEW r \in {"ok", "bad", "tle", "mle", "crash"}, NEW o \in Runs,
               NEW b \in About \union {NoFile},
               report' = Append(report, Element(r, o, b)), test <= N,
               <<job, test>> \notin doubtful => JudgedBy(Element(r, o, b), job, test),
               Len(report) = test - 1, UNCHANGED <<job, results, doubtful>>
        PROVE  /\ \A i \in DOMAIN report' :
                    <<job', i>> \notin doubtful' => JudgedBy(report'[i], job', i)
               /\ OwnReport'
    <3>1. Element(r, o, b) \in Elements
      BY <1>0, <2>1, ElementType
    <3>2. \A i \in DOMAIN report' :
            <<job, i>> \notin doubtful => JudgedBy(report'[i], job, i)
      <4> DEFINE e == Element(r, o, b)
      <4> HIDE DEF e
      <4>1. e \in Elements /\ report' = Append(report, e)
        BY <2>1, <3>1 DEF e
      <4>2. \A i \in DOMAIN report' : i \notin DOMAIN report => i = test /\ report'[i] = e
        BY <1>0, <2>1, <4>1, AppendStep DEF TypeOK
      <4>3. \A i \in DOMAIN report : report'[i] = report[i]
        BY <1>0, <4>1, AppendStep
      <4> QED BY <2>1, <4>2, <4>3 DEF ReportInv, e
    <3>3. OwnReport'
      BY <2>1 DEF ReportInv, OwnReport, Finished
    <3> QED
      BY <2>1, <3>2, <3>3
  <2>2. test <= N /\ Len(report) = test - 1 /\ rep \in About \union {NoFile}
    BY <1>0, <1>3 DEF Execute, ParseReport, Complete, LoopInv, TypeOK
  <2>6. Run \in Runs
    BY <1>0, <1>3, Places DEF Execute, ParseReport, Complete
  <2>3. CASE Execute /\ UNCHANGED report
    BY <2>3, ReportsKept DEF Execute, NextTest, ReportInv
  <2>4. CASE Execute /\ ~UNCHANGED report
    <3>1. PICK r \in {"tle", "mle", "crash"} :
            report' = Append(report, Element(r, Run, NoFile)) /\ NextTest
      BY <2>4 DEF Execute
    <3>2. JudgedBy(Element(r, Run, NoFile), job, test)
      BY DEF JudgedBy, Element
    <3> QED
      BY <2>1, <2>2, <2>4, <2>6, <3>1, <3>2 DEF Execute, NextTest, ReportInv
  <2>5. CASE ParseReport /\ ~Abort
    <3> DEFINE r == IF rep.says = Accepted THEN "ok" ELSE "bad"
    <3>1. <<job, test>> \notin doubtful => JudgedBy(Element(r, shown, rep), job, test)
      BY <2>5 DEF ParseReport, JudgedBy, Element, ReportInv
    <3>2. r \in {"ok", "bad"}
      OBVIOUS
    <3>3. /\ report' = Append(report, Element(r, shown, rep))
          /\ pc' = "remove" /\ UNCHANGED <<job, test, rep, results, dying, doubtful>>
      BY <2>5 DEF ParseReport
    <3>4. pc = "parse" /\ shown \in Runs
      BY <1>0, <2>5 DEF ParseReport, Complete, LoopInv, TypeOK
    <3> HIDE DEF r
    <3> QED
      BY <2>1, <2>2, <3>1, <3>2, <3>3, <3>4 DEF ReportInv
  <2> QED
    BY <1>3, <1>a, <2>3, <2>4, <2>5
<1>4. CASE RunJudge
  <2>1. CASE \E outcome \in {"judged", "missing"} :
               /\ \/ /\ outcome = "judged"
                     /\ \E says \in {Accepted, Rejected} : rep' = Written(says)
                  \/ outcome = "missing"
               /\ Doubt(outcome)
               /\ UNCHANGED <<job, test, report, results, dying>>
    <3>1. <<job, test>> \notin doubtful' =>
            /\ dying = {}
            /\ \E says \in {Accepted, Rejected} : rep' = Written(says)
      BY <2>1 DEF Doubt
    <3>2. <<job, test>> \notin doubtful' =>
            dying' = {} /\ rep'.job = job /\ rep'.test = test /\ rep' \in About
      BY <1>4, <2>1, <3>1 DEF Written, ReportOn, About, RunJudge, Complete, LoopInv,
         TypeOK, Tests
    <3> QED
      BY <2>1, <3>2, ReportsKept, NoFileAssumption DEF ReportInv
  <2> QED
    BY <1>4, <1>a, <2>1 DEF RunJudge
<1>5. CASE RemoveReport
  BY <1>5, ReportsKept DEF RemoveReport, NextTest, ReportInv
<1>6. CASE SaveResult
  BY <1>0, <1>6, EndKeepsReport DEF SaveResult
<1>7. CASE Others
  <2>1. UNCHANGED <<job, pc, test, report, results, doubtful>> /\ dying' \subseteq dying
    BY <1>7 DEF Others, LateLink, CompilerEnds, LateOutput, FilesClosed, LateWrite, Gone, own
  <2>2. dying = {} => rep' = rep
    BY <1>7 DEF Others, LateLink, CompilerEnds, LateOutput, FilesClosed, LateWrite, Gone
  <2> QED
    BY <2>1, <2>2, ReportsKept DEF ReportInv
<1>8. CASE UNCHANGED vars
  BY <1>8, ReportsKept DEF vars, ReportInv
<1> QED
  BY <1>1, <1>2, <1>3, <1>4, <1>5, <1>6, <1>7, <1>8 DEF Next, Check

(* Each test of a solution is judged by what its own program did on it,    *)
(* except where its own compiler failed without a word or another one,     *)
(* given up, was still there, and on tests begun when runs before them had *)
(* files open: the program is rebuilt before the loop, and each output is  *)
(* removed before the next run.                                            *)
THEOREM OwnProgramCorrect == Spec => []OwnProgram
<1>1. Init => ProgramInv
  BY DEF Init, ProgramInv, OwnProgram, Finished
<1>2. Complete /\ ProgramInv /\ [Next]_vars => ProgramInv'
  BY NextProgram
<1>3. ProgramInv => OwnProgram
  BY DEF ProgramInv
<1> QED
  BY <1>1, <1>2, <1>3, AlwaysComplete, PTL DEF Spec

LEMMA AlwaysReport == Spec => []ReportInv
<1>1. Init => ReportInv
  BY DEF Init, ReportInv, OwnReport, Finished, Answering
<1>2. Complete /\ ReportInv /\ [Next]_vars => ReportInv'
  BY NextReport
<1> QED
  BY <1>1, <1>2, AlwaysComplete, PTL DEF Spec

(* Every test is judged by a report check.exe wrote on it, as long as that *)
(* check.exe is there, alone, and leaves a report whenever it exits with   *)
(* one of its codes.                                                       *)
THEOREM OwnReportCorrect == Spec => []OwnReport
<1>1. ReportInv => OwnReport
  BY DEF ReportInv
<1> QED
  BY <1>1, AlwaysReport, PTL

-----------------------------------------------------------------------------
(* The refinement.  A solution whose checker has not ended is pending.     *)
PendingInv ==
  \A j \in Jobs : j > job \/ (j = job /\ pc # "done") => results[j] = Pending

(* The tests in doubt, as the service sees them.                           *)
Doubts == doubtful \union crowded \union ((silent \union overtaken) \X Tests)

(* Tests of the solution at hand are put in doubt.                         *)
Doubting ==
  \E T \in SUBSET Tests : Doubts' = Doubts \union ({job} \X T)

(* A step goes on with the solution at hand, and may put tests of it in    *)
(* doubt; or it is the end of its checker, or nothing that is seen.        *)
LEMMA StepShape ==
  ASSUME Complete, [Next]_vars
  PROVE  \/ UNCHANGED <<job, pc, results, history>>
         \/ pc # "done" /\ UNCHANGED <<job, results>> /\ Doubting
         \/ pc # "done" /\ UNCHANGED history /\ End(Aborted)
         \/ pc # "done" /\ UNCHANGED history /\ End([status |-> "bad", report |-> <<>>])
         \/ pc # "done" /\ UNCHANGED history /\ End([status |-> "ok", report |-> report])
<1> USE DEF history
<1>0. TypeOK /\ LoopInv
  BY DEF Complete
<1>a. ASSUME UNCHANGED history PROVE Doubting
  <2>1. Doubts' = Doubts \union ({job} \X {})
    BY <1>a DEF Doubts
  <2> QED BY <2>1 DEF Doubting
<1>b. ASSUME UNCHANGED <<silent, overtaken>>, test \in Tests,
             \/ crowded' = crowded \union {<<job, test>>} /\ doubtful' = doubtful
             \/ crowded' = crowded /\ doubtful' = doubtful \union {<<job, test>>}
      PROVE  Doubting
  <2>1. {<<job, test>>} = {job} \X {test}
    OBVIOUS
  <2>2. Doubts' = Doubts \union ({job} \X {test})
    BY <1>b, <2>1 DEF Doubts
  <2> QED BY <1>b, <2>2 DEF Doubting
<1>c. ASSUME UNCHANGED <<crowded, doubtful>>,
             \/ silent' = silent \union {job} /\ overtaken' = overtaken
             \/ silent' = silent /\ overtaken' = overtaken \union {job}
      PROVE  Doubting
  <2>1. Doubts' = Doubts \union ({job} \X Tests)
    BY <1>c DEF Doubts
  <2> QED BY <2>1 DEF Doubting
<1>1. CASE ReadMainConfig  BY <1>1, <1>a DEF ReadMainConfig, Abort
<1>2. CASE BuildFromSource
  <2>1. PICK outcome \in Compiles :
          /\ NoteBuild(outcome)
          /\ \/ outcome \in {"built", "silent"} /\ UNCHANGED <<job, results>>
             \/ /\ outcome \in {"misread", "error", "left"}
                /\ End([status |-> "bad", report |-> <<>>])
             \/ outcome \in {"assert", "left"} /\ Abort
    BY <1>2 DEF BuildFromSource
  <2>2. pc = "build" /\ UNCHANGED <<crowded, doubtful>>
    BY <1>2 DEF BuildFromSource
  <2>3. CASE outcome \in {"built", "silent"}
    BY <1>a, <1>c, <2>1, <2>2, <2>3 DEF NoteBuild
  <2>4. CASE outcome \notin {"built", "silent"}
    BY <2>1, <2>2, <2>4 DEF NoteBuild, Abort
  <2> QED BY <2>3, <2>4
<1>3. CASE ReadTest        BY <1>3, <1>a DEF ReadTest, Abort
<1>4. CASE Execute
  <2>1. test \in Tests
    BY <1>0, <1>4, Places DEF Execute
  <2>2. \/ UNCHANGED history
        \/ /\ UNCHANGED <<silent, overtaken>> /\ doubtful' = doubtful
           /\ crowded' = crowded \union {<<job, test>>}
    BY <1>4 DEF Execute, NoteRun
  <2> QED BY <1>4, <1>a, <1>b, <2>1, <2>2 DEF Execute
<1>5. CASE RunJudge
  <2>1. test \in Tests
    BY <1>0, <1>5, Places DEF RunJudge
  <2>2. \/ /\ UNCHANGED <<job, results, silent, overtaken, crowded>>
           /\ doubtful' \in {doubtful, doubtful \union {<<job, test>>}}
        \/ UNCHANGED history /\ Abort
    BY <1>5 DEF RunJudge, Doubt
  <2> QED BY <1>5, <1>a, <1>b, <2>1, <2>2 DEF RunJudge, Abort
<1>6. CASE ParseReport     BY <1>6, <1>a DEF ParseReport, Abort
<1>7. CASE RemoveReport    BY <1>7, <1>a DEF RemoveReport
<1>8. CASE SaveResult      BY <1>8 DEF SaveResult
<1>9. CASE Others
  BY <1>9 DEF Others, LateLink, CompilerEnds, LateOutput, FilesClosed, LateWrite, Gone, own
<1>10. CASE UNCHANGED vars BY <1>10 DEF vars
<1> QED BY <1>1, <1>2, <1>3, <1>4, <1>5, <1>6, <1>7, <1>8, <1>9, <1>10 DEF Next, Check

LEMMA EndPending ==
  ASSUME TypeOK, PendingInv, NEW r, End(r)
  PROVE  PendingInv'
<1> SUFFICES ASSUME NEW j \in Jobs, j > job' \/ (j = job' /\ pc' # "done")
             PROVE  results'[j] = Pending
  BY DEF PendingInv
<1>1. job \in Nat /\ j \in Nat /\ J \in Nat
  BY ConstantsAssumption DEF TypeOK, Jobs
<1>2. j > job
  BY <1>1 DEF End
<1>3. results'[j] = results[j]
  BY <1>1, <1>2, EndStep
<1> QED BY <1>2, <1>3 DEF PendingInv

LEMMA NextPending ==
  ASSUME Complete, PendingInv, [Next]_vars
  PROVE  PendingInv'
<1>1. CASE UNCHANGED <<job, pc, results, history>>
  BY <1>1 DEF PendingInv
<1>2. CASE pc # "done" /\ UNCHANGED <<job, results>>
  BY <1>2 DEF PendingInv
<1> QED BY <1>1, <1>2, StepShape, EndPending DEF Complete

LEMMA EmptyFunction ==
  ASSUME NEW f, DOMAIN f = {}, f = [i \in DOMAIN f |-> f[i]]
  PROVE  f = <<>>
OBVIOUS

LEMMA InSequence ==
  ASSUME NEW S, NEW s \in Seq(S), NEW i \in DOMAIN s
  PROVE  s[i] \in S
OBVIOUS

(* The end of a checker grades its solution.                               *)
LEMMA EndGrades ==
  ASSUME Complete, PendingInv, pc # "done", Complete', ProgramInv', ReportInv',
         UNCHANGED history, NEW r \in Verdicts \union {Aborted}, End(r),
         r \notin {Pending, Aborted} => (r.status = "bad" => r.report = <<>>)
  PROVE  [Service!Next]_<<Grades, Doubts>>
<1>1. job \in Jobs /\ results[job] = Pending
  BY DEF Complete, TypeOK, PendingInv
<1>2. Grades' = [Grades EXCEPT ![job] = GradeOf(job, r)]
  BY <1>1, EndStep DEF Complete, Grades
<1>3. Grades[job] = Pending /\ UNCHANGED Doubts
  BY <1>1 DEF Grades, GradeOf, Doubts, history
<1>6. Grades'[job] = GradeOf(job, r) /\ Grades' = [Grades EXCEPT ![job] = Grades'[job]]
  BY <1>1, <1>2 DEF Grades
<1>4. CASE r \in {Pending, Aborted}
  <2>1. GradeOf(job, r) = r
    BY <1>4 DEF GradeOf
  <2>2. CASE r = Aborted
    BY <1>1, <1>3, <1>6, <2>1, <2>2 DEF Service!Next, Service!Grade, Doubts
  <2>3. CASE r = Pending
    BY <1>1, <1>2, <1>3, <2>1, <2>3 DEF Grades
  <2> QED BY <1>4, <2>2, <2>3
<1>5. CASE r \notin {Pending, Aborted}
  <2>1. r \in Verdicts /\ results'[job] = r /\ job \in Finished'
    BY <1>1, <1>5, EndStep DEF Complete, Finished
  <2>2. r.report \in Seq(Elements) /\ r.status \in {"ok", "bad"}
    BY <2>1 DEF Verdicts
  <2>3. GradeOf(job, r) =
          [status |-> r.status,
           tests |-> [i \in DOMAIN r.report |->
                        IF Genuine(r.report[i], job, i) THEN r.report[i].result
                                                        ELSE "foreign"]]
    BY <1>5 DEF GradeOf
  <2>4. CASE r.status = "bad"
    <3> DEFINE t == [i \in DOMAIN r.report |->
                       IF Genuine(r.report[i], job, i) THEN r.report[i].result
                                                       ELSE "foreign"]
    <3>0. t = <<>>
      <4>1. DOMAIN r.report = {}
        BY <1>5, <2>4
      <4>2. DOMAIN t = {} /\ t = [i \in DOMAIN t |-> t[i]]
        BY <4>1
      <4> HIDE DEF t
      <4> QED BY <4>2, EmptyFunction
    <3>1. GradeOf(job, r) = Service!CompilationError
      BY <2>3, <2>4, <3>0 DEF Service!CompilationError
    <3> QED
      BY <1>1, <1>3, <1>6, <3>1 DEF Service!Next, Service!Grade, Doubts
  <2>5. CASE r.status = "ok"
    <3>1. Len(r.report) = N /\ \A i \in Tests : r.report[i].id = i
      BY <2>1, <2>5 DEF Complete, CompleteReport
    <3>2. DOMAIN r.report = 1 .. N
      BY <2>2, <3>1
    <3>3. ASSUME NEW i \in 1 .. N
          PROVE  /\ <<job, i>> \notin Doubts => Genuine(r.report[i], job, i)
                 /\ r.report[i].result \in Service!Outcomes
      <4>1. r.report[i].id = i
        BY <3>1 DEF Tests
      <4>2. job \notin silent \union overtaken /\ <<job, i>> \notin crowded =>
              r.report[i].of = <<job, job, i>>
        BY <2>1, <3>2 DEF ProgramInv, OwnProgram, history
      <4>3. <<job, i>> \notin doubtful => JudgedBy(r.report[i], job, i)
        BY <2>1, <3>2 DEF ReportInv, OwnReport, history
      <4>5. <<job, i>> \notin Doubts =>
              /\ job \notin silent \union overtaken
              /\ <<job, i>> \notin crowded /\ <<job, i>> \notin doubtful
        BY <1>1 DEF Doubts, Tests
      <4>4. r.report[i] \in Elements
        BY <2>2, <3>2, InSequence
      <4> QED
        BY <4>1, <4>2, <4>3, <4>4, <4>5 DEF Genuine, Elements, Service!Outcomes
    <3> DEFINE t == [i \in 1 .. N |->
                       IF Genuine(r.report[i], job, i) THEN r.report[i].result
                                                       ELSE "foreign"]
    <3>4. /\ t \in [1 .. N -> Service!Outcomes \union {"foreign"}]
          /\ \A i \in 1 .. N : t[i] = "foreign" => <<job, i>> \in Doubts
      BY <3>3 DEF Service!Outcomes
    <3>5. GradeOf(job, r) = [status |-> "ok", tests |-> t]
      BY <2>3, <2>5, <3>2, <3>3
    <3>6. GradeOf(job, r) \in Service!Judged(job)
      <4> DEFINE g == [status |-> "ok", tests |-> t]
      <4> HIDE DEF t
      <4>1. g \in [status : {"ok"}, tests : [1 .. N -> Service!Outcomes \union {"foreign"}]]
        BY <3>4
      <4>2. g.tests = t
        OBVIOUS
      <4> HIDE DEF g
      <4>3. g \in Service!Judged(job)
        BY <3>4, <4>1, <4>2 DEF Service!Judged, Doubts
      <4> QED BY <3>5, <4>3 DEF g
    <3> QED
      BY <1>1, <1>3, <1>6, <3>6 DEF Service!Next, Service!Grade, Doubts
  <2> QED BY <2>2, <2>4, <2>5
<1> QED BY <1>4, <1>5

(* Tests of a solution that is pending are put in doubt.                   *)
LEMMA DoubtGrades ==
  ASSUME Complete, PendingInv, pc # "done", UNCHANGED <<job, results>>, Doubting
  PROVE  Service!Next
<1>1. job \in Jobs /\ Grades[job] = Pending
  BY DEF Complete, TypeOK, PendingInv, Grades, GradeOf
<1>2. UNCHANGED Grades
  BY DEF Grades
<1> QED BY <1>1, <1>2 DEF Service!Next, Service!GoWrong, Doubting, Doubts, Tests

LEMMA StepGrades ==
  ASSUME Complete, PendingInv, Complete', ProgramInv', ReportInv', [Next]_vars
  PROVE  [Service!Next]_<<Grades, Doubts>>
<1>1. CASE UNCHANGED <<job, pc, results, history>>
  BY <1>1 DEF history, Grades, Doubts
<1>2. CASE pc # "done" /\ UNCHANGED <<job, results>> /\ Doubting
  BY <1>2, DoubtGrades
<1>4. CASE pc # "done" /\ UNCHANGED history /\ End(Aborted)
  BY <1>4, EndGrades
<1>5. CASE pc # "done" /\ UNCHANGED history /\ End([status |-> "bad", report |-> <<>>])
  <2> DEFINE r == [status |-> "bad", report |-> <<>>]
  <2>1. r \in Verdicts /\ r.report = <<>>
    BY DEF Verdicts
  <2> HIDE DEF r
  <2> QED BY <1>5, <2>1, EndGrades DEF r
<1>6. CASE pc # "done" /\ UNCHANGED history /\ End([status |-> "ok", report |-> report])
  <2> DEFINE r == [status |-> "ok", report |-> report]
  <2>1. r \in Verdicts /\ r.status = "ok"
    BY DEF Verdicts, Complete, TypeOK
  <2> HIDE DEF r
  <2> QED BY <1>6, <2>1, EndGrades DEF r
<1> QED BY <1>1, <1>2, <1>4, <1>5, <1>6, StepShape

(* Each solution is graded once, and on every test that is not in doubt    *)
(* with nothing but what became of its own program on it.                  *)
THEOREM ImplementsGradingCorrect == Spec => ImplementsGrading
<1> DEFINE IInv == Complete /\ ProgramInv /\ ReportInv /\ PendingInv
<1>1. Init => ProgramInv /\ ReportInv /\ PendingInv
  BY DEF Init, ProgramInv, OwnProgram, ReportInv, OwnReport, PendingInv, Finished, Answering
<1>2. IInv /\ [Next]_vars => IInv'
  BY NextComplete, NextProgram, NextReport, NextPending
<1>3. Init => Service!Init
  BY DEF Init, Service!Init, Grades, GradeOf, Doubts
<1>4. IInv /\ IInv' /\ [Next]_vars => [Service!Next]_<<Grades, Doubts>>
  BY StepGrades
<1>5. Spec => []IInv
  BY <1>1, <1>2, InitComplete, PTL DEF Spec
<1> QED
  BY <1>3, <1>4, <1>5, PTL DEF Spec, ImplementsGrading, Service!Spec, Doubts

-----------------------------------------------------------------------------
(* What the loop over the tests asks of check.exe.                         *)

At == IF Answering THEN <<job, test>> ELSE Nobody

Answered == IF pc = "remove" THEN report[test].result ELSE "none"

mapped == <<At, Answered, Read(rep), doubtful>>

LEMMA ReadTyped ==
  ASSUME NEW r \in About \union {NoFile}
  PROVE  /\ Read(r) \in Judge!Contents
         /\ Read(r) = Judge!NoReport <=> r = NoFile
         /\ r # NoFile =>
              /\ Read(r).call = <<r.job, r.test>>
              /\ Read(r).accepted <=> r.says = Accepted
<1>1. CASE r = NoFile
  BY <1>1 DEF Read, Judge!Contents, Judge!NoReport
<1>2. CASE r # NoFile
  <2> DEFINE b == r.says = Accepted
             c == <<r.job, r.test>>
  <2>1. c \in Outputs /\ c # Nobody /\ b \in BOOLEAN
    BY <1>2 DEF About, Outputs, Jobs, Nobody
  <2>2. Read(r) = [call |-> c, accepted |-> b]
    BY <1>2 DEF Read
  <2> HIDE DEF b, c
  <2>3. Read(r) \in [call : Outputs, accepted : BOOLEAN]
    BY <2>1, <2>2
  <2>4. Read(r).call = c /\ Read(r).accepted = b
    BY <2>2
  <2>5. Read(r) # Judge!NoReport
    BY <2>1, <2>4 DEF Judge!NoReport
  <2> QED BY <1>2, <2>3, <2>4, <2>5 DEF b, c, Judge!Contents
<1> QED BY <1>1, <1>2

LEMMA NotNobody ==
  \A j \in Jobs, i \in Tests : <<j, i>> # Nobody
BY ConstantsAssumption DEF Jobs, Tests, Nobody

(* A check.exe comes to something when no output is being answered.        *)
LEMMA RunStep ==
  ASSUME Complete', ~Answering, ~Answering', NEW c \in Outputs,
         doubtful' \in {doubtful, doubtful \union {c}}
  PROVE  Judge!Next
<1>1. At = Nobody /\ At' = Nobody /\ Answered = "none" /\ Answered' = "none"
  BY DEF At, Answered, Answering
<1>2. Read(rep') \in Judge!Contents
  BY ReadTyped DEF Complete, TypeOK
<1>3. Judge!Run(c)
  BY <1>1, <1>2 DEF Judge!Run, Judge!ComesTo, At, Answered
<1> QED BY <1>3 DEF Judge!Next

LEMMA StepAnswers ==
  ASSUME Complete, Complete', ReportInv, ReportInv', [Next]_vars
  PROVE  [Judge!Next]_mapped
<1> USE DEF history, files, late
<1>0. TypeOK /\ TypeOK' /\ LoopInv /\ report \in Seq(Elements)
  BY DEF Complete, TypeOK
<1>1. CASE ReadMainConfig \/ BuildFromSource \/ ReadTest \/ Execute \/ SaveResult
  <2>1. ~Answering /\ UNCHANGED <<rep, doubtful>>
    BY <1>1 DEF ReadMainConfig, BuildFromSource, ReadTest, Execute, SaveResult, Answering
  <2>2. ~Answering'
    BY <1>1 DEF ReadMainConfig, BuildFromSource, ReadTest, Execute, SaveResult, Answering,
                Abort, End, NextTest
  <2> QED BY <2>1, <2>2 DEF mapped, At, Answered, Answering
<1>2. CASE RunJudge
  <2>1. /\ pc = "check" /\ ~Answering /\ <<job, test>> \in Outputs
        /\ Answered = "none" /\ At = Nobody
        /\ doubtful' \in {doubtful, doubtful \union {<<job, test>>}}
    BY <1>0, <1>2, Places DEF RunJudge, Answering, At, Answered, Doubt
  <2>2. CASE Abort
    <3>1. ~Answering'
      BY <2>2 DEF Abort, End, Answering
    <3> QED BY <2>1, <3>1, RunStep
  <2>3. CASE pc' = "parse" /\ UNCHANGED <<job, test>>
    <3>1. At' = <<job, test>> /\ Answered' = "none" /\ Answering'
      BY <2>3 DEF At, Answered, Answering
    <3>2. rep' \in About \union {NoFile}
      BY <1>0 DEF TypeOK
    <3>3. <<job, test>> \notin doubtful' =>
            rep' # NoFile /\ rep'.job = job /\ rep'.test = test
      BY <2>3, <3>1 DEF ReportInv
    <3>4. <<job, test>> \notin doubtful' => Read(rep').call = <<job, test>>
      BY <3>2, <3>3, ReadTyped
    <3>5. Read(rep') \in Judge!Contents
      BY <3>2, ReadTyped
    <3>6. Judge!Judge(<<job, test>>)
      BY <2>1, <3>1, <3>4, <3>5 DEF Judge!Judge, Judge!ComesTo, At, Answered
    <3> QED BY <2>1, <3>6 DEF Judge!Next
  <2> QED BY <1>2, <2>2, <2>3 DEF RunJudge
<1>3. CASE ParseReport
  <2>1. /\ pc = "parse" /\ Answering /\ At = <<job, test>> /\ At # Nobody
        /\ Answered = "none" /\ UNCHANGED <<rep, doubtful>>
    BY <1>0, <1>3, Places, NotNobody DEF ParseReport, Answering, At, Answered, TypeOK
  <2>2. CASE rep = NoFile
    <3>1. At' = Nobody /\ Answered' = "none"
      BY <1>3, <2>2 DEF ParseReport, Abort, End, At, Answered, Answering
    <3>2. Read(rep) = Judge!NoReport
      BY <2>2, ReadTyped
    <3>3. Judge!GiveUp
      BY <2>1, <3>1, <3>2 DEF Judge!GiveUp, At, Answered
    <3> QED BY <3>3 DEF Judge!Next
  <2>3. CASE rep # NoFile
    <3> DEFINE r == IF rep.says = Accepted THEN "ok" ELSE "bad"
    <3>1. /\ report' = Append(report, Element(r, shown, rep))
          /\ pc' = "remove" /\ UNCHANGED <<job, test>>
      BY <1>3, <2>3 DEF ParseReport
    <3>2. test <= N /\ Len(report) = test - 1 /\ test \in Nat /\ shown \in Runs
      BY <1>0, <2>1, ConstantsAssumption DEF LoopInv, TypeOK
    <3>3. r \in {"ok", "bad"} /\ Element(r, shown, rep).result = r
      BY DEF Element
    <3>4. Element(r, shown, rep) \in Elements
      BY <1>0, <3>2, <3>3, ElementType DEF TypeOK
    <3>5. report'[test] = Element(r, shown, rep)
      BY <1>0, <3>1, <3>2, <3>4, AppendStep
    <3>6. At' = At /\ Answered' = r
      BY <2>1, <3>1, <3>3, <3>5 DEF At, Answered, Answering
    <3>7. Read(rep) # Judge!NoReport /\ (Read(rep).accepted <=> rep.says = Accepted)
      BY <1>0, <2>3, ReadTyped DEF TypeOK
    <3>8. Judge!Answer
      BY <2>1, <3>6, <3>7 DEF Judge!Answer, At, Answered
    <3> QED BY <3>8 DEF Judge!Next
  <2> QED BY <2>2, <2>3
<1>4. CASE RemoveReport
  <2>1. /\ pc = "remove" /\ Answering /\ At # Nobody
        /\ UNCHANGED doubtful /\ rep' \in {rep, NoFile}
    BY <1>0, <1>4, Places, NotNobody DEF RemoveReport, Answering, At, TypeOK
  <2>2. test \in DOMAIN report
    BY <1>0, <2>1, ConstantsAssumption DEF Complete, LoopInv, TypeOK
  <2>3. report[test] \in Elements
    BY <1>0, <2>2, InSequence
  <2>4. Answered # "none"
    BY <2>1, <2>3 DEF Answered, Elements
  <2>5. At' = Nobody /\ Answered' = "none"
    BY <1>4 DEF RemoveReport, NextTest, At, Answered, Answering
  <2>6. Read(rep') \in {Read(rep), Judge!NoReport}
    BY <2>1, ReadTyped
  <2>7. Judge!Remove
    BY <2>1, <2>4, <2>5, <2>6 DEF Judge!Remove, At, Answered
  <2> QED BY <2>7 DEF Judge!Next
<1>7. CASE Others /\ UNCHANGED rep
  <2>1. UNCHANGED <<job, pc, test, report, doubtful>>
    BY <1>7 DEF Others, LateLink, CompilerEnds, LateOutput, FilesClosed, LateWrite, Gone, own
  <2> QED BY <1>7, <2>1 DEF mapped, At, Answered, Answering
<1>5. ASSUME NEW j \in Jobs, NEW i \in Tests, LateWrite(j, i)
      PROVE  [Judge!Next]_mapped
  <2>1. /\ UNCHANGED <<At, Answered, Answering, doubtful>> /\ dying # {}
        /\ UNCHANGED <<job, test>>
    BY <1>5 DEF LateWrite, own, At, Answered, Answering
  <2>2. CASE ~Answering
    <3>1. <<j, i>> \in Outputs
      BY DEF Outputs
    <3> QED BY <2>1, <2>2, <3>1, RunStep
  <2>3. CASE Answering
    <3>1. At \in doubtful
      BY <2>1, <2>3 DEF ReportInv, At
    <3>2. Read(rep') \in Judge!Contents
      BY <1>0, ReadTyped DEF TypeOK
    <3>3. Judge!Disturb
      BY <2>1, <3>1, <3>2 DEF Judge!Disturb, At, Answered
    <3> QED BY <3>3 DEF Judge!Next
  <2> QED BY <2>2, <2>3
<1>6. CASE UNCHANGED vars
  BY <1>6 DEF vars, mapped, At, Answered, Answering
<1>8. CASE Others /\ ~UNCHANGED rep
  <2>1. \E j \in Jobs, i \in Tests : LateWrite(j, i)
    BY <1>8 DEF Others, LateLink, CompilerEnds, LateOutput, FilesClosed, Gone
  <2> QED BY <2>1, <1>5
<1> QED BY <1>1, <1>2, <1>3, <1>4, <1>6, <1>7, <1>8 DEF Next, Check

(* An output is answered from the report of its own check.exe, whatever    *)
(* reports are there and whoever may still write one, unless it is         *)
(* doubtful.                                                               *)
THEOREM ImplementsAnswersCorrect == Spec => ImplementsAnswers
<1>1. Init => Judge!Init
  BY DEF Init, Judge!Init, Answering, Read, Judge!NoReport
<1>2. mapped = Judge!vars /\ mapped' = Judge!vars'
  BY DEF mapped, Judge!vars, At, Answered
<1>3. Complete /\ Complete' /\ ReportInv /\ ReportInv' /\ [Next]_vars
        => [Judge!Next]_(Judge!vars)
  BY <1>2, StepAnswers
<1> QED
  BY <1>1, <1>3, AlwaysComplete, AlwaysReport, PTL DEF Spec, ImplementsAnswers, Judge!Spec

=============================================================================
