------------------------------ MODULE Checker ------------------------------
(***************************************************************************)
(* The checker (checker_rc): one process for each solution, which builds   *)
(* its program, runs it on the tests of the task and lets the testlib      *)
(* checker of the task, check.exe, judge its outputs.                      *)
(*                                                                         *)
(* The processes run one after another in the same directory and give the  *)
(* same names to their files.  What outlives a process: nobody ever        *)
(* removes the executable, the output of a program is removed before the   *)
(* next one is run, and the report of check.exe only after it was read;    *)
(* and there are processes that nobody waits for.  A compiler that was     *)
(* given up links when it likes (Builder), a program that ended has its    *)
(* files open for a while (Executor), and so has a check.exe that was      *)
(* killed (Runner).  Running a program is one step here: Executor shows    *)
(* that its outcome is its own.                                            *)
(***************************************************************************)
EXTENDS Naturals, Sequences, FiniteSets

CONSTANTS
  J,         \* solutions are 1 .. J, checked in this order
  N,         \* tests of a task are 1 .. N
  MaxLate,   \* bound: how many processes nobody waits for there are at a time
  NoFile,    \* "the file does not exist"
  Pending, Aborted   \* solutions without a result, yet or for good

Jobs == 1 .. J
Tests == 1 .. N
Outputs == Jobs \X Tests

(* Whose program was run, for which solution, on which test.               *)
Runs == (Jobs \union {NoFile}) \X Jobs \X Tests

(* The executable is built and the output of the compiler says so; it is   *)
(* built, but the output holds the words of an error; it is not built, and *)
(* the output says so; it is not built, but nothing in the output says so; *)
(* the output is empty, or there is no such compiler: checker_assert; it   *)
(* comes to an error, or an empty output, while the compiler goes on.      *)
Compiles == {"built", "misread", "error", "silent", "assert", "left"}

(* check.exe writes its report and exits with a code it may exit with; it  *)
(* fails, or takes too long and is killed, when it has written its report  *)
(* or before; it exits with such a code without a report, or can not be    *)
(* started at all, which looks the same.                                   *)
Judges == {"judged", "failed", "killed", "missing"}

ASSUME ConstantsAssumption ==
  /\ J \in Nat \ {0}
  /\ N \in Nat
  /\ MaxLate \in Nat
  /\ NoFile \notin Jobs

VARIABLES
  job,       \* the solution at hand
  pc,        \* what check() does next
  test,      \* the test at hand
  exe,       \* whose program the executable file is
  out,       \* which run the output file is of
  shown,     \* the run whose output check.exe has judged
  rep,       \* what the report of check.exe is about, and what it says
  report,    \* verdict.report, so far
  results,   \* the results of the solutions
  compiling, \* solutions whose compiler was given up and has not ended yet
  closing,   \* runs that ended, or were killed, with their files still open
  dying,     \* outputs whose check.exe was killed and is not gone yet
  silent,    \* history: solutions that were not built, and nobody noticed
  overtaken, \* history: solutions built when compilers given up were there
  crowded,   \* history: tests begun when runs before had files open
  doubtful   \* history: outputs whose check.exe left no report, or was not
             \* alone, and nobody noticed

files == <<exe, out, rep>>
late == <<compiling, closing, dying>>
history == <<silent, overtaken, crowded, doubtful>>
vars == <<job, pc, test, files, shown, report, results, late, history>>

(* An element of a report.  Not part of it, but kept here: which run it is *)
(* about, and the report of check.exe that the result was taken from.      *)
Element(r, of, by) == [result |-> r, id |-> test, of |-> of, by |-> by]

Accepted == "Testlib Result Number = 0"
Rejected == "another number"

About == [job : Jobs, test : Tests, says : {Accepted, Rejected}]

ASSUME NoFileAssumption == NoFile \notin About \union Runs

Elements ==
  [result : {"ok", "bad", "tle", "mle", "crash"}, id : Tests,
   of : Runs, by : About \union {NoFile}]

Verdicts == [status : {"ok", "bad"}, report : Seq(Elements)]

TypeOK ==
  /\ job \in Jobs
  /\ pc \in {"config", "build", "read", "execute", "check", "parse", "remove",
             "save", "done"}
  /\ test \in 1 .. N + 1
  /\ exe \in Jobs \union {NoFile}
  /\ out \in Runs \union {NoFile} /\ shown \in Runs \union {NoFile}
  /\ rep \in About \union {NoFile}
  /\ report \in Seq(Elements)
  /\ results \in [Jobs -> Verdicts \union {Pending, Aborted}]
  /\ compiling \subseteq Jobs /\ closing \subseteq Runs /\ dying \subseteq Outputs
  /\ silent \subseteq Jobs /\ overtaken \subseteq Jobs
  /\ crowded \subseteq Outputs /\ doubtful \subseteq Outputs

Init ==
  /\ job = 1 /\ pc = "config" /\ test = 1
  /\ exe = NoFile /\ out = NoFile /\ rep = NoFile
  /\ shown = NoFile
  /\ report = <<>>
  /\ results = [j \in Jobs |-> Pending]
  /\ compiling = {} /\ closing = {} /\ dying = {}
  /\ silent = {} /\ overtaken = {} /\ crowded = {} /\ doubtful = {}

-----------------------------------------------------------------------------
(* The process ends, and the next one is started by the contester.         *)
End(result) ==
  /\ results' = [results EXCEPT ![job] = result]
  /\ report' = <<>> /\ test' = 1
  /\ IF job < J THEN job' = job + 1 /\ pc' = "config"
                ELSE job' = job /\ pc' = "done"

(* checker_assert: exit(1), and there is no result.                        *)
Abort == End(Aborted)

(* The loop over the tests.                                                *)
NextTest ==
  /\ test' = test + 1
  /\ pc' = IF test < N THEN "read" ELSE "save"

(* A process nobody waits for may be gone at once, or may not.             *)
Late == Cardinality(compiling) + Cardinality(closing) + Cardinality(dying)
MayStay(S, P) == {S} \union (IF Late < MaxLate THEN {S \union P} ELSE {})

-----------------------------------------------------------------------------
ReadMainConfig ==
  /\ pc = "config"
  /\ \/ pc' = "build" /\ UNCHANGED <<job, test, report, results>>
     \/ Abort
  /\ UNCHANGED <<files, shown, late, history>>

(* What is left of the executable file when the builder is done with it.   *)
Compile(outcome) ==
  \/ outcome \in {"built", "misread", "assert", "left"} /\ exe' = job
  \/ outcome \in {"error", "silent", "assert", "left"} /\ exe' \in {exe, NoFile}

(* A compiler that was given up goes on, and may replace the program of a  *)
(* solution that was built before it has ended.                            *)
NoteBuild(outcome) ==
  /\ compiling' \in IF outcome = "left" THEN MayStay(compiling, {job}) ELSE {compiling}
  /\ silent' = IF outcome = "silent" THEN silent \union {job} ELSE silent
  /\ overtaken' = IF outcome = "built" /\ compiling # {}
                    THEN overtaken \union {job} ELSE overtaken

(* Mutant: a build that failed is not a reason to stop.                    *)
BuildAndGoOn ==
  /\ pc = "build"
  /\ \E outcome \in Compiles :
       /\ Compile(outcome) /\ NoteBuild(outcome)
       /\ \/ /\ outcome # "assert"
             /\ pc' = IF N > 0 THEN "read" ELSE "save"
             /\ UNCHANGED <<job, test, report, results>>
          \/ outcome = "assert" /\ Abort
  /\ UNCHANGED <<out, rep, shown, closing, dying, crowded, doubtful>>

(* build_from_source judges a build by the output of the compiler alone.   *)
BuildFromSource ==
  /\ pc = "build"
  /\ \E outcome \in Compiles :
       /\ Compile(outcome) /\ NoteBuild(outcome)
       /\ \/ /\ outcome \in {"built", "silent"}
             /\ pc' = IF N > 0 THEN "read" ELSE "save"
             /\ UNCHANGED <<job, test, report, results>>
          \/ /\ outcome \in {"misread", "error", "left"}
             /\ End([status |-> "bad", report |-> <<>>])
          \/ outcome \in {"assert", "left"} /\ Abort
  /\ UNCHANGED <<out, rep, shown, closing, dying, crowded, doubtful>>

(* test_reader::read.                                                      *)
ReadTest ==
  /\ pc = "read"
  /\ \/ pc' = "execute" /\ UNCHANGED <<job, test, report, results>>
     \/ Abort
  /\ UNCHANGED <<files, shown, late, history>>

Run == <<exe, job, test>>

(* What a run leaves, if there is a program to run; and what there was     *)
(* before it, where that could not be removed.                             *)
NoteRun ==
  LET left == IF exe = NoFile THEN {} ELSE {Run} IN
    /\ out' \in {NoFile} \union left \union (IF closing = {} THEN {} ELSE {out})
    /\ closing' \in MayStay(closing, left)
  /\ crowded' = IF closing = {} THEN crowded ELSE crowded \union {<<job, test>>}

(* Mutant: the switch has no default.                                      *)
ExecuteNoDefault ==
  /\ pc = "execute"
  /\ NoteRun
  /\ \/ /\ exe # NoFile /\ out' # NoFile
        /\ pc' = "check" /\ UNCHANGED <<test, report>>
     \/ /\ \/ UNCHANGED report
           \/ \E r \in {"tle", "mle"} : report' = Append(report, Element(r, Run, NoFile))
        /\ NextTest
  /\ UNCHANGED <<job, exe, rep, shown, results, compiling, dying, silent,
                 overtaken, doubtful>>

(* executor::execute and the switch on what it returns: a program that can *)
(* not be started, like one that makes no output file, is a crash.         *)
Execute ==
  /\ pc = "execute"
  /\ NoteRun
  /\ \/ /\ exe # NoFile /\ out' # NoFile
        /\ pc' = "check" /\ UNCHANGED <<test, report>>
     \/ /\ \E r \in {"tle", "mle", "crash"} :
             /\ exe = NoFile => r = "crash"
             /\ report' = Append(report, Element(r, Run, NoFile))
        /\ NextTest
  /\ UNCHANGED <<job, exe, rep, shown, results, compiling, dying, silent,
                 overtaken, doubtful>>

(* The report that check.exe writes.                                       *)
ReportOn(j, i, says) == [job |-> j, test |-> i, says |-> says]
Written(says) == ReportOn(job, test, says)

(* check.exe had no report of its own, or one that others may write to.    *)
Doubt(outcome) ==
  doubtful' = IF outcome = "missing" \/ dying # {}
                THEN doubtful \union {<<job, test>>} ELSE doubtful

(* Mutant: the exit code of check.exe is not looked at.                    *)
RunJudgeUnchecked ==
  /\ pc = "check"
  /\ \E outcome \in Judges, says \in {Accepted, Rejected} :
       /\ Doubt(outcome)
       /\ \/ outcome = "judged" /\ rep' = Written(says)
          \/ outcome \in {"failed", "killed"} /\ rep' \in {rep, Written(says)}
          \/ outcome = "missing" /\ rep' = rep
  /\ shown' = out /\ pc' = "parse"
  /\ UNCHANGED <<job, test, exe, out, report, results, late, silent,
                 overtaken, crowded>>

(* answers_match runs check.exe; a code that is not one of testlib's, or a *)
(* missing test or answer, aborts the checker.                             *)
RunJudge ==
  /\ pc = "check"
  /\ \E outcome \in Judges, says \in {Accepted, Rejected} :
       \/ /\ \/ outcome = "judged" /\ rep' = Written(says)
             \/ outcome = "missing" /\ rep' = rep
          /\ shown' = out /\ pc' = "parse" /\ Doubt(outcome)
          /\ UNCHANGED <<job, test, report, results, dying>>
       \/ /\ outcome \in {"failed", "killed"} /\ rep' \in {rep, Written(says)}
          /\ dying' \in IF outcome = "killed" THEN MayStay(dying, {<<job, test>>})
                                              ELSE {dying}
          /\ Abort /\ UNCHANGED <<shown, doubtful>>
  /\ UNCHANGED <<exe, out, compiling, closing, silent, overtaken, crowded>>

(* ... reads the report that is there, and the result of the test is what  *)
(* it says ...                                                             *)
ParseReport ==
  /\ pc = "parse"
  /\ shown' = NoFile
  /\ \/ rep = NoFile /\ Abort
     \/ /\ rep # NoFile
        /\ report' = Append(report, Element(IF rep.says = Accepted THEN "ok" ELSE "bad",
                                            shown, rep))
        /\ pc' = "remove"
        /\ UNCHANGED <<job, test, results>>
  /\ UNCHANGED <<files, late, history>>

(* ... and removes it, if it can be removed: nobody looks.                 *)
RemoveReport ==
  /\ pc = "remove"
  /\ rep' \in {rep, NoFile}
  /\ NextTest
  /\ UNCHANGED <<job, exe, out, shown, report, results, late, history>>

(* main writes the verdict to the result file.                             *)
SaveResult ==
  /\ pc = "save"
  /\ End([status |-> "ok", report |-> report])
  /\ UNCHANGED <<files, shown, late, history>>

-----------------------------------------------------------------------------
(* The processes nobody waits for: they write their files, and end.        *)

own == <<job, pc, test, shown, report, results, history>>

LateLink(j) ==
  /\ j \in compiling
  /\ exe' \in {j, NoFile}
  /\ UNCHANGED <<own, out, rep, late>>

CompilerEnds(j) ==
  /\ j \in compiling
  /\ compiling' = compiling \ {j}
  /\ UNCHANGED <<own, files, closing, dying>>

LateOutput(r) ==
  /\ r \in closing
  /\ out' = r
  /\ UNCHANGED <<own, exe, rep, late>>

FilesClosed(r) ==
  /\ r \in closing
  /\ closing' = closing \ {r}
  /\ UNCHANGED <<own, files, compiling, dying>>

LateWrite(j, i) ==
  /\ <<j, i>> \in dying
  /\ \E says \in {Accepted, Rejected} : rep' = ReportOn(j, i, says)
  /\ UNCHANGED <<own, exe, out, late>>

Gone(j, i) ==
  /\ <<j, i>> \in dying
  /\ dying' = dying \ {<<j, i>>}
  /\ UNCHANGED <<own, files, compiling, closing>>

-----------------------------------------------------------------------------

Check ==
  \/ ReadMainConfig \/ BuildFromSource \/ ReadTest \/ Execute
  \/ RunJudge \/ ParseReport \/ RemoveReport \/ SaveResult

Others ==
  \/ \E j \in Jobs : LateLink(j) \/ CompilerEnds(j)
  \/ \E r \in Runs : LateOutput(r) \/ FilesClosed(r)
  \/ \E j \in Jobs, i \in Tests : LateWrite(j, i) \/ Gone(j, i)

Next == Check \/ Others

Spec == Init /\ [][Next]_vars

-----------------------------------------------------------------------------
(* Properties.                                                             *)

Finished == {j \in Jobs : results[j] \notin {Pending, Aborted}}

(* A saved verdict is a compilation error and nothing else, or the results *)
(* of all tests in their order, although any step may abort the process    *)
(* and the next one finds its files.                                       *)
CompleteReport ==
  \A j \in Finished :
    LET r == results[j].report IN
      IF results[j].status = "bad" THEN r = <<>>
      ELSE Len(r) = N /\ \A i \in Tests : r[i].id = i

(* Each test of a solution is judged by what its own program did on it,    *)
(* whatever became of the others: programs, and their outputs, have one    *)
(* name, the last one that was built stays, and any step may end a         *)
(* checker.  Not so for a solution whose compiler fails without a word, or *)
(* which is built when a compiler given up is still there; nor for a test  *)
(* that begins when runs before it still have their files open.            *)
OwnProgram ==
  \A j \in Finished \ (silent \union overtaken) : \A i \in DOMAIN results[j].report :
    <<j, i>> \notin crowded => results[j].report[i].of = <<j, j, i>>

(* A result by check.exe is what its report on that test of that solution  *)
(* says.                                                                   *)
JudgedBy(e, j, i) ==
  e.result \in {"ok", "bad"} =>
    /\ e.by # NoFile
    /\ e.by.job = j /\ e.by.test = i
    /\ e.result = "ok" <=> e.by.says = Accepted

(* A test is passed, or failed, by a report that check.exe wrote on that   *)
(* test of that solution, although reports of tests before it, and of      *)
(* aborted checkers, may still be there, and a killed check.exe may write  *)
(* another one; as long as its check.exe is there, alone, and leaves a     *)
(* report if it exits with one of its codes.                               *)
OwnReport ==
  \A j \in Finished : \A i \in DOMAIN results[j].report :
    <<j, i>> \notin doubtful => JudgedBy(results[j].report[i], j, i)

(* matcher.h:25-26 says so of every check.exe, even one that is not there: *)
(* if anything is wrong the checker ends in an assert, and nothing but its *)
(* own report passes or fails a test.                                      *)
WrongEndsInAssert ==
  \A j \in Finished : \A i \in DOMAIN results[j].report :
    JudgedBy(results[j].report[i], j, i)

-----------------------------------------------------------------------------
(* The checkers implement the abstract service.                            *)

Genuine(e, j, i) == e.id = i /\ e.of = <<j, j, i>> /\ JudgedBy(e, j, i)

GradeOf(j, r) ==
  IF r \in {Pending, Aborted} THEN r
  ELSE [status |-> r.status,
        tests |-> [i \in DOMAIN r.report |->
                     IF Genuine(r.report[i], j, i) THEN r.report[i].result
                                                   ELSE "foreign"]]

Grades == [j \in Jobs |-> GradeOf(j, results[j])]

Service ==
  INSTANCE Grading WITH
    Solutions <- Jobs, grades <- Grades,
    doubtful <- doubtful \union crowded \union ((silent \union overtaken) \X Tests)

(* Each solution is graded once, on all of its tests or on none; and on    *)
(* every test on which nothing happened that nobody notices, with nothing  *)
(* but what became of its own program, although the checkers share their   *)
(* files, any step may abort one of them, and others may be in doubt.      *)
ImplementsGrading == Service!Spec

-----------------------------------------------------------------------------
(* The loop over the tests asks nothing more of check.exe than Runner      *)
(* shows that it gets.                                                     *)

(* The output that is being answered: its report is to be read, or is      *)
(* there still.                                                            *)
Answering == pc \in {"parse", "remove"}

Nobody == <<0, 0>>

Read(r) ==
  IF r = NoFile THEN [call |-> Nobody, accepted |-> FALSE]
                ELSE [call |-> <<r.job, r.test>>, accepted |-> r.says = Accepted]

Judge ==
  INSTANCE Answers WITH
    Calls <- Outputs,
    at <- IF Answering THEN <<job, test>> ELSE Nobody,
    answer <- IF pc = "remove" THEN report[test].result ELSE "none",
    rep <- Read(rep)

(* The steps Checker takes for those of answers_match promise of its       *)
(* answers what Runner promises of them.                                   *)
ImplementsAnswers == Judge!Spec

=============================================================================
