------------------------------- MODULE Runner -------------------------------
(***************************************************************************)
(* answers_match of checker_rc/matcher.cpp with the static execute() of    *)
(* checker_rc/executor.cpp: check.exe is started on an output, watched in  *)
(* a busy loop, killed after 10 s, and the report it left is read.  Two    *)
(* things tell how it ended: its exit code, and the report; the result is  *)
(* taken from the report alone, the exit code is a reason to abort.        *)
(*                                                                         *)
(* The calls are made one after another, by one checker or by the next:    *)
(* an abort ends the process, but not what is left of its check.exe.  The  *)
(* actors are the checker, check.exe and the clock.  Unit: a millisecond.  *)
(***************************************************************************)
EXTENDS Integers

CONSTANTS
  N,             \* the calls are 1 .. N
  TimeLimit,     \* time_limit, 10000
  Eps,           \* eps_time
  TickRange,     \* GetTickCount counts modulo this (2^32)
  StillActive,   \* STILL_ACTIVE, 259
  ExitCodes,     \* the codes check.exe may exit with
  Threads,       \* how much CPU time it can use in a unit of wall time
  MaxTime,       \* bound: how long a check.exe is watched
  NoFile, Empty, \* no report, one that was opened and not written
  NotEnded, Killed   \* how check.exe ended, other than with an exit code

Calls == 1 .. N

(* The codes of testlib; 0 is "accepted".                                  *)
Verdicts == 0 .. 4

ASSUME ConstantsAssumption ==
  /\ N \in Nat \ {0}
  /\ TimeLimit \in Nat /\ Eps \in Nat /\ Threads \in Nat
  /\ MaxTime \in Nat /\ TickRange \in Nat /\ MaxTime < TickRange
  /\ StillActive \in Int \ Verdicts
  /\ ExitCodes \subseteq Int
  /\ NotEnded \notin Int /\ Killed \notin Int /\ NotEnded # Killed
  /\ Empty \notin Verdicts

Report(c, number) == [call |-> c, number |-> number]

Reports == [call : Calls, number : Verdicts \union {Empty}]

ASSUME NoFileAssumption == NoFile \notin Reports

VARIABLES
  call,      \* the call at hand
  pc,        \* what the checker does next
  state,     \* its check.exe: "none", "running" or "ended"
  code,      \* its exit code
  dying,     \* calls whose check.exe was killed and is not gone yet
  rep,       \* the report file
  base, clock, started,   \* tick count and time since check.exe was started,
                          \* and that time when time_start was taken
  work,      \* work_time
  ret,       \* return_code
  results,   \* what the calls returned
  before,    \* history: the report that was there when a call began
  ended,     \* history: how the check.exe of each call ended
  missing,   \* history: calls whose check.exe could not be started, or ended
             \* with a code of testlib and without a report of its own
  liars,     \* history: these, and those that reported another number
  crowded    \* history: calls that started check.exe when that of another one
             \* was not gone yet

time == <<base, clock, started>>
history == <<ended, missing, liars, crowded>>
vars == <<call, pc, state, code, dying, rep, time, work, ret, results, before,
          history>>

Watching == {"exitcode", "times", "timer", "kill"}

TypeOK ==
  /\ call \in Calls
  /\ pc \in {"begin", "create", "start", "report", "remove", "done"} \union Watching
  /\ state \in {"none", "running", "ended"}
  /\ code \in ExitCodes \union {0}
  /\ dying \subseteq Calls
  /\ rep \in Reports \union {NoFile} /\ before \in Reports \union {NoFile}
  /\ base \in 0 .. TickRange - 1 /\ clock \in 0 .. MaxTime /\ started \in 0 .. clock
  /\ work \in Nat
  /\ ret \in Verdicts \union {-1}
  /\ results \in [Calls -> {"none", "ok", "bad", "abort"}]
  /\ ended \in [Calls -> ExitCodes \union {NotEnded, Killed}]
  /\ missing \subseteq liars /\ liars \subseteq Calls /\ crowded \subseteq Calls

Init ==
  /\ call = 1 /\ pc = "begin"
  /\ state = "none" /\ code = 0 /\ dying = {}
  /\ rep = NoFile /\ before = NoFile
  /\ base = 0 /\ clock = 0 /\ started = 0 /\ work = 0 /\ ret = 0
  /\ results = [c \in Calls |-> "none"]
  /\ ended = [c \in Calls |-> NotEnded]
  /\ missing = {} /\ liars = {} /\ crowded = {}

-----------------------------------------------------------------------------
Goto(from, to) == pc = from /\ pc' = to

Distance(a, b) == IF a > b THEN a - b ELSE b - a

GetTickCount(at) == (base + at) % TickRange

Elapsed == (GetTickCount(clock) - GetTickCount(started)) % TickRange

(* GetExitCodeProcess; without a process it fails, and exit_code stays 0.  *)
ExitCode ==
  CASE state = "none" -> 0
    [] state = "running" -> StillActive
    [] state = "ended" -> code

(* The call is over, by a return or by the end of the process.             *)
NextCall ==
  IF call < N THEN call' = call + 1 /\ pc' = "begin"
              ELSE call' = call /\ pc' = "done"

Abort ==
  /\ results' = [results EXCEPT ![call] = "abort"]
  /\ NextCall

-----------------------------------------------------------------------------
(* The checker.                                                            *)

(* The test, the answer and their one directory are asserted.              *)
Begin ==
  /\ pc = "begin"
  /\ before' = rep
  /\ \/ pc' = "create" /\ UNCHANGED <<call, results>>
     \/ Abort
  /\ UNCHANGED <<state, code, dying, rep, time, work, ret, history>>

(* CreateProcess, whose success is not looked at.                          *)
CreateProcess ==
  /\ Goto("create", "start")
  /\ before' = rep
  /\ \/ state' = "running" /\ UNCHANGED <<missing, liars>>
     \/ /\ state' = "none"
        /\ missing' = missing \union {call} /\ liars' = liars \union {call}
  /\ crowded' = IF dying = {} THEN crowded ELSE crowded \union {call}
  /\ base' \in 0 .. TickRange - 1 /\ clock' = 0 /\ started' = 0
  /\ UNCHANGED <<call, code, dying, rep, work, ret, results, ended>>

(* time_start is taken when check.exe is already running.                  *)
StartTimer ==
  /\ Goto("start", "exitcode")
  /\ started' = clock /\ work' = 0
  /\ UNCHANGED <<call, state, code, dying, rep, base, clock, ret, results,
                 before, history>>

(* Mutant: an exit code is returned whatever it is.                        *)
GetExitCodeAny ==
  /\ pc = "exitcode"
  /\ \/ ExitCode = StillActive /\ pc' = "times" /\ UNCHANGED ret
     \/ ExitCode # StillActive /\ pc' = "report" /\ ret' = ExitCode
  /\ UNCHANGED <<call, state, code, dying, rep, time, work, results, before, history>>

(* The loop.  Code 259 looks like a process that is running.               *)
GetExitCode ==
  /\ pc = "exitcode"
  /\ \/ ExitCode = StillActive /\ pc' = "times" /\ UNCHANGED ret
     \/ ExitCode \in Verdicts /\ pc' = "report" /\ ret' = ExitCode
     \/ ExitCode \notin Verdicts \union {StillActive} /\ pc' = "report" /\ ret' = -1
  /\ UNCHANGED <<call, state, code, dying, rep, time, work, results, before, history>>

(* GetProcessTimes: any CPU time that check.exe can have used, and, where  *)
(* the counters were cut to 32 bits, any below.                            *)
GetProcessTimes ==
  /\ Goto("times", "timer")
  /\ work' \in 0 .. Threads * clock
  /\ UNCHANGED <<call, state, code, dying, rep, time, ret, results, before, history>>

(* Mutant: CPU time alone is looked at.                                    *)
CheckCpuTimeOnly ==
  /\ pc = "timer"
  /\ \/ work > TimeLimit /\ pc' = "kill"
     \/ work <= TimeLimit /\ pc' = "exitcode"
  /\ UNCHANGED <<call, state, code, dying, rep, time, work, ret, results,
                 before, history>>

CheckTime ==
  /\ pc = "timer"
  /\ IF work > TimeLimit \/ Distance(Elapsed, work) > Eps
       THEN pc' = "kill" ELSE pc' = "exitcode"
  /\ UNCHANGED <<call, state, code, dying, rep, time, work, ret, results,
                 before, history>>

(* What TerminateProcess does.                                             *)
Terminate ==
  IF state = "running"
    THEN /\ state' = "ended" /\ code' = 0
         /\ dying' = dying \union {call}
         /\ ended' = [ended EXCEPT ![call] = Killed]
    ELSE UNCHANGED <<state, code, dying, ended>>

(* Mutant: the loop goes on after the kill and finds the code 0.           *)
KillAndAskAgain ==
  /\ Goto("kill", "exitcode")
  /\ Terminate
  /\ UNCHANGED <<call, rep, time, work, ret, results, before, missing, liars, crowded>>

(* Mutant: check.exe is given up, but not killed, and judged all the same. *)
GiveUp ==
  /\ Goto("kill", "report")
  /\ ret' = 1
  /\ UNCHANGED <<call, state, code, dying, rep, time, work, results, before, history>>

(* The result is -1, whatever check.exe did in the meantime, or is doing   *)
(* until it is gone.                                                       *)
Kill ==
  /\ Goto("kill", "report")
  /\ ret' = -1
  /\ Terminate
  /\ UNCHANGED <<call, rep, time, work, results, before, missing, liars, crowded>>

(* parse_testlib_checker_report looks for the number 0 only.               *)
ReadReport ==
  /\ pc = "report"
  /\ IF ret \in Verdicts /\ rep # NoFile
       THEN /\ results' = [results EXCEPT ![call] =
                             IF rep.number = 0 THEN "ok" ELSE "bad"]
            /\ pc' = "remove" /\ UNCHANGED call
       ELSE Abort
  /\ UNCHANGED <<state, code, dying, rep, time, work, ret, before, history>>

(* remove, whose success is not looked at either.                          *)
RemoveReport ==
  /\ pc = "remove"
  /\ rep' \in {rep, NoFile}
  /\ NextCall
  /\ UNCHANGED <<state, code, dying, time, work, ret, results, before, history>>

-----------------------------------------------------------------------------
(* check.exe, and what is left of those that were killed.                  *)

Writers == dying \union (IF state = "running" THEN {call} ELSE {})

(* It opens its report, and writes its number.                             *)
Write(c) ==
  /\ c \in Writers
  /\ \/ rep' = Report(c, Empty)
     \/ rep \in Reports /\ rep.call = c /\ rep.number = Empty
        /\ \E n \in Verdicts \intersect ExitCodes : rep' = Report(c, n)
  /\ UNCHANGED <<call, pc, state, code, dying, time, work, ret, results, before, history>>

(* The report is that of the check.exe of the call at hand.                *)
OwnReport == rep \in Reports /\ rep.call = call

Exit ==
  /\ state = "running" /\ state' = "ended"
  /\ \E c \in ExitCodes :
       /\ code' = c /\ ended' = [ended EXCEPT ![call] = c]
       /\ missing' = IF c \in Verdicts /\ ~OwnReport
                       THEN missing \union {call} ELSE missing
       /\ liars' = IF c \in Verdicts /\ rep # Report(call, c)
                     THEN liars \union {call} ELSE liars
  /\ UNCHANGED <<call, pc, dying, rep, time, work, ret, results, before, crowded>>

Gone(c) ==
  /\ c \in dying
  /\ dying' = dying \ {c}
  /\ UNCHANGED <<call, pc, state, code, rep, time, work, ret, results, before, history>>

Tick ==
  /\ pc \in Watching \union {"start"} /\ clock < MaxTime
  /\ clock' = clock + 1
  /\ pc = "start" => clock' + TimeLimit + Eps < MaxTime
  /\ UNCHANGED <<call, pc, state, code, dying, rep, base, started, work, ret,
                 results, before, history>>

-----------------------------------------------------------------------------
AnswersMatch ==
  \/ Begin \/ CreateProcess \/ StartTimer \/ GetExitCode \/ GetProcessTimes
  \/ CheckTime \/ Kill \/ ReadReport \/ RemoveReport

Next ==
  \/ AnswersMatch
  \/ \E c \in Calls : Write(c) \/ Gone(c)
  \/ Exit \/ Tick

Spec == Init /\ [][Next]_vars

(* The checker is one thread that waits for nothing, time passes, and a    *)
(* process that was killed is gone some time.  check.exe owes nothing.     *)
Fairness ==
  /\ WF_vars(AnswersMatch) /\ WF_vars(Tick)
  /\ \A c \in Calls : WF_vars(Gone(c))

FairSpec == Spec /\ Fairness

-----------------------------------------------------------------------------
(* Properties.                                                             *)

(* When a report is read for a result, the check.exe of this call is over  *)
(* and will write no more, or was never started; and the report is its     *)
(* own, or the one that was there before, unless a killed check.exe was    *)
(* there still when it was started.  It was not killed.                    *)
ReportSettled ==
  pc = "report" /\ ret \in Verdicts =>
    /\ state # "running" /\ ended[call] # Killed
    /\ rep # before /\ call \notin crowded => OwnReport
    /\ state = "ended" => ended[call] = ret

(* What the report says is what the exit code says, for a check.exe that   *)
(* is there, alone, and exits with the number it wrote, whatever others    *)
(* did before it; so an output is accepted only if the check.exe of this   *)
(* call ended by itself, with 0.  A killed one ends with 0 too, and may    *)
(* have got as far as to write its report.                                 *)
ResultIsExitCode ==
  \A c \in Calls \ (liars \union crowded) : results[c] \in {"ok", "bad"} =>
    /\ ended[c] \in Verdicts
    /\ results[c] = "ok" <=> ended[c] = 0

(* A check.exe that is there after its limit and eps_time is killed at the *)
(* next look at the clock, although the tick count may have begun anew,    *)
(* and whatever its CPU times are.                                         *)
KilledInTime ==
  [][CheckTime /\ clock - started > TimeLimit + Eps => pc' = "kill"]_vars

(* A call is being answered: its report is to be read, or is there still.  *)
Answering == (pc = "report" /\ ret \in Verdicts) \/ pc = "remove"

(* What a report has to say to parse_testlib_checker_report.               *)
Read(r) ==
  IF r = NoFile THEN [call |-> 0, accepted |-> FALSE]
                ELSE [call |-> r.call, accepted |-> r.number = 0]

Doubtful == missing \union crowded

Answers ==
  INSTANCE Answers WITH
    Nobody <- 0,
    at <- IF Answering THEN call ELSE 0,
    answer <- IF pc = "remove" THEN results[call] ELSE "none",
    rep <- Read(rep),
    doubtful <- Doubtful

(* A call that is judged is answered from its own report, although killed  *)
(* ones may still write to the one file, reports of calls before may be    *)
(* there, and the checker may have been aborted between; unless it is      *)
(* doubtful: its check.exe could not be started, exited with a code of     *)
(* testlib and without a report, or was not alone.                         *)
ImplementsAnswers == Answers!Spec

(* No check.exe holds up the checker, whatever it does.                    *)
AllAnswered == \A c \in Calls : <>(results[c] # "none")

=============================================================================
