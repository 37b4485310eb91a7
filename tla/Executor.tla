------------------------------ MODULE Executor ------------------------------
(***************************************************************************)
(* The executor of the checker (checker_rc/executor): for each test of a   *)
(* task it starts the judged program as a child process, polls it in a     *)
(* busy loop against its limits, kills it when it exceeds one, waits for   *)
(* the operating system to let go of its files and reads its output.       *)
(*                                                                         *)
(* The actors are the executor, the child, the clock, and the operating    *)
(* system, which closes the files of an ended process in its own time.     *)
(* Times are in abstract units of a millisecond.                           *)
(***************************************************************************)
EXTENDS Integers

CONSTANTS
  N,              \* the tests of the task are 1 .. N, run in this order
  TimeLimit,      \* limits of the task
  MemoryLimit,
  Eps,            \* eps_time: how far CPU time and wall time may diverge
  TickRange,      \* GetTickCount counts modulo this (2^32 ms)
  CpuRange,       \* a CPU time counts modulo this (2^32 units of 100 ns)
  StillActive,    \* STILL_ACTIVE, the "exit code" of a running process (259)
  ExitCodes,      \* the codes the judged program may exit with
  Threads,        \* how much CPU time it can use in a unit of wall time
  MaxTime,        \* bound: the wall time that passes while a child is watched
  MaxDelay,       \* bound: the same, from its creation until time_start
  MaxMemory,      \* bound: the largest working set
  QueriesFail,    \* GetProcessMemoryInfo may fail
  NoFile,         \* "the file does not exist"
  NotEnded, Killed   \* how a child ended, other than with an exit code

ASSUME ConstantsAssumption ==
  /\ N \in Nat \ {0}
  /\ TimeLimit \in Nat
  /\ MemoryLimit \in Nat
  /\ Eps \in Nat
  /\ TickRange \in Nat \ {0}
  /\ CpuRange \in Nat \ {0}
  /\ Threads \in Nat
  /\ MaxTime \in Nat
  /\ MaxTime < TickRange
  /\ MaxDelay \in Nat
  /\ MaxMemory \in Nat
  /\ MemoryLimit <= MaxMemory
  /\ StillActive # 0
  /\ QueriesFail \in BOOLEAN
  /\ NoFile \notin 0 .. N
  /\ {NotEnded, Killed} \intersect ExitCodes = {} /\ NotEnded # Killed

VARIABLES
  test,      \* the test at hand
  pc,        \* what execute() does next
  correct,   \* request_report.correct
  workTime,  \* work_time: the last CPU time sampled
  timer,     \* timer: the last wall time sampled
  memory,    \* memory: the largest working set sampled
  report,    \* what execute() returned for each test
  state,     \* the child: "none", "running" or "ended"
  code,      \* its exit code, once it has ended
  kernel, user,   \* its CPU times
  rss,       \* its working set
  base,      \* the tick count when the child was created
  clock,     \* wall time since then
  started,   \* wall time at which time_start was taken
  dying,     \* tests whose ended child still has its files open
  outFile,   \* whose output the output file holds: NoFile, a test, or 0 for
             \* a program judged earlier in the same directory
  ended,     \* history: how each child ended
  seenAlive, \* history: the child ran when its exit code was last asked for
  crowded    \* history: tests begun when a child of another one had files open

place == <<test, pc>>
samples == <<workTime, timer, memory>>
usage == <<kernel, user, rss>>
time == <<base, clock>>
history == <<ended, seenAlive, crowded>>
vars == <<place, correct, samples, report, state, code, usage, time, started,
          dying, outFile, history>>

Tests == 1 .. N

Watching == {"exitcode", "times", "timer", "memory"}

(* (size_t) -1, the working set when it can not be told.                   *)
Unknown == MaxMemory + 1

Outcomes == {"CRASH", "CORRECT", "TLE", "MLE", "NIF", "CPF", "CCTF"}

(* A request; wall is not a part of it, but the timer it was decided by.   *)
Request(c, p, t, m, w) ==
  [correct |-> c, program |-> p, time |-> t, memory |-> m, wall |-> w]

Requests ==
  [correct : Outcomes \union {"none"}, program : 0 .. N \union {NoFile},
   time : Nat, memory : 0 .. Unknown, wall : Nat]

NoRequest == Request("none", NoFile, 0, 0, 0)

TypeOK ==
  /\ test \in Tests
  /\ pc \in {"begin", "input", "create", "start", "exitcode", "times", "timer",
             "memory", "kill", "sleep", "output", "done"}
  /\ correct \in Outcomes
  /\ workTime \in Nat /\ timer \in Nat /\ memory \in 0 .. Unknown
  /\ report \in [Tests -> Requests]
  /\ state \in {"none", "running", "ended"}
  /\ code \in ExitCodes \union {0}
  /\ kernel \in Nat /\ user \in Nat /\ rss \in 0 .. MaxMemory
  /\ base \in 0 .. TickRange - 1
  /\ clock \in Nat /\ started \in Nat
  /\ dying \subseteq Tests
  /\ outFile \in 0 .. N \union {NoFile}
  /\ ended \in [Tests -> ExitCodes \union {NotEnded, Killed}]
  /\ seenAlive \in BOOLEAN
  /\ crowded \subseteq Tests

Init ==
  /\ test = 1 /\ pc = "begin"
  /\ correct = "CRASH"
  /\ workTime = 0 /\ timer = 0 /\ memory = 0
  /\ report = [t \in Tests |-> NoRequest]
  /\ state = "none" /\ code = 0
  /\ kernel = 0 /\ user = 0 /\ rss = 0
  /\ base = 0 /\ clock = 0 /\ started = 0
  /\ dying = {}
  /\ outFile \in {NoFile, 0}
  /\ ended = [t \in Tests |-> NotEnded]
  /\ seenAlive = FALSE
  /\ crowded = {}

-----------------------------------------------------------------------------
(* Helpers.                                                                *)

Goto(from, to) == pc = from /\ pc' = to

Distance(a, b) == IF a > b THEN a - b ELSE b - a

GetTickCount(at) == (base + at) % TickRange

(* Mutant: the difference taken in a type that is too wide to wrap around. *)
ElapsedWide == GetTickCount(clock) - GetTickCount(started)

(* GetTickCount() - time_start, in unsigned arithmetic.                    *)
Elapsed == (GetTickCount(clock) - GetTickCount(started)) % TickRange

(* Both counters lose their high word before they are added.               *)
ProcessTime == (kernel % CpuRange) + (user % CpuRange)

(* GetExitCodeProcess.                                                     *)
ExitCode == IF state = "running" THEN StillActive ELSE code

(* Mutant: the loop of check() runs past the last test.                    *)
ReturnPastEnd(r) ==
  /\ report' = [report EXCEPT ![test] = r]
  /\ IF test <= N THEN test' = test + 1 /\ pc' = "begin"
                  ELSE test' = test /\ pc' = "done"

(* execute() returns, and the loop of check() calls it for the next test.  *)
Return(r) ==
  /\ report' = [report EXCEPT ![test] = r]
  /\ IF test < N THEN test' = test + 1 /\ pc' = "begin"
                 ELSE test' = test /\ pc' = "done"

-----------------------------------------------------------------------------
(* The executor.                                                           *)

(* Whether Sleep(100) was long enough for the files of the children before *)
(* to be closed shows here.                                                *)
NoteCrowd == crowded' = IF dying = {} THEN crowded ELSE crowded \union {test}

(* Mutant: the output file of the test before is left where it is.         *)
BeginKeepsOutput ==
  /\ Goto("begin", "input")
  /\ correct' = "CORRECT"
  /\ workTime' = 0 /\ timer' = 0 /\ memory' = 0
  /\ state' = "none"
  /\ NoteCrowd
  /\ UNCHANGED <<test, report, code, usage, time, started, dying, outFile, ended, seenAlive>>

(* The request is reset and the files of the test before are removed, if   *)
(* they can be: nobody looks.                                              *)
Begin ==
  /\ Goto("begin", "input")
  /\ correct' = "CORRECT"
  /\ workTime' = 0 /\ timer' = 0 /\ memory' = 0
  /\ state' = "none"
  /\ NoteCrowd
  /\ \/ outFile' = NoFile
     \/ dying # {} /\ UNCHANGED outFile
  /\ UNCHANGED <<test, report, code, usage, time, started, dying, ended, seenAlive>>

MakeInputFile ==
  /\ pc = "input"
  /\ \/ /\ pc' = "create"
        /\ UNCHANGED <<test, correct, report>>
     \/ /\ correct' = "CCTF"
        /\ Return(Request("CCTF", NoFile, 0, 0, 0))
  /\ UNCHANGED <<samples, state, code, usage, time, started, dying, outFile, history>>

CreateChildProcess ==
  /\ pc = "create"
  /\ \/ /\ pc' = "start"
        /\ state' = "running"
        /\ kernel' = 0 /\ user' = 0 /\ rss' = 0
        /\ base' \in 0 .. TickRange - 1
        /\ clock' = 0 /\ started' = 0
        /\ UNCHANGED <<test, correct, report>>
     \/ /\ correct' = "CPF"
        /\ Return(Request("CPF", NoFile, 0, 0, 0))
        /\ UNCHANGED <<state, usage, time, started>>
  /\ UNCHANGED <<samples, code, dying, outFile, history>>

(* time_start is taken when the child is already running.                  *)
StartTimer ==
  /\ Goto("start", "exitcode")
  /\ started' = clock
  /\ UNCHANGED <<test, correct, samples, report, state, code, usage, time,
                 dying, outFile, history>>

(* The loop of execute().  Its calls are not made at one instant: the      *)
(* child may run, or exit, between any two of them.                        *)
GetExitCode ==
  /\ pc = "exitcode"
  /\ seenAlive' = (state = "running")
  /\ \/ ExitCode = StillActive /\ pc' = "times" /\ UNCHANGED correct
     \/ ExitCode = 0 /\ pc' = "sleep" /\ UNCHANGED correct
     \/ ExitCode \notin {StillActive, 0} /\ pc' = "sleep" /\ correct' = "CRASH"
  /\ UNCHANGED <<test, samples, report, state, code, usage, time, started,
                 dying, outFile, ended, crowded>>

GetProcessTimes ==
  /\ Goto("times", "timer")
  /\ workTime' = ProcessTime
  /\ UNCHANGED <<test, correct, timer, memory, report, state, code, usage, time,
                 started, dying, outFile, history>>

(* Mutant: the child is killed, and the loop left, without a verdict.      *)
CheckTimeNoVerdict ==
  /\ pc = "timer"
  /\ timer' = Elapsed
  /\ IF workTime > TimeLimit \/ Distance(timer', workTime) > Eps
       THEN pc' = "kill"
       ELSE pc' = "memory"
  /\ UNCHANGED <<test, correct, workTime, memory, report, state, code, usage,
                 time, started, dying, outFile, history>>

(* Mutant: only CPU time counts.                                           *)
CheckCpuTimeOnly ==
  /\ pc = "timer"
  /\ timer' = Elapsed
  /\ IF workTime > TimeLimit
       THEN correct' = "TLE" /\ pc' = "kill"
       ELSE pc' = "memory" /\ UNCHANGED correct
  /\ UNCHANGED <<test, workTime, memory, report, state, code, usage, time,
                 started, dying, outFile, history>>

CheckTime ==
  /\ pc = "timer"
  /\ timer' = Elapsed
  /\ IF workTime > TimeLimit \/ Distance(timer', workTime) > Eps
       THEN correct' = "TLE" /\ pc' = "kill"
       ELSE pc' = "memory" /\ UNCHANGED correct
  /\ UNCHANGED <<test, workTime, memory, report, state, code, usage, time,
                 started, dying, outFile, history>>

(* Mutant: a child that uses too much memory is reported, not killed.      *)
CheckMemoryNoKill ==
  /\ pc = "memory"
  /\ \E m \in {rss} \union (IF QueriesFail THEN {Unknown} ELSE {}) :
       memory' = IF m > memory THEN m ELSE memory
  /\ IF memory' = Unknown \/ memory' > MemoryLimit
       THEN correct' = "MLE" /\ pc' = "sleep"
       ELSE pc' = "exitcode" /\ UNCHANGED correct
  /\ UNCHANGED <<test, workTime, timer, report, state, code, usage, time,
                 started, dying, outFile, history>>

CheckMemory ==
  /\ pc = "memory"
  /\ \E m \in {rss} \union (IF QueriesFail THEN {Unknown} ELSE {}) :
       memory' = IF m > memory THEN m ELSE memory
  /\ IF memory' = Unknown \/ memory' > MemoryLimit
       THEN correct' = "MLE" /\ pc' = "kill"
       ELSE pc' = "exitcode" /\ UNCHANGED correct
  /\ UNCHANGED <<test, workTime, timer, report, state, code, usage, time,
                 started, dying, outFile, history>>

(* kill_child_process: the code a killed process ends with is NO_ERROR.    *)
KillChildProcess ==
  /\ Goto("kill", "sleep")
  /\ IF state = "running"
       THEN /\ state' = "ended" /\ code' = 0 /\ rss' = 0
            /\ dying' = dying \union {test}
            /\ ended' = [ended EXCEPT ![test] = Killed]
       ELSE UNCHANGED <<state, code, rss, dying, ended>>
  /\ UNCHANGED <<test, correct, samples, report, kernel, user, time, started,
                 outFile, seenAlive, crowded>>

(* Sleep(100), which may or may not be long enough, and close_handles;     *)
(* then only a correct run is read.                                        *)
Sleep ==
  /\ pc = "sleep"
  /\ IF correct = "CORRECT"
       THEN pc' = "output" /\ UNCHANGED <<test, report>>
       ELSE Return(Request(correct, NoFile, workTime, memory, timer))
  /\ UNCHANGED <<correct, samples, state, code, usage, time, started, dying,
                 outFile, history>>

ReadOutputFile ==
  /\ pc = "output"
  /\ IF outFile = NoFile
       THEN /\ correct' = "NIF"
            /\ Return(Request("NIF", NoFile, 0, 0, 0))
       ELSE /\ Return(Request(correct, outFile, workTime, memory, timer))
            /\ UNCHANGED correct
  /\ UNCHANGED <<samples, state, code, usage, time, started, dying, outFile, history>>

-----------------------------------------------------------------------------
(* The judged program.                                                     *)

Write ==
  /\ state = "running"
  /\ outFile' = test
  /\ UNCHANGED <<place, correct, samples, report, state, code, usage, time,
                 started, dying, history>>

Allocate ==
  /\ state = "running"
  /\ rss' \in 0 .. MaxMemory
  /\ UNCHANGED <<place, correct, samples, report, state, code, kernel, user,
                 time, started, dying, outFile, history>>

Exit(c) ==
  /\ state = "running"
  /\ state' = "ended" /\ code' = c /\ rss' = 0
  /\ dying' = dying \union {test}
  /\ ended' = [ended EXCEPT ![test] = c]
  /\ UNCHANGED <<place, correct, samples, report, kernel, user, time, started,
                 outFile, seenAlive, crowded>>

(* TerminateProcess only begins the end: the child may still get a write   *)
(* through until the operating system is done with it.                     *)
LateWrite(t) ==
  /\ t \in dying /\ ended[t] = Killed
  /\ outFile' = t
  /\ UNCHANGED <<place, correct, samples, report, state, code, usage, time,
                 started, dying, history>>

(* The clock and the operating system.                                     *)

(* Nobody reads the clock once the child is no longer watched.             *)
Tick ==
  /\ \/ pc = "start" /\ clock < MaxDelay
     \/ pc \in Watching /\ clock - started < MaxTime
  /\ clock' = clock + 1
  /\ \E k, u \in 0 .. Threads :
       /\ k + u <= IF state = "running" THEN Threads ELSE 0
       /\ kernel' = kernel + k /\ user' = user + u
  /\ UNCHANGED <<place, correct, samples, report, state, code, rss, base,
                 started, dying, outFile, history>>

Release(t) ==
  /\ t \in dying
  /\ dying' = dying \ {t}
  /\ UNCHANGED <<place, correct, samples, report, state, code, usage, time,
                 started, outFile, history>>

-----------------------------------------------------------------------------

Monitor ==
  \/ GetExitCode \/ GetProcessTimes \/ CheckTime \/ CheckMemory

Execute ==
  \/ Begin \/ MakeInputFile \/ CreateChildProcess \/ StartTimer
  \/ Monitor \/ KillChildProcess \/ Sleep \/ ReadOutputFile

Child == Write \/ Allocate \/ (\E c \in ExitCodes : Exit(c))

System == Tick \/ \E t \in Tests : Release(t) \/ LateWrite(t)

Next == Execute \/ Child \/ System

Spec == Init /\ [][Next]_vars

(* The executor is one thread that never blocks for long, the clock goes   *)
(* on, and the operating system closes the files of a process that ended.  *)
(* The judged program owes nothing to anybody.                             *)
Fairness ==
  /\ WF_vars(Execute)
  /\ WF_vars(Tick)
  /\ \A t \in Tests : WF_vars(Release(t))

FairSpec == Spec /\ Fairness

-----------------------------------------------------------------------------
(* Properties.                                                             *)

(* A verdict says how the child ended.  A killed child ends with NO_ERROR, *)
(* the code of a correct run, and the child may exit between the calls of  *)
(* the loop: still, only a child that returned 0 by itself is accepted or  *)
(* blamed for a missing file, and only one that returned something else    *)
(* has crashed.                                                            *)
VerdictMatchesEnd ==
  \A t \in Tests :
    /\ report[t].correct \in {"CORRECT", "NIF"} => ended[t] = 0
    /\ report[t].correct = "CRASH" => ended[t] \in ExitCodes \ {0}

(* Whatever the verdict, execute() leaves no child running: the next one   *)
(* reads and writes files of the same names.                               *)
NoChildLeftBehind ==
  pc \notin Watching \union {"start", "kill"} => state # "running"

(* An accepted program was within its limits whenever it was looked at,    *)
(* and was not allowed more wall time than the limit and eps_time, even if *)
(* the counters of its CPU time, of 32 bits, began anew meanwhile.  One    *)
(* that is killed for one of its limits was within the other, by what is   *)
(* reported of it.                                                         *)
WithinLimits ==
  \A t \in Tests :
    /\ report[t].correct \in {"CORRECT", "MLE"} =>
         report[t].time <= TimeLimit /\ report[t].wall <= TimeLimit + Eps
    /\ report[t].correct \in {"CORRECT", "TLE"} => report[t].memory <= MemoryLimit

(* The timer is the wall time since time_start although the tick count may *)
(* begin anew while the child runs; so a child that is there after its     *)
(* limit and eps_time is killed at the next look, whatever its CPU times   *)
(* say, which begin anew as well.                                          *)
TickWrapHarmless ==
  [][CheckTime =>
       /\ timer' = clock - started
       /\ clock - started > TimeLimit + Eps => pc' = "kill"]_vars

(* What is accepted as the output of a test was written by the program on  *)
(* that test, not by one that was killed, or is not quite gone, on another *)
(* test; unless a child of another one had files open when it began: that  *)
(* Sleep(100) was long enough is all it takes.                             *)
FreshOutput ==
  \A t \in Tests \ crowded :
    report[t].correct = "CORRECT" => report[t].program = t

(* Whatever the judged program does, all tests are run to the end.         *)
AllTestsJudged == <>(pc = "done")

(* executor.h:24, of CRASH: the program returned something other than 0.   *)
(* Such a child, found ended, is a crash.                                  *)
NonzeroExitIsCrash ==
  pc \in {"kill", "sleep"} /\ state = "ended" /\ ~seenAlive /\ code # 0
    => correct = "CRASH"

(* executor.h:26, of TLE: the program works longer than it was allotted.   *)
TLEIsOverTime ==
  \A t \in Tests :
    report[t].correct = "TLE" =>
      report[t].time > TimeLimit \/ report[t].wall > TimeLimit

=============================================================================
