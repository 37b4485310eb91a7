# Verification of CHECKER_OLIMP

CHECKER_OLIMP judges solutions of programming contests. A daemon, the *contester*,
polls a table of submitted solutions and hands each of them to a *checker* process,
which compiles it, runs it on the tests of its task under a time and a memory limit,
lets the testlib program `check.exe` judge the outputs, and leaves a report that the
daemon writes back to the table. Both are single-threaded Windows programs; what makes
them hard is everything around them: processes that are killed or killed late, files
of fixed names in one directory, a database that refuses a statement, clocks that wrap.

Paths below are relative to the repository: `contester/src/` is the daemon, `checker_rc/`
the checker.

## 1. Inventory

### Components

| component | code | state it keeps | operations |
|---|---|---|---|
| contester main loop | `contester.cpp` | the batch of ids, the solution in hand | poll, load, run, save; sleep out the delay |
| table of solutions | `data.cpp` 121-130, 228-232 | `status`, `result` of every row | polling query (limit 10, no order), update |
| hand-off `checker::run` | `data.cpp` 138-232, 408-431 | `solution.<ext>`, `solution.json`, `result.json` | write, write, `system()`, remove, remove, read, remove |
| row loaders | `data.cpp` 92-117, 241-396 | none | load a row or throw |
| database connection `db` | `data.cpp` 20-81 | the connection | `q`, `exec`: throw on error |
| contester configuration | `contester.cpp` 62-95 | `DELAY`, paths, languages | read once |
| checker process | `checker_rc/main.cpp`, `checker.cpp` | the verdict so far | config, build, test loop, write the result |
| readers | `checker_rc/reader.cpp` | none | parse the configuration, read a test, or abort |
| builder | `checker_rc/builder.cpp` | the executable file | run a compiler, judge its output |
| executor | `checker_rc/executor.cpp` 1-250 | a child process, its samples, two files | start, watch, kill, read the output |
| testlib runner, matcher | `executor.cpp` 252-323, `matcher.cpp` 48-103 | the report of `check.exe` | run `check.exe`, read and remove its report |
| string matcher | `matcher.cpp` 6-46 | none | compare strings; called by nothing |
| `checker_assert` | `checker_assert.cpp` | none | `exit(1)` |
| web site, MySQL | outside `src`, `contester/contrib/mysql` | the rows | insert, read |

### How they interact

The web site and the daemon share the table. The daemon and a checker share three
files in the daemon's working directory; `system()` starts the checker and waits for
it, and its exit code is ignored. The checker and the judged program share an input
and an output file of names the task fixes; the checker watches the program through
its process handle. The checker and `check.exe` share the report file. One
checker process after another uses the same directory and nearly the same names, and
nobody removes the executable a build left there.

### What is hard, and what correctness means

* **Daemon and hand-off.** Killed at any point, its checker may survive it. A file
  that can not be opened or removed goes unnoticed. A statement reported as failed may
  have been done. Correct means: a solution gets its own report, once, and every
  solution that can be judged is.
* **Executor.** It asks for exit code, CPU time, wall time and memory one after the
  other while the program runs, exits or is killed; the operating system closes files
  late; three counters wrap. Correct means: the verdict is about how *this* program
  ended on *this* test, within its limits, and there always is one.
* **Checker.** Any step may abort the process, and executables and reports of earlier
  processes are still there. Correct means: a verdict that is saved is complete and
  made from the solution's own program and reports.
* **Builder.** It knows of a compiler what comes through a pipe; programs keep their
  names from one solution to the next. Correct means: the verdict is about what the
  compiler built, and what is run is the solution's own program.
* **Loading.** Many `SELECT`s outside of a transaction while the contest is edited.
  Correct means: no test is missed, doubled or invented that a careful administrator would not
  expect, and a solution is refused only when something is missing.
* **Numbers.** Negative sleeps, 64-bit limits read as 32-bit ones, truncated ids.

`PROJECT.json` lists each of these hazards with its line.

## 2. Modules

| module | models | used by |
|---|---|---|
| `Judging` | abstract: what the service promises the web site | `Contester` (`INSTANCE`) |
| `Contester` | table, daemon, hand-off, checker processes as the daemon sees them | `MCContester`, `ContesterProofs` |
| `Executor` | `execute(quest)` for each test, the child, clock, operating system | `MCExecutor`, `ExecutorProofs` |
| `Grading` | abstract: what the checkers promise whoever starts them | `Checker` (`INSTANCE`) |
| `Answers` | abstract: what `check.exe` promises the loop over the tests | `Checker`, `Runner` (`INSTANCE`) |
| `Checker` | `check()` and `main` of one process after another in one directory | `MCChecker`, `CheckerProofs` |
| `Loader` | the constructors that load a solution, beside the administration of the contest | `MCLoader`, `LoaderProofs` |
| `PollTimer` | the pace of the main loop: `clock()`, `DELAY`, `Sleep` | `MCPollTimer`, `PollTimerProofs` |
| `Config` | numbers and languages on their way through both programs | `MCConfig`, `ConfigProofs` |
| `Runner` | `answers_match` with the static `execute()`: `check.exe`, its report, the clock | `MCRunner`, `RunnerProofs` |
| `Builder` | `build_from_source`, the four compilers, their pipes and programs | `MCBuilder`, `BuilderProofs` |
| `Matcher` | `strings_match` and `answers_match` on a list of answers | `MCMatcher` |

The `MC*` modules hold what TLC needs (model values, symmetry), the `*Proofs` modules
the theorems. Operators under a comment "Mutant:" are variants of the definition below them with
a plausible bug; nothing but the mutation of the models uses them.

### Contester

`status` and `result` are the columns of the table. `pc` walks through `main` and
`checker::run`; `ind`, `cur` and `buf` are `ind`, `*it` and `sol->result`. `srcFile`,
`cfgFile` and `resFile` say *whose* source, configuration and report a file holds;
a report is the pair of solutions whose tests and whose program it is about. `proc`
has a checker process for each life of the daemon, so that a surviving one and a new
one can run side by side. One action for each statement of `run` that touches a file:
`CreateSrc`, `CreateCfg`, `Launch`, `SystemReturns`, `RemoveSrc`, `RemoveCfg`,
`ReadResult`, `RemoveResult`, `Save`. The checker process is reduced to what the shared directory can
see: it reads the configuration, then the source, may abort, truncates the report,
writes it.

Abstractions: all solutions are in one language, so that their source files have one name (with
several, the names collide less often). A file operation fails as a whole and leaves
the file as it was. A database error is transient, except for the row that is missing;
a connection that is lost (`Disconnect`) stays lost until the daemon is started again, and a
row with a column that is no number (`Malformed`) ends the daemon with an exception nobody catches.
`Poll` takes any `Limit` rows: the query has no order. A batch ends in the next poll (`EndBatch`), or, when the second reading
of `clock()` is past `end_time`, in `Sleep(INFINITE)` (`SleepForever`), which only a kill ends; the shorter sleeps are in `PollTimer`.

### Executor

`pc` walks through `execute(quest)`: reset and removal of old files, input file,
`CreateProcess`, `time_start`, the loop with one action for each call it makes
(`GetExitCode`, `GetProcessTimes`, `CheckTime`, `CheckMemory`), `KillChildProcess`,
`Sleep`, `ReadOutputFile`. Between any two of them the child may write its output,
change its working set or exit, and the clock may tick; with each tick the child uses
up to `Threads` units of CPU time. `TickRange` and `CpuRange` are the widths of the
tick count (2^32 ms) and of the CPU times (cut to 32 bits by `size_t`). The unsigned
subtraction is `%`. `dying` are the tests whose ended child still has its files open:
then the removal of the output file may fail, and a killed child may still write.
`Sleep(100)` may be long enough or not: `crowded` are the tests that were begun with a child
before them still `dying`.

Abstractions: a unit of time stands for milliseconds and for 10000 units of CPU time
alike; the input file is not told apart from its test; `outFile = 0` is an output left
by a program judged before. A request remembers the wall time it was decided by, which
the code does not keep.

### Checker

`job` is the solution whose process runs, `exe` whose program the executable file is, `out` which run the output file
is of (whose program, for which solution, on which test), `shown` the run whose output `check.exe` has judged,
`rep` which solution and test the report file of `check.exe` is about and what it says. `Compiles` and
`Judges` are what compilers and `check.exe` may do, all of it at any time; running the program is one step with
any outcome, which `Executor` justifies (its outcome is its own). An `Aborted` solution is one whose process ended in `checker_assert`.

Three kinds of processes are not waited for, and may be at work when the next checker, or the one after that, is:
compilers given up after an error on the pipe or an empty output (`compiling`), which link over the executable file (`LateLink`) until they
end (`CompilerEnds`); programs that ended, or were killed, and have their files open (`closing`), so that their output
can not be removed, or comes late (`LateOutput`, `FilesClosed`); and killed `check.exe` (`dying`), which may write their report
(`LateWrite`, `Gone`). `MaxLate` bounds how many there are at a time in a run of TLC, and is any number in the theorems.

Compilers and reports are told apart by what the code tells apart: `"silent"` is a compiler that fails
without the words `build_from_source` looks for, `"misread"` one that succeeds with
them. `"missing"` is a `check.exe` that can not be started or leaves no report; it
looks like exit code 0 because the success of `CreateProcess` is not looked at. `"left"` is one that is given up. These pass the code by, and so do
the processes nobody waits for. The history says whom they may have harmed: `silent` are
the solutions whose own compiler failed so, `overtaken` those that were built while one given up was there, `crowded`
the tests that began with runs before them still `closing`, `doubtful` those whose
`check.exe` was missing, or was started with another one `dying`. Each property
except what can harm it, and no other (with any one of the exceptions taken away TLC finds it false): what happened to one
test takes nothing from what is said of the next.

### Grading, Answers, Judging

`Grading` sees nothing but the results. The refinement mapping takes the result of a test
for what it says only if it came from the solution's own program and from the report of
`check.exe` on that test (`Genuine`), and for a foreign one otherwise. `Grading` gives a
foreign result only to a test that is `doubtful`, which is mapped to `doubtful`, `crowded` and all tests of the
solutions that are `silent` or `overtaken`.

`Answers` is what the loop over the tests asks of `check.exe`: one file that all of them write to; a
call that is answered from the report of that call, unless it is `doubtful`; no answer only
for want of a report. `Runner` implements it with the whole of `answers_match` and `execute`, with every step of `check.exe`
and of those that were killed, and `Checker` with the three steps it takes for a call. So what `Checker` says of a call
holds of what the code does in one.

`Judging` gives a row one of its `Allowed` reports until `Fail`; `Contester` maps its `sound` to: no kill and no failed
file operation so far.

### Loader

One action for each `SELECT`, in the order of the constructors. `owner` and `home` are the
columns `checkergroups.tid` and `checkertests.gid`, `rows` the other rows there are. A list of ids
(`gids`, `tids`, `rids`) is read once and worked off; the rows of it are found by their
ids alone. `EditTest`, `EditGroup` and `DeleteRow` are statements of the web site. Ids are
read in any order: the queries have none.

### PollTimer

`start` is `start_time`; `CompareWithEnd` and `SleepRest` are the second and the third
reading of `clock()`. Between any two statements any time may pass. `Half` stands for 2^31
ms (24.8 days). What `clock()` does at that point depends on the C runtime: `crt` is
`"wraps"` or `"fails"` (it returns -1).

### Config

Half of an int's and of a long long's range are constants, so that small ones show what large ones do.
`row`, `sol`, `cfg`, `prob` and `out` are what the table, the daemon's structs, `solution.json`, the
checker's structs and the report hold of one solution. The test is loaded by an id that
became an `int`, written with 64 bits, read into a `size_t`. Overflow of signed conversions is
what the compiler of the project does (two's complement).

### Runner

`rep` says which call's `check.exe` wrote the report, and which number. `dying` are the
calls whose `check.exe` was killed and is not gone: it may still write. An abort ends the
process and the next call is made by the next checker. `work` is any CPU time
`check.exe` can have used. The history says what may have gone wrong in a call unseen: `missing` are those
whose `check.exe` did not start, or exited with a number of testlib's and left no report of its own, `liars`
these and those that reported another number than they exited with, `crowded` those that began
with a killed one still there.

### Builder

`said` are the words a compiler has printed of those anybody looks for, `exe` whose
program an executable file is. Compilers are honest: what one has printed when it
closes its output says whether it builds. They may link before or after that. `isPas` says whether the name of the source ends
in `.pas`. `ReadError` is an error on the pipe, and `NothingRead` a Pascal compiler without output, after which nobody waits
for the compiler (`left`). The history `overtaken` are the solutions whose program was linked while a compiler that was left was alive.

### Matcher

Texts are sequences of symbols; one step for each answer of the list. Nothing calls this code; what is checked is what
`matcher.h:15` says of it (see Findings).

### How the modules fit together

Each module takes for one step what another one shows of it: `Checker` takes from
`Executor` that a request is about the program and the test at hand, from `Runner` that a
`check.exe` that is there, and alone, is judged by its own report (`Answers`, which both implement), from `Builder` which outcomes a compiler can have,
and that one which was left running may replace the program of a solution built meanwhile.
`Contester` takes from `Checker` and `Grading` that a checker ends with a verdict on what it
read or without one; from `Loader` that a solution is loaded or throws. `Config` takes its
`Requests` from `Executor`'s `WithinLimits`, which says of the verdicts for one limit that the other was kept. `Contester` takes
from `PollTimer` that a sleep may be without end.

## 3. Runs

All runs are exhaustive for their constants. `CHECK_DEADLOCK FALSE` stands where the
system stops: after the last test, call or solution, or when a text is matched or a solution
loaded, in `PollTimer` at the end of the time watched or in a sleep without end, and in `Contester` in such a sleep. Invariants and liveness
of a module are checked in one run, under its fair specification.

| run | checks | shows |
|---|---|---|
| `contester_faults` | `TypeOK`, `Attribution`, `OneIoErrorNoMixup`, `OneCheckerAtATime`, `JudgedOnce`, `ImplementsJudging`, `EventuallyChecked`, `LossEndsDaemon` | 3 solutions, one that can not be loaded (a row is missing, or a column is no number), one whose checker may abort; batches of 2; a kill, a refused statement and a failing file operation, and lost connections, anywhere and in any order; a sleep without end after any batch |
| `executor_tests` | `TypeOK`, `VerdictMatchesEnd`, `NoChildLeftBehind`, `WithinLimits`, `FreshOutput`, `TickWrapHarmless`, `AllTestsJudged` | 2 tests sharing their files; programs that run, idle, exit and let go of their files when they like, before the next test or after; counters that wrap within the time watched |
| `checker_files` | `CompleteReport`, `OwnProgram`, `OwnReport`, `ImplementsGrading`, `ImplementsAnswers` | 2 solutions, 2 tests, everything compilers, programs and `check.exe` may do, at once or late, one of them late at a time |
| `loader_edits` | `RegularLoad`, `FailureJustified`, `EditsDelayNothing` | 2 groups, 2 tests, 2 edits anywhere; every state of the tables to begin with |
| `poll_clock` | `SleepsUntilDue`, `PollsSpaced` | a clock of 16 values watched for 36 units, delay 3 |
| `config_rows` | `TypeOK`, `LimitsKept`, `PointsOfTest`, `UsageWithinLimits`, `ConfiguredLanguage` | an int of 2 bits, a long long of 4, columns beyond each; `contester.cfg` of no entry, of any one, or of any one before a regular one, of 3 languages, one unknown to the builder |
| `runner_calls` | `TypeOK`, `ReportSettled`, `ResultIsExitCode`, `KilledInTime`, `ImplementsAnswers`, `AllAnswered` | 2 calls, codes 0, 1, 5 and 259, a `check.exe` that may not start, hang, lie, and write late |
| `builder_builds` | `VerdictIsBuild`, `OwnExecutable`, `BuildsEnd` | 2 solutions, all pairs of compilers and kinds of names; a compiler that owes nothing |
| `executor_exit259` | violation of `NonzeroExitIsCrash` | see below |
| `executor_idle` | violation of `TLEIsOverTime` | see below |
| `checker_missing` | violation of `WrongEndsInAssert` | see below; 1 solution, 2 tests, nothing late |
| `matcher_newline` | violation of `NewlineHasNoInfluence` | see below; texts of up to 3 symbols, up to 2 answers |

Bounds. Faults, kills, the time a child is watched and its memory are bounded by
constants (`MaxKills`, `MaxDbErrors`, `MaxIoErrors`, `MaxTime`, `MaxDelay`, `MaxMemory`).
Two solutions, or tests, are enough for one to leave something to another; the daemon has a third, so that a
batch is full (`Limit` = 2) while one waits, and a checker may abort beside two others. One kill
gives two lives, and with them a checker that outlives its daemon beside the next one. One late process at a time (`MaxLate`) is enough
to harm a solution or a test after it in each of the three ways. `MaxTime`
exceeds `TimeLimit + Eps` in every run, so that the time limit is reached before the
bound. `executor_tests` and `runner_calls` have a `TimeLimit` of 0, a tick count that wraps after one more than the time watched,
and, the former, programs of one thread and a `MaxDelay` of 0, to have room for two tests, or calls, of which one
is begun with the process of the other still there; all of these are any numbers in the theorems. In `poll_clock` the time watched is more than twice the range of the clock, so that it
wraps twice. `config_rows` has values below zero, between every two widths, and beyond the last.
The theorems below hold for all values of these constants.

### Findings

* `executor.h:24` calls a crash every return of something other than 0. Code 259 is
  `STILL_ACTIVE`: the loop goes on watching an ended process until the wall time
  exceeds its idle CPU time by `eps_time`, and reports TLE.
* `executor.h:26` calls TLE a program that works longer than its limit. The test is also on the difference of wall
  and CPU time: a program that waits more than 2048 ms gets TLE within any limit.
* `matcher.h:25-26` says that without `check.exe` everything ends in an assert. It does
  only if no report is lying there. In the trace of `checker_missing` the first test is judged by its `check.exe`, the removal of the
  report fails unnoticed, and the second test, whose `check.exe` can not be started, is judged by that report; no checker aborts.
* `matcher.h:15` says that in mode `WNL` a newline at the end of what is checked has no influence. A report that is a
  newline matches an empty answer; without it, it matches nothing, not even an empty answer (`matcher.cpp:15`). Nothing calls this code.

What the properties had to except is worth knowing too.
`SleepsUntilDue`: if the time the poll is due passes between two readings of `clock()`,
the daemon sleeps for up to 49 days. `PollsSpaced`: near the last value of `clock_t` it polls
without a pause. `RegularLoad`: a test of another task may be loaded, if a group is given
away and gets its test in between. `OwnExecutable`: the program of a solution that was linked while a compiler given up before was alive may be replaced by
that one's; a Pascal source without `.pas` is judged a crash. `FreshOutput`: a test begun while a killed program
before it has its files open may be judged by that one's output (the code sleeps for 100 ms, and calls it a crutch).
`ReportSettled`, `ResultIsExitCode` and `OwnReport`: so may a call of `check.exe` by the report of a killed one that is
there still (here the code does not sleep at all). `OwnProgram`: a solution whose own compiler fails silently is judged by the
program of another one, one that is built while a compiler given up is there may be, and so may a test that begins when runs before
have their files open, by their output. `OwnReport`: a test whose `check.exe` is missing or leaves no report is judged by one that was left.
Each of these is said of that test or solution alone, and excepts no other.

## 4. Fairness

`Contester`: weak fairness of the daemon, one thread that is never blocked but in `system()` and in a sleep, and of nothing
else. A compiler is waited for without a limit, so a checker need not end, and `Sleep(INFINITE)` does not: that the daemon leaves
both again, always, is `Released`, a hypothesis of both liveness properties (each half of it is needed). Nothing obliges
anybody to start the daemon again; that it is up for good in the end is the other hypothesis of `EventuallyChecked`, which says
nothing of a daemon that goes on ending because of a refused poll or a column that is no number. It also needs
fewer unloadable rows than the limit of the query: those stay unchecked and would fill
every batch. In `contester_faults` there is one, with a limit of 2. `LossEndsDaemon` needs no daemon to be started.

`Executor`: weak fairness of `execute`, of the clock, and of the operating system
closing files of ended processes. The judged program owes nothing.

`Runner`: weak fairness of the checker, of the clock, and of killed processes going.
`check.exe` owes nothing, and how long a killed one is there is nobody's promise.

`Builder`: weak fairness of the builder alone, errors on the pipe excepted. That compilers
end is the hypothesis of `BuildsEnd`, and nothing else is.

## 5. Proofs

Checked by TLAPS for every value of the constants that satisfies the assumptions each module
states of them (`ConstantsAssumption` and the like): numbers are numbers, sets that are
finite in the program are finite, and values that stand for "none" are none of the others. No theorem assumes anything of
compilers, judged programs, `check.exe`, the operating system or the clock that the specification does not say.

* `ContesterProofs`: `TypeCorrect`, `JudgedOnceCorrect`, `OneCheckerAtATimeCorrect`,
  `AttributionCorrect`, `ImplementsJudgingCorrect`, `OneIoErrorNoMixupCorrect`. The inductive invariant `IInv`
  says, besides the types: the batch and the solution in hand are unchecked rows
  (`BatchInv`); a checker of the present life runs only while the daemon is in
  `system()`, those of future lives do not exist (`ProcInv`); and, as long as nothing
  overlapped and no file failed, at each point of `run` which solution the three files, the
  buffer and the checker are about (`WorkInv`). `Attribution` alone is not inductive:
  it says nothing of the files a report is made from. In the refinement a step leaves the table alone, submits, judges,
  or is the one after which the service is not `sound` any more (`StepService`); that lasts (`SoundKept`). `OneIoErrorNoMixupCorrect` has an invariant of its own, `IoInv`: before the one
  error all files are as they should be (`Tidy`), after it what it left is
  known at each point of `run`, and can harm no solution but by an empty report.
* `ExecutorProofs`: `TypeCorrect`, `TickWrapHarmlessCorrect`, `WithinLimitsCorrect`,
  `VerdictMatchesEndCorrect`, `NoChildLeftBehindCorrect`, `FreshOutputCorrect`. The
  arithmetic is in two lemmas: a difference of wrapped counters, wrapped, is the difference if that
  is below the range (`WrappedDifference`), and a distance bounded by `Eps` from a
  bounded number is bounded (`DistanceBound`). The invariants tie what execute() knows
  at each point to how the child ended, and what the output file can hold to who can still write it.
* `CheckerProofs`: `TypeCorrect`, `CompleteReportCorrect`, `OwnProgramCorrect`, `OwnReportCorrect`,
  `ImplementsGradingCorrect`, `ImplementsAnswersCorrect`.
  `LoopInv` relates the length of the report to the test at hand; `ProgramInv` says
  that the executable is the solution's own from the build on, unless it is `silent` or `overtaken`, that no compiler given up is
  there to replace it, and that the output at hand, and the one that was `shown`, is of the run at hand, unless it is `crowded`; `ReportInv` that the
  report parsed is on the test at hand, and that nobody is there to overwrite it, unless the test is `doubtful`.
  What is in doubt stays so (`HistoryKept`). The end of a process is one lemma for each (`EndKeeps...`).
  The refinement of `Grading` needs besides them that a solution whose checker has not ended is pending
  (`PendingInv`): then a step leaves the grades alone (`DoubtGrades` when it brings doubt) or is the `Grade` of one solution.
  That of `Answers` takes the steps one by one (`StepAnswers`).
* `LoaderProofs`: `TypeCorrect`, `RegularLoadCorrect`, `FailureJustifiedCorrect`, `EditsDelayNothingCorrect`. The
  invariants say where each test that stayed put is, at each statement: loaded, in `tids`, or in a group
  still in `gids`; and that ids still to be read are of rows that exist or were lost. `Left` is a bound of the
  steps to come, from the sizes of the lists: that it falls with each step (`LoadStep`), whatever is edited, is
  what the end of a load follows from.
* `PollTimerProofs`: `TypeCorrect`, `SleepsUntilDueCorrect`,
  `PollsSpacedCorrect`, for every width of the clock and
  every delay below it. The arithmetic of `Signed` and `Unsigned` is in lemmas on `%`.
* `ConfigProofs`: `TypeCorrect`, `LimitsKeptCorrect`, `ConfiguredLanguageCorrect`,
  `PointsOfTestCorrect`, `UsageWithinLimitsCorrect`, for every pair of widths of which one divides the
  other. The invariants say, at each station, which conversions a number has been
  through, and that an entry of the map that is not in `contester.cfg` is `NoEntry`.
* `RunnerProofs`: `TypeCorrect`, `ReportSettledCorrect`, `ResultIsExitCodeCorrect`, `KilledInTimeCorrect`,
  `ImplementsAnswersCorrect`. `EndInv` says what the exit code was, at each point of the
  loop; `ReportInv` that a call which is not `crowded` is alone with the file, so that a report that was not there
  before is its own; `PresentInv` that there is one, unless the call is `missing`; `HonestInv` what it says, unless the
  call is in `liars`. Each step of the checker, of its `check.exe` and of those that are dying is then a step of `Answers`, or none
  (`StepAnswers`). `KilledInTime` is `WrappedDifference` again.
* `BuilderProofs`: `TypeCorrect`, `VerdictIsBuildCorrect`, `OwnExecutableCorrect`. `ProcInv`
  says which compilers may be alive: the one at hand, or one that was left. `EndInv` says what
  a compiler that has closed its output, or ended, has announced; `ExeInv` what can have become of the program, and that nobody is there to replace it unless the solution is `overtaken`.

The properties were model-checked before they were proved, and the strengthened invariants as invariants of the same runs. The type
invariants of `Loader`, `PollTimer`, `Builder` and `Checker` are proved and no run repeats them.
Every invariant and every action property and refinement that a run checks is a theorem. Only model-checked are the
liveness properties (`EventuallyChecked`, `LossEndsDaemon`, `AllTestsJudged`, `AllAnswered`,
`BuildsEnd`), which are out of the prover's reach; what they rest on in `Runner` and `Executor`, that a process over its time is
killed at the next look at the clock, is proved (`KilledInTime`, `TickWrapHarmless`).

## 6. Plan

Done: all modules of section 2, their runs and theorems. Left, in this order:

1. What `Checker` takes from `Executor` and from `Builder`, stated as abstract modules that both sides implement, as `Answers` is
   for `Runner`.
2. The checker process of `Contester` as an abstraction of `Checker`, by refinement with
   the three shared files as its interface.
3. `contester_faults` with two kills, and `runner_calls` with three calls: within reach of a longer run.

## 7. Not modelled

* The vendored MySQL client headers and libraries (`contester/contrib/mysql`): third-party
  declarations, nine tenths of the lines of the repository, of which `data.cpp`
  calls ten functions. They are external; what the daemon sees of them (a statement done,
  refused, or refused after it was done; a connection lost) is in `Contester`. Measured over
  the whole repository the models cover few lines for that reason; of the project's own 2000
  lines they cover most of those that are code.
* The content of sources, tests, outputs; titles and paths in configurations, the text of a
  compiler's command beyond its places, the layout of JSON; path handling in `reader.cpp`
  and the banner of `print_version`.
* `db::q` on a statement without a result (`data.cpp:50-51`), and a test without answers
  (`checker.cpp:85`): neither is ever caused by the code that is there.
* Members missing from `contester.cfg` (`contester.cpp:80-82`): the daemon ends before it does anything.
* The sampling of memory below what a sample sees: the code has no other measure.
* Starvation by as many unloadable rows as the limit of the query: it happens, and no text
  promises otherwise; `EventuallyChecked` is stated for fewer.
* `get_cfg_json`, `delete_src`, `delete_cfg_json`, `delete_first_space`: called by nothing, or without a body.
