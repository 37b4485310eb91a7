---------------------------- MODULE ExecutorProofs ----------------------------
(***************************************************************************)
(* Theorems about Executor, for any limits, any number of tests and any    *)
(* width of the counters.                                                  *)
(***************************************************************************)
EXTENDS Executor, TLAPS

-----------------------------------------------------------------------------
(* The inductive invariant.                                                *)

(* There may be a child that execute() has not done with.                  *)
Minding == Watching \union {"start", "kill"}

(* The request in the making, and how the child ended by then.             *)
Deciding ==
  /\ pc \in Watching \union {"input", "create", "start"} => correct = "CORRECT"
  /\ pc = "kill" => correct \in {"TLE", "MLE"}
  /\ pc = "sleep" =>
       \/ correct \in {"TLE", "MLE"}
       \/ correct = "CORRECT" /\ ended[test] = 0
       \/ correct = "CRASH" /\ ended[test] \in ExitCodes \ {0}
  /\ pc = "output" => correct = "CORRECT" /\ ended[test] = 0

(* The child at hand is the only one whose end is still open.              *)
Ending ==
  /\ pc \in {"begin", "input", "create"} \/ state = "running"
       => ended[test] = NotEnded
  /\ pc \in Minding /\ state = "ended" => ended[test] = code /\ code \in ExitCodes
  /\ pc \in Minding => state # "none"
  /\ \A t \in Tests : t > test => ended[t] = NotEnded

(* Reports are made in the order of the tests.                             *)
NotReported ==
  pc # "done" => \A t \in Tests : t >= test => report[t].correct = "none"

EndInv == Deciding /\ Ending /\ NotReported /\ NoChildLeftBehind /\ VerdictMatchesEnd

-----------------------------------------------------------------------------
LEMMA NextCases ==
  ASSUME Next
  PROVE  \/ Begin \/ MakeInputFile \/ CreateChildProcess \/ StartTimer
         \/ GetExitCode \/ GetProcessTimes \/ CheckTime \/ CheckMemory
         \/ KillChildProcess \/ Sleep \/ ReadOutputFile
         \/ Write \/ Allocate \/ \E c \in ExitCodes : Exit(c)
         \/ Tick \/ \E t \in Tests : Release(t)
         \/ \E t \in Tests : LateWrite(t)
BY DEF Next, Execute, Monitor, Child, System

(* Type correctness.                                                       *)

(* What SMT needs to know of the modulus.                                  *)
LEMMA ModNat ==
  ASSUME NEW x \in Int, NEW m \in Nat \ {0}
  PROVE  x % m \in 0 .. m - 1
OBVIOUS

(* The difference of two readings of a counter that wraps around is the    *)
(* time between them, if that is less than a turn of the counter.          *)
LEMMA WrappedDifference ==
  ASSUME NEW m \in Nat \ {0}, NEW b \in Nat, NEW s \in Nat, NEW c \in Nat,
         s <= c, c - s < m
  PROVE  (((b + c) % m) - ((b + s) % m)) % m = c - s
<1> DEFINE rc == (b + c) % m
           rs == (b + s) % m
           q  == ((b + c) \div m) - ((b + s) \div m)
<1>1. rc \in 0 .. m - 1 /\ rs \in 0 .. m - 1
  BY ModNat
<1>2. b + c = m * ((b + c) \div m) + rc /\ b + s = m * ((b + s) \div m) + rs
  OBVIOUS
<1>3. q \in Int /\ m * q = (c - s) - (rc - rs)
  BY <1>1, <1>2
<1> HIDE DEF rc, rs, q
<1>4. q = 0 \/ q = 1
  <2>1. CASE q >= 2   BY <1>1, <1>3, <2>1
  <2>2. CASE q <= -1  BY <1>1, <1>3, <2>2
  <2> QED BY <1>3, <2>1, <2>2
<1>5. CASE q = 0
  <2>1. rc - rs = c - s  BY <1>1, <1>3, <1>5
  <2>2. c - s \in 0 .. m - 1  OBVIOUS
  <2> QED BY <2>1, <2>2 DEF rc, rs
<1>6. CASE q = 1
  <2>1. rc - rs = (c - s) - m  BY <1>1, <1>3, <1>6
  <2>2. \A d \in 0 .. m - 1 : (d - m) % m = d  OBVIOUS
  <2>3. c - s \in 0 .. m - 1  OBVIOUS
  <2> QED BY <2>1, <2>2, <2>3 DEF rc, rs
<1> QED BY <1>4, <1>5, <1>6

LEMMA RequestType ==
  ASSUME NEW o \in Outcomes \union {"none"}, NEW p \in 0 .. N \union {NoFile},
         NEW t \in Nat, NEW m \in 0 .. Unknown, NEW w \in Nat
  PROVE  Request(o, p, t, m, w) \in Requests
BY DEF Request, Requests

LEMMA InitTypeOK == Init => TypeOK
<1> SUFFICES ASSUME Init PROVE TypeOK
  OBVIOUS
<1> USE ConstantsAssumption
<1>2. 0 \in 0 .. TickRange - 1 /\ 0 \in 0 .. Unknown
  BY DEF Unknown
<1>1. NoRequest \in Requests  BY <1>2, RequestType DEF NoRequest
<1>3. 1 \in Tests  BY DEF Tests
<1>4. outFile \in 0 .. N \union {NoFile} /\ rss \in 0 .. MaxMemory
  BY DEF Init
<1> QED BY <1>1, <1>2, <1>3, <1>4 DEF Init, TypeOK, Outcomes

(* What execute() returns is a request, and the loop goes on to a test.    *)
LEMMA ReturnType ==
  ASSUME TypeOK, NEW o \in Outcomes, NEW p \in 0 .. N \union {NoFile},
         NEW t \in Nat, NEW m \in 0 .. Unknown, NEW w \in Nat,
         Return(Request(o, p, t, m, w))
  PROVE  /\ report' \in [Tests -> Requests]
         /\ test' \in Tests
         /\ pc' \in {"begin", "done"}
<1>1. Request(o, p, t, m, w) \in Requests  BY RequestType
<1>2. report' \in [Tests -> Requests]
  BY <1>1 DEF TypeOK, Return
<1>3. test' \in Tests /\ pc' \in {"begin", "done"}
  BY ConstantsAssumption DEF TypeOK, Return, Tests
<1> QED BY <1>2, <1>3

LEMMA NextTypeOK == TypeOK /\ [Next]_vars => TypeOK'
<1> SUFFICES ASSUME TypeOK, [Next]_vars PROVE TypeOK'
  OBVIOUS
<1> USE ConstantsAssumption DEF TypeOK, Outcomes, Unknown, Goto,
        place, samples, usage, time, history
<1>1. CASE Begin               BY <1>1 DEF Begin, NoteCrowd
<1>0. 0 \in 0 .. Unknown
  OBVIOUS
<1>2. CASE MakeInputFile
  <2>1. CASE pc' = "create"  BY <1>2, <2>1 DEF MakeInputFile, Return
  <2>2. CASE Return(Request("CCTF", NoFile, 0, 0, 0))
    BY <1>0, <1>2, <2>2, ReturnType DEF MakeInputFile
  <2> QED BY <1>2, <2>1, <2>2 DEF MakeInputFile
<1>3. CASE CreateChildProcess
  <2>1. CASE pc' = "start"   BY <1>3, <2>1 DEF CreateChildProcess, Return
  <2>2. CASE Return(Request("CPF", NoFile, 0, 0, 0))
    BY <1>0, <1>3, <2>2, ReturnType DEF CreateChildProcess
  <2> QED BY <1>3, <2>1, <2>2 DEF CreateChildProcess
<1>4. CASE StartTimer          BY <1>4 DEF StartTimer
<1>5. CASE GetExitCode         BY <1>5 DEF GetExitCode
<1>6. CASE GetProcessTimes
  <2>1. ProcessTime \in Nat  BY ModNat DEF ProcessTime
  <2> QED BY <1>6, <2>1 DEF GetProcessTimes
<1>7. CASE CheckTime
  <2>1. GetTickCount(clock) \in Int /\ GetTickCount(started) \in Int
    BY ModNat DEF GetTickCount
  <2>2. GetTickCount(clock) - GetTickCount(started) \in Int
    BY <2>1
  <2>3. Elapsed \in 0 .. TickRange - 1
    BY <2>2, ModNat DEF Elapsed
  <2> QED BY <1>7, <2>3 DEF CheckTime
<1>8. CASE CheckMemory         BY <1>8 DEF CheckMemory
<1>9. CASE KillChildProcess
  <2>1. CASE state = "running"
    <3>1. ended' \in [Tests -> ExitCodes \union {NotEnded, Killed}]
      BY <1>9, <2>1 DEF KillChildProcess
    <3> QED BY <1>9, <2>1, <3>1 DEF KillChildProcess
  <2>2. CASE state # "running"
    BY <1>9, <2>2 DEF KillChildProcess
  <2> QED BY <2>1, <2>2
<1>10. CASE Sleep              BY <1>10, ReturnType DEF Sleep
<1>11. CASE ReadOutputFile     BY <1>11, ReturnType DEF ReadOutputFile
<1>12. CASE Write              BY <1>12 DEF Write, Tests
<1>13. CASE Allocate           BY <1>13 DEF Allocate
<1>14. CASE \E c \in ExitCodes : Exit(c)    BY <1>14 DEF Exit, Tests
<1>15. CASE Tick
  <2>1. kernel' \in Nat /\ user' \in Nat  BY <1>15 DEF Tick
  <2> QED BY <1>15, <2>1 DEF Tick
<1>16. CASE \E t \in Tests : Release(t)     BY <1>16 DEF Release
<1>17. CASE \E t \in Tests : LateWrite(t)   BY <1>17 DEF LateWrite, Tests
<1>18. CASE UNCHANGED vars     BY <1>18 DEF vars
<1> QED
  BY <1>1, <1>2, <1>3, <1>4, <1>5, <1>6, <1>7, <1>8, <1>9, <1>10, <1>11,
     <1>12, <1>13, <1>14, <1>15, <1>16, <1>17, <1>18, NextCases

(* The variables keep their types.                                         *)
THEOREM TypeCorrect == Spec => []TypeOK
BY InitTypeOK, NextTypeOK, PTL DEF Spec

(* What a step may do to the report of a test.                             *)
LEMMA ReportStep ==
  ASSUME TypeOK, [Next]_vars, NEW t \in Tests
  PROVE  \/ report'[t] = report[t]
         \/ /\ t = test /\ MakeInputFile
            /\ report'[t].correct = "CCTF"
         \/ /\ t = test /\ CreateChildProcess
            /\ report'[t].correct = "CPF"
         \/ /\ t = test /\ Sleep /\ correct # "CORRECT"
            /\ report'[t] = Request(correct, NoFile, workTime, memory, timer)
         \/ /\ t = test /\ ReadOutputFile
            /\ report'[t].correct = "NIF"
         \/ /\ t = test /\ ReadOutputFile
            /\ report'[t] = Request(correct, outFile, workTime, memory, timer)
<1> USE DEF TypeOK, place, Return
<1>1. CASE Begin               BY <1>1 DEF Begin
<1>2. CASE MakeInputFile       BY <1>2 DEF MakeInputFile, Request
<1>3. CASE CreateChildProcess  BY <1>3 DEF CreateChildProcess, Request
<1>4. CASE StartTimer \/ GetExitCode \/ GetProcessTimes \/ CheckTime \/ CheckMemory
  BY <1>4 DEF StartTimer, GetExitCode, GetProcessTimes, CheckTime, CheckMemory
<1>5. CASE KillChildProcess    BY <1>5 DEF KillChildProcess
<1>6. CASE Sleep
  <2>1. CASE correct = "CORRECT"  BY <1>6, <2>1 DEF Sleep
  <2>2. CASE correct # "CORRECT"  BY <1>6, <2>2 DEF Sleep
  <2> QED BY <2>1, <2>2
<1>7. CASE ReadOutputFile
  <2>1. CASE outFile = NoFile  BY <1>7, <2>1 DEF ReadOutputFile, Request
  <2>2. CASE outFile # NoFile  BY <1>7, <2>2 DEF ReadOutputFile
  <2> QED BY <2>1, <2>2
<1>8. CASE Write \/ Allocate \/ (\E c \in ExitCodes : Exit(c)) \/ Tick
  BY <1>8 DEF Write, Allocate, Exit, Tick
<1>9. CASE \E u \in Tests : Release(u) \/ LateWrite(u)
  BY <1>9 DEF Release, LateWrite
<1>10. CASE UNCHANGED vars     BY <1>10 DEF vars
<1> QED BY <1>1, <1>2, <1>3, <1>4, <1>5, <1>6, <1>7, <1>8, <1>9, <1>10, NextCases

-----------------------------------------------------------------------------
(* The counters.                                                           *)

(* While a child is watched, less than a turn of the tick count passes.    *)
ClockInv ==
  /\ pc \in {"start"} => started = 0
  /\ pc \in Watching => started <= clock /\ clock - started <= MaxTime

LEMMA InitClock == Init => ClockInv
BY DEF Init, ClockInv, Watching

LEMMA NextClock == TypeOK /\ ClockInv /\ [Next]_vars => ClockInv'
<1> SUFFICES ASSUME TypeOK, ClockInv, [Next]_vars PROVE ClockInv'
  OBVIOUS
<1> USE ConstantsAssumption DEF TypeOK, ClockInv, Watching, Goto, place, time, Return
<1>1. CASE Begin \/ MakeInputFile     BY <1>1 DEF Begin, MakeInputFile
<1>2. CASE CreateChildProcess         BY <1>2 DEF CreateChildProcess
<1>3. CASE StartTimer                 BY <1>3 DEF StartTimer
<1>4. CASE GetExitCode \/ GetProcessTimes
  BY <1>4 DEF GetExitCode, GetProcessTimes
<1>5. CASE CheckTime \/ CheckMemory   BY <1>5 DEF CheckTime, CheckMemory
<1>6. CASE KillChildProcess \/ Sleep \/ ReadOutputFile
  BY <1>6 DEF KillChildProcess, Sleep, ReadOutputFile
<1>7. CASE Write \/ Allocate \/ (\E c \in ExitCodes : Exit(c))
  BY <1>7 DEF Write, Allocate, Exit
<1>8. CASE Tick
  <2>1. clock' = clock + 1 /\ UNCHANGED <<pc, started>>
    BY <1>8 DEF Tick
  <2>2. pc \in Watching => clock - started < MaxTime
    BY <1>8 DEF Tick
  <2> QED BY <2>1, <2>2
<1>9. CASE \E t \in Tests : Release(t) \/ LateWrite(t)
  BY <1>9 DEF Release, LateWrite
<1>10. CASE UNCHANGED vars            BY <1>10 DEF vars
<1> QED BY <1>1, <1>2, <1>3, <1>4, <1>5, <1>6, <1>7, <1>8, <1>9, <1>10, NextCases

(* What the test for an idle child says of the timer.                      *)
LEMMA DistanceBound ==
  ASSUME NEW a \in Nat, NEW b \in Nat, NEW e \in Nat, NEW l \in Nat,
         b <= l, ~(Distance(a, b) > e)
  PROVE  a <= l + e
BY DEF Distance

(* The timer is exact although the tick count wraps around, since the      *)
(* unsigned subtraction undoes it; so no child outlives its time unseen.   *)
THEOREM TickWrapHarmlessCorrect == Spec => TickWrapHarmless
<1>1. Spec => [](TypeOK /\ ClockInv)
  BY InitTypeOK, InitClock, NextTypeOK, NextClock, PTL DEF Spec
<1>2. ASSUME TypeOK, ClockInv, CheckTime
      PROVE  /\ timer' = clock - started
             /\ clock - started > TimeLimit + Eps => pc' = "kill"
  <2>1. started <= clock /\ clock - started < TickRange
    BY <1>2, ConstantsAssumption DEF CheckTime, ClockInv, Watching, TypeOK
  <2>2. /\ TickRange \in Nat \ {0} /\ base \in Nat
        /\ started \in Nat /\ clock \in Nat
    BY <1>2, ConstantsAssumption DEF TypeOK
  <2>3. (((base + clock) % TickRange) - ((base + started) % TickRange)) % TickRange
          = clock - started
    BY <2>1, <2>2, WrappedDifference
  <2>4. Elapsed = clock - started
    BY <2>3 DEF Elapsed, GetTickCount
  <2>5. timer' = clock - started
    BY <1>2, <2>4 DEF CheckTime
  <2>6. CASE workTime > TimeLimit \/ Distance(timer', workTime) > Eps
    BY <1>2, <2>5, <2>6 DEF CheckTime
  <2>7. CASE ~(workTime > TimeLimit \/ Distance(timer', workTime) > Eps)
    <3>1. timer' \in Nat  BY <2>1, <2>2, <2>5
    <3>2. workTime \in Nat /\ workTime <= TimeLimit /\ ~(Distance(timer', workTime) > Eps)
      BY <1>2, <2>7, ConstantsAssumption DEF TypeOK
    <3>3. timer' <= TimeLimit + Eps
      BY <3>1, <3>2, DistanceBound, ConstantsAssumption
    <3> QED BY <2>2, <2>5, <3>3, ConstantsAssumption
  <2> QED BY <2>6, <2>7
<1>3. TypeOK /\ ClockInv /\ [Next]_vars =>
        [CheckTime =>
           /\ timer' = clock - started
           /\ clock - started > TimeLimit + Eps => pc' = "kill"]_vars
  BY <1>2
<1> QED BY <1>1, <1>3, PTL DEF Spec, TickWrapHarmless

-----------------------------------------------------------------------------
(* Limits.                                                                 *)

(* The samples that let the child go on were within the limits.            *)
SampleInv ==
  /\ pc \in Watching => memory <= MemoryLimit /\ timer <= TimeLimit + Eps
  /\ pc \in {"exitcode", "times", "memory"} => workTime <= TimeLimit
  /\ pc = "input" => memory = 0 /\ workTime = 0 /\ timer = 0
  /\ pc \in {"create", "start"} => memory = 0 /\ workTime = 0 /\ timer = 0
  /\ pc \in {"kill", "sleep", "output"} =>
       /\ correct \in {"CORRECT", "MLE"} => workTime <= TimeLimit /\ timer <= TimeLimit + Eps
       /\ correct \in {"CORRECT", "TLE"} => memory <= MemoryLimit
  /\ pc = "kill" => correct # "CORRECT"

LEMMA InitSample == Init => SampleInv /\ WithinLimits
BY DEF Init, SampleInv, Watching, WithinLimits, NoRequest, Request

LEMMA NextSample == TypeOK /\ SampleInv /\ [Next]_vars => SampleInv'
<1> SUFFICES ASSUME TypeOK, SampleInv, [Next]_vars PROVE SampleInv'
  OBVIOUS
<1> USE ConstantsAssumption DEF TypeOK, SampleInv, Watching, Goto, place, samples
<1>1. CASE Begin               BY <1>1 DEF Begin
<1>2. CASE MakeInputFile       BY <1>2 DEF MakeInputFile, Return
<1>3. CASE CreateChildProcess  BY <1>3 DEF CreateChildProcess, Return
<1>4. CASE StartTimer          BY <1>4 DEF StartTimer
<1>5. CASE GetExitCode         BY <1>5 DEF GetExitCode
<1>6. CASE GetProcessTimes     BY <1>6 DEF GetProcessTimes
<1>7. CASE CheckTime
  <2>1. CASE workTime > TimeLimit \/ Distance(timer', workTime) > Eps
    BY <1>7, <2>1 DEF CheckTime
  <2>2. CASE ~(workTime > TimeLimit \/ Distance(timer', workTime) > Eps)
    <3>1. timer' \in Nat  BY NextTypeOK DEF TypeOK
    <3>2. workTime <= TimeLimit /\ ~(Distance(timer', workTime) > Eps)
      BY <2>2
    <3>3. timer' <= TimeLimit + Eps
      BY <3>1, <3>2, DistanceBound
    <3> QED BY <1>7, <2>2, <3>3 DEF CheckTime
  <2> QED BY <2>1, <2>2
<1>8. CASE CheckMemory
  <2>1. memory' \in 0 .. Unknown  BY NextTypeOK DEF TypeOK
  <2> QED BY <1>8, <2>1 DEF CheckMemory, Unknown
<1>9. CASE KillChildProcess \/ Sleep \/ ReadOutputFile
  BY <1>9 DEF KillChildProcess, Sleep, ReadOutputFile, Return
<1>10. CASE Write \/ Allocate \/ (\E c \in ExitCodes : Exit(c)) \/ Tick
  BY <1>10 DEF Write, Allocate, Exit, Tick
<1>11. CASE \E t \in Tests : Release(t) \/ LateWrite(t)
  BY <1>11 DEF Release, LateWrite
<1>12. CASE UNCHANGED vars     BY <1>12 DEF vars
<1> QED
  BY <1>1, <1>2, <1>3, <1>4, <1>5, <1>6, <1>7, <1>8, <1>9, <1>10, <1>11,
     <1>12, NextCases

LEMMA NextWithinLimits ==
  TypeOK /\ SampleInv /\ WithinLimits /\ [Next]_vars => WithinLimits'
<1> SUFFICES ASSUME TypeOK, SampleInv, WithinLimits, [Next]_vars, NEW t \in Tests
             PROVE  /\ report'[t].correct \in {"CORRECT", "MLE"} =>
                         report'[t].time <= TimeLimit /\ report'[t].wall <= TimeLimit + Eps
                    /\ report'[t].correct \in {"CORRECT", "TLE"} =>
                         report'[t].memory <= MemoryLimit
  BY DEF WithinLimits
<1>1. CASE report'[t] = report[t]
  BY <1>1 DEF WithinLimits
<1>2. CASE /\ ReadOutputFile
           /\ report'[t] = Request(correct, outFile, workTime, memory, timer)
  BY <1>2 DEF ReadOutputFile, SampleInv, Request
<1>3. CASE /\ Sleep /\ correct # "CORRECT"
           /\ report'[t] = Request(correct, NoFile, workTime, memory, timer)
  BY <1>3 DEF Sleep, SampleInv, Request
<1>4. CASE report'[t].correct \in {"CCTF", "CPF", "NIF"}
  BY <1>4
<1> QED BY <1>1, <1>2, <1>3, <1>4, ReportStep

(* What is reported is within the limits that are not said to be exceeded, *)
(* whatever wraps around.                                                  *)
THEOREM WithinLimitsCorrect == Spec => []WithinLimits
<1>1. Spec => [](TypeOK /\ SampleInv /\ WithinLimits)
  BY InitTypeOK, InitSample, NextTypeOK, NextSample, NextWithinLimits, PTL DEF Spec
<1> QED BY <1>1, PTL

-----------------------------------------------------------------------------
(* How the children end.                                                   *)

LEMMA InitEnd == Init => EndInv
<1> SUFFICES ASSUME Init PROVE EndInv
  OBVIOUS
<1>1. \A t \in Tests : report[t].correct = "none" /\ ended[t] = NotEnded
  BY DEF Init, NoRequest, Request
<1>2. test \in Tests  BY ConstantsAssumption DEF Init, Tests
<1> QED
  BY <1>1, <1>2 DEF Init, EndInv, Deciding, Ending, NotReported,
     NoChildLeftBehind, VerdictMatchesEnd, Watching, Minding

LEMMA NextDeciding == TypeOK /\ EndInv /\ [Next]_vars => Deciding'
<1> SUFFICES ASSUME TypeOK, EndInv, [Next]_vars PROVE Deciding'
  OBVIOUS
<1> USE ConstantsAssumption DEF TypeOK, EndInv, Deciding, Ending, NoChildLeftBehind,
        Watching, Minding, Goto, place, history, Return
<1>1. CASE Begin               BY <1>1 DEF Begin
<1>2. CASE MakeInputFile       BY <1>2 DEF MakeInputFile
<1>3. CASE CreateChildProcess  BY <1>3 DEF CreateChildProcess
<1>4. CASE StartTimer          BY <1>4 DEF StartTimer
<1>5. CASE GetExitCode         BY <1>5 DEF GetExitCode, ExitCode
<1>6. CASE GetProcessTimes     BY <1>6 DEF GetProcessTimes
<1>7. CASE CheckTime \/ CheckMemory
  BY <1>7 DEF CheckTime, CheckMemory
<1>8. CASE KillChildProcess    BY <1>8 DEF KillChildProcess
<1>9. CASE Sleep               BY <1>9 DEF Sleep
<1>10. CASE ReadOutputFile     BY <1>10 DEF ReadOutputFile
<1>11. CASE Write \/ Allocate \/ Tick
  BY <1>11 DEF Write, Allocate, Tick
<1>12. CASE \E c \in ExitCodes : Exit(c)
  BY <1>12 DEF Exit
<1>13. CASE \E t \in Tests : Release(t) \/ LateWrite(t)
  BY <1>13 DEF Release, LateWrite
<1>14. CASE UNCHANGED vars     BY <1>14 DEF vars
<1> QED
  BY <1>1, <1>2, <1>3, <1>4, <1>5, <1>6, <1>7, <1>8, <1>9, <1>10, <1>11,
     <1>12, <1>13, <1>14, NextCases

LEMMA NextEnding ==
  TypeOK /\ EndInv /\ [Next]_vars => (Ending /\ NotReported /\ NoChildLeftBehind)'
<1> SUFFICES ASSUME TypeOK, EndInv, [Next]_vars
             PROVE  (Ending /\ NotReported /\ NoChildLeftBehind)'
  OBVIOUS
<1> USE ConstantsAssumption DEF TypeOK, EndInv, Ending, NotReported, NoChildLeftBehind,
        Tests, Watching, Minding, Goto, place, history, Return
<1>1. CASE Begin               BY <1>1 DEF Begin
<1>2. CASE MakeInputFile       BY <1>2 DEF MakeInputFile
<1>3. CASE CreateChildProcess  BY <1>3 DEF CreateChildProcess
<1>4. CASE StartTimer          BY <1>4 DEF StartTimer
<1>5. CASE GetExitCode         BY <1>5 DEF GetExitCode, ExitCode
<1>6. CASE GetProcessTimes     BY <1>6 DEF GetProcessTimes
<1>7. CASE CheckTime \/ CheckMemory
  BY <1>7 DEF CheckTime, CheckMemory
<1>8. CASE KillChildProcess    BY <1>8 DEF KillChildProcess
<1>9. CASE Sleep               BY <1>9 DEF Sleep
<1>10. CASE ReadOutputFile     BY <1>10 DEF ReadOutputFile
<1>11. CASE Write \/ Allocate \/ Tick
  BY <1>11 DEF Write, Allocate, Tick
<1>12. CASE \E c \in ExitCodes : Exit(c)
  BY <1>12 DEF Exit
<1>13. CASE \E t \in Tests : Release(t) \/ LateWrite(t)
  BY <1>13 DEF Release, LateWrite
<1>14. CASE UNCHANGED vars     BY <1>14 DEF vars
<1> QED
  BY <1>1, <1>2, <1>3, <1>4, <1>5, <1>6, <1>7, <1>8, <1>9, <1>10, <1>11,
     <1>12, <1>13, <1>14, NextCases

(* Only a child that runs ends, and it is the one of the test at hand.     *)
LEMMA EndedStep ==
  ASSUME TypeOK, [Next]_vars, NEW t \in Tests, ended'[t] # ended[t]
  PROVE  t = test /\ state = "running"
<1> USE DEF TypeOK, history
<1>1. CASE Begin \/ MakeInputFile \/ CreateChildProcess \/ StartTimer
  BY <1>1 DEF Begin, MakeInputFile, CreateChildProcess, StartTimer
<1>2. CASE GetExitCode \/ GetProcessTimes \/ CheckTime \/ CheckMemory
  BY <1>2 DEF GetExitCode, GetProcessTimes, CheckTime, CheckMemory
<1>3. CASE KillChildProcess   BY <1>3 DEF KillChildProcess
<1>4. CASE Sleep \/ ReadOutputFile
  BY <1>4 DEF Sleep, ReadOutputFile
<1>5. CASE Write \/ Allocate \/ Tick
  BY <1>5 DEF Write, Allocate, Tick
<1>6. CASE \E c \in ExitCodes : Exit(c)   BY <1>6 DEF Exit
<1>7. CASE \E u \in Tests : Release(u) \/ LateWrite(u)
  BY <1>7 DEF Release, LateWrite
<1>8. CASE UNCHANGED vars     BY <1>8 DEF vars
<1> QED BY <1>1, <1>2, <1>3, <1>4, <1>5, <1>6, <1>7, <1>8, NextCases

LEMMA NextVerdict == TypeOK /\ EndInv /\ [Next]_vars => VerdictMatchesEnd'
<1> SUFFICES ASSUME TypeOK, EndInv, [Next]_vars, NEW t \in Tests
             PROVE  /\ report'[t].correct \in {"CORRECT", "NIF"} => ended'[t] = 0
                    /\ report'[t].correct = "CRASH" => ended'[t] \in ExitCodes \ {0}
  BY DEF VerdictMatchesEnd
<1>1. CASE report'[t] = report[t]
  <2>1. CASE ended'[t] = ended[t]
    BY <1>1, <2>1 DEF EndInv, VerdictMatchesEnd
  <2>2. CASE ended'[t] # ended[t]
    <3>1. t = test /\ state = "running"
      BY <2>2, EndedStep
    <3>2. pc # "done"
      BY <3>1 DEF EndInv, NoChildLeftBehind, Watching
    <3>3. t >= test
      BY <3>1 DEF TypeOK, Tests
    <3>4. report[t].correct = "none"
      BY <3>2, <3>3 DEF EndInv, NotReported
    <3> QED BY <1>1, <3>4
  <2> QED BY <2>1, <2>2
<1>2. CASE report'[t].correct \in {"CCTF", "CPF"}
  BY <1>2
<1>3. CASE /\ t = test /\ Sleep /\ correct # "CORRECT"
           /\ report'[t] = Request(correct, NoFile, workTime, memory, timer)
  BY <1>3 DEF Sleep, history, Request, EndInv, Deciding
<1>4. CASE t = test /\ ReadOutputFile /\ report'[t].correct = "NIF"
  BY <1>4 DEF ReadOutputFile, history, EndInv, Deciding
<1>5. CASE /\ t = test /\ ReadOutputFile
           /\ report'[t] = Request(correct, outFile, workTime, memory, timer)
  BY <1>5 DEF ReadOutputFile, history, Request, EndInv, Deciding
<1> QED BY <1>1, <1>2, <1>3, <1>4, <1>5, ReportStep

LEMMA SpecEndInv == Spec => [](TypeOK /\ EndInv)
<1>1. TypeOK /\ EndInv /\ [Next]_vars => EndInv'
  BY NextDeciding, NextEnding, NextVerdict DEF EndInv
<1> QED BY <1>1, InitTypeOK, InitEnd, NextTypeOK, PTL DEF Spec

(* A killed child is never accepted, and a verdict tells how the child     *)
(* ended, at whatever moment of the loop it did.                           *)
THEOREM VerdictMatchesEndCorrect == Spec => []VerdictMatchesEnd
<1>1. EndInv => VerdictMatchesEnd  BY DEF EndInv
<1> QED BY <1>1, SpecEndInv, PTL

(* No child outlives the execute() that started it.                        *)
THEOREM NoChildLeftBehindCorrect == Spec => []NoChildLeftBehind
<1>1. EndInv => NoChildLeftBehind  BY DEF EndInv
<1> QED BY <1>1, SpecEndInv, PTL

-----------------------------------------------------------------------------
(* Whose output is judged.                                                 *)

(* A test that began when no child had files open has the output file      *)
(* removed, and no ended child but its own can write there until it ends.  *)
Undisturbed ==
  pc \notin {"begin", "done"} /\ test \notin crowded =>
    /\ dying \subseteq {test}
    /\ pc \in {"input", "create"} => dying = {} /\ outFile = NoFile
    /\ outFile \in {test, NoFile}

FilesInv == Undisturbed /\ FreshOutput

LEMMA InitFiles == Init => FilesInv
BY DEF Init, FilesInv, Undisturbed, FreshOutput, NoRequest, Request

LEMMA CrowdGrows == [Next]_vars => crowded \subseteq crowded'
<1> SUFFICES ASSUME [Next]_vars PROVE crowded \subseteq crowded'
  OBVIOUS
<1> USE DEF history
<1>1. CASE Begin
  BY <1>1 DEF Begin, NoteCrowd
<1>2. CASE MakeInputFile \/ CreateChildProcess \/ StartTimer
  BY <1>2 DEF MakeInputFile, CreateChildProcess, StartTimer
<1>3. CASE GetExitCode \/ GetProcessTimes \/ CheckTime \/ CheckMemory
  BY <1>3 DEF GetExitCode, GetProcessTimes, CheckTime, CheckMemory
<1>4. CASE KillChildProcess \/ Sleep \/ ReadOutputFile
  BY <1>4 DEF KillChildProcess, Sleep, ReadOutputFile
<1>5. CASE Write \/ Allocate \/ (\E c \in ExitCodes : Exit(c)) \/ Tick
  BY <1>5 DEF Write, Allocate, Exit, Tick
<1>6. CASE \E t \in Tests : Release(t) \/ LateWrite(t)
  BY <1>6 DEF Release, LateWrite
<1>7. CASE UNCHANGED vars     BY <1>7 DEF vars
<1> QED BY <1>1, <1>2, <1>3, <1>4, <1>5, <1>6, <1>7, NextCases

LEMMA NextFreshOutput ==
  TypeOK /\ FilesInv /\ [Next]_vars => FreshOutput'
<1> SUFFICES ASSUME TypeOK, FilesInv, [Next]_vars, NEW t \in Tests, t \notin crowded',
                    report'[t].correct = "CORRECT"
             PROVE  report'[t].program = t
  BY DEF FreshOutput
<1>0. t \notin crowded
  BY CrowdGrows
<1>1. CASE report'[t] = report[t]
  BY <1>0, <1>1 DEF FilesInv, FreshOutput
<1>2. CASE /\ t = test /\ ReadOutputFile
           /\ report'[t] = Request(correct, outFile, workTime, memory, timer)
  <2>1. CASE outFile = NoFile
    BY <1>2, <2>1 DEF ReadOutputFile, Return, Request, TypeOK
  <2>2. CASE outFile # NoFile
    BY <1>0, <1>2, <2>2 DEF ReadOutputFile, FilesInv, Undisturbed, Request
  <2> QED BY <2>1, <2>2
<1>3. CASE /\ Sleep /\ correct # "CORRECT"
           /\ report'[t] = Request(correct, NoFile, workTime, memory, timer)
  BY <1>3 DEF Request
<1>4. CASE report'[t].correct \in {"CCTF", "CPF", "NIF"}
  BY <1>4
<1> QED BY <1>1, <1>2, <1>3, <1>4, ReportStep

LEMMA NextUndisturbed ==
  TypeOK /\ EndInv /\ Undisturbed /\ [Next]_vars => Undisturbed'
<1> SUFFICES ASSUME TypeOK, EndInv, Undisturbed, [Next]_vars PROVE Undisturbed'
  OBVIOUS
<1> USE DEF TypeOK, EndInv, NoChildLeftBehind, Undisturbed, Watching, Goto, place,
        history, Return
<1>1. CASE Begin               BY <1>1 DEF Begin, NoteCrowd
<1>2. CASE MakeInputFile       BY <1>2 DEF MakeInputFile
<1>3. CASE CreateChildProcess  BY <1>3 DEF CreateChildProcess
<1>4. CASE StartTimer \/ GetExitCode \/ GetProcessTimes
  BY <1>4 DEF StartTimer, GetExitCode, GetProcessTimes
<1>5. CASE CheckTime \/ CheckMemory
  BY <1>5 DEF CheckTime, CheckMemory
<1>6. CASE KillChildProcess    BY <1>6 DEF KillChildProcess
<1>7. CASE Sleep               BY <1>7 DEF Sleep
<1>8. CASE ReadOutputFile      BY <1>8 DEF ReadOutputFile
<1>9. CASE Write \/ Allocate \/ Tick
  BY <1>9 DEF Write, Allocate, Tick
<1>10. CASE \E c \in ExitCodes : Exit(c)
  BY <1>10 DEF Exit
<1>11. CASE \E t \in Tests : Release(t) \/ LateWrite(t)
  BY <1>11 DEF Release, LateWrite
<1>12. CASE UNCHANGED vars     BY <1>12 DEF vars
<1> QED
  BY <1>1, <1>2, <1>3, <1>4, <1>5, <1>6, <1>7, <1>8, <1>9, <1>10, <1>11,
     <1>12, NextCases

(* The sleep before the output is read is all that keeps the outputs of    *)
(* different tests apart: where it was long enough, an accepted output was *)
(* written on the test it is accepted for.                                 *)
THEOREM FreshOutputCorrect == Spec => []FreshOutput
<1>1. TypeOK /\ EndInv /\ FilesInv /\ [Next]_vars => FilesInv'
  BY NextFreshOutput, NextUndisturbed DEF FilesInv
<1>2. Spec => [](TypeOK /\ EndInv /\ FilesInv)
  BY SpecEndInv, InitFiles, <1>1, PTL DEF Spec
<1>3. FilesInv => FreshOutput  BY DEF FilesInv
<1> QED BY <1>2, <1>3, PTL

=============================================================================
