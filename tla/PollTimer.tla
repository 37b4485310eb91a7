------------------------------ MODULE PollTimer ------------------------------
(***************************************************************************)
(* The pace of the daemon (main of contester/src/contester.cpp): it polls, *)
(* works off the batch, and sleeps out what is left of its delay.  It      *)
(* reads clock() three times, compares and subtracts 32 bit signed values  *)
(* and passes the difference to Sleep, which takes it for unsigned.        *)
(*                                                                         *)
(* The daemon and the wall clock are the actors: time passes between any   *)
(* two statements, long where the batch is judged and at least sometimes   *)
(* where the thread is not scheduled.  Unit: a millisecond.                *)
(***************************************************************************)
EXTENDS Integers

CONSTANTS
  Half,      \* a clock_t has values -Half .. Half - 1 (2^31)
  Delay,     \* DELAY
  MaxTime    \* bound: how long the daemon is watched

Word == 2 * Half

ASSUME ConstantsAssumption ==
  /\ Half \in Nat \ {0}
  /\ Delay \in 0 .. Half - 1
  /\ MaxTime \in Nat

VARIABLES
  crt,      \* what clock() does after Half ms: it begins anew, or fails
  now,      \* time since the daemon was started
  pc,       \* what the daemon does next
  start,    \* start_time
  sleep,    \* the argument of Sleep
  wake,     \* when that sleep is over
  began,    \* history: when start was read
  slept,    \* history: when sleep was computed
  last      \* history: began and start one iteration ago

vars == <<crt, now, pc, start, sleep, wake, began, slept, last>>

(* A number in 32 bits, signed and unsigned.                               *)
Signed(x) == ((x + Half) % Word) - Half

Unsigned(x) == x % Word

(* clock(): a runtime without 64 bit times wraps around, one with them     *)
(* returns -1 for a time that clock_t does not hold.                       *)
Clock(t) == IF crt = "fails" /\ t >= Half THEN -1 ELSE Signed(t)

(* Sleep(INFINITE) does not return.                                        *)
Infinite == Word - 1

None == [began |-> 0, start |-> -1, is |-> FALSE]

TypeOK ==
  /\ crt \in {"wraps", "fails"}
  /\ now \in Nat
  /\ pc \in {"poll", "batch", "first", "second", "asleep"}
  /\ start \in -Half .. Half - 1
  /\ sleep \in 0 .. Word - 1
  /\ wake \in Nat /\ began \in Nat /\ slept \in Nat
  /\ last \in [began : Nat, start : -Half .. Half - 1, is : BOOLEAN]

Init ==
  /\ crt \in {"wraps", "fails"}
  /\ now = 0 /\ pc = "poll" /\ start = -1 /\ sleep = 0
  /\ wake = 0 /\ began = 0 /\ slept = 0
  /\ last = None

-----------------------------------------------------------------------------
Goto(from, to) == pc = from /\ pc' = to

(* The loop begins; the poll follows at once.                              *)
StartIteration ==
  /\ Goto("poll", "batch")
  /\ start' = Clock(now)
  /\ began' = now
  /\ UNCHANGED <<crt, now, sleep, wake, slept, last>>

(* The batch is polled, and every solution of it judged.                   *)
JudgeBatch ==
  /\ Goto("batch", "first")
  /\ UNCHANGED <<crt, now, start, sleep, wake, began, slept, last>>

(* The loop goes round; what it was is remembered.                         *)
EndIteration ==
  /\ pc' = "poll"
  /\ last' = [began |-> began, start |-> start, is |-> TRUE]

(* Mutant: end_time is the time of the start.                              *)
CompareWithStart ==
  /\ pc = "first"
  /\ \/ Clock(now) < start /\ pc' = "second" /\ UNCHANGED last
     \/ Clock(now) >= start /\ EndIteration
  /\ UNCHANGED <<crt, now, start, sleep, wake, began, slept>>

(* The first reading: is end_time still to come?                           *)
CompareWithEnd ==
  /\ pc = "first"
  /\ \/ Clock(now) < Signed(start + Delay) /\ pc' = "second" /\ UNCHANGED last
     \/ Clock(now) >= Signed(start + Delay) /\ EndIteration
  /\ UNCHANGED <<crt, now, start, sleep, wake, began, slept>>

(* Mutant: the time spent on the batch is not taken off.                   *)
SleepDelay ==
  /\ Goto("second", "asleep")
  /\ sleep' = Delay
  /\ wake' = now + sleep'
  /\ slept' = now
  /\ UNCHANGED <<crt, now, start, began, last>>

(* The second reading: how long is it to end_time?                         *)
SleepRest ==
  /\ Goto("second", "asleep")
  /\ sleep' = Unsigned(Delay - (Clock(now) - start))
  /\ wake' = now + sleep'
  /\ slept' = now
  /\ UNCHANGED <<crt, now, start, began, last>>

Wake ==
  /\ pc = "asleep"
  /\ now >= wake /\ sleep # Infinite
  /\ EndIteration
  /\ UNCHANGED <<crt, now, start, sleep, wake, began, slept>>

Tick ==
  /\ now < MaxTime
  /\ now' = now + 1
  /\ UNCHANGED <<crt, pc, start, sleep, wake, began, slept, last>>

Next ==
  \/ StartIteration \/ JudgeBatch \/ CompareWithEnd \/ SleepRest \/ Wake
  \/ Tick

Spec == Init /\ [][Next]_vars

-----------------------------------------------------------------------------
(* Properties.                                                             *)

(* A daemon that sleeps wakes up Delay after it began, when the next poll  *)
(* is due.  There are two ways to miss that, both by days: the time it was *)
(* due passed between the two readings, or while the clock wrapped (the    *)
(* rest is negative, and a DWORD of up to 49 days, or INFINITE); and       *)
(* clock() failed in the iteration.  With one that failed at both ends of  *)
(* it the daemon no longer sees what the batch took, but sleeps for Delay. *)
SleepsUntilDue ==
  pc = "asleep" =>
    \/ wake = began + Delay
    \/ slept > began + Delay
    \/ /\ crt = "fails" /\ slept >= Half
       /\ began >= Half => wake = slept + Delay

(* The table is never polled twice within the delay, however short the     *)
(* batch was, unless end_time is past the last value of a clock_t: then    *)
(* the daemon polls without a pause until the clock gets there.            *)
PollsSpaced ==
  pc = "batch" /\ last.is =>
    \/ began - last.began >= Delay
    \/ last.start + Delay >= Half

=============================================================================
