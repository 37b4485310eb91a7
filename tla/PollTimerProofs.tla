--------------------------- MODULE PollTimerProofs ---------------------------
(***************************************************************************)
(* Theorems about PollTimer, for every width of the clock, every delay it  *)
(* can hold, and any time the daemon is up.                                *)
(***************************************************************************)
EXTENDS PollTimer, TLAPS

-----------------------------------------------------------------------------
(* Arithmetic in 32 bits.                                                  *)

LEMMA SignedRange ==
  ASSUME NEW x \in Int
  PROVE  Signed(x) \in -Half .. Half - 1
BY ConstantsAssumption DEF Signed, Word

LEMMA UnsignedRange ==
  ASSUME NEW x \in Int
  PROVE  Unsigned(x) \in 0 .. Word - 1
BY ConstantsAssumption DEF Unsigned, Word

LEMMA SignedSame ==
  ASSUME NEW x \in -Half .. Half - 1
  PROVE  Signed(x) = x
<1>1. x + Half \in 0 .. Word - 1
  BY ConstantsAssumption DEF Word
<1>2. (x + Half) % Word = x + Half
  BY <1>1, ConstantsAssumption DEF Word
<1> QED BY <1>2, ConstantsAssumption DEF Signed

LEMMA UnsignedSame ==
  ASSUME NEW x \in 0 .. Word - 1
  PROVE  Unsigned(x) = x
BY ConstantsAssumption DEF Unsigned, Word

LEMMA UnsignedOnceMore ==
  ASSUME NEW x \in 0 .. Word - 1
  PROVE  Unsigned(x + Word) = x
BY ConstantsAssumption DEF Unsigned, Word

LEMMA SumNat ==
  ASSUME NEW a \in Nat, NEW b \in Nat
  PROVE  a + b \in Nat
OBVIOUS

LEMMA DivMod ==
  ASSUME NEW m \in Nat \ {0}, NEW x \in Nat
  PROVE  x = m * (x \div m) + (x % m) /\ x \div m \in Int
OBVIOUS

(* The difference of two readings, less than Half apart, of a clock that   *)
(* wraps: the time between them, unless the clock wrapped in between.      *)
LEMMA ClockDifference ==
  ASSUME NEW b \in Nat, NEW t \in Nat, b <= t, t - b < Half
  PROVE  \/ Signed(t) - Signed(b) = t - b
         \/ Signed(t) - Signed(b) = t - b - Word
<1> DEFINE qt == (t + Half) \div Word
           qb == (b + Half) \div Word
           q  == qt - qb
<1>1. Word \in Nat \ {0} /\ t + Half \in Nat /\ b + Half \in Nat
  BY ConstantsAssumption DEF Word
<1>2. /\ t + Half = Word * qt + ((t + Half) % Word)
      /\ b + Half = Word * qb + ((b + Half) % Word)
      /\ qt \in Int /\ qb \in Int
  BY <1>1, DivMod
<1>3. q \in Int /\ Word * q = (t - b) - (Signed(t) - Signed(b))
  BY <1>1, <1>2, ConstantsAssumption DEF Signed
<1>4. Signed(t) \in -Half .. Half - 1 /\ Signed(b) \in -Half .. Half - 1
  BY SignedRange
<1> HIDE DEF q
<1>5. q = 0 \/ q = 1
  <2>1. Word * q < 2 * Word /\ Word * q > -Word
    BY <1>3, <1>4, ConstantsAssumption DEF Word
  <2>2. CASE q >= 2   BY <1>1, <1>3, <2>1, <2>2
  <2>3. CASE q <= -1  BY <1>1, <1>3, <2>1, <2>3
  <2> QED BY <1>3, <2>2, <2>3
<1> QED BY <1>1, <1>3, <1>4, <1>5

-----------------------------------------------------------------------------
(* The invariant.                                                          *)

(* In an iteration, start is the clock's value when it began.              *)
StartInv ==
  /\ began <= now /\ slept <= now
  /\ pc # "poll" => start = Clock(began)

(* A sleep ends when it is due, or later.                                  *)
AsleepInv ==
  pc = "asleep" =>
    /\ began <= slept /\ wake >= began + Delay
    /\ SleepsUntilDue

(* When the next iteration begins, the last one has lasted for the delay.  *)
SpacedInv ==
  pc = "poll" /\ last.is =>
    now - last.began >= Delay \/ last.start + Delay >= Half

IInv == TypeOK /\ StartInv /\ AsleepInv /\ SpacedInv /\ PollsSpaced

LEMMA ClockRange ==
  ASSUME NEW t \in Nat
  PROVE  Clock(t) \in -Half .. Half - 1
BY SignedRange, ConstantsAssumption DEF Clock

LEMMA InitIInv == Init => IInv
BY ConstantsAssumption
   DEF Init, IInv, TypeOK, StartInv, AsleepInv, SpacedInv, PollsSpaced, None, Word

(* The first reading: the loop goes round only when the delay is over, or  *)
(* end_time is past the end of the clock.                                  *)
LEMMA EndReached ==
  ASSUME TypeOK, NEW b \in Nat, b <= now,
         Clock(now) >= Signed(Clock(b) + Delay), Clock(b) + Delay < Half
  PROVE  now - b >= Delay
<1> USE ConstantsAssumption DEF TypeOK
<1>1. Clock(b) \in -Half .. Half - 1 /\ Clock(now) \in Int
  BY ClockRange
<1>2. Clock(now) >= Clock(b) + Delay
  BY <1>1, SignedSame
<1> SUFFICES ASSUME now - b < Delay PROVE FALSE
  OBVIOUS
<1>3. CASE crt = "fails" /\ b >= Half
  BY <1>2, <1>3 DEF Clock
<1>4. CASE crt = "fails" /\ b < Half
  <2>1. Clock(b) = b /\ now < Half
    BY <1>4, SignedSame DEF Clock
  <2>2. Clock(now) = now
    BY <1>4, <2>1, SignedSame DEF Clock
  <2> QED BY <1>2, <2>1, <2>2
<1>5. CASE crt = "wraps"
  <2>1. Signed(now) - Signed(b) <= now - b /\ Signed(now) \in Int /\ Signed(b) \in Int
    BY ClockDifference, SignedRange DEF Word
  <2> QED BY <1>2, <1>5, <2>1 DEF Clock
<1> QED BY <1>3, <1>4, <1>5

(* The second reading: what is slept.                                      *)
LEMMA RestOfDelay ==
  ASSUME TypeOK, NEW b \in Nat, b <= now,
         NEW z \in Nat, z = Unsigned(Delay - (Clock(now) - Clock(b)))
  PROVE  /\ \/ now + z = b + Delay
            \/ now > b + Delay
            \/ crt = "fails" /\ now >= Half /\ (b >= Half => z = Delay)
         /\ now + z >= b + Delay
<1> USE ConstantsAssumption DEF TypeOK
<1>1. CASE crt = "fails" /\ b >= Half
  <2>1. Clock(now) = -1 /\ Clock(b) = -1
    BY <1>1 DEF Clock
  <2>2. z = Delay
    BY <2>1, UnsignedSame DEF Word
  <2> QED BY <1>1, <2>2
<1>2. CASE crt = "fails" /\ b < Half /\ now >= Half
  <2>1. Clock(now) = -1 /\ Clock(b) = b
    BY <1>2, SignedSame DEF Clock
  <2>2. z = Delay + 1 + b
    BY <1>2, <2>1, UnsignedSame DEF Word
  <2> QED BY <1>2, <2>2
<1>3. CASE crt = "fails" /\ now < Half
  <2>1. Clock(now) = now /\ Clock(b) = b
    BY <1>3, SignedSame DEF Clock
  <2>2. CASE now > b + Delay  BY <1>3, <2>2
  <2>3. CASE now <= b + Delay
    <3>1. z = Delay - (now - b)
      BY <2>1, <2>3, UnsignedSame DEF Word
    <3> QED BY <1>3, <3>1
  <2> QED BY <2>2, <2>3
<1>4. CASE crt = "wraps"
  <2>1. CASE now > b + Delay  BY <1>4, <2>1
  <2>2. CASE now <= b + Delay
    <3>1. \/ Signed(now) - Signed(b) = now - b
          \/ Signed(now) - Signed(b) = now - b - Word
      BY <2>2, ClockDifference
    <3>2. Clock(now) = Signed(now) /\ Clock(b) = Signed(b)
      BY <1>4 DEF Clock
    <3>3. Delay - (now - b) \in 0 .. Word - 1
      BY <2>2 DEF Word
    <3>4. Signed(now) \in Int /\ Signed(b) \in Int /\ Word \in Nat
      BY SignedRange DEF Word
    <3>5. CASE Signed(now) - Signed(b) = now - b
      BY <1>4, <3>2, <3>3, <3>5, UnsignedSame
    <3>6. CASE Signed(now) - Signed(b) = now - b - Word
      <4>1. Delay - (Clock(now) - Clock(b)) = Delay - (now - b) + Word
        BY <3>2, <3>4, <3>6
      <4>2. z = Delay - (now - b)
        BY <3>3, <4>1, UnsignedOnceMore
      <4> QED BY <1>4, <4>2
    <3> QED BY <3>1, <3>5, <3>6
  <2> QED BY <2>1, <2>2
<1> QED BY <1>1, <1>2, <1>3, <1>4

LEMMA NextIInv == IInv /\ [Next]_vars => IInv'
<1> SUFFICES ASSUME IInv, [Next]_vars PROVE IInv'
  OBVIOUS
<1> USE ConstantsAssumption DEF IInv, TypeOK, Goto
<1>1. CASE StartIteration
  <2>1. Clock(now) \in -Half .. Half - 1
    BY ClockRange
  <2> QED
    BY <1>1, <2>1 DEF StartIteration, StartInv, AsleepInv, SpacedInv, PollsSpaced, Clock
<1>2. CASE JudgeBatch
  BY <1>2 DEF JudgeBatch, StartInv, AsleepInv, SpacedInv, PollsSpaced, Clock
<1>3. CASE CompareWithEnd
  <2>1. CASE pc' = "second"
    BY <1>3, <2>1 DEF CompareWithEnd, EndIteration, StartInv, AsleepInv, SpacedInv, PollsSpaced, Clock
  <2>2. CASE EndIteration
    <3>1. pc = "first" /\ Clock(now) >= Signed(start + Delay) /\ start = Clock(began)
      BY <1>3, <2>2 DEF CompareWithEnd, EndIteration, StartInv
    <3>2. now - began >= Delay \/ start + Delay >= Half
      BY <3>1, EndReached, ClockRange DEF StartInv
    <3>3. UNCHANGED <<crt, now, start, sleep, wake, began, slept>>
      BY <1>3 DEF CompareWithEnd
    <3> QED BY <2>2, <3>2, <3>3 DEF EndIteration, StartInv, AsleepInv, SpacedInv, PollsSpaced
  <2> QED BY <1>3, <2>1, <2>2 DEF CompareWithEnd
<1>4. CASE SleepRest
  <2>1. pc = "second" /\ pc' = "asleep" /\ start = Clock(began) /\ began <= now
    BY <1>4 DEF SleepRest, StartInv
  <2>2. Delay - (Clock(now) - start) \in Int
    BY ClockRange
  <2>3. sleep' \in 0 .. Word - 1 /\ sleep' \in Nat /\ Word \in Nat
    BY <1>4, <2>2, UnsignedRange DEF SleepRest, Word
  <2>4. sleep' = Unsigned(Delay - (Clock(now) - Clock(began)))
    BY <1>4, <2>1 DEF SleepRest
  <2>5. wake' = now + sleep' /\ slept' = now /\ UNCHANGED <<crt, now, start, began, last>>
    BY <1>4 DEF SleepRest
  <2>6. AsleepInv'
    BY <2>1, <2>3, <2>4, <2>5, RestOfDelay
       DEF AsleepInv, SleepsUntilDue
  <2>7. TypeOK'
    <3>1. wake' = now + sleep' /\ sleep' \in Nat /\ now \in Nat
      BY <2>3, <2>5
    <3>2. wake' \in Nat
      BY <3>1, SumNat
    <3>3. slept' = now /\ slept' \in Nat
      BY <2>5
    <3> QED BY <2>1, <2>3, <2>5, <3>2, <3>3
  <2>8. StartInv'
    BY <2>1, <2>5 DEF StartInv, Clock
  <2> QED BY <2>1, <2>6, <2>7, <2>8 DEF SpacedInv, PollsSpaced
<1>5. CASE Wake
  BY <1>5 DEF Wake, EndIteration, StartInv, AsleepInv, SpacedInv, PollsSpaced
<1>6. CASE Tick
  BY <1>6 DEF Tick, StartInv, AsleepInv, SpacedInv, PollsSpaced, SleepsUntilDue, Clock
<1>7. CASE UNCHANGED vars
  BY <1>7 DEF vars, StartInv, AsleepInv, SpacedInv, PollsSpaced, SleepsUntilDue, Clock
<1> QED BY <1>1, <1>2, <1>3, <1>4, <1>5, <1>6, <1>7 DEF Next

LEMMA SpecIInv == Spec => []IInv
BY InitIInv, NextIInv, PTL DEF Spec

-----------------------------------------------------------------------------
(* The variables keep their types: a sleep is a DWORD, a start a clock_t.  *)
THEOREM TypeCorrect == Spec => []TypeOK
<1>1. IInv => TypeOK  BY DEF IInv
<1> QED BY <1>1, SpecIInv, PTL

(* A sleep ends when it is due, apart from the ways named.                 *)
THEOREM SleepsUntilDueCorrect == Spec => []SleepsUntilDue
<1>1. IInv => SleepsUntilDue  BY DEF IInv, AsleepInv, SleepsUntilDue
<1> QED BY <1>1, SpecIInv, PTL

(* Polls are a delay apart while the clock holds the end of the delay.     *)
THEOREM PollsSpacedCorrect == Spec => []PollsSpaced
<1>1. IInv => PollsSpaced  BY DEF IInv
<1> QED BY <1>1, SpecIInv, PTL

=============================================================================
