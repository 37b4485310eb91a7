---------------------------- MODULE LoaderProofs ----------------------------
(***************************************************************************)
(* Theorems about Loader, for any tables and any number of edits.          *)
(***************************************************************************)
EXTENDS Loader, SequenceTheorems, FiniteSetTheorems, TLAPS

-----------------------------------------------------------------------------
(* The inductive invariant.                                                *)

(* Nothing is loaded before the groups are listed, and afterwards the      *)
(* groups loaded, the group in hand and those to be read are different.    *)
DistinctInv ==
  /\ pc \in {"solution", "task", "groups"} => loaded = <<>> /\ gids = {}
  /\ \A i, j \in 1 .. Len(loaded) : loaded[i] = loaded[j] => i = j
  /\ \A i \in 1 .. Len(loaded) : loaded[i].group \notin gids
  /\ pc \in {"tests", "test"} => group \in Groups \ gids
  /\ pc = "tests" => \A i \in 1 .. Len(loaded) : loaded[i].group # group
  /\ pc = "test" =>
       \A i \in 1 .. Len(loaded) : loaded[i].group = group => loaded[i].test \notin tids

(* What was listed was in the tables, and what was never moved still is.   *)
PlacedInv ==
  /\ GroupsOfTask \subseteq shown /\ Placed \subseteq placed
  /\ gids \subseteq shown
  /\ pc \in {"tests", "test"} => group \in shown
  /\ pc = "test" => \A t \in tids : [group |-> group, test |-> t] \in placed
  /\ \A e \in placed : e.test \notin moved => home[e.test] = e.group
  /\ \A i \in 1 .. Len(loaded) : loaded[i] \in placed /\ loaded[i].group \in shown

(* A steady test is loaded, or still to come.                              *)
Steady(t) == t \notin moved /\ home[t] \in kept

ToCome(t) ==
  \/ home[t] \in gids
  \/ pc = "tests" /\ home[t] = group
  \/ pc = "test" /\ home[t] = group /\ t \in tids

Loaded(t) ==
  \E i \in 1 .. Len(loaded) : loaded[i] = [group |-> home[t], test |-> t]

SteadyInv ==
  /\ kept \subseteq GroupsOfTask
  /\ pc \in {"group", "tests", "test", "lang", "results", "result", "loaded"} =>
       \A t \in Tests : Steady(t) => ToCome(t) \/ Loaded(t)
  /\ pc \in {"lang", "results", "result", "loaded"} => gids = {}

(* As long as nothing was deleted, whatever was listed is there.           *)
ThereInv ==
  ~lost =>
    /\ Singles \subseteq rows
    /\ \A g \in gids : owner[g] # "none"
    /\ \A t \in tids : home[t] # NoGroup
    /\ rids \subseteq rows

IInv == TypeOK /\ DistinctInv /\ PlacedInv /\ SteadyInv /\ ThereInv /\ FailureJustified

-----------------------------------------------------------------------------
(* An element is appended to what is loaded.                               *)
LEMMA AppendEntry ==
  ASSUME TypeOK, NEW e \in Entry, loaded' = Append(loaded, e)
  PROVE  /\ loaded' \in Seq(Entry)
         /\ Len(loaded) \in Nat /\ Len(loaded') = Len(loaded) + 1
         /\ \A i \in 1 .. Len(loaded) : loaded'[i] = loaded[i]
         /\ loaded'[Len(loaded) + 1] = e
BY DEF TypeOK

LEMMA InitIInv == Init => IInv
<1> SUFFICES ASSUME Init PROVE IInv
  OBVIOUS
<1> USE ConstantsAssumption DEF Init, GroupsOfTask, Placed
<1>1. TypeOK
  <2>1. loaded \in Seq(Entry) /\ edits \in 0 .. MaxEdits  OBVIOUS
  <2> QED BY <2>1 DEF TypeOK, Entry
<1>2. DistinctInv
  BY DEF DistinctInv
<1>3. PlacedInv
  BY DEF PlacedInv
<1>4. SteadyInv /\ ThereInv /\ FailureJustified
  BY DEF SteadyInv, ThereInv, FailureJustified
<1> QED BY <1>1, <1>2, <1>3, <1>4 DEF IInv

(* The steps of the daemon that read one row or a list leave the tables,   *)
(* the history and, but for one of them, what is loaded alone.             *)
LEMMA StepReadRow ==
  ASSUME IInv, ReadSolution \/ ReadTask \/ ReadLang \/ EndTask \/ Refuse
  PROVE  IInv'
<1> USE DEF IInv, TypeOK, Ended, DistinctInv, PlacedInv, SteadyInv, ThereInv,
            FailureJustified, Steady, ToCome, Loaded, GroupsOfTask, Placed, Singles,
            tables, history, Goto, ReadRow
<1>1. CASE ReadSolution  BY <1>1 DEF ReadSolution
<1>2. CASE ReadTask      BY <1>2 DEF ReadTask
<1>3. CASE ReadLang      BY <1>3 DEF ReadLang
<1>4. CASE EndTask       BY <1>4 DEF EndTask
<1>5. CASE Refuse        BY <1>5 DEF Refuse
<1> QED BY <1>1, <1>2, <1>3, <1>4, <1>5

LEMMA StepResults ==
  ASSUME IInv, ListResults \/ (\E r \in Results : ReadResult(r)) \/ EndResults
  PROVE  IInv'
<1> USE DEF IInv, TypeOK, Ended, DistinctInv, PlacedInv, SteadyInv, ThereInv,
            FailureJustified, Steady, ToCome, Loaded, GroupsOfTask, Placed,
            tables, history, Goto
<1>1. CASE ListResults  BY <1>1 DEF ListResults
<1>2. CASE \E r \in Results : ReadResult(r)  BY <1>2 DEF ReadResult
<1>3. CASE EndResults   BY <1>3 DEF EndResults
<1> QED BY <1>1, <1>2, <1>3

LEMMA StepGroups ==
  ASSUME IInv, ListGroups \/ (\E g \in Groups : ReadGroup(g)) \/ EndGroup
  PROVE  IInv'
<1> USE DEF IInv, TypeOK, Ended, DistinctInv, PlacedInv, SteadyInv, ThereInv,
            FailureJustified, Steady, ToCome, Loaded, tables, history, Goto
<1>1. CASE ListGroups  BY <1>1 DEF ListGroups, GroupsOfTask, Placed
<1>2. CASE \E g \in Groups : ReadGroup(g)
  BY <1>2 DEF ReadGroup, GroupsOfTask, Placed
<1>3. CASE EndGroup    BY <1>3 DEF EndGroup, GroupsOfTask, Placed
<1> QED BY <1>1, <1>2, <1>3

LEMMA StepTests ==
  ASSUME IInv, ListTests \/ (\E t \in Tests : ReadTest(t))
  PROVE  IInv'
<1> USE DEF IInv, TypeOK, Ended, tables, history, Goto
<1>1. CASE ListTests
  <2>1. TypeOK' /\ DistinctInv' /\ SteadyInv' /\ ThereInv' /\ FailureJustified'
    BY <1>1, ConstantsAssumption
       DEF ListTests, DistinctInv, SteadyInv, ThereInv, FailureJustified, TestsOf,
           Steady, ToCome, Loaded, GroupsOfTask
  <2>2. PlacedInv'
    <3>1. \A t \in tids' : [group |-> group, test |-> t] \in Placed
      BY <1>1 DEF ListTests, DistinctInv, TestsOf, Placed, Entry
    <3> QED BY <1>1, <3>1 DEF ListTests, PlacedInv, GroupsOfTask, Placed
  <2> QED BY <2>1, <2>2
<1>2. CASE \E t \in Tests : ReadTest(t)
  <2> SUFFICES ASSUME NEW t \in Tests, ReadTest(t) PROVE IInv'
    BY <1>2
  <2>1. CASE home[t] = NoGroup
    <3>1. TypeOK' /\ DistinctInv' /\ ThereInv' /\ FailureJustified'
      BY <2>1 DEF ReadTest, DistinctInv, ThereInv, FailureJustified
    <3>2. PlacedInv' /\ SteadyInv'
      BY <2>1 DEF ReadTest, PlacedInv, SteadyInv, GroupsOfTask, Placed
    <3> QED BY <3>1, <3>2
  <2>2. CASE home[t] # NoGroup
    <3> DEFINE e == [group |-> group, test |-> t]
               n == Len(loaded)
    <3>1. e \in Entry /\ pc = "test" /\ pc' = "test" /\ t \in tids
      BY <2>2 DEF ReadTest, DistinctInv, Entry
    <3>2. loaded' = Append(loaded, e) /\ tids' = tids \ {t}
      BY <2>2 DEF ReadTest
    <3>3. UNCHANGED <<tables, gids, group, rids, history>>
      BY DEF ReadTest
    <3>4. /\ loaded' \in Seq(Entry) /\ n \in Nat /\ Len(loaded') = n + 1
          /\ \A i \in 1 .. n : loaded'[i] = loaded[i]
          /\ loaded'[n + 1] = e
      BY <3>1, <3>2, AppendEntry
    <3>5. \A i \in 1 .. n : loaded[i] \in Entry
      BY <3>4
    <3> HIDE DEF e, n
    <3>6. e.group = group /\ e.test = t
      BY DEF e
    <3>7. TypeOK'
      BY <3>1, <3>2, <3>3, <3>4
    <3>8. DistinctInv'
      <4>1. \A i \in 1 .. n : loaded[i] # e
        BY <3>1, <3>5, <3>6 DEF DistinctInv, n
      <4>2. \A i, j \in 1 .. n + 1 : loaded'[i] = loaded'[j] => i = j
        BY <3>4, <4>1 DEF DistinctInv, n
      <4>3. \A i \in 1 .. n + 1 : loaded'[i].group \notin gids
        BY <3>1, <3>4, <3>6 DEF DistinctInv, n
      <4>4. \A i \in 1 .. n + 1 : loaded'[i].group = group => loaded'[i].test \notin tids'
        BY <3>1, <3>2, <3>4, <3>6 DEF DistinctInv, n
      <4> QED BY <3>1, <3>3, <3>4, <4>2, <4>3, <4>4 DEF DistinctInv
    <3>9. PlacedInv'
      <4>1. e \in placed /\ group \in shown
        BY <3>1 DEF PlacedInv, e
      <4>2. \A i \in 1 .. n + 1 : loaded'[i] \in placed /\ loaded'[i].group \in shown
        BY <3>4, <3>6, <4>1 DEF PlacedInv, n
      <4> QED BY <3>1, <3>2, <3>3, <3>4, <4>2 DEF PlacedInv, GroupsOfTask, Placed
    <3>10. SteadyInv'
      <4>1. ASSUME NEW u \in Tests, Steady(u)' PROVE ToCome(u)' \/ Loaded(u)'
        <5>1. ToCome(u) \/ Loaded(u)
          BY <3>1, <3>3, <4>1 DEF SteadyInv, Steady
        <5>2. CASE Loaded(u)
          BY <3>3, <3>4, <5>2 DEF Loaded, n
        <5>3. CASE ToCome(u) /\ u # t
          BY <3>1, <3>2, <3>3, <5>3 DEF ToCome
        <5>4. CASE ToCome(u) /\ u = t
          <6>1. home[u] \in gids \/ e = [group |-> home[u], test |-> u]
            BY <3>1, <5>4 DEF ToCome, e
          <6> QED BY <3>3, <3>4, <6>1 DEF ToCome, Loaded
        <5> QED BY <5>1, <5>2, <5>3, <5>4
      <4> QED BY <3>1, <3>3, <4>1 DEF SteadyInv, GroupsOfTask
    <3>11. ThereInv' /\ FailureJustified'
      BY <3>1, <3>2, <3>3 DEF ThereInv, FailureJustified
    <3> QED BY <3>7, <3>8, <3>9, <3>10, <3>11
  <2> QED BY <2>1, <2>2
<1> QED BY <1>1, <1>2

(* An edit leaves what is loaded alone.                                    *)
LEMMA EditKeepsDistinct ==
  ASSUME DistinctInv, UNCHANGED local
  PROVE  DistinctInv'
BY DEF DistinctInv, local

LEMMA EditKeepsJustified ==
  ASSUME FailureJustified, Edit
  PROVE  FailureJustified'
BY DEF FailureJustified, Edit, Ended, local

LEMMA StepEdit ==
  ASSUME IInv, Administrate
  PROVE  IInv'
<1>1. TypeOK /\ DistinctInv /\ PlacedInv /\ SteadyInv /\ ThereInv /\ FailureJustified
  BY DEF IInv
<1>2. Edit
  BY DEF Administrate, EditTest, EditGroup, DeleteRow
<1>3. UNCHANGED <<pc, gids, group, tids, rids, loaded>> /\ UNCHANGED local
  BY <1>2 DEF Edit, local
<1>4. DistinctInv' /\ FailureJustified'
  BY <1>1, <1>2, <1>3, EditKeepsDistinct, EditKeepsJustified
<1>5. edits' \in 0 .. MaxEdits
  BY <1>1, <1>2, ConstantsAssumption DEF Edit, TypeOK
<1>6. CASE \E t \in Tests, g \in Groups \union {NoGroup} : EditTest(t, g)
  <2> SUFFICES ASSUME NEW t \in Tests, NEW g \in Groups \union {NoGroup}, EditTest(t, g)
               PROVE  IInv'
    BY <1>6
  <2>1. /\ home' = [home EXCEPT ![t] = g] /\ moved' = moved \union {t}
        /\ placed' = placed \union Placed' /\ lost' = (lost \/ g = NoGroup)
        /\ UNCHANGED <<owner, rows, kept, shown>>
    BY DEF EditTest
  <2>2. home' \in [Tests -> Groups \union {NoGroup}]
    BY <1>1, <2>1 DEF TypeOK
  <2>3. \A u \in Tests : u # t => home'[u] = home[u]
    BY <1>1, <2>1 DEF TypeOK
  <2>4. TypeOK'
    BY <1>1, <1>3, <1>5, <2>1, <2>2 DEF TypeOK, Placed
  <2>5. ThereInv'
    <3>1. ~lost' => ~lost /\ \A u \in tids : home'[u] # NoGroup
      BY <1>1, <2>1, <2>3 DEF ThereInv, TypeOK
    <3> QED BY <1>1, <1>3, <2>1, <3>1 DEF ThereInv
  <2>6. PlacedInv'
    <3>1. \A e \in placed' : e.test \notin moved' => home'[e.test] = e.group
      BY <1>1, <2>1, <2>3 DEF PlacedInv, TypeOK, Placed, Entry
    <3>2. Placed' \subseteq placed' /\ placed \subseteq placed'
      BY <2>1
    <3>3. GroupsOfTask' = GroupsOfTask
      BY <2>1 DEF GroupsOfTask
    <3> QED BY <1>1, <1>3, <2>1, <3>1, <3>2, <3>3 DEF PlacedInv
  <2>7. SteadyInv'
    <3>1. \A u \in Tests : Steady(u)' => Steady(u) /\ home'[u] = home[u]
      BY <2>1, <2>3 DEF Steady
    <3>2. \A u \in Tests : Steady(u)' => (ToCome(u) => ToCome(u)') /\ (Loaded(u) => Loaded(u)')
      BY <1>3, <3>1 DEF ToCome, Loaded
    <3>3. kept' \subseteq GroupsOfTask'
      BY <1>1, <2>1 DEF SteadyInv, GroupsOfTask
    <3> QED BY <1>1, <1>3, <3>1, <3>2, <3>3 DEF SteadyInv
  <2> QED BY <1>4, <2>4, <2>5, <2>6, <2>7 DEF IInv
<1>7. CASE \E g \in Groups, o \in {"here", "elsewhere", "none"} : EditGroup(g, o)
  <2> SUFFICES ASSUME NEW g \in Groups, NEW o \in {"here", "elsewhere", "none"},
                      EditGroup(g, o)
               PROVE  IInv'
    BY <1>7
  <2>1. /\ owner' = [owner EXCEPT ![g] = o] /\ kept' = kept \ {g}
        /\ shown' = shown \union GroupsOfTask' /\ lost' = (lost \/ o = "none")
        /\ UNCHANGED <<home, rows, moved, placed>>
    BY DEF EditGroup
  <2>2. owner' \in [Groups -> {"here", "elsewhere", "none"}]
    BY <1>1, <2>1 DEF TypeOK
  <2>3. \A h \in Groups : h # g => owner'[h] = owner[h]
    BY <1>1, <2>1 DEF TypeOK
  <2>4. TypeOK'
    BY <1>1, <1>3, <1>5, <2>1, <2>2 DEF TypeOK, GroupsOfTask
  <2>5. ThereInv'
    <3>1. ~lost' => ~lost /\ \A h \in gids : owner'[h] # "none"
      BY <1>1, <2>1, <2>3 DEF ThereInv, TypeOK
    <3> QED BY <1>1, <1>3, <2>1, <3>1 DEF ThereInv
  <2>6. PlacedInv'
    <3>1. GroupsOfTask' \subseteq shown' /\ shown \subseteq shown'
      BY <2>1
    <3>2. Placed' = Placed
      BY <2>1 DEF Placed
    <3> QED BY <1>1, <1>3, <2>1, <3>1, <3>2 DEF PlacedInv
  <2>7. SteadyInv'
    <3>1. \A u \in Tests : Steady(u)' => Steady(u) /\ home'[u] = home[u]
      BY <2>1 DEF Steady
    <3>2. \A u \in Tests : (ToCome(u) => ToCome(u)') /\ (Loaded(u) => Loaded(u)')
      BY <1>3, <2>1 DEF ToCome, Loaded
    <3>3. kept' \subseteq GroupsOfTask'
      BY <1>1, <2>1, <2>3 DEF SteadyInv, GroupsOfTask
    <3> QED BY <1>1, <1>3, <3>1, <3>2, <3>3 DEF SteadyInv
  <2> QED BY <1>4, <2>4, <2>5, <2>6, <2>7 DEF IInv
<1>8. CASE \E r \in Singles \union Results : DeleteRow(r)
  <2>1. UNCHANGED <<owner, home, moved, kept, shown, placed>> /\ rows' \subseteq rows /\ lost' = TRUE
    BY <1>8 DEF DeleteRow
  <2>2. TypeOK' /\ ThereInv'
    BY <1>1, <1>3, <1>5, <2>1 DEF TypeOK, ThereInv
  <2>3. PlacedInv'
    BY <1>1, <1>3, <2>1 DEF PlacedInv, GroupsOfTask, Placed
  <2>4. SteadyInv'
    BY <1>1, <1>3, <2>1 DEF SteadyInv, Steady, ToCome, Loaded, GroupsOfTask
  <2> QED BY <1>4, <2>2, <2>3, <2>4 DEF IInv
<1> QED BY <1>6, <1>7, <1>8 DEF Administrate

LEMMA NextIInv == IInv /\ [Next]_vars => IInv'
<1> SUFFICES ASSUME IInv, [Next]_vars PROVE IInv'
  OBVIOUS
<1>1. CASE Load
  BY <1>1, StepReadRow, StepResults, StepGroups, StepTests DEF Load
<1>2. CASE Administrate
  BY <1>2, StepEdit
<1>3. CASE UNCHANGED vars
  BY <1>3 DEF vars, local, tables, history, IInv, TypeOK, DistinctInv, PlacedInv,
     SteadyInv, ThereInv, FailureJustified, Steady, ToCome, Loaded, GroupsOfTask, Placed
<1> QED BY <1>1, <1>2, <1>3 DEF Next

LEMMA SpecIInv == Spec => []IInv
BY InitIInv, NextIInv, PTL DEF Spec

-----------------------------------------------------------------------------
(* The variables keep their types.                                         *)
THEOREM TypeCorrect == Spec => []TypeOK
<1>1. IInv => TypeOK  BY DEF IInv
<1> QED BY <1>1, SpecIInv, PTL

(* Every steady test is loaded, none twice unless it was moved, and        *)
(* nothing that was not there, for any number of groups, tests and edits.  *)
THEOREM RegularLoadCorrect == Spec => []RegularLoad
<1>1. IInv => RegularLoad
  <2> SUFFICES ASSUME IInv PROVE RegularLoad
    OBVIOUS
  <2>0. DOMAIN loaded = 1 .. Len(loaded) /\ \A i \in 1 .. Len(loaded) : loaded[i] \in Entry
    BY DEF IInv, TypeOK
  <2>1. NoTestTwice
    <3> SUFFICES ASSUME NEW i \in 1 .. Len(loaded), NEW j \in 1 .. Len(loaded),
                        loaded[i].test = loaded[j].test, loaded[i].test \notin moved
                 PROVE  i = j
      BY <2>0 DEF NoTestTwice
    <3>1. loaded[i].group = loaded[j].group
      BY DEF IInv, PlacedInv
    <3>2. loaded[i] = loaded[j]
      BY <2>0, <3>1 DEF Entry
    <3> QED BY <3>2 DEF IInv, DistinctInv
  <2>2. SteadyTestsLoaded
    BY <2>0 DEF IInv, SteadyInv, SteadyTestsLoaded, Steady, ToCome, Loaded
  <2>3. NothingInvented
    BY <2>0 DEF IInv, PlacedInv, NothingInvented
  <2> QED BY <2>1, <2>2, <2>3 DEF RegularLoad
<1> QED BY <1>1, SpecIInv, PTL

(* Loading fails only on a row that was missing or was deleted.            *)
THEOREM FailureJustifiedCorrect == Spec => []FailureJustified
<1>1. IInv => FailureJustified  BY DEF IInv
<1> QED BY <1>1, SpecIInv, PTL

-----------------------------------------------------------------------------
(* The end of a load.                                                      *)

LEMMA Size ==
  ASSUME NEW T, IsFiniteSet(T), NEW S \in SUBSET T
  PROVE  /\ IsFiniteSet(S) /\ Cardinality(S) \in Nat
         /\ Cardinality(T) \in Nat /\ Cardinality(S) <= Cardinality(T)
BY FS_Subset, FS_CardinalityType

LEMMA OneLess ==
  ASSUME NEW S, IsFiniteSet(S), NEW x \in S
  PROVE  Cardinality(S \ {x}) = Cardinality(S) - 1 /\ Cardinality(S) \in Nat \ {0}
BY FS_RemoveElement, FS_CardinalityType, FS_EmptySet

(* What SMT needs to know of the product.                                  *)
LEMMA Product ==
  /\ \A m, n, k \in Nat : m <= n => m * k \in Nat /\ m * k <= n * k
  /\ \A n, k \in Nat : n # 0 => (n - 1) * k = n * k - k
OBVIOUS

LEMMA Sizes ==
  ASSUME TypeOK
  PROVE  /\ IsFiniteSet(gids) /\ Cardinality(gids) \in Nat
         /\ IsFiniteSet(tids) /\ Cardinality(tids) \in Nat
         /\ IsFiniteSet(rids) /\ Cardinality(rids) \in Nat
         /\ Cardinality(Groups) \in Nat /\ Cardinality(Tests) \in Nat
         /\ Cardinality(Results) \in Nat
BY Size, ConstantsAssumption DEF TypeOK

(* How many steps are to come, at each place.                              *)
LEMMA LeftFrom ==
  ASSUME NEW a, a = Cardinality(Groups) * (Cardinality(Tests) + 3),
         NEW b, b = AfterGroups
  PROVE  /\ pc = "solution" => Left = a + b + 3
         /\ pc = "task" => Left = a + b + 2
         /\ pc = "groups" => Left = a + b + 1
         /\ pc = "group" => Left = OfGroups + b
         /\ pc = "tests" => Left = OfGroups + b + Cardinality(Tests) + 2
         /\ pc = "test" => Left = OfGroups + b + Cardinality(tids) + 1
         /\ pc = "lang" => Left = Cardinality(Results) + 3
         /\ pc = "results" => Left = Cardinality(Results) + 2
         /\ pc = "result" => Left = Cardinality(rids) + 1
         /\ pc \in Ended => Left = 0
BY DEF Left, Ended

LEMMA LeftNat ==
  ASSUME TypeOK
  PROVE  Left \in Nat /\ (pc \notin Ended => Left > 0)
<1>1. PICK a, b : /\ a = Cardinality(Groups) * (Cardinality(Tests) + 3)
                  /\ b = AfterGroups
  OBVIOUS
<1>2. a \in Nat /\ b \in Nat \ {0} /\ OfGroups \in Nat
  BY <1>1, Sizes DEF OfGroups, AfterGroups
<1>3. pc \in Ended \union {"solution", "task", "groups", "group", "tests", "test",
                           "lang", "results", "result"}
  BY DEF TypeOK
<1> QED BY <1>1, <1>2, <1>3, LeftFrom, Sizes

(* Each step leaves fewer to come.                                         *)
LEMMA LoadStep ==
  ASSUME TypeOK, TypeOK', Load
  PROVE  Left' < Left
<1>0. PICK k, a, b : /\ k = Cardinality(Tests) + 3
                     /\ a = Cardinality(Groups) * k
                     /\ b = AfterGroups
  OBVIOUS
<1>1. /\ k \in Nat /\ a \in Nat /\ b \in Nat /\ OfGroups \in Nat
      /\ Cardinality(Tests) = k - 3 /\ Cardinality(Results) = b - 4
      /\ Cardinality(Results) \in Nat /\ Cardinality(Tests) \in Nat
  <2>1. k \in Nat /\ OfGroups \in Nat /\ a \in Nat
    BY <1>0, Sizes DEF OfGroups
  <2>2. Cardinality(Results) \in Nat /\ Cardinality(Tests) \in Nat
    BY Sizes
  <2>3. b \in Nat /\ Cardinality(Results) = b - 4
    BY <1>0, <2>2 DEF AfterGroups
  <2>4. Cardinality(Tests) = k - 3
    BY <1>0, <2>2
  <2> QED BY <2>1, <2>2, <2>3, <2>4
<1>2. /\ pc = "solution" => Left = a + b + 3
      /\ pc = "task" => Left = a + b + 2
      /\ pc = "groups" => Left = a + b + 1
      /\ pc = "group" => Left = OfGroups + b
      /\ pc = "tests" => Left = OfGroups + b + Cardinality(Tests) + 2
      /\ pc = "test" => Left = OfGroups + b + Cardinality(tids) + 1
      /\ pc = "lang" => Left = Cardinality(Results) + 3
      /\ pc = "results" => Left = Cardinality(Results) + 2
      /\ pc = "result" => Left = Cardinality(rids) + 1
  BY <1>0, LeftFrom
<1>3. /\ pc' = "task" => Left' = a + b + 2
      /\ pc' = "groups" => Left' = a + b + 1
      /\ pc' = "group" => Left' = OfGroups' + b
      /\ pc' = "tests" => Left' = OfGroups' + b + Cardinality(Tests) + 2
      /\ pc' = "test" => Left' = OfGroups' + b + Cardinality(tids') + 1
      /\ pc' = "lang" => Left' = Cardinality(Results) + 3
      /\ pc' = "results" => Left' = Cardinality(Results) + 2
      /\ pc' = "result" => Left' = Cardinality(rids') + 1
      /\ pc' \in Ended => Left' = 0
  BY <1>0 DEF Left, AfterGroups, Ended
<1>4. /\ OfGroups = Cardinality(gids) * k
      /\ OfGroups' = Cardinality(gids') * k
  BY <1>0 DEF OfGroups
<1>5. Left \in Nat /\ (pc \notin Ended => Left > 0)
  BY LeftNat
<1>6. UNCHANGED gids => OfGroups' = OfGroups
  BY <1>4
<1>7. CASE pc' \in Ended
  <2>1. pc \notin Ended
    BY DEF Load, ReadSolution, ReadTask, ReadLang, ReadRow, ListGroups, ReadGroup, ListTests,
           ReadTest, EndGroup, EndTask, ListResults, ReadResult, EndResults, Refuse, Goto, Ended
  <2> QED BY <1>3, <1>5, <1>7, <2>1
<1>8. CASE (ReadSolution \/ ReadTask \/ ReadLang) /\ pc' \notin Ended
  <2> QED BY <1>1, <1>2, <1>3, <1>8 DEF ReadSolution, ReadTask, ReadLang, ReadRow, Goto, Ended
<1>9. CASE ListGroups
  <2>1. Cardinality(gids') \in Nat /\ Cardinality(gids') <= Cardinality(Groups)
    BY Size, ConstantsAssumption DEF TypeOK
  <2>2. PICK c \in Nat : c = OfGroups' /\ c <= a
    BY <1>0, <1>1, <1>4, <2>1, Product, Sizes
  <2>3. pc = "groups" /\ pc' = "group"
    BY <1>9 DEF ListGroups, Goto
  <2>4. Left = a + b + 1 /\ Left' = c + b
    BY <1>2, <1>3, <2>2, <2>3
  <2>5. c + b < a + b + 1
    <3>1. a \in Nat /\ b \in Nat /\ c \in Nat
      BY <1>1
    <3>2. c <= a
      BY <2>2
    <3>3. c + b <= a + b
      BY <3>1, <3>2
    <3> QED BY <3>1, <3>3
  <2> QED BY <2>4, <2>5
<1>10. ASSUME NEW g \in Groups, ReadGroup(g), pc' \notin Ended PROVE Left' < Left
  <2>1. /\ Cardinality(gids') = Cardinality(gids) - 1 /\ Cardinality(gids) \in Nat \ {0}
    BY <1>10, OneLess, Sizes DEF ReadGroup
  <2>2. pc = "group" /\ pc' = "tests"
    BY <1>10 DEF ReadGroup, Goto, Ended
  <2>3. OfGroups' = OfGroups - k
    BY <1>1, <1>4, <2>1, Product
  <2> QED BY <1>1, <1>2, <1>3, <2>2, <2>3
<1>11. CASE ListTests
  <2>1. Cardinality(tids') \in Nat /\ Cardinality(tids') <= Cardinality(Tests)
    BY Size, ConstantsAssumption DEF TypeOK
  <2>2. pc = "tests" /\ pc' = "test" /\ UNCHANGED gids
    BY <1>11 DEF ListTests, Goto
  <2> QED BY <1>1, <1>2, <1>3, <1>6, <2>1, <2>2
<1>12. ASSUME NEW t \in Tests, ReadTest(t), pc' \notin Ended PROVE Left' < Left
  <2>1. Cardinality(tids') = Cardinality(tids) - 1 /\ Cardinality(tids) \in Nat \ {0}
    BY <1>12, OneLess, Sizes DEF ReadTest
  <2>2. pc = "test" /\ pc' = "test" /\ UNCHANGED gids
    BY <1>12 DEF ReadTest, Goto, Ended
  <2> QED BY <1>1, <1>2, <1>3, <1>6, <2>1, <2>2
<1>13. CASE EndGroup
  <2>1. pc = "test" /\ pc' = "group" /\ UNCHANGED gids
    BY <1>13 DEF EndGroup, Goto
  <2> QED BY <1>1, <1>2, <1>3, <1>6, <2>1, Sizes
<1>14. CASE EndTask
  <2>1. pc = "group" /\ pc' = "lang"
    BY <1>14 DEF EndTask, Goto
  <2> QED BY <1>1, <1>2, <1>3, <2>1
<1>15. CASE ListResults
  <2>1. Cardinality(rids') \in Nat /\ Cardinality(rids') <= Cardinality(Results)
    BY Size, ConstantsAssumption DEF TypeOK
  <2>2. pc = "results" /\ pc' = "result"
    BY <1>15 DEF ListResults, Goto
  <2> QED BY <1>1, <1>2, <1>3, <2>1, <2>2
<1>16. ASSUME NEW r \in Results, ReadResult(r), pc' \notin Ended PROVE Left' < Left
  <2>1. Cardinality(rids') = Cardinality(rids) - 1 /\ Cardinality(rids) \in Nat \ {0}
    BY <1>16, OneLess, Sizes DEF ReadResult
  <2>2. pc = "result" /\ pc' = "result"
    BY <1>16 DEF ReadResult, Goto, Ended
  <2> QED BY <1>2, <1>3, <2>1, <2>2
<1>17. EndResults \/ Refuse => pc' \in Ended
  BY DEF EndResults, Refuse, Goto, Ended
<1> QED BY <1>7, <1>8, <1>9, <1>10, <1>11, <1>12, <1>13, <1>14, <1>15, <1>16, <1>17 DEF Load

(* Whatever the administration does, a load takes no more steps than       *)
(* it could take before, and each one it takes brings it nearer its end.   *)
THEOREM EditsDelayNothingCorrect == Spec => EditsDelayNothing
<1>1. TypeOK => Left \in Nat
  BY LeftNat
<1>2. TypeOK /\ TypeOK' /\ Load => Left' < Left
  BY LoadStep
<1>3. Administrate => Left' = Left
  BY DEF Administrate, EditTest, EditGroup, DeleteRow, Edit, local, Left, OfGroups, AfterGroups
<1>4. /\ TypeOK /\ TypeOK' /\ (Left \in Nat)' /\ [Next]_vars =>
        [/\ Left' \in Nat
         /\ Load => Left' < Left
         /\ Administrate => Left' = Left]_vars
  BY <1>2, <1>3
<1> QED BY <1>1, <1>4, TypeCorrect, PTL DEF Spec, EditsDelayNothing

=============================================================================
