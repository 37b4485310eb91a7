------------------------------- MODULE Loader -------------------------------
(***************************************************************************)
(* How a solution is loaded (contester/src/data.cpp): the constructors of  *)
(* solution, task, ch_group, ch_test, lang and test read one row after     *)
(* another, each with a SELECT of its own and outside of any transaction,  *)
(* first a list of ids and then the rows of that list.  Meanwhile the      *)
(* administration of the contest may insert, delete and move the rows.     *)
(* What is loaded becomes the list of tests of the checker.  It is a       *)
(* snapshot of no state of the tables; the module says what it is instead. *)
(***************************************************************************)
EXTENDS Naturals, Sequences, FiniteSets

CONSTANTS
  Groups,    \* ids of checkergroups
  Tests,     \* ids of checkertests
  Results,   \* ids of the rows of tests, the earlier results of the solution
  MaxEdits,  \* bound: how often the tables are edited
  NoGroup    \* "no group", also "the row does not exist"

Singles == {"solution", "task", "lang"}

ASSUME ConstantsAssumption ==
  /\ NoGroup \notin Groups
  /\ Results \cap Singles = {}
  /\ MaxEdits \in Nat
  /\ IsFiniteSet(Groups) /\ IsFiniteSet(Tests) /\ IsFiniteSet(Results)

VARIABLES
  owner,    \* checkergroups.tid: of the task "here", of another, or no row
  home,     \* checkertests.gid
  rows,     \* the single rows, and the rows of tests, that exist
  pc,       \* the statement to come, or how the loading ended
  gids,     \* inds of task::task, still to be read
  group,    \* the group in hand
  tids,     \* inds of ch_group::ch_group, still to be read
  rids,     \* tis of solution::solution, still to be read
  loaded,   \* the tests loaded, in the order of the configuration
  edits,    \* edits so far
  moved,    \* history: tests that were inserted, deleted or moved
  kept,     \* history: groups that have been of the task all the time
  shown,    \* history: groups that were of the task at some time
  placed,   \* history: what home was at some time
  lost      \* history: a row was missing from the start, or was deleted

tables == <<owner, home, rows>>
history == <<edits, moved, kept, shown, placed, lost>>
local == <<pc, gids, group, tids, rids, loaded>>
vars == <<tables, local, history>>

Entry == [group : Groups, test : Tests]

Ended == {"loaded", "failed", "refused"}

TypeOK ==
  /\ owner \in [Groups -> {"here", "elsewhere", "none"}]
  /\ home \in [Tests -> Groups \union {NoGroup}]
  /\ rows \subseteq Singles \union Results
  /\ pc \in Ended \union {"solution", "task", "groups", "group", "tests", "test",
                          "lang", "results", "result"}
  /\ gids \subseteq Groups
  /\ group \in Groups \union {NoGroup}
  /\ tids \subseteq Tests
  /\ rids \subseteq Results
  /\ loaded \in Seq(Entry)
  /\ edits \in 0 .. MaxEdits
  /\ moved \subseteq Tests /\ kept \subseteq Groups /\ shown \subseteq Groups
  /\ placed \subseteq Entry
  /\ lost \in BOOLEAN

(* What the queries find.                                                  *)
GroupsOfTask == {g \in Groups : owner[g] = "here"}

TestsOf(g) == {t \in Tests : home[t] = g}

Placed == {e \in Entry : home[e.test] = e.group}

Init ==
  /\ owner \in [Groups -> {"here", "elsewhere", "none"}]
  /\ home \in [Tests -> Groups \union {NoGroup}]
  /\ rows \in SUBSET (Singles \union Results)
  /\ pc = "solution"
  /\ gids = {} /\ group = NoGroup /\ tids = {} /\ rids = {} /\ loaded = <<>>
  /\ edits = 0 /\ moved = {}
  /\ kept = GroupsOfTask /\ shown = GroupsOfTask
  /\ placed = Placed
  /\ lost = ~(Singles \subseteq rows)

-----------------------------------------------------------------------------
(* The daemon.                                                             *)

Goto(from, to) == pc = from /\ pc' = to

(* SELECT ... WHERE id = row; nothing found is an exception.               *)
ReadRow(row, from, to) ==
  /\ Goto(from, IF row \in rows THEN to ELSE "failed")
  /\ UNCHANGED <<tables, gids, group, tids, rids, loaded, history>>

ReadSolution == ReadRow("solution", "solution", "task")

ReadTask == ReadRow("task", "task", "groups")

(* ch_group::get_ids.                                                      *)
ListGroups ==
  /\ Goto("groups", "group")
  /\ gids' = GroupsOfTask
  /\ UNCHANGED <<tables, group, tids, rids, loaded, history>>

(* ch_group::ch_group finds a group by its id, whatever its task is now.   *)
ReadGroup(g) ==
  /\ g \in gids
  /\ Goto("group", IF owner[g] # "none" THEN "tests" ELSE "failed")
  /\ gids' = gids \ {g} /\ group' = g
  /\ UNCHANGED <<tables, tids, rids, loaded, history>>

(* ch_test::get_ids.                                                       *)
ListTests ==
  /\ Goto("tests", "test")
  /\ tids' = TestsOf(group)
  /\ UNCHANGED <<tables, gids, group, rids, loaded, history>>

(* Mutant: the row of the test is looked up by its id and its group.       *)
ReadTestOfGroup(t) ==
  /\ t \in tids
  /\ Goto("test", IF home[t] = group THEN "test" ELSE "failed")
  /\ tids' = tids \ {t}
  /\ loaded' = IF home[t] = group THEN Append(loaded, [group |-> group, test |-> t])
                                  ELSE loaded
  /\ UNCHANGED <<tables, gids, group, rids, history>>

(* Mutant: the list is asked for anew after each test of it.               *)
ReadTestAndList(t) ==
  /\ t \in tids
  /\ Goto("test", IF home[t] # NoGroup THEN "test" ELSE "failed")
  /\ tids' = TestsOf(group) \ {t}
  /\ loaded' = IF home[t] # NoGroup THEN Append(loaded, [group |-> group, test |-> t])
                                    ELSE loaded
  /\ UNCHANGED <<tables, gids, group, rids, history>>

(* ch_test::ch_test finds a test by its id, whatever its group is now.     *)
ReadTest(t) ==
  /\ t \in tids
  /\ Goto("test", IF home[t] # NoGroup THEN "test" ELSE "failed")
  /\ tids' = tids \ {t}
  /\ loaded' = IF home[t] # NoGroup THEN Append(loaded, [group |-> group, test |-> t])
                                    ELSE loaded
  /\ UNCHANGED <<tables, gids, group, rids, history>>

(* Mutant: the loop over the tests of a group may end before its time.     *)
EndGroupEarly ==
  /\ Goto("test", "group")
  /\ UNCHANGED <<tables, gids, group, tids, rids, loaded, history>>

EndGroup ==
  /\ Goto("test", "group")
  /\ tids = {}
  /\ UNCHANGED <<tables, gids, group, tids, rids, loaded, history>>

EndTask ==
  /\ Goto("group", "lang")
  /\ gids = {}
  /\ UNCHANGED <<tables, gids, group, tids, rids, loaded, history>>

ReadLang == ReadRow("lang", "lang", "results")

(* test::get_ids and test::test: results nothing ever looks at.            *)
ListResults ==
  /\ Goto("results", "result")
  /\ rids' = rows \cap Results
  /\ UNCHANGED <<tables, gids, group, tids, loaded, history>>

ReadResult(r) ==
  /\ r \in rids
  /\ Goto("result", IF r \in rows THEN "result" ELSE "failed")
  /\ rids' = rids \ {r}
  /\ UNCHANGED <<tables, gids, group, tids, loaded, history>>

EndResults ==
  /\ Goto("result", "loaded")
  /\ rids = {}
  /\ UNCHANGED <<tables, gids, group, tids, rids, loaded, history>>

(* db::q throws: any of the statements may be refused.                     *)
Refuse ==
  /\ pc \notin Ended
  /\ pc' = "refused"
  /\ UNCHANGED <<tables, gids, group, tids, rids, loaded, history>>

-----------------------------------------------------------------------------
(* The administration of the contest, one statement at a time.             *)

Edit ==
  /\ pc \notin Ended
  /\ edits < MaxEdits /\ edits' = edits + 1
  /\ UNCHANGED local

(* A test is inserted, deleted or moved to another group.                  *)
EditTest(t, g) ==
  /\ Edit
  /\ home[t] # g
  /\ home' = [home EXCEPT ![t] = g]
  /\ moved' = moved \union {t}
  /\ placed' = placed \union Placed'
  /\ lost' = (lost \/ g = NoGroup)
  /\ UNCHANGED <<owner, rows, kept, shown>>

(* A group is inserted, deleted or given to another task.                  *)
EditGroup(g, o) ==
  /\ Edit
  /\ owner[g] # o
  /\ owner' = [owner EXCEPT ![g] = o]
  /\ kept' = kept \ {g}
  /\ shown' = shown \union GroupsOfTask'
  /\ lost' = (lost \/ o = "none")
  /\ UNCHANGED <<home, rows, moved, placed>>

DeleteRow(r) ==
  /\ Edit
  /\ r \in rows
  /\ rows' = rows \ {r}
  /\ lost' = TRUE
  /\ UNCHANGED <<owner, home, moved, kept, shown, placed>>

-----------------------------------------------------------------------------

Load ==
  \/ ReadSolution \/ ReadTask \/ ListGroups \/ \E g \in Groups : ReadGroup(g)
  \/ ListTests \/ (\E t \in Tests : ReadTest(t)) \/ EndGroup \/ EndTask
  \/ ReadLang \/ ListResults \/ (\E r \in Results : ReadResult(r)) \/ EndResults
  \/ Refuse

Administrate ==
  \/ \E t \in Tests, g \in Groups \union {NoGroup} : EditTest(t, g)
  \/ \E g \in Groups, o \in {"here", "elsewhere", "none"} : EditGroup(g, o)
  \/ \E r \in Singles \union Results : DeleteRow(r)

Next == Load \/ Administrate

Spec == Init /\ [][Next]_vars

-----------------------------------------------------------------------------
(* Properties.                                                             *)

(* No test is run twice for one solution, unless it was moved from a group *)
(* already read to one still to be read.                                   *)
NoTestTwice ==
  \A i, j \in DOMAIN loaded :
    loaded[i].test = loaded[j].test /\ loaded[i].test \notin moved => i = j

(* A test that was in one group of the task all the time is run.           *)
SteadyTestsLoaded ==
  pc = "loaded" =>
    \A t \in Tests \ moved :
      home[t] \in kept =>
        \E i \in DOMAIN loaded : loaded[i] = [group |-> home[t], test |-> t]

(* A test that is run was in a group that was of this task.  Not at the    *)
(* same time: a group that was given away in between, and got its test     *)
(* only then, is loaded with a test the task never had.                    *)
NothingInvented ==
  \A i \in DOMAIN loaded : loaded[i] \in placed /\ loaded[i].group \in shown

(* The tests of a configuration, whatever was edited while they were read. *)
RegularLoad == NoTestTwice /\ SteadyTestsLoaded /\ NothingInvented

(* Loading throws "... not exist" only if a row is missing or was deleted: *)
(* tests and groups that are inserted or moved meanwhile do no harm, so    *)
(* that the solution is judged now and not left to the next poll.          *)
FailureJustified == pc = "failed" => lost

(* The steps a load can still take, at most: for each group that is listed *)
(* three, and one for each test there is.                                  *)
OfGroups == Cardinality(gids) * (Cardinality(Tests) + 3)

AfterGroups == Cardinality(Results) + 4

Left ==
  CASE pc = "solution" -> Cardinality(Groups) * (Cardinality(Tests) + 3) + AfterGroups + 3
    [] pc = "task"     -> Cardinality(Groups) * (Cardinality(Tests) + 3) + AfterGroups + 2
    [] pc = "groups"   -> Cardinality(Groups) * (Cardinality(Tests) + 3) + AfterGroups + 1
    [] pc = "group"    -> OfGroups + AfterGroups
    [] pc = "tests"    -> OfGroups + AfterGroups + Cardinality(Tests) + 2
    [] pc = "test"     -> OfGroups + AfterGroups + Cardinality(tids) + 1
    [] pc = "lang"     -> Cardinality(Results) + 3
    [] pc = "results"  -> Cardinality(Results) + 2
    [] pc = "result"   -> Cardinality(rids) + 1
    [] pc \in Ended    -> 0

(* A load comes to an end however the tables are edited meanwhile, because *)
(* no list is read twice: each step leaves fewer to come, and no edit of   *)
(* the tables makes them more.                                             *)
EditsDelayNothing ==
  [][/\ Left' \in Nat
     /\ Load => Left' < Left
     /\ Administrate => Left' = Left]_vars

=============================================================================
