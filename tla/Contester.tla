------------------------------ MODULE Contester ------------------------------
(***************************************************************************)
(* The contester daemon (contester/src): it polls the table of submitted   *)
(* solutions, hands each of them to a checker process through three files  *)
(* of its working directory, and writes the checker's report back to the   *)
(* table.                                                                  *)
(*                                                                         *)
(* The actors are the web site that inserts rows, the single threaded      *)
(* daemon, and the checker processes it starts with system().  The daemon  *)
(* can be killed at any point and started again; the checker it was        *)
(* waiting for may then go on alone, in the same directory, over files of  *)
(* the same name.  Its connection to the database, made once, can be lost. *)
(***************************************************************************)
EXTENDS Naturals, FiniteSets

CONSTANTS
  Solutions,     \* ids of the rows the web site may insert
  Unloadable,    \* ids whose task, language, group or test rows are missing
  Malformed,     \* ids with a column that should be a number and is none
  Aborting,      \* ids whose checker process may end in a checker_assert
  Limit,         \* the "limit 10" of the polling query
  MaxKills,      \* bound: how often the daemon is killed
  MaxDbErrors,   \* bound: how many statements the database refuses
  MaxIoErrors,   \* bound: how many file operations fail, unnoticed
  NoSolution,    \* "no id", also "the file does not exist"
  Empty          \* the empty string, as a result and as a file's content

(* What a report says: the tests of task cfg were run on what came of the  *)
(* source src.  (Whether that is the program of src is Checker's subject.) *)
Verdict == [cfg : Solutions, src : Solutions \union {NoSolution}]

ASSUME ConstantsAssumption ==
  /\ Unloadable \subseteq Solutions
  /\ Malformed \subseteq Solutions
  /\ Aborting \subseteq Solutions
  /\ Limit \in Nat \ {0}
  /\ MaxKills \in Nat
  /\ MaxDbErrors \in Nat
  /\ MaxIoErrors \in Nat
  /\ NoSolution \notin Solutions
  /\ NoSolution \notin Verdict
  /\ Empty \notin Verdict
  /\ Empty # NoSolution

VARIABLES
  status,      \* table solutions: "absent", "unchecked" (0) or "checked" (1)
  result,      \* table solutions: the column result
  pc,          \* what the daemon does next; "asleep" is a sleep without end
  ind,         \* ids of the polled batch still to be handled
  cur,         \* id of the solution in hand
  buf,         \* the member sol->result of the checker object
  connected,   \* db::conn is a connection the server still serves
  srcFile,     \* whose source the file solution.<ext> holds
  cfgFile,     \* whose configuration solution.json holds
  resFile,     \* the report result.json holds
  proc,        \* checker processes, one slot for each life of the daemon
  kills, dbErrors, ioErrors,   \* faults so far
  overlapped   \* history: a checker was started while another one was alive

table == <<status, result>>
local == <<ind, cur, buf, connected>>
files == <<srcFile, cfgFile, resFile>>
faults == <<kills, dbErrors, ioErrors>>
vars == <<table, pc, local, files, proc, faults, overlapped>>

Slots == 0 .. MaxKills

(* A daemon that is killed loses its locals; the slot of its next life is  *)
(* a fresh one, so that the checker it left behind keeps its own.          *)
Slot == kills

(* A checker process: what it does next and whose files it has read.       *)
At(p, c, s) == [pc |-> p, cfg |-> c, src |-> s]

NoProcess == At("none", NoSolution, NoSolution)

Alive(k) == proc[k].pc # "none"

(* Mutant: the polling query without its condition on the status.          *)
Submitted == {s \in Solutions : status[s] # "absent"}

Unchecked == {s \in Solutions : status[s] = "unchecked"}

TypeOK ==
  /\ status \in [Solutions -> {"absent", "unchecked", "checked"}]
  /\ result \in [Solutions -> Verdict \union {Empty}]
  /\ pc \in {"down", "asleep", "poll", "batch", "src", "cfg", "launch",
             "system", "rmsrc", "rmcfg", "read", "rmres", "save"}
  /\ ind \subseteq Solutions
  /\ cur \in Solutions \union {NoSolution}
  /\ buf \in Verdict \union {Empty}
  /\ connected \in BOOLEAN
  /\ srcFile \in Solutions \union {NoSolution}
  /\ cfgFile \in Solutions \union {NoSolution}
  /\ resFile \in Verdict \union {Empty, NoSolution}
  /\ proc \in [Slots -> [pc : {"none", "config", "build", "open", "write"},
                         cfg : Solutions \union {NoSolution},
                         src : Solutions \union {NoSolution}]]
  /\ kills \in Slots
  /\ dbErrors \in 0 .. MaxDbErrors
  /\ ioErrors \in 0 .. MaxIoErrors
  /\ overlapped \in BOOLEAN

Init ==
  /\ status = [s \in Solutions |-> "absent"]
  /\ result = [s \in Solutions |-> Empty]
  /\ pc = "down"
  /\ ind = {} /\ cur = NoSolution /\ buf = Empty
  /\ connected = FALSE
  /\ srcFile = NoSolution /\ cfgFile = NoSolution /\ resFile = NoSolution
  /\ proc = [k \in Slots |-> NoProcess]
  /\ kills = 0 /\ dbErrors = 0 /\ ioErrors = 0
  /\ overlapped = FALSE

-----------------------------------------------------------------------------
(* Helpers.                                                                *)

Goto(from, to) == pc = from /\ pc' = to

(* A statement is refused: now and then, or because the connection is lost *)
(* (the client does not connect again of its own).                         *)
DbError ==
  \/ dbErrors < MaxDbErrors /\ dbErrors' = dbErrors + 1
  \/ ~connected /\ UNCHANGED dbErrors

IoError == ioErrors < MaxIoErrors /\ ioErrors' = ioErrors + 1

(* A file operation whose outcome the code never looks at: either the file *)
(* changes or, if it can not be opened or removed, it stays what it was.   *)
Attempt(file, new) ==
  /\ \/ file' = new /\ UNCHANGED ioErrors
     \/ UNCHANGED file /\ IoError
  /\ UNCHANGED <<kills, dbErrors>>

(* The batch loop goes on to its next element.                             *)
ForgetCurrent == cur' = NoSolution /\ buf' = Empty

-----------------------------------------------------------------------------
(* The web site.                                                           *)

Submit(s) ==
  /\ status[s] = "absent"
  /\ status' = [status EXCEPT ![s] = "unchecked"]
  /\ UNCHANGED <<result, pc, local, files, proc, faults, overlapped>>

-----------------------------------------------------------------------------
(* The daemon.                                                             *)

(* main: read the configuration, connect to the database, enter the loop.  *)
(* A daemon that can not connect ends at once, and stays down.             *)
Start ==
  /\ Goto("down", "poll")
  /\ connected' = TRUE
  /\ UNCHANGED <<table, ind, cur, buf, files, proc, faults, overlapped>>

(* solution::get_not_checked_ids: at most Limit unchecked rows, in the     *)
(* order and of the choice of the database: the query has no ORDER BY.     *)
Poll ==
  /\ Goto("poll", "batch")
  /\ connected
  /\ ind' \in SUBSET Unchecked
  /\ Cardinality(ind') = IF Cardinality(Unchecked) <= Limit
                           THEN Cardinality(Unchecked) ELSE Limit
  /\ UNCHANGED <<table, cur, buf, connected, files, proc, faults, overlapped>>

(* The process ends, and with it its locals and its connection.            *)
Down ==
  /\ pc' = "down"
  /\ ind' = {} /\ ForgetCurrent /\ connected' = FALSE

(* Mutant: the loop catches what the polling query throws, and goes on.    *)
PollAgain ==
  /\ Goto("poll", "poll")
  /\ DbError
  /\ UNCHANGED <<table, local, files, proc, kills, ioErrors, overlapped>>

(* The same query refused: the exception is thrown outside of both try     *)
(* blocks of main and ends the daemon.                                     *)
PollFails ==
  /\ pc = "poll" /\ Down
  /\ DbError
  /\ UNCHANGED <<table, files, proc, kills, ioErrors, overlapped>>

(* What the constructors of a solution find in the other tables: its task  *)
(* with the task's groups and their tests, and its language.               *)
Loadable(s) == s \notin Unloadable \union Malformed

(* Mutant: a solution that can not be loaded stays in the batch.           *)
LoadAgain(s) ==
  /\ s \in ind
  /\ \/ /\ Goto("batch", "src")
        /\ connected /\ Loadable(s)
        /\ cur' = s
        /\ ind' = ind \ {s}
        /\ UNCHANGED <<buf, dbErrors>>
     \/ /\ Goto("batch", "batch")
        /\ \/ s \in Unloadable /\ UNCHANGED dbErrors
           \/ DbError
        /\ UNCHANGED <<ind, cur, buf>>
  /\ UNCHANGED <<table, connected, files, proc, kills, ioErrors, overlapped>>

(* solution::solution and everything it loads; it throws when a row is     *)
(* missing or a statement refused, and the batch goes on without it.       *)
Load(s) ==
  /\ s \in ind
  /\ ind' = ind \ {s}
  /\ \/ /\ Goto("batch", "src")
        /\ connected /\ Loadable(s)
        /\ cur' = s
        /\ UNCHANGED <<buf, dbErrors>>
     \/ /\ Goto("batch", "batch")
        /\ \/ s \in Unloadable /\ UNCHANGED dbErrors
           \/ DbError
        /\ UNCHANGED <<cur, buf>>
  /\ UNCHANGED <<table, connected, files, proc, kills, ioErrors, overlapped>>

(* db::stoi of such a column: what std::stoll throws is not caught by the  *)
(* handler of the batch, and ends the daemon.                              *)
LoadMalformed(s) ==
  /\ pc = "batch" /\ s \in ind \cap Malformed /\ connected
  /\ Down
  /\ UNCHANGED <<table, files, proc, faults, overlapped>>

(* The batch is done; the daemon sleeps out its delay, or for 49 days, and *)
(* polls again ...                                                         *)
EndBatch ==
  /\ Goto("batch", "poll")
  /\ ind = {}
  /\ UNCHANGED <<table, local, files, proc, faults, overlapped>>

(* ... or it sleeps for good: Sleep(INFINITE), when the second reading of  *)
(* clock() is one past end_time (PollTimer).                               *)
SleepForever ==
  /\ Goto("batch", "asleep")
  /\ ind = {}
  /\ UNCHANGED <<table, local, files, proc, faults, overlapped>>

CreateSrc ==
  /\ Goto("src", "cfg")
  /\ Attempt(srcFile, cur)
  /\ UNCHANGED <<table, local, cfgFile, resFile, proc, overlapped>>

CreateCfg ==
  /\ Goto("cfg", "launch")
  /\ Attempt(cfgFile, cur)
  /\ UNCHANGED <<table, local, srcFile, resFile, proc, overlapped>>

(* system(): the checker is started ...                                    *)
Launch ==
  /\ Goto("launch", "system")
  /\ proc' = [proc EXCEPT ![Slot] = At("config", NoSolution, NoSolution)]
  /\ overlapped' = (overlapped \/ \E k \in Slots : Alive(k))
  /\ UNCHANGED <<table, local, files, faults>>

(* Mutant: the checker is started and not waited for.                      *)
SystemDoesNotWait ==
  /\ Goto("system", "rmsrc")
  /\ UNCHANGED <<table, local, files, proc, faults, overlapped>>

(* ... and waited for; nobody looks at its exit code.                      *)
SystemReturns ==
  /\ Goto("system", "rmsrc")
  /\ ~Alive(Slot)
  /\ UNCHANGED <<table, local, files, proc, faults, overlapped>>

(* Mutant: the source file is left where it is.                            *)
KeepSrc ==
  /\ Goto("rmsrc", "rmcfg")
  /\ UNCHANGED <<table, local, files, proc, faults, overlapped>>

RemoveSrc ==
  /\ Goto("rmsrc", "rmcfg")
  /\ Attempt(srcFile, NoSolution)
  /\ UNCHANGED <<table, local, cfgFile, resFile, proc, overlapped>>

RemoveCfg ==
  /\ Goto("rmcfg", "read")
  /\ Attempt(cfgFile, NoSolution)
  /\ UNCHANGED <<table, local, srcFile, resFile, proc, overlapped>>

(* Mutant: nobody thinks of a report that is missing.                      *)
ReadResultUnchecked ==
  /\ Goto("read", "rmres")
  /\ \/ buf' = resFile /\ UNCHANGED ioErrors
     \/ buf' = Empty /\ IoError
  /\ UNCHANGED <<table, ind, cur, connected, files, proc, kills, dbErrors, overlapped>>

(* A report that is missing or cannot be opened is read as the empty one.  *)
ReadResult ==
  /\ Goto("read", "rmres")
  /\ \/ /\ buf' = IF resFile = NoSolution THEN Empty ELSE resFile
        /\ UNCHANGED ioErrors
     \/ buf' = Empty /\ IoError
  /\ UNCHANGED <<table, ind, cur, connected, files, proc, kills, dbErrors, overlapped>>

(* Mutant: the report is left where it is.                                 *)
KeepResult ==
  /\ Goto("rmres", "save")
  /\ UNCHANGED <<table, local, files, proc, faults, overlapped>>

RemoveResult ==
  /\ Goto("rmres", "save")
  /\ Attempt(resFile, NoSolution)
  /\ UNCHANGED <<table, local, srcFile, cfgFile, proc, overlapped>>

(* solution::save_result_to_db: one UPDATE sets result and status.  When   *)
(* the client sees an error the row may or may not have been written.      *)
Update ==
  /\ status' = [status EXCEPT ![cur] = "checked"]
  /\ result' = [result EXCEPT ![cur] = buf]

Save ==
  /\ Goto("save", "batch")
  /\ \/ connected /\ Update /\ UNCHANGED dbErrors
     \/ connected /\ Update /\ DbError
     \/ UNCHANGED table /\ DbError
  /\ ForgetCurrent
  /\ UNCHANGED <<ind, connected, files, proc, kills, ioErrors, overlapped>>

(* The daemon is killed.  The checker it waits for dies with it (a closed  *)
(* console) or survives (a killed process).                                *)
Kill ==
  /\ pc # "down" /\ kills < MaxKills
  /\ Down
  /\ kills' = kills + 1
  /\ \/ UNCHANGED proc
     \/ proc' = [proc EXCEPT ![Slot] = NoProcess]
  /\ UNCHANGED <<table, files, dbErrors, ioErrors, overlapped>>

(* The server, or the network, drops the connection.                       *)
Disconnect ==
  /\ connected /\ connected' = FALSE
  /\ UNCHANGED <<table, pc, ind, cur, buf, files, proc, faults, overlapped>>

-----------------------------------------------------------------------------
(* A checker process (checker_rc): what it reads, when, and what it writes *)
(* in the directory it shares with the daemon.                             *)

Exit(k) == proc' = [proc EXCEPT ![k] = NoProcess]

(* read_main_config; a missing file ends the process without a report.     *)
ReadConfig(k) ==
  /\ proc[k].pc = "config"
  /\ \/ cfgFile = NoSolution /\ Exit(k)
     \/ /\ cfgFile # NoSolution
        /\ proc' = [proc EXCEPT ![k] = At("build", cfgFile, NoSolution)]
  /\ UNCHANGED <<table, pc, local, files, faults, overlapped>>

(* build_from_source: a missing source file is a compilation error, which  *)
(* is a report like any other.                                             *)
Build(k) ==
  /\ proc[k].pc = "build"
  /\ proc' = [proc EXCEPT ![k] = At("open", proc[k].cfg, srcFile)]
  /\ UNCHANGED <<table, pc, local, files, faults, overlapped>>

(* A checker_assert fails while the tests are run: exit(1), no report.     *)
Abort(k) ==
  /\ proc[k].pc \in {"build", "open"}
  /\ proc[k].cfg \in Aborting
  /\ Exit(k)
  /\ UNCHANGED <<table, pc, local, files, faults, overlapped>>

(* main: the output stream creates or truncates the report, or it cannot,  *)
(* and then nothing is ever written through it ...                         *)
OpenReport(k) ==
  /\ proc[k].pc = "open"
  /\ \/ /\ proc' = [proc EXCEPT ![k] = At("write", proc[k].cfg, proc[k].src)]
        /\ resFile' = Empty
        /\ UNCHANGED ioErrors
     \/ Exit(k) /\ UNCHANGED resFile /\ IoError
  /\ UNCHANGED <<table, pc, local, srcFile, cfgFile, kills, dbErrors, overlapped>>

(* ... and the report is written and the process ends.                     *)
WriteReport(k) ==
  /\ proc[k].pc = "write"
  /\ Exit(k)
  /\ \/ /\ resFile' = [cfg |-> proc[k].cfg, src |-> proc[k].src]
        /\ UNCHANGED ioErrors
     \/ UNCHANGED resFile /\ IoError
  /\ UNCHANGED <<table, pc, local, srcFile, cfgFile, kills, dbErrors, overlapped>>

-----------------------------------------------------------------------------

Daemon ==
  \/ Poll \/ PollFails \/ \E s \in Solutions : Load(s) \/ LoadMalformed(s)
  \/ EndBatch \/ SleepForever \/ CreateSrc \/ CreateCfg \/ Launch \/ SystemReturns
  \/ RemoveSrc \/ RemoveCfg \/ ReadResult \/ RemoveResult \/ Save

Checker(k) ==
  \/ ReadConfig(k) \/ Build(k) \/ Abort(k) \/ OpenReport(k) \/ WriteReport(k)

Next ==
  \/ Start
  \/ Daemon
  \/ Kill \/ Disconnect
  \/ \E k \in Slots : Checker(k)
  \/ \E s \in Solutions : Submit(s)

Spec == Init /\ [][Next]_vars

(* The daemon is one thread that goes on unless it sleeps, or waits in     *)
(* system().  Checkers owe nothing: they wait for compilers, without a     *)
(* limit.  Nothing obliges anybody to start the daemon, to submit, to      *)
(* disconnect or to kill.                                                  *)
FairSpec == Spec /\ WF_vars(Daemon)

-----------------------------------------------------------------------------
(* Properties.                                                             *)

Own(s) == [cfg |-> s, src |-> s]

Checked(s) == status[s] = "checked"

(* Whose report a row gets.  As long as no file operation failed and no    *)
(* checker was started beside one a killed daemon had left behind, a       *)
(* checked solution has the report of its own program on its own tests.    *)
(* The one exception is a solution whose own checker aborted: its row is   *)
(* "checked" with an empty result or, once the daemon was killed, with the *)
(* report found in a result.json nobody had removed.  (Checker::run reads  *)
(* whatever file is there and never looks at the exit code.)               *)
Attribution ==
  ~overlapped /\ ioErrors = 0 =>
    \A s \in Solutions :
      Checked(s) => \/ result[s] = Own(s)
                    \/ s \in Aborting /\ (result[s] = Empty \/ kills > 0)

(* One file operation that fails unnoticed, in a daemon that was never     *)
(* killed, may cost a solution its report or give it a compilation error,  *)
(* but never gives it the report of another one, unless its own checker    *)
(* aborted.                                                                *)
OneIoErrorNoMixup ==
  kills = 0 /\ ioErrors <= 1 =>
    \A s \in Solutions \ Aborting :
      Checked(s) => \/ result[s] = Empty
                    \/ /\ result[s].cfg = s
                       /\ result[s].src \in {s, NoSolution}

(* The working directory has one user at a time: a checker is started      *)
(* beside another one only after the daemon was killed (run() waits in     *)
(* system() and only then touches the files again).                        *)
OneCheckerAtATime == overlapped => kills > 0

(* A solution is judged once: a row that was checked never changes again,  *)
(* although the batch was polled before the solutions ahead of it were     *)
(* judged, an UPDATE reported as failed may have been done, and a daemon   *)
(* started again polls anew.                                               *)
JudgedOnce ==
  [][\A s \in Solutions :
       Checked(s) => Checked(s)' /\ result'[s] = result[s]]_vars

(* The daemon leaves system() each time, because compilers end or somebody *)
(* kills it, and no sleep of it is without end, or is ended by a kill.     *)
Released == []<>(pc # "system") /\ []<>(pc # "asleep")

(* Every submitted solution that can be loaded is judged, although polls   *)
(* and loads are refused, connections are lost, the daemon is killed or    *)
(* ends of its own with a solution in hand, and checkers abort or are left *)
(* behind; if in the end the daemon is started for good, and released.     *)
(* True only if the rows that can not be loaded, which stay unchecked for  *)
(* ever, are fewer than the limit of the polling query.                    *)
EventuallyChecked ==
  <>[](pc # "down") /\ Released =>
    \A s \in Solutions :
      Loadable(s) => (status[s] = "unchecked" ~> Checked(s))

(* A daemon that lost its connection, which nobody ever makes again, does  *)
(* not go on polling in vain: it works off what is left of its batch, with *)
(* a checker that may be running and every load refused, and ends, so that *)
(* it can be started anew; nothing but a sleep, or a checker, without end  *)
(* can hold it up.                                                         *)
LossEndsDaemon == Released => (pc # "down" /\ ~connected ~> pc = "down")

(* Seen from the web site, the daemon implements the judging service:      *)
(* whatever fails, every row goes through "unchecked" once, and as long as *)
(* the daemon was not killed and every file operation was done, to a       *)
(* report of its own, or to the empty result if its checker may abort.     *)
Service ==
  INSTANCE Judging WITH
    Blank <- Empty,
    Reports <- Verdict \union {Empty},
    Allowed <- [s \in Solutions |->
                  {Own(s)} \union (IF s \in Aborting THEN {Empty} ELSE {})],
    sound <- kills = 0 /\ ioErrors = 0

ImplementsJudging == Service!Spec

=============================================================================
