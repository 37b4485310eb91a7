--------------------------- MODULE ContesterProofs ---------------------------
(***************************************************************************)
(* Theorems about Contester, for any set of solutions and any number of    *)
(* kills and errors.                                                       *)
(***************************************************************************)
EXTENDS Contester, TLAPS

-----------------------------------------------------------------------------
(* The inductive invariant.                                                *)

(* The daemon has a solution in hand.                                      *)
Busy == pc \notin {"down", "asleep", "poll", "batch"}

(* What the daemon read from the table is still so when it is used: the    *)
(* rest of the batch and the solution in hand are unchecked.               *)
BatchInv ==
  /\ ind \subseteq Unchecked
  /\ Busy => cur \in Unchecked \ ind

(* A checker past read_main_config has a configuration to judge by: the    *)
(* reports it writes name a solution.                                      *)
HasConfig ==
  \A k \in Slots :
    proc[k].pc \in {"build", "open", "write"} => proc[k].cfg \in Solutions

(* The daemon's own checker runs only while the daemon waits for it, and   *)
(* the slots of its later lives are empty.                                 *)
ProcInv ==
  \A k \in Slots :
    /\ k > kills => ~Alive(k)
    /\ k = kills /\ pc # "system" => ~Alive(k)

(* No checker but the daemon's own was alive when it was launched.         *)
Launched == pc \in {"system", "rmsrc", "rmcfg", "read", "rmres", "save"}

Alone == \A k \in Slots : k # kills => ~Alive(k)

(* What the checker, if it runs, has read so far is the solution in hand.  *)
OwnProc ==
  LET p == proc[kills] IN
    /\ p.pc \in {"build", "open", "write"} => p.cfg = cur
    /\ p.pc \in {"open", "write"} => p.src = cur

(* A report that a solution may end up with.                               *)
Deserved(s, r) ==
  \/ r = Own(s)
  \/ s \in Aborting /\ (r \in {Empty, NoSolution} \/ kills > 0)

(* No report lies around before the checker opens its own.                 *)
NoReportYet ==
  \/ ~Launched \/ pc = "save"
  \/ pc = "system" /\ proc[kills].pc \in {"config", "build", "open"}

Work ==
  /\ pc \in {"cfg", "launch", "system"} => srcFile = cur
  /\ pc \in {"launch", "system"} => cfgFile = cur
  /\ Launched => Alone
  /\ pc = "system" => OwnProc
  /\ kills = 0 /\ NoReportYet => resFile = NoSolution
  /\ \/ pc \in {"rmsrc", "rmcfg", "read"}
     \/ pc = "system" /\ ~Alive(kills)
     => Deserved(cur, resFile)
  /\ pc \in {"rmres", "save"} => Deserved(cur, buf)

WorkInv == ~overlapped /\ ioErrors = 0 => Work

IInv == TypeOK /\ HasConfig /\ BatchInv /\ ProcInv /\ OneCheckerAtATime /\ WorkInv /\ Attribution

-----------------------------------------------------------------------------
(* Every action, by name, so that the proofs below split Next once.        *)

LEMMA NextCases ==
  ASSUME Next
  PROVE  \/ Start \/ Poll \/ PollFails
         \/ \E s \in Solutions : Load(s) \/ LoadMalformed(s)
         \/ EndBatch \/ SleepForever \/ CreateSrc \/ CreateCfg \/ Launch
         \/ SystemReturns
         \/ RemoveSrc \/ RemoveCfg \/ ReadResult \/ RemoveResult \/ Save
         \/ Kill \/ Disconnect
         \/ \E k \in Slots : ReadConfig(k) \/ Build(k) \/ Abort(k)
         \/ \E k \in Slots : OpenReport(k) \/ WriteReport(k)
         \/ \E s \in Solutions : Submit(s)
BY DEF Next, Daemon, Checker

(* Type correctness.                                                       *)

LEMMA InitTyped == Init => TypeOK /\ HasConfig
<1> SUFFICES ASSUME Init PROVE TypeOK /\ HasConfig
  OBVIOUS
<1> USE ConstantsAssumption DEF Init, NoProcess, At
<1>1. kills \in Slots /\ dbErrors \in 0 .. MaxDbErrors /\ ioErrors \in 0 .. MaxIoErrors
  BY DEF Slots
<1> QED BY <1>1 DEF TypeOK, HasConfig

LEMMA DownTyped ==
  ASSUME Down
  PROVE  /\ pc' = "down" /\ ind' \subseteq Solutions
         /\ cur' \in Solutions \union {NoSolution}
         /\ buf' \in Verdict \union {Empty}
         /\ connected' \in BOOLEAN
BY DEF Down, ForgetCurrent

LEMMA NextTyped == TypeOK /\ HasConfig /\ [Next]_vars => (TypeOK /\ HasConfig)'
<1> SUFFICES ASSUME TypeOK, HasConfig, [Next]_vars PROVE (TypeOK /\ HasConfig)'
  OBVIOUS
<1> USE ConstantsAssumption DEF TypeOK, HasConfig, table, local, files, faults,
        Goto, ForgetCurrent, DbError, IoError, Attempt, At
<1>1. CASE Start        BY <1>1 DEF Start
<1>2. CASE Poll         BY <1>2 DEF Poll, Unchecked
<1>3. CASE PollFails    BY <1>3, DownTyped DEF PollFails
<1>4. CASE \E s \in Solutions : Load(s) \/ LoadMalformed(s)
  <2> SUFFICES ASSUME NEW s \in Solutions, Load(s) \/ LoadMalformed(s)
               PROVE  (TypeOK /\ HasConfig)'
    BY <1>4
  <2>1. CASE Load(s)           BY <2>1 DEF Load
  <2>2. CASE LoadMalformed(s)  BY <2>2, DownTyped DEF LoadMalformed
  <2> QED BY <2>1, <2>2
<1>5. CASE EndBatch \/ SleepForever BY <1>5 DEF EndBatch, SleepForever
<1>6. CASE CreateSrc    BY <1>6 DEF CreateSrc
<1>7. CASE CreateCfg    BY <1>7 DEF CreateCfg
<1>8. CASE Launch       BY <1>8 DEF Launch, Slot
<1>9. CASE SystemReturns  BY <1>9 DEF SystemReturns
<1>10. CASE RemoveSrc   BY <1>10 DEF RemoveSrc
<1>11. CASE RemoveCfg   BY <1>11 DEF RemoveCfg
<1>12. CASE ReadResult  BY <1>12 DEF ReadResult
<1>13. CASE RemoveResult  BY <1>13 DEF RemoveResult
<1>14. CASE Save        BY <1>14 DEF Save, Update
<1>15. CASE Kill \/ Disconnect
  <2>1. CASE Kill
    <3>1. kills' \in Slots  BY <2>1 DEF Kill, Slots
    <3> QED BY <2>1, <3>1, DownTyped DEF Kill, NoProcess, Slot
  <2>2. CASE Disconnect  BY <2>2 DEF Disconnect
  <2> QED BY <1>15, <2>1, <2>2
<1>16. CASE \E k \in Slots : ReadConfig(k) \/ Build(k) \/ Abort(k)
  BY <1>16 DEF ReadConfig, Build, Abort, Exit, NoProcess
<1>17. CASE \E k \in Slots : OpenReport(k) \/ WriteReport(k)
  <2> SUFFICES ASSUME NEW k \in Slots, OpenReport(k) \/ WriteReport(k)
               PROVE  (TypeOK /\ HasConfig)'
    BY <1>17
  <2>1. CASE OpenReport(k)  BY <2>1 DEF OpenReport, Exit, NoProcess
  <2>2. CASE WriteReport(k)
    <3>1. [cfg |-> proc[k].cfg, src |-> proc[k].src] \in Verdict
      BY <2>2 DEF WriteReport, Verdict
    <3> QED BY <2>2, <3>1 DEF WriteReport, Exit, NoProcess
  <2> QED BY <2>1, <2>2
<1>18. CASE \E s \in Solutions : Submit(s)  BY <1>18 DEF Submit
<1>19. CASE UNCHANGED vars  BY <1>19 DEF vars
<1> QED
  BY <1>1, <1>2, <1>3, <1>4, <1>5, <1>6, <1>7, <1>8, <1>9, <1>10, <1>11,
     <1>12, <1>13, <1>14, <1>15, <1>16, <1>17, <1>18, <1>19, NextCases

(* The variables keep their types.                                         *)
THEOREM TypeCorrect == Spec => []TypeOK
<1>1. Spec => [](TypeOK /\ HasConfig)
  BY InitTyped, NextTyped, PTL DEF Spec
<1> QED BY <1>1, PTL

-----------------------------------------------------------------------------
(* Judged once.                                                            *)

LEMMA NextBatch == TypeOK /\ BatchInv /\ [Next]_vars => BatchInv'
<1> SUFFICES ASSUME TypeOK, BatchInv, [Next]_vars PROVE BatchInv'
  OBVIOUS
<1> USE DEF TypeOK, BatchInv, Busy, Unchecked, table, local, files, faults,
        Goto, ForgetCurrent
<1>1. CASE Start        BY <1>1 DEF Start
<1>2. CASE Poll         BY <1>2 DEF Poll
<1>3. CASE PollFails    BY <1>3 DEF PollFails, Down
<1>4. CASE \E s \in Solutions : Load(s) \/ LoadMalformed(s)
  BY <1>4 DEF Load, LoadMalformed, Down
<1>5. CASE EndBatch \/ SleepForever BY <1>5 DEF EndBatch, SleepForever
<1>6. CASE CreateSrc    BY <1>6 DEF CreateSrc
<1>7. CASE CreateCfg    BY <1>7 DEF CreateCfg
<1>8. CASE Launch       BY <1>8 DEF Launch
<1>9. CASE SystemReturns  BY <1>9 DEF SystemReturns
<1>10. CASE RemoveSrc   BY <1>10 DEF RemoveSrc
<1>11. CASE RemoveCfg   BY <1>11 DEF RemoveCfg
<1>12. CASE ReadResult  BY <1>12 DEF ReadResult
<1>13. CASE RemoveResult  BY <1>13 DEF RemoveResult
<1>14. CASE Save        BY <1>14 DEF Save, Update
<1>15. CASE Kill \/ Disconnect  BY <1>15 DEF Kill, Down, Disconnect
<1>16. CASE \E k \in Slots : ReadConfig(k) \/ Build(k) \/ Abort(k)
  BY <1>16 DEF ReadConfig, Build, Abort
<1>17. CASE \E k \in Slots : OpenReport(k) \/ WriteReport(k)
  BY <1>17 DEF OpenReport, WriteReport
<1>18. CASE \E s \in Solutions : Submit(s)  BY <1>18 DEF Submit
<1>19. CASE UNCHANGED vars  BY <1>19 DEF vars
<1> QED
  BY <1>1, <1>2, <1>3, <1>4, <1>5, <1>6, <1>7, <1>8, <1>9, <1>10, <1>11,
     <1>12, <1>13, <1>14, <1>15, <1>16, <1>17, <1>18, <1>19, NextCases

(* Nothing but Save and Submit writes the table.                           *)
LEMMA TableUnchanged ==
  ASSUME [Next]_vars, ~Save, ~(\E t \in Solutions : Submit(t))
  PROVE  UNCHANGED table
<1> USE DEF table
<1>1. CASE UNCHANGED vars  BY <1>1 DEF vars
<1>2. CASE Start \/ Poll \/ PollFails \/ EndBatch \/ SleepForever \/ Disconnect
           \/ (\E t \in Solutions : Load(t) \/ LoadMalformed(t))
  BY <1>2 DEF Start, Poll, PollFails, EndBatch, SleepForever, Disconnect, Load, LoadMalformed
<1>3. CASE CreateSrc \/ CreateCfg \/ Launch \/ SystemReturns \/ RemoveSrc
  BY <1>3 DEF CreateSrc, CreateCfg, Launch, SystemReturns, RemoveSrc
<1>4. CASE RemoveCfg \/ ReadResult \/ RemoveResult \/ Kill
  BY <1>4 DEF RemoveCfg, ReadResult, RemoveResult, Kill
<1>5. CASE \E k \in Slots : ReadConfig(k) \/ Build(k) \/ Abort(k)
  BY <1>5 DEF ReadConfig, Build, Abort
<1>6. CASE \E k \in Slots : OpenReport(k) \/ WriteReport(k)
  BY <1>6 DEF OpenReport, WriteReport
<1> QED BY <1>1, <1>2, <1>3, <1>4, <1>5, <1>6, NextCases

(* Only Save writes the row of a solution that was submitted, and the row  *)
(* it writes is unchecked: a row that is checked is left alone.            *)
LEMMA StepJudgedOnce ==
  TypeOK /\ BatchInv /\ [Next]_vars =>
    \A s \in Solutions : Checked(s) => Checked(s)' /\ result'[s] = result[s]
<1> SUFFICES ASSUME TypeOK, BatchInv, [Next]_vars, NEW s \in Solutions, Checked(s)
             PROVE  Checked(s)' /\ result'[s] = result[s]
  OBVIOUS
<1> USE DEF Checked
<1>1. CASE Save
  <2>1. CASE UNCHANGED table  BY <2>1 DEF table
  <2>2. CASE Update
    <3>1. cur # s
      BY <1>1 DEF Save, Goto, BatchInv, Busy, Unchecked
    <3> QED BY <2>2, <3>1 DEF Update, TypeOK
  <2> QED BY <1>1, <2>1, <2>2 DEF Save
<1>2. CASE \E t \in Solutions : Submit(t)
  BY <1>2 DEF Submit, TypeOK
<1>3. CASE ~Save /\ ~(\E t \in Solutions : Submit(t))
  BY <1>3, TableUnchanged DEF table
<1> QED BY <1>1, <1>2, <1>3

(* A checked row never changes again, whatever is killed or refused.       *)
THEOREM JudgedOnceCorrect == Spec => JudgedOnce
<1>1. Init => BatchInv
  BY DEF Init, BatchInv, Busy, Unchecked
<1>2. Spec => [](TypeOK /\ HasConfig /\ BatchInv)
  BY <1>1, InitTyped, NextTyped, NextBatch, PTL DEF Spec
<1>3. TypeOK /\ BatchInv /\ [Next]_vars =>
        [\A s \in Solutions :
           Checked(s) => Checked(s)' /\ result'[s] = result[s]]_vars
  BY StepJudgedOnce
<1> QED BY <1>2, <1>3, PTL DEF Spec, JudgedOnce

-----------------------------------------------------------------------------
(* One checker at a time.                                                  *)

LEMMA NextProc ==
  TypeOK /\ ProcInv /\ OneCheckerAtATime /\ [Next]_vars
    => (ProcInv /\ OneCheckerAtATime)'
<1> SUFFICES ASSUME TypeOK, ProcInv, OneCheckerAtATime, [Next]_vars
             PROVE  (ProcInv /\ OneCheckerAtATime)'
  OBVIOUS
<1> USE ConstantsAssumption DEF TypeOK, ProcInv, OneCheckerAtATime, Alive, Slots,
        local, files, faults, Goto
<1>1. CASE Start        BY <1>1 DEF Start
<1>2. CASE Poll         BY <1>2 DEF Poll
<1>3. CASE PollFails    BY <1>3 DEF PollFails, Down
<1>4. CASE \E s \in Solutions : Load(s) \/ LoadMalformed(s)
  BY <1>4 DEF Load, LoadMalformed, Down
<1>5. CASE EndBatch \/ SleepForever BY <1>5 DEF EndBatch, SleepForever
<1>6. CASE CreateSrc    BY <1>6 DEF CreateSrc, Attempt
<1>7. CASE CreateCfg    BY <1>7 DEF CreateCfg, Attempt
<1>8. CASE Launch
  <2>1. kills = 0 => \A k \in Slots : ~Alive(k)
    BY <1>8 DEF Launch
  <2> QED BY <1>8, <2>1 DEF Launch, Slot
<1>9. CASE SystemReturns  BY <1>9 DEF SystemReturns, Slot
<1>10. CASE RemoveSrc   BY <1>10 DEF RemoveSrc, Attempt
<1>11. CASE RemoveCfg   BY <1>11 DEF RemoveCfg, Attempt
<1>12. CASE ReadResult  BY <1>12 DEF ReadResult
<1>13. CASE RemoveResult  BY <1>13 DEF RemoveResult, Attempt
<1>14. CASE Save        BY <1>14 DEF Save
<1>15. CASE Kill \/ Disconnect  BY <1>15 DEF Kill, Down, Disconnect, Slot, NoProcess, At
<1>16. CASE \E k \in Slots : ReadConfig(k) \/ Build(k) \/ Abort(k)
  BY <1>16 DEF ReadConfig, Build, Abort, Exit, NoProcess, At
<1>17. CASE \E k \in Slots : OpenReport(k) \/ WriteReport(k)
  BY <1>17 DEF OpenReport, WriteReport, Exit, NoProcess, At
<1>18. CASE \E s \in Solutions : Submit(s)  BY <1>18 DEF Submit
<1>19. CASE UNCHANGED vars  BY <1>19 DEF vars
<1> QED
  BY <1>1, <1>2, <1>3, <1>4, <1>5, <1>6, <1>7, <1>8, <1>9, <1>10, <1>11,
     <1>12, <1>13, <1>14, <1>15, <1>16, <1>17, <1>18, <1>19, NextCases

LEMMA InitProc == Init => ProcInv /\ OneCheckerAtATime
BY DEF Init, ProcInv, OneCheckerAtATime, Alive, NoProcess, At

(* Two checkers share the working directory only after a kill.             *)
THEOREM OneCheckerAtATimeCorrect == Spec => []OneCheckerAtATime
<1>1. Spec => [](TypeOK /\ HasConfig /\ ProcInv /\ OneCheckerAtATime)
  BY InitTyped, InitProc, NextTyped, NextProc, PTL DEF Spec
<1> QED BY <1>1, PTL

-----------------------------------------------------------------------------
(* Whose report a row gets.                                                *)

(* Faults and overlaps are never forgotten.                                *)
LEMMA HistoryKept ==
  ASSUME TypeOK, [Next]_vars, ~overlapped', ioErrors' = 0
  PROVE  ~overlapped /\ ioErrors = 0 /\ (kills > 0 => kills' > 0)
<1> USE ConstantsAssumption DEF TypeOK, Slots, Attempt, IoError, faults
<1>1. CASE Start \/ Poll \/ PollFails \/ EndBatch \/ SleepForever \/ Disconnect
           \/ (\E s \in Solutions : Load(s) \/ LoadMalformed(s))
  BY <1>1 DEF Start, Poll, PollFails, EndBatch, SleepForever, Disconnect, Load, LoadMalformed
<1>2. CASE CreateSrc \/ CreateCfg \/ Launch \/ SystemReturns \/ RemoveSrc
  BY <1>2 DEF CreateSrc, CreateCfg, Launch, SystemReturns, RemoveSrc
<1>3. CASE RemoveCfg \/ ReadResult \/ RemoveResult \/ Save \/ Kill
  BY <1>3 DEF RemoveCfg, ReadResult, RemoveResult, Save, Kill
<1>4. CASE \E k \in Slots : ReadConfig(k) \/ Build(k) \/ Abort(k)
  BY <1>4 DEF ReadConfig, Build, Abort
<1>5. CASE \E k \in Slots : OpenReport(k) \/ WriteReport(k)
  BY <1>5 DEF OpenReport, WriteReport
<1>6. CASE \E s \in Solutions : Submit(s)  BY <1>6 DEF Submit
<1>7. CASE UNCHANGED vars  BY <1>7 DEF vars
<1> QED BY <1>1, <1>2, <1>3, <1>4, <1>5, <1>6, <1>7, NextCases

LEMMA NextWork == IInv /\ [Next]_vars => WorkInv'
<1> SUFFICES ASSUME IInv, [Next]_vars, ~overlapped', ioErrors' = 0
             PROVE  Work'
  BY DEF WorkInv
<1>0. ~overlapped /\ ioErrors = 0 /\ Work
  BY HistoryKept DEF IInv, WorkInv
<1> USE <1>0, ConstantsAssumption DEF IInv, TypeOK, HasConfig, ProcInv, Work, Launched,
        Alone, OwnProc, NoReportYet, Alive, Slots, table, local, files, faults,
        Goto, Attempt, IoError, ForgetCurrent, Deserved, Own
<1>1. CASE Start        BY <1>1 DEF Start
<1>2. CASE Poll         BY <1>2 DEF Poll
<1>3. CASE PollFails    BY <1>3 DEF PollFails, Down
<1>4. CASE \E s \in Solutions : Load(s) \/ LoadMalformed(s)
  BY <1>4 DEF Load, LoadMalformed, Down
<1>5. CASE EndBatch \/ SleepForever BY <1>5 DEF EndBatch, SleepForever
<1>6. CASE CreateSrc    BY <1>6 DEF CreateSrc
<1>7. CASE CreateCfg    BY <1>7 DEF CreateCfg
<1>8. CASE Launch       BY <1>8 DEF Launch, Slot, NoProcess, At
<1>9. CASE SystemReturns  BY <1>9 DEF SystemReturns, Slot
<1>10. CASE RemoveSrc   BY <1>10 DEF RemoveSrc
<1>11. CASE RemoveCfg   BY <1>11 DEF RemoveCfg
<1>12. CASE ReadResult
  <2>1. cur \in Solutions
    BY <1>12 DEF ReadResult, BatchInv, Busy, Unchecked
  <2>2. Own(cur) \in Verdict
    BY <2>1 DEF Verdict
  <2>3. buf' = IF resFile = NoSolution THEN Empty ELSE resFile
    BY <1>12 DEF ReadResult
  <2>4. Deserved(cur, buf')
    BY <1>12, <2>2, <2>3 DEF ReadResult
  <2> QED BY <1>12, <2>4 DEF ReadResult
<1>13. CASE RemoveResult  BY <1>13 DEF RemoveResult
<1>14. CASE Save        BY <1>14 DEF Save, Update
<1>15. CASE Kill \/ Disconnect
  <2>1. CASE Kill
    <3>1. pc' = "down" /\ kills' # 0  BY <2>1 DEF Kill, Down
    <3> QED BY <3>1
  <2>2. CASE Disconnect  BY <2>2 DEF Disconnect
  <2> QED BY <1>15, <2>1, <2>2
<1>16. CASE \E k \in Slots : ReadConfig(k) \/ Build(k) \/ Abort(k)
  <2> SUFFICES ASSUME NEW k \in Slots, ReadConfig(k) \/ Build(k) \/ Abort(k)
               PROVE  Work'
    BY <1>16
  <2> USE DEF Exit, NoProcess, At
  <2>1. CASE ReadConfig(k)
    <3>1. CASE k = kills
      <4>1. pc = "system" /\ cfgFile = cur /\ cur # NoSolution
        BY <2>1, <3>1 DEF ReadConfig, BatchInv, Busy, Unchecked
      <4>2. proc' = [proc EXCEPT ![kills] = At("build", cur, NoSolution)]
        BY <2>1, <3>1, <4>1 DEF ReadConfig
      <4>3. UNCHANGED <<pc, cur, srcFile, cfgFile, resFile, kills>>
        BY <2>1 DEF ReadConfig
      <4>4. proc[kills].pc = "config"
        BY <2>1, <3>1 DEF ReadConfig
      <4> QED BY <4>1, <4>2, <4>3, <4>4
    <3>2. CASE k # kills
      BY <2>1, <3>2 DEF ReadConfig
    <3> QED BY <3>1, <3>2
  <2>2. CASE Build(k)       BY <2>2 DEF Build
  <2>3. CASE Abort(k)       BY <2>3 DEF Abort
  <2> QED BY <2>1, <2>2, <2>3
<1>17. CASE \E k \in Slots : OpenReport(k) \/ WriteReport(k)
  <2> SUFFICES ASSUME NEW k \in Slots, OpenReport(k) \/ WriteReport(k)
               PROVE  Work'
    BY <1>17
  <2> USE DEF Exit, NoProcess, At
  <2>1. CASE OpenReport(k)   BY <2>1 DEF OpenReport
  <2>2. CASE WriteReport(k)  BY <2>2 DEF WriteReport
  <2> QED BY <2>1, <2>2
<1>18. CASE \E s \in Solutions : Submit(s)  BY <1>18 DEF Submit
<1>19. CASE UNCHANGED vars  BY <1>19 DEF vars
<1> QED
  BY <1>1, <1>2, <1>3, <1>4, <1>5, <1>6, <1>7, <1>8, <1>9, <1>10, <1>11,
     <1>12, <1>13, <1>14, <1>15, <1>16, <1>17, <1>18, <1>19, NextCases

LEMMA NextAttribution == IInv /\ [Next]_vars => Attribution'
<1> SUFFICES ASSUME IInv, [Next]_vars, ~overlapped', ioErrors' = 0,
                    NEW s \in Solutions, Checked(s)'
             PROVE  \/ result'[s] = Own(s)
                    \/ s \in Aborting /\ (result'[s] = Empty \/ kills' > 0)
  BY DEF Attribution, Own
<1>0. ~overlapped /\ ioErrors = 0 /\ Work /\ (kills > 0 => kills' > 0)
  BY HistoryKept DEF IInv, WorkInv
<1>1. ASSUME Checked(s), result'[s] = result[s]
      PROVE  \/ result'[s] = Own(s)
             \/ s \in Aborting /\ (result'[s] = Empty \/ kills' > 0)
  BY <1>0, <1>1 DEF IInv, Attribution
<1>2. CASE Save
  <2>1. UNCHANGED kills  BY <1>2 DEF Save
  <2>2. CASE Update
    <3>1. CASE s = cur
      <4>1. result'[s] = buf  BY <2>2, <3>1 DEF Update, IInv, TypeOK
      <4>2. Deserved(s, buf)  BY <1>0, <1>2, <3>1 DEF Save, Goto, Work
      <4>3. buf # NoSolution  BY ConstantsAssumption DEF IInv, TypeOK
      <4> QED BY <2>1, <4>1, <4>2, <4>3 DEF Deserved
    <3>2. CASE s # cur
      BY <1>1, <2>2, <3>2 DEF Update, Checked, IInv, TypeOK
    <3> QED BY <3>1, <3>2
  <2>3. CASE UNCHANGED table
    BY <1>1, <2>3 DEF table, Checked
  <2> QED BY <1>2, <2>2, <2>3 DEF Save
<1>3. CASE \E t \in Solutions : Submit(t)
  BY <1>1, <1>3 DEF Submit, Checked, IInv, TypeOK
<1>4. CASE ~Save /\ ~(\E t \in Solutions : Submit(t))
  BY <1>1, <1>4, TableUnchanged DEF table, Checked
<1> QED BY <1>2, <1>3, <1>4

LEMMA InitIInv == Init => IInv
<1> SUFFICES ASSUME Init PROVE IInv
  OBVIOUS
<1>1. BatchInv  BY DEF Init, BatchInv, Busy, Unchecked
<1>2. WorkInv /\ Attribution
  BY DEF Init, WorkInv, Work, Launched, Attribution, Checked
<1> QED BY <1>1, <1>2, InitTyped, InitProc DEF IInv

LEMMA NextIInv == IInv /\ [Next]_vars => IInv'
BY NextTyped, NextBatch, NextProc, NextWork, NextAttribution DEF IInv

LEMMA SpecIInv == Spec => []IInv
BY InitIInv, NextIInv, PTL DEF Spec

(* With no failed file operation and no overlapping checkers, a checked    *)
(* solution has its own report, however often the daemon was killed.       *)
THEOREM AttributionCorrect == Spec => []Attribution
<1>1. IInv => Attribution  BY DEF IInv
<1> QED BY <1>1, SpecIInv, PTL

-----------------------------------------------------------------------------
(* One file operation that fails.                                          *)

(* A report that a solution may end up with.                               *)
Harmless(s, r) ==
  \/ s \in Aborting
  \/ r \in {Empty, NoSolution}
  \/ r.cfg = s /\ r.src \in {s, NoSolution}

(* As long as nothing failed, no file outlives the solution it is about.   *)
Tidy ==
  ioErrors = 0 =>
    /\ pc \notin {"cfg", "launch", "system", "rmsrc"} => srcFile = NoSolution
    /\ pc \notin {"launch", "system", "rmsrc", "rmcfg"} => cfgFile = NoSolution
    /\ NoReportYet => resFile = NoSolution

(* After one failure a file is missing, or one of an earlier solution is   *)
(* there until it is written over.                                         *)
Handed ==
  LET p == proc[kills] IN
    /\ pc \in {"cfg", "launch", "system"} => srcFile \in {cur, NoSolution}
    /\ pc = "launch" \/ (pc = "system" /\ p.pc = "config") =>
         cfgFile = cur \/ (cfgFile = NoSolution /\ resFile = NoSolution)
    /\ pc = "system" =>
         /\ p.pc \in {"build", "open", "write"} => p.cfg = cur
         /\ p.pc \in {"open", "write"} => p.src \in {cur, NoSolution}
         /\ p.pc = "write" => resFile = Empty
    /\ \/ pc \in {"rmsrc", "rmcfg", "read"}
       \/ pc = "system" /\ ~Alive(kills)
       => Harmless(cur, resFile)
    /\ pc \in {"rmres", "save"} => Harmless(cur, buf)

IoInv == kills = 0 /\ ioErrors <= 1 => Tidy /\ Handed

LEMMA FaultsKept ==
  ASSUME TypeOK, [Next]_vars, kills' = 0, ioErrors' <= 1
  PROVE  kills = 0 /\ ioErrors <= 1
<1> USE ConstantsAssumption DEF TypeOK, Slots, Attempt, IoError, faults
<1>1. CASE Start \/ Poll \/ PollFails \/ EndBatch \/ SleepForever \/ Disconnect
           \/ (\E s \in Solutions : Load(s) \/ LoadMalformed(s))
  BY <1>1 DEF Start, Poll, PollFails, EndBatch, SleepForever, Disconnect, Load, LoadMalformed
<1>2. CASE CreateSrc \/ CreateCfg \/ Launch \/ SystemReturns \/ RemoveSrc
  BY <1>2 DEF CreateSrc, CreateCfg, Launch, SystemReturns, RemoveSrc
<1>3. CASE RemoveCfg \/ ReadResult \/ RemoveResult \/ Save \/ Kill
  BY <1>3 DEF RemoveCfg, ReadResult, RemoveResult, Save, Kill
<1>4. CASE \E k \in Slots : ReadConfig(k) \/ Build(k) \/ Abort(k)
  BY <1>4 DEF ReadConfig, Build, Abort
<1>5. CASE \E k \in Slots : OpenReport(k) \/ WriteReport(k)
  BY <1>5 DEF OpenReport, WriteReport
<1>6. CASE \E s \in Solutions : Submit(s)  BY <1>6 DEF Submit
<1>7. CASE UNCHANGED vars  BY <1>7 DEF vars
<1> QED BY <1>1, <1>2, <1>3, <1>4, <1>5, <1>6, <1>7, NextCases

LEMMA NextIo ==
  TypeOK /\ HasConfig /\ BatchInv /\ ProcInv /\ IoInv /\ [Next]_vars => IoInv'
<1> SUFFICES ASSUME TypeOK, HasConfig, BatchInv, ProcInv, IoInv, [Next]_vars,
                    kills' = 0, ioErrors' <= 1
             PROVE  Tidy' /\ Handed'
  BY DEF IoInv
<1>0. kills = 0 /\ ioErrors <= 1 /\ Tidy /\ Handed
  BY FaultsKept DEF IoInv
<1> USE <1>0, ConstantsAssumption DEF TypeOK, HasConfig, ProcInv, Tidy, Handed,
        Launched, NoReportYet, Alive, Slots, table, local, files, faults,
        Goto, Attempt, IoError, Harmless
<1>1. CASE Start        BY <1>1 DEF Start
<1>2. CASE Poll         BY <1>2 DEF Poll
<1>3. CASE PollFails    BY <1>3 DEF PollFails, Down, ForgetCurrent
<1>4. CASE \E s \in Solutions : Load(s) \/ LoadMalformed(s)
  BY <1>4 DEF Load, LoadMalformed, Down, ForgetCurrent
<1>5. CASE EndBatch \/ SleepForever BY <1>5 DEF EndBatch, SleepForever
<1>6. CASE CreateSrc    BY <1>6 DEF CreateSrc
<1>7. CASE CreateCfg    BY <1>7 DEF CreateCfg
<1>8. CASE Launch
  <2>1. proc' = [proc EXCEPT ![kills] = At("config", NoSolution, NoSolution)]
    BY <1>8 DEF Launch, Slot
  <2>2. proc'[kills'].pc = "config" /\ kills' = kills
    BY <1>8, <2>1 DEF Launch, At
  <2>3. pc = "launch" /\ pc' = "system" /\ UNCHANGED <<cur, files, ioErrors>>
    BY <1>8 DEF Launch
  <2> QED BY <2>2, <2>3
<1>9. CASE SystemReturns  BY <1>9 DEF SystemReturns, Slot
<1>10. CASE RemoveSrc   BY <1>10 DEF RemoveSrc
<1>11. CASE RemoveCfg   BY <1>11 DEF RemoveCfg
<1>12. CASE ReadResult  BY <1>12 DEF ReadResult
<1>13. CASE RemoveResult  BY <1>13 DEF RemoveResult
<1>14. CASE Save        BY <1>14 DEF Save, ForgetCurrent
<1>15. CASE Kill \/ Disconnect  BY <1>15 DEF Kill, Disconnect
<1>16. CASE \E k \in Slots : ReadConfig(k) \/ Build(k) \/ Abort(k)
  <2> SUFFICES ASSUME NEW k \in Slots, ReadConfig(k) \/ Build(k) \/ Abort(k)
               PROVE  Tidy' /\ Handed'
    BY <1>16
  <2> USE DEF Exit, NoProcess, At
  <2>1. CASE ReadConfig(k)
    <3>1. k = kills /\ pc = "system"
      BY <2>1 DEF ReadConfig
    <3>2. UNCHANGED <<pc, cur, srcFile, cfgFile, resFile, kills, ioErrors>>
      BY <2>1 DEF ReadConfig
    <3>3. CASE cfgFile = NoSolution
      <4>1. proc'[kills].pc = "none" /\ resFile = NoSolution
        BY <2>1, <3>1, <3>3 DEF ReadConfig, BatchInv, Busy, Unchecked
      <4> QED BY <3>1, <3>2, <4>1
    <3>4. CASE cfgFile # NoSolution
      <4>1. proc'[kills] = At("build", cur, NoSolution) /\ proc[kills].pc = "config"
        BY <2>1, <3>1, <3>4 DEF ReadConfig
      <4> QED BY <3>1, <3>2, <4>1
    <3> QED BY <3>3, <3>4
  <2>2. CASE Build(k)       BY <2>2 DEF Build
  <2>3. CASE Abort(k)       BY <2>3 DEF Abort
  <2> QED BY <2>1, <2>2, <2>3
<1>17. CASE \E k \in Slots : OpenReport(k) \/ WriteReport(k)
  <2> SUFFICES ASSUME NEW k \in Slots, OpenReport(k) \/ WriteReport(k)
               PROVE  Tidy' /\ Handed'
    BY <1>17
  <2> USE DEF Exit, NoProcess, At
  <2>1. CASE OpenReport(k)   BY <2>1 DEF OpenReport
  <2>2. CASE WriteReport(k)  BY <2>2 DEF WriteReport
  <2> QED BY <2>1, <2>2
<1>18. CASE \E s \in Solutions : Submit(s)  BY <1>18 DEF Submit
<1>19. CASE UNCHANGED vars  BY <1>19 DEF vars
<1> QED
  BY <1>1, <1>2, <1>3, <1>4, <1>5, <1>6, <1>7, <1>8, <1>9, <1>10, <1>11,
     <1>12, <1>13, <1>14, <1>15, <1>16, <1>17, <1>18, <1>19, NextCases

LEMMA NextNoMixup ==
  TypeOK /\ HasConfig /\ BatchInv /\ IoInv /\ OneIoErrorNoMixup /\ [Next]_vars
    => OneIoErrorNoMixup'
<1> SUFFICES ASSUME TypeOK, HasConfig, BatchInv, IoInv, OneIoErrorNoMixup, [Next]_vars,
                    kills' = 0, ioErrors' <= 1,
                    NEW s \in Solutions \ Aborting, Checked(s)'
             PROVE  Harmless(s, result'[s])
  <2>1. ASSUME TypeOK, HasConfig, [Next]_vars, NEW s \in Solutions
        PROVE  result'[s] # NoSolution
    BY <2>1, NextTyped, ConstantsAssumption DEF TypeOK
  <2> QED BY <2>1 DEF OneIoErrorNoMixup, Harmless
<1>0. Handed /\ (Checked(s) => Harmless(s, result[s]))
  BY FaultsKept DEF IoInv, OneIoErrorNoMixup, Harmless
<1>1. CASE Save
  <2>1. CASE Update
    <3>1. CASE s = cur
      BY <1>0, <1>1, <2>1, <3>1 DEF Save, Goto, Update, Handed, TypeOK
    <3>2. CASE s # cur
      BY <1>0, <2>1, <3>2 DEF Update, Checked, TypeOK
    <3> QED BY <3>1, <3>2
  <2>2. CASE UNCHANGED table
    BY <1>0, <2>2 DEF table, Checked
  <2> QED BY <1>1, <2>1, <2>2 DEF Save
<1>2. CASE \E t \in Solutions : Submit(t)
  BY <1>0, <1>2 DEF Submit, Checked, TypeOK
<1>3. CASE ~Save /\ ~(\E t \in Solutions : Submit(t))
  BY <1>0, <1>3, TableUnchanged DEF table, Checked
<1> QED BY <1>1, <1>2, <1>3

(* One file operation that fails unnoticed never gives a solution the      *)
(* report of another one, for any number of solutions and whichever of the *)
(* operations it is.                                                       *)
THEOREM OneIoErrorNoMixupCorrect == Spec => []OneIoErrorNoMixup
<1>1. Init => BatchInv /\ IoInv /\ OneIoErrorNoMixup
  BY DEF Init, BatchInv, Busy, Unchecked, IoInv, Tidy, Handed, OneIoErrorNoMixup,
         Checked
<1>2. Spec => [](/\ TypeOK /\ HasConfig /\ BatchInv /\ ProcInv
                 /\ OneCheckerAtATime /\ IoInv /\ OneIoErrorNoMixup)
  BY <1>1, InitTyped, InitProc, NextTyped, NextBatch, NextProc, NextIo,
     NextNoMixup, PTL DEF Spec
<1> QED BY <1>2, PTL

-----------------------------------------------------------------------------
(* The daemon implements the judging service.                              *)

(* What went wrong stays so.                                               *)
LEMMA SoundKept ==
  ASSUME IInv, IInv', [Next]_vars, kills' = 0, ioErrors' = 0
  PROVE  kills = 0 /\ ioErrors = 0
<1>1. ~overlapped'
  BY DEF IInv, OneCheckerAtATime
<1>2. kills = 0
  BY FaultsKept DEF IInv
<1>3. ioErrors = 0
  BY <1>1, HistoryKept DEF IInv
<1> QED BY <1>2, <1>3

LEMMA StepService ==
  ASSUME IInv, IInv', [Next]_vars
  PROVE  [Service!Next]_<<status, result, kills = 0 /\ ioErrors = 0>>
<1> DEFINE sound == kills = 0 /\ ioErrors = 0
<1>1. sound => ~overlapped
  BY DEF IInv, OneCheckerAtATime
<1>2. CASE Save
  <2>1. cur \in Solutions /\ status[cur] = "unchecked"
    BY <1>2 DEF Save, Goto, IInv, BatchInv, Busy, Unchecked
  <2>2. buf \in Verdict \union {Empty}
    BY DEF IInv, TypeOK
  <2>3. sound => Deserved(cur, buf) /\ buf # NoSolution
    BY <1>1, <1>2, ConstantsAssumption DEF Save, Goto, IInv, WorkInv, Work, TypeOK
  <2>4. sound => buf \in {Own(cur)} \union (IF cur \in Aborting THEN {Empty} ELSE {})
    BY <2>3 DEF Deserved
  <2>5. kills' = kills /\ ioErrors' = ioErrors
    BY <1>2 DEF Save
  <2>6. ASSUME Update PROVE Service!Judge(cur)
    BY <2>1, <2>2, <2>4, <2>5, <2>6 DEF Update, Service!Judge
  <2> QED BY <1>2, <2>1, <2>5, <2>6 DEF Save, Service!Next, table
<1>3. CASE \E s \in Solutions : Submit(s)
  BY <1>3 DEF Submit, Service!Next, Service!Submit, faults
<1>4. CASE ~Save /\ ~(\E s \in Solutions : Submit(s))
  <2>1. UNCHANGED <<status, result>>
    BY <1>4, TableUnchanged DEF table
  <2>2. CASE sound' = sound
    BY <2>1, <2>2
  <2>3. CASE sound' # sound
    <3>1. sound /\ ~sound'
      BY <2>3, SoundKept
    <3>2. Service!Fail
      BY <2>1, <3>1 DEF Service!Fail
    <3> QED BY <3>2 DEF Service!Next
  <2> QED BY <2>2, <2>3
<1> QED BY <1>2, <1>3, <1>4

(* Each submitted solution is judged once; until the daemon is killed or a *)
(* file operation fails, by a report it may have.                          *)
THEOREM ImplementsJudgingCorrect == Spec => ImplementsJudging
<1>1. Init => Service!Init
  BY DEF Init, Service!Init
<1>2. IInv /\ IInv' /\ [Next]_vars
        => [Service!Next]_<<status, result, kills = 0 /\ ioErrors = 0>>
  BY StepService
<1> QED BY <1>1, <1>2, SpecIInv, PTL DEF Spec, ImplementsJudging, Service!Spec

=============================================================================
