--------------------------- MODULE BuilderProofs ---------------------------
(***************************************************************************)
(* Theorems about Builder, for every number of solutions, in any           *)
(* languages.                                                              *)
(***************************************************************************)
EXTENDS Builder, TLAPS

(* How far the compilers are.  One that runs is that of the solution at    *)
(* hand, or was left.                                                      *)
ProcInv ==
  /\ \A j \in Jobs : j > job => proc[j] = "none" /\ verdict[j] = "none"
  /\ pc = "popen" => proc[job] = "none"
  /\ pc = "pclose" => proc[job] \in {"closed", "ended"}
  /\ pc \in {"judge", "tests"} => proc[job] = "ended"
  /\ pc \notin {"tests", "done"} => verdict[job] = "none"
  /\ \A j \in Jobs : Alive(j) => j \in left \/ (j = job /\ pc \in {"read", "pclose"})
  /\ \A j \in Jobs : proc[j] = "none" => j \notin built

(* What a compiler that has ended, or closed its output, has announced.    *)
EndInv ==
  \A j \in Jobs :
    /\ proc[j] = "closed" /\ j \in built => Announced(j)
    /\ proc[j] = "ended" => (Announced(j) <=> j \in built)

BufInv == pc \in {"pclose", "judge"} => buf = said[job]

(* What becomes of the executable.  No compiler is there to replace it,    *)
(* unless one was when it was linked: others start later.                  *)
ExeInv ==
  /\ exe["na.exe"] = NoFile
  /\ job \in built =>
       LET x == exe[Target(compiler[job])] IN
         \/ x = job /\ \A k \in left \ {job} : ~ Alive(k)
         \/ job \in overtaken /\ x \in left \union {job, NoFile}

TestsInv ==
  pc = "tests" =>
    /\ job \in built
    /\ \/ path = Target(compiler[job])
       \/ path = "na.exe" /\ compiler[job] \in Pascal /\ ~ isPas[job]

IInv ==
  /\ TypeOK /\ ProcInv /\ EndInv /\ BufInv /\ ExeInv /\ TestsInv
  /\ VerdictIsBuild

LEMMA JAssumption == J \in Nat \ {0} /\ NoFile \notin Jobs
BY ConstantsAssumption

LEMMA TargetTyped ==
  ASSUME NEW c
  PROVE  Target(c) \in Paths /\ Target(c) # "na.exe"
BY DEF Target, Paths

(* Everything a compiler says comes through the pipe, and is understood.   *)
LEMMA OutputHeard ==
  ASSUME NEW j \in Jobs
  PROVE  Output(j) = {w \in said[j] : TRUE}
BY DEF Output, Stream, Captured

LEMMA SaysAnnounced ==
  ASSUME TypeOK, NEW j \in Jobs
  PROVE  /\ Says(compiler[j], said[j]) \in {"true", "false", "abort"}
         /\ Says(compiler[j], said[j]) = "true" <=> Announced(j)
<1>1. compiler[j] \in Compilers
  BY DEF TypeOK
<1>2. CASE compiler[j] = "msv_cpp"
  BY <1>2 DEF Says, Announced
<1>3. CASE compiler[j] = "mingw_cpp"
  BY <1>3 DEF Says, Announced, Pascal
<1>4. CASE compiler[j] = "fp_pas"
  <2>1. CASE said[j] = {}  BY <1>4, <2>1 DEF Says, Announced, Pascal
  <2>2. CASE said[j] # {}  BY <1>4, <2>2 DEF Says, Announced, Pascal
  <2> QED BY <2>1, <2>2
<1>5. CASE compiler[j] = "abc_pas"
  <2>1. CASE said[j] = {}  BY <1>5, <2>1 DEF Says, Announced, Pascal
  <2>2. CASE said[j] # {}  BY <1>5, <2>2 DEF Says, Announced, Pascal
  <2> QED BY <2>1, <2>2
<1> QED BY <1>1, <1>2, <1>3, <1>4, <1>5 DEF Compilers

LEMMA InitIInv == Init => IInv
<1> SUFFICES ASSUME Init PROVE IInv
  OBVIOUS
<1>0. 1 \in Jobs
  BY JAssumption, SMT DEF Jobs
<1>1. 1 \in Jobs /\ job = 1 /\ "" \in Paths /\ "na.exe" \in Paths
  BY <1>0 DEF Init, Paths
<1>2. TypeOK
  BY <1>1 DEF Init, TypeOK
<1>3. ProcInv
  BY <1>1 DEF Init, ProcInv, Alive
<1>4. EndInv
  BY DEF Init, EndInv
<1>5. BufInv /\ TestsInv
  BY DEF Init, BufInv, TestsInv
<1>6. ExeInv
  BY <1>1 DEF Init, ExeInv
<1>7. VerdictIsBuild
  BY DEF Init, VerdictIsBuild
<1> QED BY <1>2, <1>3, <1>4, <1>5, <1>6, <1>7 DEF IInv

LEMMA NextJobTyped ==
  ASSUME TypeOK, NextJob
  PROVE  /\ job' \in Jobs /\ pc' \in {"popen", "done"}
         /\ buf' \subseteq AllWords /\ path' \in Paths
         /\ pc' = "popen" => job' = job + 1
         /\ pc' = "done" => job' = job
<1>1. job \in Nat /\ 1 =< job /\ job =< J /\ J \in Nat
  BY JAssumption DEF TypeOK, Jobs
<1>2. buf' \subseteq AllWords /\ path' \in Paths
  BY DEF NextJob, Paths
<1>3. CASE job < J
  <2>1. job' = job + 1 /\ pc' = "popen"
    BY <1>3 DEF NextJob
  <2>2. job' \in Jobs
    BY <1>1, <1>3, <2>1 DEF Jobs
  <2> QED BY <1>2, <2>1, <2>2
<1>4. CASE ~ (job < J)
  <2>1. job' = job /\ pc' = "done"
    BY <1>4 DEF NextJob
  <2> QED BY <1>2, <2>1 DEF TypeOK
<1> QED BY <1>3, <1>4

(* The end of a solution, whose verdict is known.                          *)
LEMMA NextJobKeeps ==
  ASSUME IInv, NextJob, TypeOK',
         UNCHANGED <<compiler, isPas, proc, said, exe, built>>,
         left' \in {left, left \union {job}}, overtaken' = overtaken,
         Alive(job) => job \in left',
         \A j \in Jobs : j # job => verdict'[j] = verdict[j],
         \/ verdict'[job] = "none"
         \/ verdict'[job] = "true" /\ job \in built
         \/ verdict'[job] \in {"false", "abort"} /\ (job \notin built \/ job \in left')
  PROVE  IInv'
<1>1. /\ job' \in Jobs /\ pc' \in {"popen", "done"}
      /\ pc' = "popen" => job' = job + 1
      /\ pc' = "done" => job' = job
  BY NextJobTyped DEF IInv
<1>2. job \in Nat /\ \A j \in Jobs : j \in Nat
  BY JAssumption DEF IInv, TypeOK, Jobs
<1>3. \A j \in Jobs : j > job' => j > job
  BY <1>1, <1>2
<1>4. ProcInv'
  BY <1>1, <1>2, <1>3 DEF IInv, ProcInv, Alive
<1>5. EndInv'
  BY DEF IInv, EndInv, Announced
<1>6. ExeInv'
  <2>0. \A k \in Jobs : Alive(k)' <=> Alive(k)
    BY DEF Alive
  <2>1. CASE pc' = "popen"
    <3>1. job' \notin built
      BY <1>1, <1>2, <2>1 DEF IInv, ProcInv
    <3> QED BY <3>1 DEF IInv, ExeInv
  <2>2. CASE pc' = "done"
    <3>1. job' = job
      BY <1>1, <2>2
    <3> QED BY <2>0, <3>1 DEF IInv, ExeInv, TypeOK
  <2> QED BY <1>1, <2>1, <2>2
<1>7. VerdictIsBuild'
  <2> SUFFICES ASSUME NEW j \in Jobs
               PROVE  /\ verdict'[j] = "true" => j \in built'
                      /\ verdict'[j] \in {"false", "abort"} => j \notin built' \/ j \in left'
    BY DEF VerdictIsBuild
  <2>1. CASE j = job   BY <2>1
  <2>2. CASE j # job   BY <2>2 DEF IInv, VerdictIsBuild
  <2> QED BY <2>1, <2>2
<1> QED BY <1>1, <1>4, <1>5, <1>6, <1>7 DEF IInv, BufInv, TestsInv

-----------------------------------------------------------------------------
(* The steps of the builder.                                               *)

LEMMA PopenKeeps ==
  ASSUME IInv, Popen PROVE IInv'
<1>0. TypeOK /\ job \in Jobs /\ pc = "popen" /\ proc[job] = "none" /\ verdict[job] = "none"
      /\ UNCHANGED <<compiler, isPas, said, exe, built, left, overtaken>> /\ job \notin built
  BY DEF IInv, TypeOK, ProcInv, Popen, history
<1>1. CASE /\ proc' = [proc EXCEPT ![job] = "running"] /\ pc' = "read"
           /\ UNCHANGED <<job, buf, path, verdict>>
  <2>1. TypeOK'
    BY <1>0, <1>1 DEF TypeOK
  <2>2. ProcInv'
    BY <1>0, <1>1, JAssumption DEF IInv, ProcInv, Alive, TypeOK, Jobs
  <2>3. EndInv'
    BY <1>0, <1>1 DEF IInv, EndInv, Announced, TypeOK
  <2> QED BY <1>0, <1>1, <2>1, <2>2, <2>3 DEF IInv, BufInv, ExeInv, TestsInv, VerdictIsBuild
<1>2. CASE Refuse("false") /\ UNCHANGED proc
  <2>1. TypeOK'
    BY <1>0, <1>2, NextJobTyped DEF TypeOK, Refuse
  <2>2. ~ Alive(job)
    BY <1>0 DEF Alive
  <2>3. /\ NextJob /\ verdict'[job] = "false"
        /\ \A j \in Jobs : j # job => verdict'[j] = verdict[j]
    BY <1>0, <1>2 DEF Refuse, TypeOK
  <2> QED BY <1>0, <1>2, <2>1, <2>2, <2>3, NextJobKeeps
<1> QED BY <1>1, <1>2 DEF Popen

LEMMA ReadOutputKeeps ==
  ASSUME IInv, ReadOutput PROVE IInv'
<1>0. TypeOK /\ job \in Jobs /\ pc = "read" /\ pc' = "pclose" /\ buf' = said[job]
      /\ proc[job] \in {"closed", "ended"}
      /\ UNCHANGED <<job, compiler, isPas, proc, said, path, exe, verdict, built, left, overtaken>>
  BY OutputHeard DEF IInv, TypeOK, ReadOutput, history
<1>1. TypeOK'
  BY <1>0 DEF TypeOK
<1>2. ProcInv' /\ EndInv'
  BY <1>0 DEF IInv, ProcInv, EndInv, Alive, Announced
<1>3. ExeInv'
  BY <1>0 DEF IInv, ExeInv, Alive
<1> QED BY <1>0, <1>1, <1>2, <1>3 DEF IInv, BufInv, TestsInv, VerdictIsBuild

LEMMA LeaveKeeps ==
  ASSUME IInv, NothingRead \/ ReadError PROVE IInv'
<1>1. PICK v \in {"false", "abort"} : Refuse(v) /\ Leave(v)
  BY DEF NothingRead, ReadError, Leave
<1>2. TypeOK /\ job \in Jobs /\ left' = left \union {job}
      /\ UNCHANGED <<compiler, isPas, proc, said, exe, built, overtaken>>
  BY <1>1 DEF IInv, TypeOK, Leave
<1>3. TypeOK'
  BY <1>1, <1>2, NextJobTyped DEF TypeOK, Refuse
<1>4. /\ NextJob /\ verdict'[job] = v
      /\ \A j \in Jobs : j # job => verdict'[j] = verdict[j]
  BY <1>1, <1>2 DEF Refuse, TypeOK
<1> QED BY <1>2, <1>3, <1>4, NextJobKeeps

LEMMA PcloseKeeps ==
  ASSUME IInv, Pclose PROVE IInv'
BY DEF Pclose, history, IInv, TypeOK, ProcInv, EndInv, BufInv, ExeInv, TestsInv, VerdictIsBuild,
   Alive, Announced

LEMMA JudgeOutputKeeps ==
  ASSUME IInv, JudgeOutput PROVE IInv'
<1> DEFINE v == Says(compiler[job], buf)
<1>0. TypeOK /\ job \in Jobs /\ pc = "judge" /\ buf = said[job] /\ proc[job] = "ended"
      /\ UNCHANGED <<compiler, isPas, proc, said, exe, built, left, overtaken>>
  BY DEF IInv, TypeOK, BufInv, ProcInv, JudgeOutput, history
<1>1. v \in {"true", "false", "abort"} /\ (v = "true" <=> job \in built)
  BY <1>0, SaysAnnounced DEF IInv, EndInv
<1>2. CASE /\ v = "true"
           /\ verdict' = [verdict EXCEPT ![job] = "true"]
           /\ path' = ExecutablePath
           /\ pc' = "tests" /\ UNCHANGED <<job, buf>>
  <2>1. /\ path' \in Paths
        /\ \/ path' = Target(compiler[job])
           \/ path' = "na.exe" /\ compiler[job] \in Pascal /\ ~ isPas[job]
    BY <1>2, TargetTyped DEF ExecutablePath, Paths
  <2>2. TypeOK'
    BY <1>0, <1>2, <2>1 DEF TypeOK
  <2>3. \A j \in Jobs : j # job => verdict'[j] = verdict[j]
    BY <1>2
  <2>4. verdict'[job] = "true"
    BY <1>0, <1>2 DEF TypeOK
  <2>5. ProcInv' /\ EndInv'
    BY <1>0, <1>2, <2>3, JAssumption DEF IInv, ProcInv, EndInv, Alive, Announced, TypeOK, Jobs
  <2>6. VerdictIsBuild'
    BY <1>0, <1>1, <1>2, <2>3, <2>4 DEF IInv, VerdictIsBuild
  <2>7. ExeInv'
    BY <1>0, <1>2 DEF IInv, ExeInv, Alive
  <2> QED BY <1>0, <1>1, <1>2, <2>1, <2>2, <2>5, <2>6, <2>7 DEF IInv, BufInv, TestsInv
<1>3. CASE v # "true" /\ Refuse(v)
  <2>1. v \in {"false", "abort"} /\ job \notin built
    BY <1>1, <1>3
  <2>2. TypeOK'
    BY <1>0, <1>3, <2>1, NextJobTyped DEF TypeOK, Refuse
  <2>3. /\ NextJob /\ verdict'[job] = v
        /\ \A j \in Jobs : j # job => verdict'[j] = verdict[j]
    BY <1>0, <1>3 DEF Refuse, TypeOK
  <2>4. ~ Alive(job)
    BY <1>0 DEF Alive
  <2> HIDE DEF v
  <2> QED BY <1>0, <2>1, <2>2, <2>3, <2>4, NextJobKeeps
<1> QED BY <1>2, <1>3 DEF JudgeOutput

LEMMA EndTestsKeeps ==
  ASSUME IInv, EndTests PROVE IInv'
<1>0. TypeOK /\ job \in Jobs /\ pc = "tests" /\ proc[job] = "ended" /\ job \in built
      /\ NextJob
      /\ UNCHANGED <<compiler, isPas, proc, said, exe, verdict, built, left, overtaken>>
  BY DEF IInv, TypeOK, ProcInv, TestsInv, EndTests, history
<1>1. TypeOK'
  BY <1>0, NextJobTyped DEF TypeOK
<1>2. ~ Alive(job)
  BY <1>0 DEF Alive
<1>3. verdict[job] \in {"none", "true"} \/ job \in left
  BY <1>0 DEF IInv, TypeOK, VerdictIsBuild
<1>4. verdict[job] \in {"none", "true", "false", "abort"}
  BY <1>0 DEF TypeOK
<1> QED BY <1>0, <1>1, <1>2, <1>3, <1>4, NextJobKeeps

-----------------------------------------------------------------------------
(* The steps of a compiler.                                                *)

LEMMA CompilerKeeps ==
  ASSUME IInv, NEW j \in Jobs, PrintWord(j) \/ Unlink(j) \/ Link(j) \/ Close(j) \/ End(j)
  PROVE  IInv'
<1>0. /\ TypeOK /\ ProcInv /\ EndInv /\ BufInv /\ ExeInv /\ TestsInv /\ VerdictIsBuild
      /\ job \in Jobs /\ Alive(j)
      /\ UNCHANGED <<job, pc, compiler, isPas, buf, path, verdict, left>>
  BY DEF IInv, TypeOK, Alive, PrintWord, Unlink, Link, Close, End, history
<1>1. j \in left \/ (j = job /\ pc \in {"read", "pclose"})
  BY <1>0 DEF ProcInv
<1>2. j \in left \/ verdict[j] = "none"
  BY <1>0, <1>1 DEF ProcInv
<1>3. CASE PrintWord(j)
  <2>1. PICK w \in Words(compiler[j]) : said' = [said EXCEPT ![j] = @ \union {w}]
    BY <1>3 DEF PrintWord
  <2>2. w \in AllWords
    BY <1>0 DEF TypeOK, AllWords
  <2>3. proc[j] = "running" /\ UNCHANGED <<proc, exe, built, overtaken>>
    BY <1>3 DEF PrintWord, history
  <2>4. said'[j] \subseteq AllWords
    BY <1>0, <2>1, <2>2 DEF TypeOK
  <2>5. TypeOK'
    BY <1>0, <2>1, <2>3, <2>4 DEF TypeOK
  <2>6. \A k \in Jobs : k # j => said'[k] = said[k]
    BY <1>0, <2>1 DEF TypeOK
  <2>7. EndInv'
    <3> SUFFICES ASSUME NEW k \in Jobs
                 PROVE  /\ proc[k] = "closed" /\ k \in built => Announced(k)'
                        /\ proc[k] = "ended" => (Announced(k)' <=> k \in built)
      BY <2>3 DEF EndInv
    <3>1. k # j => (Announced(k)' <=> Announced(k))
      BY <1>0, <2>6 DEF Announced
    <3> QED BY <1>0, <2>3, <3>1 DEF EndInv
  <2>8. pc \in {"pclose", "judge"} => j # job
    BY <1>0, <2>3 DEF ProcInv
  <2> QED BY <1>0, <2>3, <2>5, <2>6, <2>7, <2>8
       DEF IInv, ProcInv, Alive, BufInv, ExeInv, TestsInv, VerdictIsBuild
<1>4. CASE Unlink(j)
  <2>1. /\ j \notin built /\ UNCHANGED <<proc, said, built, overtaken>>
        /\ exe' = [exe EXCEPT ![Target(compiler[j])] = NoFile]
    BY <1>4 DEF Unlink, history
  <2>2. TypeOK'
    BY <1>0, <2>1, TargetTyped DEF TypeOK
  <2>3. ExeInv'
    <3>1. exe'["na.exe"] = NoFile
      BY <1>0, <2>1, TargetTyped DEF ExeInv, TypeOK, Paths
    <3>2. CASE job \in built
      <4>1. j \in left \ {job} /\ job \in overtaken
        BY <1>0, <1>1, <2>1, <3>2 DEF ExeInv
      <4>2. exe'[Target(compiler[job])] \in {exe[Target(compiler[job])], NoFile}
        BY <1>0, <2>1, TargetTyped DEF TypeOK
      <4> QED BY <1>0, <2>1, <3>1, <4>1, <4>2 DEF ExeInv
    <3> QED BY <1>0, <2>1, <3>1, <3>2 DEF ExeInv
  <2> QED BY <1>0, <2>1, <2>2, <2>3
       DEF IInv, ProcInv, Alive, EndInv, Announced, BufInv, TestsInv, VerdictIsBuild
<1>5. CASE Link(j)
  <2>1. /\ j \notin built /\ UNCHANGED <<proc, said>> /\ built' = built \union {j}
        /\ exe' = [exe EXCEPT ![Target(compiler[j])] = j]
        /\ proc[j] = "closed" => Announced(j)
        /\ overtaken' = IF \E k \in left \ {j} : Alive(k) THEN overtaken \union {j}
                                                        ELSE overtaken
    BY <1>5 DEF Link
  <2>2. TypeOK'
    BY <1>0, <2>1, TargetTyped DEF TypeOK
  <2>3. ExeInv'
    <3>1. exe'["na.exe"] = NoFile
      BY <1>0, <2>1, TargetTyped DEF ExeInv, TypeOK, Paths
    <3>2. CASE j = job
      <4>1. exe'[Target(compiler[job])] = job
        BY <1>0, <2>1, <3>2, TargetTyped DEF TypeOK
      <4> QED BY <1>0, <2>1, <3>1, <3>2, <4>1 DEF ExeInv, Alive
    <3>3. CASE j # job
      <4>1. /\ j \in left \ {job} /\ overtaken \subseteq overtaken'
            /\ job \in built' => job \in built /\ job \in overtaken
        BY <1>0, <1>1, <2>1, <3>3 DEF ExeInv
      <4>2. exe'[Target(compiler[job])] \in {exe[Target(compiler[job])], j}
        BY <1>0, <2>1, TargetTyped DEF TypeOK
      <4> QED BY <1>0, <2>1, <3>1, <4>1, <4>2 DEF ExeInv
    <3> QED BY <3>2, <3>3
  <2>4. EndInv'
    <3> SUFFICES ASSUME NEW k \in Jobs
                 PROVE  /\ proc[k] = "closed" /\ k \in built' => Announced(k)'
                        /\ proc[k] = "ended" => (Announced(k)' <=> k \in built')
      BY <2>1 DEF EndInv
    <3>1. Announced(k)' <=> Announced(k)
      BY <1>0, <2>1 DEF Announced
    <3> QED BY <1>0, <2>1, <3>1 DEF EndInv, Alive
  <2>5. ProcInv'
    BY <1>0, <2>1 DEF ProcInv, Alive
  <2>6. VerdictIsBuild'
    BY <1>0, <1>2, <2>1 DEF VerdictIsBuild
  <2> QED BY <1>0, <2>1, <2>2, <2>3, <2>4, <2>5, <2>6 DEF IInv, BufInv, TestsInv
<1>6. CASE Close(j)
  <2>1. /\ UNCHANGED <<said, exe, built, overtaken>> /\ proc' = [proc EXCEPT ![j] = "closed"]
        /\ j \in built => Announced(j)
        /\ proc[j] = "running"
    BY <1>6 DEF Close, history
  <2>2. TypeOK'
    BY <1>0, <2>1 DEF TypeOK
  <2>3. proc'[j] = "closed" /\ \A k \in Jobs : k # j => proc'[k] = proc[k]
    BY <1>0, <2>1 DEF TypeOK
  <2>4. ProcInv'
    BY <1>0, <2>1, <2>3 DEF ProcInv, Alive
  <2>5. EndInv'
    BY <1>0, <2>1, <2>3 DEF EndInv, Announced
  <2>6. \A k \in Jobs : Alive(k)' => Alive(k)
    BY <1>0, <2>1, <2>3 DEF Alive
  <2>7. ExeInv'
    BY <1>0, <2>1, <2>6 DEF ExeInv, TypeOK
  <2> QED BY <1>0, <2>1, <2>2, <2>4, <2>5, <2>7 DEF IInv, BufInv, TestsInv, VerdictIsBuild
<1>7. CASE End(j)
  <2>1. /\ UNCHANGED <<said, exe, built, overtaken>> /\ proc' = [proc EXCEPT ![j] = "ended"]
        /\ Announced(j) => j \in built
        /\ proc[j] = "closed"
    BY <1>7 DEF End, history
  <2>2. TypeOK'
    BY <1>0, <2>1 DEF TypeOK
  <2>3. proc'[j] = "ended" /\ \A k \in Jobs : k # j => proc'[k] = proc[k]
    BY <1>0, <2>1 DEF TypeOK
  <2>4. ProcInv'
    BY <1>0, <2>1, <2>3 DEF ProcInv, Alive
  <2>5. EndInv'
    BY <1>0, <2>1, <2>3 DEF EndInv, Announced
  <2>6. \A k \in Jobs : Alive(k)' => Alive(k)
    BY <1>0, <2>1, <2>3 DEF Alive
  <2>7. ExeInv'
    BY <1>0, <2>1, <2>6 DEF ExeInv, TypeOK
  <2> QED BY <1>0, <2>1, <2>2, <2>4, <2>5, <2>7 DEF IInv, BufInv, TestsInv, VerdictIsBuild
<1> QED BY <1>3, <1>4, <1>5, <1>6, <1>7

LEMMA NextIInv == IInv /\ [Next]_vars => IInv'
<1> SUFFICES ASSUME IInv, [Next]_vars PROVE IInv'
  OBVIOUS
<1>1. CASE Popen          BY <1>1, PopenKeeps
<1>2. CASE ReadOutput     BY <1>2, ReadOutputKeeps
<1>3. CASE NothingRead \/ ReadError
  BY <1>3, LeaveKeeps
<1>4. CASE Pclose         BY <1>4, PcloseKeeps
<1>5. CASE JudgeOutput    BY <1>5, JudgeOutputKeeps
<1>6. CASE EndTests       BY <1>6, EndTestsKeeps
<1>7. CASE \E j \in Jobs : PrintWord(j) \/ Unlink(j) \/ Link(j) \/ Close(j) \/ End(j)
  BY <1>7, CompilerKeeps
<1>8. CASE UNCHANGED vars
  BY <1>8 DEF vars, history, IInv, TypeOK, ProcInv, EndInv, BufInv, ExeInv, TestsInv, VerdictIsBuild,
     Alive, Announced
<1> QED BY <1>1, <1>2, <1>3, <1>4, <1>5, <1>6, <1>7, <1>8 DEF Next, Build

LEMMA Invariance == Spec => []IInv
BY InitIInv, NextIInv, PTL DEF Spec

-----------------------------------------------------------------------------
(* The theorems.                                                           *)

(* Every variable keeps its type.                                          *)
THEOREM TypeCorrect == Spec => []TypeOK
<1>1. IInv => TypeOK
  BY DEF IInv
<1> QED BY <1>1, Invariance, PTL

(* The words found in an output tell how the build went, for any number of *)
(* solutions and whatever compilers were left running.                     *)
THEOREM VerdictIsBuildCorrect == Spec => []VerdictIsBuild
<1>1. IInv => VerdictIsBuild
  BY DEF IInv
<1> QED BY <1>1, Invariance, PTL

(* The program that is tested is the solution's own, with the exceptions   *)
(* the property names.                                                     *)
THEOREM OwnExecutableCorrect == Spec => []OwnExecutable
<1>1. IInv => OwnExecutable
  BY DEF IInv, ExeInv, TestsInv, OwnExecutable
<1> QED BY <1>1, Invariance, PTL

=============================================================================
