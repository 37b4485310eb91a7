------------------------------ MODULE Builder ------------------------------
(***************************************************************************)
(* The builder of the checker (checker_rc/builder.cpp): it runs one of     *)
(* four compilers through a pipe, reads what it prints until the pipe is   *)
(* closed, waits for its end, and judges by the words in the output: each  *)
(* compiler has its own.  Nothing else tells it whether there is a         *)
(* program, and where: executables keep their names from one solution to   *)
(* the next and are never removed.                                         *)
(*                                                                         *)
(* The compilers here are honest: what they print before they close their  *)
(* output says whether they build the program, at the latest before they   *)
(* end.  Checker is about the others.  The actors are the builder, for one *)
(* solution after another, and the compilers; a builder that gives up      *)
(* reading leaves its compiler running.                                    *)
(***************************************************************************)
EXTENDS Naturals

CONSTANTS
  J,        \* solutions are 1 .. J, built in this order
  NoFile    \* "the file does not exist"

Jobs == 1 .. J

ASSUME ConstantsAssumption ==
  /\ J \in Nat \ {0}
  /\ NoFile \notin Jobs

Compilers == {"msv_cpp", "mingw_cpp", "fp_pas", "abc_pas"}
Pascal == {"fp_pas", "abc_pas"}

(* Names of executables, for a source name.ext: its last four characters   *)
(* taken off where they are ".pas", and where they are not; ".exe" added   *)
(* to all of it; no name.                                                  *)
Paths == {"name.exe", "na.exe", "name.ext.exe", ""}

VARIABLES
  job,      \* the solution at hand
  pc,       \* what the builder does next
  compiler, \* the compilers of the solutions
  isPas,    \* the names of their sources end with .pas
  proc,     \* the compiler of each: "none", "running", "closed" (its output
            \* is closed) or "ended"
  said,     \* the words it has printed
  buf,      \* buffer_str
  path,     \* executable_file_path
  exe,      \* whose program an executable file is
  verdict,  \* what the builds came to
  built,    \* history: whose program was built
  left,     \* history: whose compiler was left running
  overtaken \* history: whose program was built when one of these was there

history == <<built, left, overtaken>>
vars == <<job, pc, compiler, isPas, proc, said, buf, path, exe, verdict, history>>

(* Where the words about the end of a compiler are printed.                *)
Stream(c) == IF c = "mingw_cpp" THEN "stderr" ELSE "stdout"

(* The words that are looked for, and any other one.                       *)
Words(c) ==
  {"other"} \union
  CASE c = "msv_cpp" -> {"fatal error", "/out:"}
    [] c = "mingw_cpp" -> {"error:"}
    [] c = "fp_pas" -> {"Fatal:"}
    [] c = "abc_pas" -> {"OK"}

AllWords == UNION {Words(c) : c \in Compilers}

TypeOK ==
  /\ job \in Jobs
  /\ pc \in {"popen", "read", "pclose", "judge", "tests", "done"}
  /\ compiler \in [Jobs -> Compilers] /\ isPas \in [Jobs -> BOOLEAN]
  /\ proc \in [Jobs -> {"none", "running", "closed", "ended"}]
  /\ said \in [Jobs -> SUBSET AllWords] /\ buf \subseteq AllWords
  /\ path \in Paths
  /\ exe \in [Paths -> Jobs \union {NoFile}]
  /\ verdict \in [Jobs -> {"none", "true", "false", "abort"}]
  /\ built \subseteq Jobs /\ left \subseteq Jobs /\ overtaken \subseteq Jobs

Init ==
  /\ job = 1 /\ pc = "popen"
  /\ compiler \in [Jobs -> Compilers] /\ isPas \in [Jobs -> BOOLEAN]
  /\ proc = [j \in Jobs |-> "none"]
  /\ said = [j \in Jobs |-> {}]
  /\ buf = {} /\ path = ""
  /\ exe = [p \in Paths |-> NoFile]
  /\ verdict = [j \in Jobs |-> "none"]
  /\ built = {} /\ left = {} /\ overtaken = {}

-----------------------------------------------------------------------------
(* Mutant: errors of mingw are not redirected into the pipe.               *)
StdoutOnly(c) == {"stdout"}

(* The streams of a compiler that come through the pipe.                   *)
Captured(c) == IF c = "mingw_cpp" THEN {"stdout", "stderr"} ELSE {"stdout"}

Output(j) ==
  {w \in said[j] : w = "other" \/ Stream(compiler[j]) \in Captured(compiler[j])}

(* What the output of a compiler says of the build.                        *)
Says(c, text) ==
  CASE c = "msv_cpp" ->
         IF "fatal error" \notin text /\ "/out:" \in text THEN "true" ELSE "false"
    [] c \in Pascal /\ text = {} -> "abort"
    [] c = "fp_pas" /\ text # {} -> IF "Fatal:" \notin text THEN "true" ELSE "false"
    [] c = "abc_pas" /\ text # {} -> IF "OK" \in text THEN "true" ELSE "false"
    [] c = "mingw_cpp" -> IF "error:" \notin text THEN "true" ELSE "false"

(* What it means to say, and builds.                                       *)
Announced(j) ==
  CASE compiler[j] = "msv_cpp" -> "/out:" \in said[j] /\ "fatal error" \notin said[j]
    [] compiler[j] = "mingw_cpp" -> "error:" \notin said[j]
    [] compiler[j] = "fp_pas" -> said[j] # {} /\ "Fatal:" \notin said[j]
    [] compiler[j] = "abc_pas" -> "OK" \in said[j]

(* Where the program is put: where the command says, or beside the source. *)
Target(c) == IF c \in Pascal THEN "name.exe" ELSE "name.ext.exe"

-----------------------------------------------------------------------------
(* The compilers.                                                          *)

Alive(j) == proc[j] \in {"running", "closed"}

PrintWord(j) ==
  /\ proc[j] = "running"
  /\ \E w \in Words(compiler[j]) : said' = [said EXCEPT ![j] = @ \union {w}]
  /\ UNCHANGED <<job, pc, compiler, isPas, proc, buf, path, exe, verdict, history>>

(* An executable of that name is removed before a new one is linked.       *)
Unlink(j) ==
  /\ Alive(j) /\ j \notin built
  /\ exe' = [exe EXCEPT ![Target(compiler[j])] = NoFile]
  /\ UNCHANGED <<job, pc, compiler, isPas, proc, said, buf, path, verdict, history>>

Link(j) ==
  /\ Alive(j) /\ j \notin built
  /\ proc[j] = "closed" => Announced(j)
  /\ exe' = [exe EXCEPT ![Target(compiler[j])] = j]
  /\ built' = built \union {j}
  /\ overtaken' = IF \E k \in left \ {j} : Alive(k) THEN overtaken \union {j} ELSE overtaken
  /\ UNCHANGED <<job, pc, compiler, isPas, proc, said, buf, path, verdict, left>>

Close(j) ==
  /\ proc[j] = "running"
  /\ j \in built => Announced(j)
  /\ proc' = [proc EXCEPT ![j] = "closed"]
  /\ UNCHANGED <<job, pc, compiler, isPas, said, buf, path, exe, verdict, history>>

End(j) ==
  /\ proc[j] = "closed"
  /\ Announced(j) => j \in built
  /\ proc' = [proc EXCEPT ![j] = "ended"]
  /\ UNCHANGED <<job, pc, compiler, isPas, said, buf, path, exe, verdict, history>>

-----------------------------------------------------------------------------
(* The builder.                                                            *)

(* The checker ends, and the next one is started.                          *)
NextJob ==
  /\ buf' = {} /\ path' = ""
  /\ IF job < J THEN job' = job + 1 /\ pc' = "popen"
                ELSE job' = job /\ pc' = "done"

(* build_from_source returns false, or asserts.                            *)
Refuse(v) ==
  /\ verdict' = [verdict EXCEPT ![job] = v]
  /\ NextJob

Popen ==
  /\ pc = "popen"
  /\ \/ /\ proc' = [proc EXCEPT ![job] = "running"] /\ pc' = "read"
        /\ UNCHANGED <<job, buf, path, verdict>>
     \/ Refuse("false") /\ UNCHANGED proc
  /\ UNCHANGED <<compiler, isPas, said, exe, history>>

(* Mutant: the builder waits for something to be printed.                  *)
ReadSomething ==
  /\ pc = "read" /\ proc[job] \in {"closed", "ended"}
  /\ Output(job) # {}
  /\ buf' = Output(job) /\ pc' = "pclose"
  /\ UNCHANGED <<job, compiler, isPas, proc, said, path, exe, verdict, history>>

(* Until the end of the pipe.                                              *)
ReadOutput ==
  /\ pc = "read" /\ proc[job] \in {"closed", "ended"}
  /\ ~ (compiler[job] \in Pascal /\ Output(job) = {})
  /\ buf' = Output(job) /\ pc' = "pclose"
  /\ UNCHANGED <<job, compiler, isPas, proc, said, path, exe, verdict, history>>

(* The solution is given up, and nobody waits for the compiler.            *)
Leave(v) ==
  /\ Refuse(v)
  /\ left' = left \union {job}
  /\ UNCHANGED <<compiler, isPas, proc, said, exe, built, overtaken>>

(* Nothing was read, which Pascal asserts against before it looks why.     *)
NothingRead ==
  /\ pc = "read" /\ proc[job] \in {"closed", "ended"}
  /\ compiler[job] \in Pascal /\ Output(job) = {}
  /\ Leave("abort")

(* An error comes before the end of the pipe.                              *)
ReadError ==
  /\ pc = "read"
  /\ \E v \in {"false", "abort"} :
       /\ v = "abort" => compiler[job] \in Pascal
       /\ Leave(v)

(* Mutant: the end of the output is taken for the end of the compiler.     *)
NoPclose ==
  /\ pc = "pclose" /\ pc' = "judge"
  /\ UNCHANGED <<job, compiler, isPas, proc, said, buf, path, exe, verdict, history>>

(* _pclose waits for the compiler.                                         *)
Pclose ==
  /\ pc = "pclose" /\ pc' = "judge"
  /\ proc[job] = "ended"
  /\ UNCHANGED <<job, compiler, isPas, proc, said, buf, path, exe, verdict, history>>

(* The path of the program: from the output of msv, from the command for   *)
(* mingw, and for Pascal by taking four characters off the name, whatever  *)
(* they are: the test before that is for names shorter than five only, and *)
(* the contester's are longer.                                             *)
ExecutablePath ==
  IF compiler[job] \in Pascal /\ ~ isPas[job] THEN "na.exe"
                                              ELSE Target(compiler[job])

JudgeOutput ==
  /\ pc = "judge"
  /\ LET v == Says(compiler[job], buf) IN
       \/ /\ v = "true"
          /\ verdict' = [verdict EXCEPT ![job] = "true"]
          /\ path' = ExecutablePath
          /\ pc' = "tests" /\ UNCHANGED <<job, buf>>
       \/ v # "true" /\ Refuse(v)
  /\ UNCHANGED <<compiler, isPas, proc, said, exe, history>>

(* The tests are over, and the checker ends.                               *)
EndTests ==
  /\ pc = "tests"
  /\ NextJob
  /\ UNCHANGED <<compiler, isPas, proc, said, exe, verdict, history>>

Build == Popen \/ ReadOutput \/ NothingRead \/ Pclose \/ JudgeOutput \/ EndTests

Next ==
  \/ Build \/ ReadError
  \/ \E j \in Jobs : PrintWord(j) \/ Unlink(j) \/ Link(j) \/ Close(j) \/ End(j)

Spec == Init /\ [][Next]_vars

(* The builder goes on unless it waits for a compiler.  Compilers owe      *)
(* nothing, and pipes no errors.                                           *)
FairSpec == Spec /\ WF_vars(Build)

-----------------------------------------------------------------------------
(* Properties.                                                             *)

(* A build that is judged to have succeeded has, and one judged to have    *)
(* failed has not, unless its output was given up.                         *)
VerdictIsBuild ==
  \A j \in Jobs :
    /\ verdict[j] = "true" => j \in built
    /\ verdict[j] \in {"false", "abort"} => j \notin built \/ j \in left

(* While the tests are run, the executable file is the solution's program, *)
(* although others of that name were there and may have been left when     *)
(* their builds failed.  There are two exceptions.  A compiler that was    *)
(* left running, and was still there when this program was linked, may     *)
(* replace it; and a Pascal source whose name does not end with .pas has   *)
(* its program elsewhere, which is a crash in every test but never         *)
(* somebody else's program.                                                *)
OwnExecutable ==
  pc = "tests" =>
    \/ exe[path] = job
    \/ job \in overtaken /\ exe[path] \in left \union {NoFile}
    \/ compiler[job] \in Pascal /\ ~ isPas[job] /\ exe[path] = NoFile

CompilersEnd == \A j \in Jobs : Alive(j) ~> ~ Alive(j)

(* A compiler that does not end is the only thing that can hold up the     *)
(* builder, and with it, as there is no time limit, the checker and the    *)
(* daemon: not one that prints nothing, or closes its output long before.  *)
BuildsEnd == CompilersEnd => \A j \in Jobs : <>(verdict[j] # "none")

=============================================================================
