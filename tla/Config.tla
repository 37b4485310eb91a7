------------------------------- MODULE Config -------------------------------
(***************************************************************************)
(* The way of a task's numbers and of a solution's language through both   *)
(* programs: columns of the database, members of the daemon's structs,     *)
(* solution.json, members of the checker's structs, the report.  Integers  *)
(* change their width and their sign on the way: long long in db::stoi,    *)
(* int or unsigned long long in the structs, 64 bits in the file, size_t   *)
(* (32 bits) in the checker.  contester.cfg, read when the daemon starts,  *)
(* says what the languages are; a language that is not there is put there, *)
(* with nothing in it, by the look-up.                                     *)
(*                                                                         *)
(* Every test of a task goes the same way: one of them is followed here.   *)
(***************************************************************************)
EXTENDS Integers, Sequences

CONSTANTS
  Half,          \* an int has values -Half .. Half - 1 (2^31)
  Wide,          \* a long long has values -Wide .. Wide - 1 (2^63)
  Limits, Ids, Scores,   \* what the columns may hold
  CppCompilers, PasCompilers,   \* the compilers that builder.cpp knows
  Languages,     \* identifiers of languages, these and others
  Extensions,    \* of source files
  Configs,       \* what contester.cfg may say: sequences of entries
  Nothing        \* no member, no file, no report

Word == 2 * Half
Huge == 2 * Wide

(* The places of $1 and $2 in a compiler's command.                        *)
Templates == SUBSET {"$1", "$2"}

ASSUME ConstantsAssumption ==
  /\ Half \in Nat \ {0}
  /\ Wide \in Nat \ {0} /\ Wide % Word = 0
  /\ Limits \subseteq Int /\ Ids \subseteq Int /\ Scores \subseteq Int
  /\ CppCompilers \union PasCompilers \subseteq Languages
  /\ CppCompilers \intersect PasCompilers = {}
  /\ "" \in Extensions
  /\ Configs \subseteq
       Seq([id : Languages, compiler : Templates, ext : Extensions])

VARIABLES
  langs,     \* what contester.cfg says
  i,         \* the entry of it at hand
  clngs,     \* checker::clngs
  scores,    \* the column of that name in checkertests
  pc,        \* what is done next
  row,       \* the solution's row and its task's: limits, test, language
  sol,       \* what the daemon made of them
  cfg,       \* solution.json, and the name of the source beside it
  prob,      \* what the checker made of these
  out        \* the report

vars == <<langs, i, clngs, scores, pc, row, sol, cfg, prob, out>>

LongLong == -Wide .. Wide - 1

(* Conversion to int, unsigned long long and size_t.                       *)
Int32(x) == ((x + Half) % Word) - Half

Uint64(x) == x % Huge

Uint32(x) == x % Word

(* What operator[] of the map puts in.                                     *)
NoEntry == [cmd |-> {}, ext |-> ""]

Maps == UNION {[L -> [cmd : Templates, ext : Extensions]] : L \in SUBSET Languages}

Rows == [time : Limits, memory : Limits, test : Ids, lang : Languages]

Settings(limits, ids) ==
  [time : limits, memory : limits, id : ids, score : Int, lang : Languages,
   cmd : Templates, ext : Extensions]

Reports ==
  [result : {"ok", "bad", "tle", "mle", "crash"}, id : 0 .. Word - 1,
   time : 0 .. Word - 1, memory : 0 .. Word - 1, score : Int]

TypeOK ==
  /\ langs \in Configs /\ i \in Nat \ {0}
  /\ clngs \in Maps
  /\ scores \in [Ids -> Scores]
  /\ pc \in {"start", "langs", "poll", "write", "read", "parse", "run", "save"}
  /\ row \in Rows \union {Nothing}
  /\ pc = "write" => sol \in Settings(0 .. Huge - 1, Int)
  /\ pc = "read" => cfg \in Settings(0 .. Huge - 1, 0 .. Huge - 1)
  /\ pc \in {"parse", "run"} => prob \in Settings(0 .. Word - 1, 0 .. Word - 1)
  /\ pc = "save" => out \in Reports

Init ==
  /\ langs \in Configs /\ i = 1
  /\ clngs = [l \in {} |-> NoEntry]
  /\ scores \in [Ids -> Scores]
  /\ pc = "start"
  /\ row = Nothing /\ sol = Nothing /\ cfg = Nothing
  /\ prob = Nothing /\ out = Nothing

-----------------------------------------------------------------------------
(* The solution is done with, and the next one is next.                    *)
EndSolution(next) ==
  /\ pc' = next
  /\ row' = Nothing /\ sol' = Nothing /\ cfg' = Nothing
  /\ prob' = Nothing /\ out' = Nothing

(* An exception that main catches, or a checker_assert, ends a solution;   *)
(* one of the standard library ends the daemon, and it is started again.   *)
Throw == EndSolution("poll")
Abort == EndSolution("poll")
Terminate == EndSolution("start")

(* read_config.                                                            *)
ReadConfig ==
  /\ pc = "start"
  /\ langs' \in Configs /\ i' = 1
  /\ clngs' = [l \in {} |-> NoEntry]
  /\ pc' = "langs"
  /\ UNCHANGED <<scores, row, sol, cfg, prob, out>>

(* Its loop; of two entries with one id the second one stays.              *)
ReadLanguage ==
  /\ pc = "langs"
  /\ \/ /\ i <= Len(langs)
        /\ clngs' = [l \in DOMAIN clngs \union {langs[i].id} |->
                       IF l = langs[i].id
                       THEN [cmd |-> langs[i].compiler, ext |-> langs[i].ext]
                       ELSE clngs[l]]
        /\ i' = i + 1 /\ UNCHANGED pc
     \/ i > Len(langs) /\ pc' = "poll" /\ UNCHANGED <<clngs, i>>
  /\ UNCHANGED <<langs, scores, row, sol, cfg, prob, out>>

-----------------------------------------------------------------------------
(* clngs[l], after which l is in the map.                                  *)
LookUp(l) == IF l \in DOMAIN clngs THEN clngs[l] ELSE NoEntry

Inserted(l) == [k \in DOMAIN clngs \union {l} |-> LookUp(k)]

(* The constructors of the row structs, and of checker.  The test is asked *)
(* for by the int that its id became.                                      *)
LoadSolution ==
  /\ pc = "poll"
  /\ \E r \in Rows :
       LET id == Int32(r.test) IN
         \/ {r.time, r.memory, r.test} \subseteq LongLong /\ id \in Ids
            /\ scores[id] \in LongLong
            /\ pc' = "write"
            /\ row' = r
            /\ sol' = [time |-> Uint64(r.time), memory |-> Uint64(r.memory),
                       id |-> id, score |-> Int32(scores[id]), lang |-> r.lang,
                       cmd |-> {}, ext |-> LookUp(r.lang).ext]
            /\ clngs' = Inserted(r.lang)
            /\ UNCHANGED <<cfg, prob, out>>
         \/ {r.time, r.memory, r.test} \subseteq LongLong /\ id \notin Ids
            /\ Throw /\ UNCHANGED clngs
         \/ \/ ~ {r.time, r.memory, r.test} \subseteq LongLong
            \/ id \in Ids /\ scores[id] \notin LongLong
            /\ Terminate /\ UNCHANGED clngs
  /\ UNCHANGED <<langs, i, scores>>

(* create_cfg_json.                                                        *)
CreateCfgJson ==
  /\ pc = "write" /\ pc' = "read"
  /\ cfg' = [sol EXCEPT !.id = Uint64(sol.id), !.cmd = LookUp(sol.lang).cmd]
  /\ clngs' = Inserted(sol.lang)
  /\ UNCHANGED <<langs, i, scores, row, sol, prob, out>>

(* Mutant: the ids are not taken down to a size_t.                         *)
ReadMainConfigWide ==
  /\ pc = "read"
  /\ \/ {cfg.time, cfg.memory} \subseteq 0 .. Word - 1
        /\ pc' = "parse" /\ prob' = cfg
        /\ UNCHANGED <<row, sol, cfg, out>>
     \/ ~ {cfg.time, cfg.memory} \subseteq 0 .. Word - 1 /\ Abort
  /\ UNCHANGED <<langs, i, clngs, scores>>

(* Mutant: limits are read without asking IsUint.                          *)
ReadMainConfigUnasked ==
  /\ pc = "read"
  /\ pc' = "parse"
  /\ prob' = [cfg EXCEPT !.time = Uint32(cfg.time),
                         !.memory = Uint32(cfg.memory), !.id = Uint32(cfg.id)]
  /\ UNCHANGED <<langs, i, clngs, scores, row, sol, cfg, out>>

(* read_main_config: a limit has to be an unsigned int, an id need not.    *)
ReadMainConfig ==
  /\ pc = "read"
  /\ \/ {cfg.time, cfg.memory} \subseteq 0 .. Word - 1
        /\ pc' = "parse"
        /\ prob' = [cfg EXCEPT !.id = Uint32(cfg.id)]
        /\ UNCHANGED <<row, sol, cfg, out>>
     \/ ~ {cfg.time, cfg.memory} \subseteq 0 .. Word - 1 /\ Abort
  /\ UNCHANGED <<langs, i, clngs, scores>>

(* The places that a compiler's command must have.                         *)
Needed(l) == IF l \in CppCompilers THEN {"$1", "$2"} ELSE {"$1"}

(* Mutant: a command without places is run as it is.                       *)
ParseCompilerConfigAsIs ==
  /\ pc = "parse"
  /\ \/ prob.lang \in CppCompilers \union PasCompilers /\ pc' = "run"
        /\ UNCHANGED <<row, sol, cfg, prob, out>>
     \/ prob.lang \notin CppCompilers \union PasCompilers /\ Abort
  /\ UNCHANGED <<langs, i, clngs, scores>>

(* build_from_source begins: the command is made, and the compiler run.    *)
ParseCompilerConfig ==
  /\ pc = "parse"
  /\ \/ /\ prob.lang \in CppCompilers \union PasCompilers
        /\ Needed(prob.lang) \subseteq prob.cmd
        /\ pc' = "run" /\ UNCHANGED <<row, sol, cfg, prob, out>>
     \/ /\ \/ prob.lang \notin CppCompilers \union PasCompilers
           \/ ~ Needed(prob.lang) \subseteq prob.cmd
        /\ Abort
  /\ UNCHANGED <<langs, i, clngs, scores>>

-----------------------------------------------------------------------------
(* What the executor may return, by what its module shows of it.           *)
Requests ==
  {q \in [correct : {"CORRECT", "TLE", "MLE", "CRASH"},
          time : 0 .. Word - 1, memory : 0 .. Word - 1] :
     /\ q.correct \in {"CORRECT", "MLE"} => q.time <= prob.time
     /\ q.correct \in {"CORRECT", "TLE"} => q.memory <= prob.memory}

Element(result, time, memory, score) ==
  [result |-> result, id |-> prob.id, time |-> Uint32(time),
   memory |-> Uint32(memory), score |-> score]

(* Mutant: a wrong answer is worth as much as a right one.                 *)
ElementOf(q, matches) ==
  CASE q.correct = "CORRECT" ->
         Element(IF matches THEN "ok" ELSE "bad", q.time, q.memory, prob.score)
    [] q.correct = "TLE" -> Element("tle", -1, q.memory, 0)
    [] q.correct = "MLE" -> Element("mle", q.time, -1, 0)
    [] OTHER -> Element("crash", -1, -1, 0)

(* Mutant: the time of a test over the memory limit is left out as well.   *)
ElementNoTime(q, matches) ==
  CASE q.correct = "CORRECT" /\ matches ->
         Element("ok", q.time, q.memory, prob.score)
    [] q.correct = "CORRECT" /\ ~ matches ->
         Element("bad", q.time, q.memory, 0)
    [] q.correct = "TLE" -> Element("tle", -1, q.memory, 0)
    [] q.correct = "MLE" -> Element("mle", -1, -1, 0)
    [] OTHER -> Element("crash", -1, -1, 0)

(* The switch of check().                                                  *)
ElementFor(q, matches) ==
  CASE q.correct = "CORRECT" /\ matches ->
         Element("ok", q.time, q.memory, prob.score)
    [] q.correct = "CORRECT" /\ ~ matches ->
         Element("bad", q.time, q.memory, 0)
    [] q.correct = "TLE" -> Element("tle", -1, q.memory, 0)
    [] q.correct = "MLE" -> Element("mle", q.time, -1, 0)
    [] OTHER -> Element("crash", -1, -1, 0)

Check ==
  /\ pc = "run" /\ pc' = "save"
  /\ \E q \in Requests, matches \in BOOLEAN : out' = ElementFor(q, matches)
  /\ UNCHANGED <<langs, i, clngs, scores, row, sol, cfg, prob>>

(* serizlize, and save_result_to_db.                                       *)
SaveReport ==
  /\ pc = "save"
  /\ EndSolution("poll")
  /\ UNCHANGED <<langs, i, clngs, scores>>

Next ==
  \/ ReadConfig \/ ReadLanguage \/ LoadSolution \/ CreateCfgJson
  \/ ReadMainConfig \/ ParseCompilerConfig \/ Check \/ SaveReport

Spec == Init /\ [][Next]_vars

-----------------------------------------------------------------------------
(* Properties.                                                             *)

(* A program is run under the limits that the table has, or not at all: a  *)
(* limit that does not fit into 32 bits, or is below zero, ends in an      *)
(* assert, whichever of the four conversions it is changed by.             *)
LimitsKept ==
  pc = "run" => prob.time = row.time /\ prob.memory = row.memory

(* A program is compiled by the command that contester.cfg has for the     *)
(* solution's language, last of all, and with the places for its names,    *)
(* whatever was looked up, and thereby put into the map, before.           *)
ConfiguredLanguage ==
  pc = "run" =>
    \E n \in 1 .. Len(langs) :
      /\ langs[n].id = row.lang
      /\ langs[n].compiler = prob.cmd /\ langs[n].ext = prob.ext
      /\ "$1" \in prob.cmd
      /\ row.lang \in CppCompilers => "$2" \in prob.cmd
      /\ \A m \in n + 1 .. Len(langs) : langs[m].id # row.lang

(* The web site finds the test of a result: its id, taken for an int, is   *)
(* the id of a row, that of the test meant wherever it is an int; and a    *)
(* result has the points of that row, if it is ok, or none.                *)
PointsOfTest ==
  pc = "save" =>
    LET id == Int32(out.id) IN
      /\ id \in Ids
      /\ row.test \in -Half .. Half - 1 => id = row.test
      /\ out.score = IF out.result = "ok" THEN Int32(scores[id]) ELSE 0

(* A time or a memory in a report is within the limit of the task; where   *)
(* there is none to tell it is 2^32 - 1, so that above the limit there is  *)
(* nothing else, and that only in the results the code has it for.         *)
UsageWithinLimits ==
  pc = "save" =>
    /\ out.result \in {"ok", "bad", "mle"} => out.time <= row.time
    /\ out.result \in {"ok", "bad", "tle"} => out.memory <= row.memory
    /\ out.result \in {"tle", "crash"} => out.time = Word - 1
    /\ out.result \in {"mle", "crash"} => out.memory = Word - 1

=============================================================================
