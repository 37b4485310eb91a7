---------------------------- MODULE ConfigProofs ----------------------------
(***************************************************************************)
(* Theorems about Config, for every width of int and long long, whatever   *)
(* the columns hold and contester.cfg says.                                *)
(***************************************************************************)
EXTENDS Config, TLAPS

-----------------------------------------------------------------------------
(* Arithmetic.                                                             *)

LEMMA HalfWide ==
  Half \in Nat \ {0} /\ Wide \in Nat \ {0} /\ Wide % Word = 0
BY Zenon, ConstantsAssumption

LEMMA DivMod ==
  ASSUME NEW m \in Nat \ {0}, NEW x \in Int
  PROVE  /\ x \div m \in Int
         /\ x = m * (x \div m) + (x % m)
         /\ x % m \in 0 .. m - 1
OBVIOUS

LEMMA Multiple ==
  ASSUME NEW m \in Nat \ {0}, NEW q \in Int, NEW r \in 0 .. m - 1
  PROVE  (m * q + r) % m = r
<1> DEFINE x == m * q + r
           d == x \div m
           e == q - d
<1>1. m * q \in Int
  OBVIOUS
<1>2. x \in Int
  BY <1>1
<1>3. d \in Int /\ x = m * d + (x % m) /\ x % m \in 0 .. m - 1
  BY <1>2, DivMod
<1>4. e \in Int /\ m * e = (x % m) - r
  BY <1>3, <1>1
<1> HIDE DEF x, d, e
<1>5. e = 0
  <2>1. m * e < m /\ m * e > -m
    BY <1>3, <1>4
  <2>2. CASE e >= 1   BY <2>1, <2>2, <1>4
  <2>3. CASE e <= -1  BY <2>1, <2>3, <1>4
  <2> QED BY <1>4, <2>2, <2>3
<1>6. x % m = r
  BY <1>4, <1>5, <1>3
<1> QED BY <1>6 DEF x

LEMMA Widths ==
  /\ Word \in Nat \ {0} /\ Huge \in Nat \ {0} /\ Wide \in Nat \ {0}
  /\ Word <= Wide
  /\ \E k \in Int : Huge = Word * k
<1>1. Word \in Nat \ {0} /\ Huge \in Nat \ {0} /\ Wide \in Nat \ {0}
  BY HalfWide DEF Word, Huge
<1>2. PICK k \in Int : Wide = Word * k
  <2>1. Wide = Word * (Wide \div Word) + (Wide % Word) /\ Wide \div Word \in Int
    BY <1>1, DivMod
  <2>2. Wide = Word * (Wide \div Word)
    BY <2>1, <1>1, HalfWide
  <2> QED BY <2>1, <2>2
<1>3. Word <= Wide
  BY <1>1, <1>2, HalfWide
<1>4. Huge = Word * (2 * k)
  BY <1>1, <1>2 DEF Huge
<1> QED BY <1>1, <1>2, <1>3, <1>4

LEMMA Ranges ==
  ASSUME NEW x \in Int
  PROVE  /\ Int32(x) \in -Half .. Half - 1
         /\ Uint64(x) \in 0 .. Huge - 1
         /\ Uint32(x) \in 0 .. Word - 1
<1>1. (x + Half) % Word \in 0 .. Word - 1
  BY Widths, DivMod, HalfWide
<1>2. Int32(x) \in -Half .. Half - 1
  BY <1>1, HalfWide DEF Int32, Word
<1>3. Uint64(x) \in 0 .. Huge - 1 /\ Uint32(x) \in 0 .. Word - 1
  BY Widths, DivMod DEF Uint64, Uint32
<1> QED BY <1>2, <1>3

(* A limit that is a size_t after the conversion was one before it.        *)
LEMMA LimitRecovers ==
  ASSUME NEW x \in LongLong, Uint64(x) \in 0 .. Word - 1
  PROVE  Uint64(x) = x
<1>1. CASE x >= 0
  BY <1>1, Widths DEF Uint64, LongLong, Huge
<1>2. CASE x < 0
  <2>1. Huge * (-1) + (x + Huge) = x /\ x + Huge \in 0 .. Huge - 1
    BY <1>2, Widths DEF LongLong, Huge
  <2>2. Uint64(x) = x + Huge
    BY <2>1, Widths, Multiple DEF Uint64
  <2> QED BY <2>2, Widths DEF LongLong, Huge
<1> QED BY <1>1, <1>2 DEF LongLong

LEMMA Int32Same ==
  ASSUME NEW x \in -Half .. Half - 1
  PROVE  Int32(x) = x
<1>1. x + Half \in 0 .. Word - 1
  BY HalfWide DEF Word
<1> QED BY <1>1, Widths, HalfWide DEF Int32

(* An int is the same again after the file and the size_t.                 *)
LEMMA IdRecovers ==
  ASSUME NEW x \in -Half .. Half - 1
  PROVE  Int32(Uint32(Uint64(x))) = x
<1> DEFINE a == x % Huge
           b == a % Word
<1>1. PICK k \in Int : Huge = Word * k
  BY Widths
<1>2. x \in Int /\ a \in Int /\ b \in 0 .. Word - 1
  BY Ranges, HalfWide DEF Uint64, Uint32
<1>3. PICK p \in Int : x = Huge * p + a
  BY <1>2, Widths, DivMod
<1>4. PICK q \in Int : a = Word * q + b
  BY <1>2, Widths, DivMod
<1> DEFINE r == k * p + q
<1>5. r \in Int
  OBVIOUS
<1>6. x = Word * r + b
  <2>1. Huge * p = Word * (k * p)
    BY <1>1, Widths
  <2> QED BY <2>1, <1>3, <1>4, Widths, <1>2
<1> HIDE DEF r, a, b
<1>7. b + Half = Word * (-r) + (x + Half)
  BY <1>5, <1>6, <1>2, Widths, HalfWide
<1>8. x + Half \in 0 .. Word - 1
  BY HalfWide DEF Word
<1>9. (b + Half) % Word = x + Half
  <2>1. -r \in Int
    BY <1>5
  <2>2. (Word * (-r) + (x + Half)) % Word = x + Half
    BY <2>1, <1>8, Widths, Multiple
  <2> QED BY <2>2, <1>7
<1>10. Int32(b) = x
  BY <1>9, <1>2, HalfWide DEF Int32
<1> QED BY <1>10 DEF Uint32, Uint64, a, b

-----------------------------------------------------------------------------
(* The invariant.                                                          *)

(* An entry of the map is one of contester.cfg, the last for its language  *)
(* among those that were read, or it was put there by a look-up.           *)
Configured(l) ==
  \E n \in 1 .. Len(langs) :
    /\ n < i /\ langs[n].id = l
    /\ langs[n].compiler = clngs[l].cmd /\ langs[n].ext = clngs[l].ext
    /\ \A m \in n + 1 .. Len(langs) : m < i => langs[m].id # l

MapInv ==
  /\ \A l \in DOMAIN clngs : clngs[l] = NoEntry \/ Configured(l)
  /\ pc \notin {"start", "langs"} => i > Len(langs)

(* The numbers, at each stage, are those of the row, converted.            *)
RowInv ==
  pc \in {"write", "read", "parse", "run", "save"} =>
    /\ row \in Rows /\ row.lang \in DOMAIN clngs
    /\ row.time \in LongLong /\ row.memory \in LongLong
    /\ Int32(row.test) \in Ids

SolInv ==
  pc = "write" =>
    /\ sol.time = Uint64(row.time) /\ sol.memory = Uint64(row.memory)
    /\ sol.id = Int32(row.test) /\ sol.score = Int32(scores[sol.id])
    /\ sol.lang = row.lang /\ sol.ext = clngs[row.lang].ext

CfgInv ==
  pc = "read" =>
    /\ cfg.time = Uint64(row.time) /\ cfg.memory = Uint64(row.memory)
    /\ cfg.id = Uint64(Int32(row.test))
    /\ cfg.score = Int32(scores[Int32(row.test)])
    /\ cfg.lang = row.lang /\ cfg.ext = clngs[row.lang].ext
    /\ cfg.cmd = clngs[row.lang].cmd

ProbInv ==
  pc \in {"parse", "run"} =>
    /\ prob.time = row.time /\ prob.memory = row.memory
    /\ prob.id = Uint32(Uint64(Int32(row.test)))
    /\ prob.score = Int32(scores[Int32(row.test)])
    /\ prob.lang = row.lang /\ prob.ext = clngs[row.lang].ext
    /\ prob.cmd = clngs[row.lang].cmd

RunInv == pc = "run" => Needed(row.lang) \subseteq prob.cmd

(* The report is about the row's test, and within its limits.              *)
OutInv == PointsOfTest /\ UsageWithinLimits

IInv ==
  /\ TypeOK /\ MapInv /\ RowInv /\ SolInv /\ CfgInv /\ ProbInv
  /\ RunInv /\ OutInv

LEMMA Constants ==
  /\ Limits \subseteq Int /\ Ids \subseteq Int /\ Scores \subseteq Int
  /\ "" \in Extensions
  /\ \A c \in Configs :
       /\ Len(c) \in Nat
       /\ \A n \in 1 .. Len(c) :
            c[n] \in [id : Languages, compiler : Templates, ext : Extensions]
<1>1. /\ Limits \subseteq Int /\ Ids \subseteq Int /\ Scores \subseteq Int
      /\ "" \in Extensions
      /\ Configs \subseteq
            Seq([id : Languages, compiler : Templates, ext : Extensions])
  BY Zenon, ConstantsAssumption
<1>2. ASSUME NEW c \in Configs
      PROVE  /\ Len(c) \in Nat
             /\ \A n \in 1 .. Len(c) :
                  c[n] \in [id : Languages, compiler : Templates, ext : Extensions]
  <2> DEFINE E == [id : Languages, compiler : Templates, ext : Extensions]
  <2>1. c \in Seq(E)
    BY <1>1
  <2> HIDE DEF E
  <2>2. Len(c) \in Nat /\ \A n \in 1 .. Len(c) : c[n] \in E
    BY <2>1
  <2> QED BY <2>2 DEF E
<1> QED BY Zenon, <1>1, <1>2

(* The type of the map.                                                    *)
Entries == [cmd : Templates, ext : Extensions]

MapType(f) ==
  /\ DOMAIN f \subseteq Languages
  /\ f \in [DOMAIN f -> Entries]

LEMMA MapTyped ==
  ASSUME NEW f
  PROVE  f \in Maps <=> MapType(f)
BY DEF MapType, Maps, Entries

LEMMA NoEntryTyped == NoEntry \in Entries
BY Constants DEF NoEntry, Entries, Templates

LEMMA InitIInv == Init => IInv
<1> SUFFICES ASSUME Init PROVE IInv
  OBVIOUS
<1>1. MapType(clngs)
  BY DEF Init, MapType
<1>2. clngs \in Maps
  BY <1>1, MapTyped
<1>3. TypeOK
  BY <1>2 DEF Init, TypeOK
<1> QED BY <1>3 DEF Init, IInv, MapInv, RowInv, SolInv, CfgInv, ProbInv, RunInv,
     OutInv, PointsOfTest, UsageWithinLimits

(* A solution that ended, in one way or another, leaves only the map.      *)
LEMMA EndKeeps ==
  ASSUME IInv, NEW next \in {"poll", "start"}, EndSolution(next),
         pc \notin {"start", "langs"},
         UNCHANGED <<langs, i, clngs, scores>>
  PROVE  IInv'
BY DEF IInv, EndSolution, TypeOK, MapInv, Configured, RowInv, SolInv, CfgInv,
   ProbInv, RunInv, OutInv, PointsOfTest, UsageWithinLimits

LEMMA ReadConfigKeeps ==
  ASSUME IInv, ReadConfig
  PROVE  IInv'
<1>1. MapType(clngs')
  BY DEF ReadConfig, MapType
<1>2. clngs' \in Maps
  BY <1>1, MapTyped
<1>3. TypeOK'
  BY <1>2 DEF IInv, ReadConfig, TypeOK
<1> QED BY <1>3 DEF IInv, ReadConfig, MapInv, RowInv, SolInv, CfgInv, ProbInv, RunInv,
     OutInv, PointsOfTest, UsageWithinLimits

LEMMA ReadLanguageKeeps ==
  ASSUME IInv, ReadLanguage
  PROVE  IInv'
<1> USE DEF IInv, RowInv, SolInv, CfgInv, ProbInv, RunInv, OutInv, PointsOfTest,
        UsageWithinLimits
<1>0. MapType(clngs) /\ langs \in Configs /\ i \in Nat /\ Len(langs) \in Nat
  BY MapTyped, Constants DEF TypeOK
<1>1. CASE i > Len(langs) /\ pc' = "poll" /\ UNCHANGED <<clngs, i>>
  BY <1>0, <1>1 DEF ReadLanguage, TypeOK, MapInv, Configured
<1>2. CASE i <= Len(langs) /\ UNCHANGED pc
  <2> DEFINE new == [cmd |-> langs[i].compiler, ext |-> langs[i].ext]
  <2>1. i > 0 => langs[i] \in [id : Languages, compiler : Templates, ext : Extensions]
    <3>1. i > 0 => i \in 1 .. Len(langs)
      BY <1>0, <1>2
    <3> QED BY Zenon, <3>1, <1>0, Constants
  <2>2. /\ clngs' = [l \in DOMAIN clngs \union {langs[i].id} |->
                      IF l = langs[i].id THEN new ELSE clngs[l]]
        /\ i' = i + 1 /\ langs' = langs /\ pc = "langs" /\ pc' = "langs"
        /\ UNCHANGED <<scores, row, sol, cfg, prob, out>>
    BY <1>0, <1>2 DEF ReadLanguage
  <2>3. i > 0
    BY DEF TypeOK
  <2>4. MapType(clngs')
    BY <1>0, <2>1, <2>2, <2>3 DEF MapType, Entries
  <2>5. TypeOK'
    <3>1. clngs' \in Maps
      BY <2>4, MapTyped
    <3> QED BY <3>1, <2>2, <1>0 DEF TypeOK
  <2>6. ASSUME NEW l \in DOMAIN clngs'
        PROVE  clngs'[l] = NoEntry \/ Configured(l)'
    <3>1. CASE l = langs[i].id
      BY <3>1, <2>2, <2>3, <1>0, <1>2 DEF Configured
    <3>2. CASE l # langs[i].id /\ clngs[l] = NoEntry
      BY <3>2, <2>2, <2>6
    <3>3. CASE l # langs[i].id /\ Configured(l)
      <4>1. PICK n \in 1 .. Len(langs) :
              /\ n < i /\ langs[n].id = l
              /\ langs[n].compiler = clngs[l].cmd /\ langs[n].ext = clngs[l].ext
              /\ \A m \in n + 1 .. Len(langs) : m < i => langs[m].id # l
        BY <3>3 DEF Configured
      <4>2. clngs'[l] = clngs[l]
        BY <3>3, <2>2, <2>6
      <4>3. \A m \in n + 1 .. Len(langs) : m < i + 1 => langs[m].id # l
        <5> SUFFICES ASSUME NEW m \in n + 1 .. Len(langs), m < i + 1 PROVE langs[m].id # l
          OBVIOUS
        <5>1. m < i \/ m = i
          BY <1>0
        <5> QED BY <5>1, <4>1, <3>3
      <4> QED BY <4>1, <4>2, <4>3, <2>2, <1>0 DEF Configured
    <3>4. l # langs[i].id => l \in DOMAIN clngs
      BY <2>2, <2>6
    <3> QED BY <3>1, <3>2, <3>3, <3>4 DEF MapInv
  <2>7. MapInv'
    BY <2>2, <2>6 DEF MapInv
  <2> QED BY <2>2, <2>5, <2>7
<1> QED BY <1>1, <1>2 DEF ReadLanguage

(* A look-up leaves the entries that are there alone.                      *)
LEMMA InsertedKeeps ==
  ASSUME IInv, NEW lang \in Languages, clngs' = Inserted(lang),
         pc \notin {"start", "langs"}, pc' \notin {"start", "langs"},
         UNCHANGED <<langs, i>>
  PROVE  /\ MapType(clngs') /\ MapInv'
         /\ lang \in DOMAIN clngs' /\ clngs'[lang] = LookUp(lang)
         /\ LookUp(lang) \in Entries
<1>1. MapType(clngs) /\ MapInv
  BY MapTyped DEF IInv, TypeOK
<1>2. /\ DOMAIN clngs' = DOMAIN clngs \union {lang}
      /\ \A l \in DOMAIN clngs' : clngs'[l] = LookUp(l)
  BY DEF Inserted
<1>3. \A l \in DOMAIN clngs' : LookUp(l) \in Entries
  BY <1>1, NoEntryTyped DEF LookUp, MapType
<1>4. MapType(clngs')
  BY <1>1, <1>2, <1>3 DEF MapType, Inserted
<1>5. ASSUME NEW l \in DOMAIN clngs'
      PROVE  clngs'[l] = NoEntry \/ Configured(l)'
  BY <1>1, <1>2 DEF MapInv, LookUp, Configured
<1>6. MapInv'
  BY <1>1, <1>5 DEF MapInv
<1> QED BY <1>2, <1>3, <1>4, <1>6

LEMMA LoadSolutionKeeps ==
  ASSUME IInv, LoadSolution
  PROVE  IInv'
<1>1. CASE (Throw \/ Terminate) /\ UNCHANGED clngs
  BY <1>1, EndKeeps DEF LoadSolution, Throw, Terminate
<1>2. CASE \E r \in Rows :
             LET id == Int32(r.test) IN
               /\ {r.time, r.memory, r.test} \subseteq LongLong /\ id \in Ids
               /\ pc' = "write"
               /\ row' = r
               /\ sol' = [time |-> Uint64(r.time), memory |-> Uint64(r.memory),
                          id |-> id, score |-> Int32(scores[id]), lang |-> r.lang,
                          cmd |-> {}, ext |-> LookUp(r.lang).ext]
               /\ clngs' = Inserted(r.lang)
               /\ UNCHANGED <<cfg, prob, out>>
  <2>1. PICK r \in Rows :
          /\ {r.time, r.memory, r.test} \subseteq LongLong /\ Int32(r.test) \in Ids
          /\ pc' = "write" /\ row' = r
          /\ sol' = [time |-> Uint64(r.time), memory |-> Uint64(r.memory),
                     id |-> Int32(r.test), score |-> Int32(scores[Int32(r.test)]),
                     lang |-> r.lang, cmd |-> {}, ext |-> LookUp(r.lang).ext]
          /\ clngs' = Inserted(r.lang)
    BY <1>2
  <2>2. r.lang \in Languages /\ r.test \in Int /\ r.time \in Int /\ r.memory \in Int
    BY Constants DEF Rows
  <2>3. /\ pc = "poll" /\ UNCHANGED <<langs, i, scores>>
    BY DEF LoadSolution
  <2>4. /\ MapType(clngs') /\ MapInv'
        /\ r.lang \in DOMAIN clngs' /\ clngs'[r.lang] = LookUp(r.lang)
        /\ LookUp(r.lang) \in Entries
    BY <2>1, <2>2, <2>3, InsertedKeeps
  <2>5. /\ Uint64(r.time) \in 0 .. Huge - 1 /\ Uint64(r.memory) \in 0 .. Huge - 1
        /\ Int32(r.test) \in Int
    BY <2>2, Ranges, HalfWide
  <2>6. Int32(scores[Int32(r.test)]) \in Int
    <3>1. scores[Int32(r.test)] \in Int
      BY <2>1, Constants DEF IInv, TypeOK
    <3> QED BY <3>1, Ranges, HalfWide
  <2>7. sol' \in Settings(0 .. Huge - 1, Int)
    BY <2>1, <2>2, <2>4, <2>5, <2>6 DEF Settings, Entries, Templates
  <2>8. TypeOK'
    BY <2>1, <2>3, <2>4, <2>7, MapTyped DEF IInv, TypeOK
  <2>9. RowInv' /\ SolInv'
    BY <2>1, <2>3, <2>4 DEF RowInv, SolInv
  <2> QED BY <2>1, <2>4, <2>8, <2>9
       DEF IInv, CfgInv, ProbInv, RunInv, OutInv, PointsOfTest, UsageWithinLimits
<1> QED BY <1>1, <1>2 DEF LoadSolution

LEMMA CreateCfgJsonKeeps ==
  ASSUME IInv, CreateCfgJson
  PROVE  IInv'
<1>1. /\ pc = "write" /\ pc' = "read" /\ UNCHANGED <<langs, i, scores, row>>
      /\ cfg' = [sol EXCEPT !.id = Uint64(sol.id), !.cmd = LookUp(sol.lang).cmd]
      /\ clngs' = Inserted(sol.lang)
  BY DEF CreateCfgJson
<1>2. /\ sol \in Settings(0 .. Huge - 1, Int) /\ sol.lang = row.lang
      /\ row.lang \in Languages /\ row.lang \in DOMAIN clngs
  BY <1>1 DEF IInv, TypeOK, RowInv, SolInv, Rows
<1>3. /\ MapType(clngs') /\ MapInv'
      /\ row.lang \in DOMAIN clngs' /\ clngs'[row.lang] = clngs[row.lang]
      /\ LookUp(row.lang) = clngs[row.lang] /\ LookUp(row.lang) \in Entries
  BY <1>1, <1>2, InsertedKeeps DEF LookUp
<1>4. Uint64(sol.id) \in 0 .. Huge - 1
  BY <1>2, Ranges DEF Settings
<1>5. cfg' \in Settings(0 .. Huge - 1, 0 .. Huge - 1)
  BY <1>1, <1>2, <1>3, <1>4 DEF Settings, Entries
<1>6. TypeOK'
  BY <1>1, <1>3, <1>5, MapTyped DEF IInv, TypeOK
<1>7. CfgInv'
  <2>1. /\ cfg'.time = sol.time /\ cfg'.memory = sol.memory /\ cfg'.id = Uint64(sol.id)
        /\ cfg'.score = sol.score /\ cfg'.lang = sol.lang /\ cfg'.ext = sol.ext
        /\ cfg'.cmd = LookUp(sol.lang).cmd
    BY <1>1, <1>2 DEF Settings
  <2> QED BY <2>1, <1>1, <1>2, <1>3 DEF IInv, SolInv, CfgInv
<1>8. RowInv'
  BY <1>1, <1>2, <1>3 DEF IInv, RowInv
<1> QED BY <1>1, <1>3, <1>6, <1>7, <1>8
     DEF IInv, SolInv, ProbInv, RunInv, OutInv, PointsOfTest, UsageWithinLimits

LEMMA ReadMainConfigKeeps ==
  ASSUME IInv, ReadMainConfig
  PROVE  IInv'
<1>1. CASE Abort
  BY <1>1, EndKeeps DEF ReadMainConfig, Abort
<1>2. CASE /\ {cfg.time, cfg.memory} \subseteq 0 .. Word - 1
           /\ pc' = "parse" /\ prob' = [cfg EXCEPT !.id = Uint32(cfg.id)]
           /\ UNCHANGED <<row, sol, cfg, out>>
  <2>1. /\ cfg \in Settings(0 .. Huge - 1, 0 .. Huge - 1) /\ CfgInv /\ RowInv
        /\ pc = "read" /\ UNCHANGED <<langs, i, clngs, scores>>
    BY DEF IInv, TypeOK, ReadMainConfig
  <2>2. cfg.time = row.time /\ cfg.memory = row.memory
    BY <1>2, <2>1, LimitRecovers DEF CfgInv, RowInv
  <2>3. Uint32(cfg.id) \in 0 .. Word - 1
    BY <2>1, Ranges DEF Settings
  <2>4. prob' \in Settings(0 .. Word - 1, 0 .. Word - 1)
    BY <1>2, <2>1, <2>3 DEF Settings
  <2>5. /\ prob'.time = cfg.time /\ prob'.memory = cfg.memory
        /\ prob'.id = Uint32(cfg.id) /\ prob'.score = cfg.score
        /\ prob'.lang = cfg.lang /\ prob'.ext = cfg.ext /\ prob'.cmd = cfg.cmd
    BY <1>2, <2>1 DEF Settings
  <2>6. ProbInv'
    BY <1>2, <2>1, <2>2, <2>5 DEF CfgInv, ProbInv
  <2>7. TypeOK'
    BY <1>2, <2>1, <2>4 DEF IInv, TypeOK
  <2> QED BY <1>2, <2>1, <2>6, <2>7
       DEF IInv, MapInv, Configured, RowInv, SolInv, CfgInv, RunInv, OutInv,
           PointsOfTest, UsageWithinLimits
<1> QED BY <1>1, <1>2 DEF ReadMainConfig

LEMMA ParseCompilerConfigKeeps ==
  ASSUME IInv, ParseCompilerConfig
  PROVE  IInv'
<1>1. CASE Abort
  BY <1>1, EndKeeps DEF ParseCompilerConfig, Abort
<1>2. CASE /\ Needed(prob.lang) \subseteq prob.cmd
           /\ pc' = "run" /\ UNCHANGED <<row, sol, cfg, prob, out>>
  BY <1>2 DEF ParseCompilerConfig, IInv, TypeOK, MapInv, Configured, RowInv, SolInv, CfgInv,
     ProbInv, RunInv, Needed, OutInv, PointsOfTest, UsageWithinLimits
<1> QED BY <1>1, <1>2 DEF ParseCompilerConfig

LEMMA CheckKeeps ==
  ASSUME IInv, Check
  PROVE  IInv'
<1>1. /\ pc = "run" /\ pc' = "save"
      /\ UNCHANGED <<langs, i, clngs, scores, row, sol, cfg, prob>>
  BY DEF Check
<1>2. PICK q \in Requests, matches \in BOOLEAN : out' = ElementFor(q, matches)
  BY DEF Check
<1>3. /\ prob.id \in 0 .. Word - 1 /\ prob.time \in Int /\ prob.memory \in Int
      /\ prob.score \in Int /\ prob.time = row.time /\ prob.memory = row.memory
  BY <1>1, Widths DEF IInv, TypeOK, Settings, ProbInv
<1>4. /\ q.time \in 0 .. Word - 1 /\ q.memory \in 0 .. Word - 1
      /\ q.correct \in {"CORRECT", "TLE", "MLE", "CRASH"}
      /\ q.correct \in {"CORRECT", "MLE"} => q.time <= row.time
      /\ q.correct \in {"CORRECT", "TLE"} => q.memory <= row.memory
  BY <1>3 DEF Requests
<1>5. Uint32(q.time) = q.time /\ Uint32(q.memory) = q.memory
  BY <1>4, Widths DEF Uint32
<1>6. Uint32(-1) = Word - 1
  <2>1. Word * (-1) + (Word - 1) = -1 /\ Word - 1 \in 0 .. Word - 1
    BY Widths
  <2> QED BY <2>1, Widths, Multiple DEF Uint32
<1>7. /\ out'.id = prob.id
      /\ out' \in Reports
      /\ out'.score = IF out'.result = "ok" THEN prob.score ELSE 0
      /\ out'.result \in {"ok", "bad", "mle"} => out'.time <= row.time
      /\ out'.result \in {"ok", "bad", "tle"} => out'.memory <= row.memory
      /\ out'.result \in {"tle", "crash"} => out'.time = Word - 1
      /\ out'.result \in {"mle", "crash"} => out'.memory = Word - 1
  <2>0. Word - 1 \in 0 .. Word - 1
    BY Widths
  <2>1. CASE q.correct = "CORRECT" /\ matches
    <3>1. out' = Element("ok", q.time, q.memory, prob.score)
      BY <2>1, <1>2 DEF ElementFor
    <3> QED BY <3>1, <2>1, <1>3, <1>4, <1>5 DEF Element, Reports
  <2>2. CASE q.correct = "CORRECT" /\ ~ matches
    <3>1. out' = Element("bad", q.time, q.memory, 0)
      BY <2>2, <1>2 DEF ElementFor
    <3> QED BY <3>1, <2>2, <1>3, <1>4, <1>5 DEF Element, Reports
  <2>3. CASE q.correct = "TLE"
    <3>1. out' = Element("tle", -1, q.memory, 0)
      BY <2>3, <1>2 DEF ElementFor
    <3> QED BY <3>1, <2>0, <2>3, <1>3, <1>4, <1>5, <1>6 DEF Element, Reports
  <2>4. CASE q.correct = "MLE"
    <3>1. out' = Element("mle", q.time, -1, 0)
      BY <2>4, <1>2 DEF ElementFor
    <3> QED BY <3>1, <2>0, <2>4, <1>3, <1>4, <1>5, <1>6 DEF Element, Reports
  <2>5. CASE q.correct = "CRASH"
    <3>1. out' = Element("crash", -1, -1, 0)
      BY <2>5, <1>2 DEF ElementFor
    <3> QED BY <3>1, <2>0, <2>5, <1>3, <1>6 DEF Element, Reports
  <2> QED BY <1>4, <2>1, <2>2, <2>3, <2>4, <2>5
<1>8. UsageWithinLimits'
  BY <1>1, <1>7 DEF UsageWithinLimits
<1>9. PointsOfTest'
  <2>1. /\ prob.id = Uint32(Uint64(Int32(row.test)))
        /\ prob.score = Int32(scores[Int32(row.test)])
        /\ row \in Rows /\ Int32(row.test) \in Ids
    BY <1>1 DEF IInv, ProbInv, RowInv
  <2>2. Int32(prob.id) = Int32(row.test)
    BY <2>1, Constants, Ranges, IdRecovers DEF Rows
  <2>3. row.test \in -Half .. Half - 1 => Int32(prob.id) = row.test
    BY <2>2, Int32Same
  <2> QED BY <1>1, <1>7, <2>1, <2>2, <2>3 DEF PointsOfTest
<1>10. TypeOK'
  BY <1>1, <1>7 DEF IInv, TypeOK
<1> QED BY <1>1, <1>8, <1>9, <1>10
     DEF IInv, MapInv, Configured, RowInv, SolInv, CfgInv, ProbInv, RunInv, OutInv

LEMMA SaveReportKeeps ==
  ASSUME IInv, SaveReport
  PROVE  IInv'
BY EndKeeps DEF SaveReport

LEMMA NextIInv == IInv /\ [Next]_vars => IInv'
<1> SUFFICES ASSUME IInv, [Next]_vars PROVE IInv'
  OBVIOUS
<1>1. CASE ReadConfig           BY <1>1, ReadConfigKeeps
<1>2. CASE ReadLanguage         BY <1>2, ReadLanguageKeeps
<1>3. CASE LoadSolution         BY <1>3, LoadSolutionKeeps
<1>4. CASE CreateCfgJson        BY <1>4, CreateCfgJsonKeeps
<1>5. CASE ReadMainConfig       BY <1>5, ReadMainConfigKeeps
<1>6. CASE ParseCompilerConfig  BY <1>6, ParseCompilerConfigKeeps
<1>7. CASE Check                BY <1>7, CheckKeeps
<1>8. CASE SaveReport           BY <1>8, SaveReportKeeps
<1>9. CASE UNCHANGED vars
  BY <1>9 DEF vars, IInv, TypeOK, MapInv, Configured, RowInv, SolInv, CfgInv, ProbInv,
     RunInv, OutInv, PointsOfTest, UsageWithinLimits
<1> QED BY <1>1, <1>2, <1>3, <1>4, <1>5, <1>6, <1>7, <1>8, <1>9 DEF Next

LEMMA Invariance == Spec => []IInv
BY InitIInv, NextIInv, PTL DEF Spec

-----------------------------------------------------------------------------
(* The theorems.                                                           *)

(* Every variable keeps its type: the numbers fit the members they are in. *)
THEOREM TypeCorrect == Spec => []TypeOK
<1>1. IInv => TypeOK
  BY DEF IInv
<1> QED BY <1>1, Invariance, PTL

(* No program is run under limits that the table does not have.            *)
THEOREM LimitsKeptCorrect == Spec => []LimitsKept
<1>1. IInv => LimitsKept
  BY DEF IInv, ProbInv, LimitsKept
<1> QED BY <1>1, Invariance, PTL

(* No program is compiled but as contester.cfg has it for its language.    *)
THEOREM ConfiguredLanguageCorrect == Spec => []ConfiguredLanguage
<1>1. ASSUME IInv, pc = "run" PROVE ConfiguredLanguage
  <2>1. /\ row.lang \in DOMAIN clngs /\ langs \in Configs /\ i \in Nat
        /\ prob.cmd = clngs[row.lang].cmd /\ prob.ext = clngs[row.lang].ext
        /\ Needed(row.lang) \subseteq prob.cmd /\ i > Len(langs)
    BY <1>1 DEF IInv, TypeOK, MapInv, RowInv, ProbInv, RunInv
  <2>2. clngs[row.lang] # NoEntry
    <3>1. "$1" \in clngs[row.lang].cmd
      BY <2>1 DEF Needed
    <3>2. NoEntry.cmd = {}
      BY DEF NoEntry
    <3> QED BY <3>1, <3>2
  <2>3. Configured(row.lang)
    BY <2>1, <2>2, <1>1 DEF IInv, MapInv
  <2>4. Len(langs) \in Nat
    BY <2>1, Constants
  <2>5. "$1" \in prob.cmd /\ (row.lang \in CppCompilers => "$2" \in prob.cmd)
    BY <2>1 DEF Needed
  <2> QED BY <2>1, <2>3, <2>4, <2>5 DEF Configured, ConfiguredLanguage
<1>2. IInv => ConfiguredLanguage
  BY <1>1 DEF ConfiguredLanguage
<1> QED BY <1>2, Invariance, PTL

(* The id in a report leads back to the test, with the points of its row.  *)
THEOREM PointsOfTestCorrect == Spec => []PointsOfTest
<1>1. IInv => PointsOfTest
  BY DEF IInv, OutInv
<1> QED BY <1>1, Invariance, PTL

(* Times and memory in a report are within the limits, or 2^32 - 1.        *)
THEOREM UsageWithinLimitsCorrect == Spec => []UsageWithinLimits
<1>1. IInv => UsageWithinLimits
  BY DEF IInv, OutInv
<1> QED BY <1>1, Invariance, PTL

=============================================================================
