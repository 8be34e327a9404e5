----------------------------- MODULE PagesProofs -----------------------------
(* Proofs about Pages, for any templates, chunk files, plugins and workers. *)
EXTENDS Pages, FiniteSetTheorems, SequenceTheorems, WellFoundedInduction, TLAPS

-----------------------------------------------------------------------------
(* The dictionary only grows, except when a plugin forgets a closure.      *)

DictIsOfClosures ==
  \A n \in DOMAIN dict : dict[n] = [by |-> dict[n].by, does |-> dict[n].does]

LEMMA RegisterKeeps ==
  ASSUME NEW d, NEW who, NEW names
  PROVE  /\ DOMAIN d \subseteq DOMAIN Register(d, who, names)
         /\ \A n \in DOMAIN d : Register(d, who, names)[n] = d[n]
         /\ \A n \in DOMAIN Register(d, who, names) \ DOMAIN d :
              Register(d, who, names)[n] = [by |-> who, does |-> n]
BY DEF Register

(* What makes RunningIsRegistered inductive: a closure runs under the      *)
(* mutex, in a worker that has started, and names what it runs.            *)
Runs(w) == running[w] # NoClosure

RunningInv ==
  /\ main \in Phases
  /\ owner \in Workers \cup {NoOne}
  /\ loc \in [Workers -> Locations]
  /\ DOMAIN running = Workers
  /\ DictIsOfClosures
  /\ main # "serving" => \A w \in Workers : loc[w] = "idle"
  /\ \A w \in Workers : Runs(w) => loc[w] = "closure"
  /\ \A w \in Workers : loc[w] = "closure" => owner = w
  /\ RunningIsRegistered

LEMMA RunningInit == Init => RunningInv
<1> SUFFICES ASSUME Init PROVE RunningInv
  OBVIOUS
<1>1. main \in Phases /\ owner \in Workers \cup {NoOne} /\ loc \in [Workers -> Locations]
  BY DEF Init, Phases, Locations
<1>2. DictIsOfClosures
  BY DEF Init, DictIsOfClosures
<1>3. /\ DOMAIN running = Workers
      /\ \A w \in Workers : ~Runs(w) /\ loc[w] = "idle"
  BY DEF Init, Runs
<1> QED BY <1>1, <1>2, <1>3 DEF RunningInv, RunningIsRegistered, Runs

(* Steps that leave the dictionary and the closures alone. *)
LEMMA RunningSame ==
  ASSUME RunningInv, UNCHANGED <<main, dict, owner, running, loc>>
  PROVE  RunningInv'
BY DEF RunningInv, DictIsOfClosures, Runs, RunningIsRegistered

(* A worker moves, outside of any closure. *)
LEMMA RunningMoves ==
  ASSUME RunningInv, NEW w \in Workers, NEW l \in Locations \ {"closure"},
         main = "serving" \/ l = "idle", loc[w] # "closure",
         loc' = [loc EXCEPT ![w] = l], UNCHANGED <<main, dict, owner, running>>
  PROVE  RunningInv'
<1>1. loc' \in [Workers -> Locations] /\ \A v \in Workers : v # w => loc'[v] = loc[v]
  BY DEF RunningInv
<1>2. \A v \in Workers : (Runs(v)' => loc'[v] = "closure") /\ (loc'[v] = "closure" => owner' = v)
  BY <1>1 DEF RunningInv, Runs
<1>3. main # "serving" => \A v \in Workers : loc'[v] = "idle"
  BY <1>1 DEF RunningInv
<1> QED BY <1>1, <1>2, <1>3 DEF RunningInv, DictIsOfClosures, RunningIsRegistered

LEMMA AdvanceInv ==
  ASSUME RunningInv, NEW from, NEW to \in Phases, NEW who, NEW names, from # "serving",
         Advance(from, to, Register(dict, who, names))
  PROVE  RunningInv'
<1>1. /\ main = from /\ main' = to /\ dict' = Register(dict, who, names)
      /\ UNCHANGED <<owner, loc, running>>
  BY DEF Advance, pageVars
<1>2. \A w \in Workers : loc[w] = "idle"
  BY <1>1 DEF RunningInv
<1>3. \A w \in Workers : ~Runs(w)
  BY <1>2 DEF RunningInv
<1>4. DictIsOfClosures'
  <2> SUFFICES ASSUME NEW n \in DOMAIN dict' PROVE dict'[n] = [by |-> dict'[n].by, does |-> dict'[n].does]
    BY DEF DictIsOfClosures
  <2>1. CASE n \in DOMAIN dict
    BY <1>1, <2>1, RegisterKeeps DEF RunningInv, DictIsOfClosures
  <2>2. CASE n \notin DOMAIN dict
    <3>1. dict'[n] = [by |-> who, does |-> n]
      BY <1>1, <2>2, RegisterKeeps
    <3> QED BY <3>1
  <2> QED BY <2>1, <2>2
<1>5. \A w \in Workers : ~Runs(w)'
  BY <1>1, <1>3 DEF Runs
<1> QED BY <1>1, <1>2, <1>4, <1>5 DEF RunningInv, RunningIsRegistered, Runs

LEMMA EnterInv ==
  ASSUME RunningInv, NEW w \in Workers, EnterClosure(w), main = "serving"
  PROVE  RunningInv'
<1> DEFINE n == Instruction(w).name
           r == [name |-> n, by |-> dict[n].by, does |-> dict[n].does]
<1>1. /\ owner = NoOne /\ owner' = w /\ n \in DOMAIN dict
      /\ running' = [running EXCEPT ![w] = r] /\ loc' = [loc EXCEPT ![w] = "closure"]
      /\ UNCHANGED <<main, dict>>
  BY DEF EnterClosure, mainVars
<1> HIDE DEF n
<1>2. r.name = n /\ r.by = dict[n].by /\ r.does = dict[n].does
  OBVIOUS
<1> HIDE DEF r
<1>3. \A v \in Workers : loc[v] # "closure"
  BY <1>1, PagesAssumption DEF RunningInv
<1>4. \A v \in Workers : ~Runs(v)
  BY <1>3 DEF RunningInv
<1>5. /\ \A v \in Workers : v # w => running'[v] = running[v] /\ loc'[v] = loc[v]
      /\ running'[w] = r /\ loc'[w] = "closure" /\ loc' \in [Workers -> Locations]
      /\ DOMAIN running' = Workers
  BY <1>1 DEF RunningInv, Locations
<1>6. RunningIsRegistered'
  <2>1. \A v \in Workers : v # w => ~Runs(v)'
    BY <1>4, <1>5 DEF Runs
  <2>2. /\ running'[w].name \in DOMAIN dict'
        /\ dict'[running'[w].name] = [by |-> running'[w].by, does |-> running'[w].does]
    BY <1>1, <1>2, <1>5 DEF RunningInv, DictIsOfClosures
  <2> QED BY <2>1, <2>2 DEF RunningIsRegistered, Runs
<1>7. \A v \in Workers : (Runs(v)' => loc'[v] = "closure") /\ (loc'[v] = "closure" => owner' = v)
  BY <1>1, <1>3, <1>4, <1>5 DEF Runs
<1> QED BY <1>1, <1>5, <1>6, <1>7 DEF RunningInv, DictIsOfClosures

LEMMA LeaveInv ==
  ASSUME RunningInv, NEW w \in Workers, LeaveClosure(w), main = "serving"
  PROVE  RunningInv'
<1>1. CASE UNCHANGED <<loc, owner, running>>
  BY <1>1, RunningSame DEF LeaveClosure, mainVars
<1>2. CASE /\ running' = [running EXCEPT ![w] = NoClosure] /\ owner' = NoOne
           /\ loc' = [loc EXCEPT ![w] = "scan"]
  <2>1. loc[w] = "closure" /\ UNCHANGED <<main, dict>>
    BY DEF LeaveClosure, mainVars
  <2>2. /\ \A v \in Workers : v # w => running'[v] = running[v] /\ loc'[v] = loc[v]
        /\ running'[w] = NoClosure /\ loc'[w] = "scan" /\ loc' \in [Workers -> Locations]
        /\ DOMAIN running' = Workers
    BY <1>2 DEF RunningInv, Locations
  <2>3. \A v \in Workers : Runs(v)' => v # w /\ Runs(v)
    BY <2>2 DEF Runs
  <2>4. RunningIsRegistered'
    BY <2>1, <2>2, <2>3 DEF RunningInv, RunningIsRegistered, Runs
  <2>5. \A v \in Workers : ~Runs(v)' /\ loc'[v] # "closure"
    BY <2>1, <2>2, <2>3 DEF RunningInv
  <2> QED BY <1>2, <2>1, <2>2, <2>4, <2>5 DEF RunningInv, DictIsOfClosures
<1> QED BY <1>1, <1>2 DEF LeaveClosure

LEMMA ForgetInv ==
  ASSUME RunningInv, NEW name, ForgetExpander(name)
  PROVE  RunningInv'
<1>1. /\ owner = NoOne /\ dict' = [n \in DOMAIN dict \ {name} |-> dict[n]]
      /\ UNCHANGED <<main, owner, loc, running>>
  BY DEF ForgetExpander, mainVars, pageVars
<1>2. \A w \in Workers : loc[w] # "closure" /\ ~Runs(w) /\ ~Runs(w)'
  BY <1>1, PagesAssumption DEF RunningInv, Runs
<1>3. DictIsOfClosures'
  BY <1>1 DEF RunningInv, DictIsOfClosures
<1> QED BY <1>1, <1>2, <1>3 DEF RunningInv, RunningIsRegistered, Runs

LEMMA RunningStep ==
  ASSUME RunningInv, NEW w \in Workers, Step(w), main = "serving"
  PROVE  RunningInv'
<1> USE DEF mainVars, Locations
<1>1. CASE SendPage(w)
  BY <1>1, RunningMoves DEF SendPage, Scanning
<1>2. CASE CopyLine(w)
  BY <1>2, RunningSame DEF CopyLine
<1>3. CASE FindMarkup(w)
  <2>1. loc[w] = "scan" /\ UNCHANGED <<main, dict, owner, running>>
    BY <1>3 DEF FindMarkup, Scanning
  <2>2. PICK l \in {"scan", "dispatch", "failed"} : loc' = loc \/ loc' = [loc EXCEPT ![w] = l]
    BY <1>3 DEF FindMarkup
  <2>3. CASE loc' = loc
    BY <2>1, <2>3, RunningSame
  <2>4. CASE loc' = [loc EXCEPT ![w] = l]
    BY <2>1, <2>4, RunningMoves
  <2> QED BY <2>2, <2>3, <2>4
<1>4. CASE InvalidInstruction(w)
  BY <1>4, RunningMoves DEF InvalidInstruction
<1>5. CASE UnknownInstruction(w)
  BY <1>5, RunningMoves DEF UnknownInstruction
<1>6. CASE EnterClosure(w)
  BY <1>6, EnterInv
<1>7. CASE LeaveClosure(w)
  BY <1>7, LeaveInv
<1>8. CASE EndPage(w)
  BY <1>8, RunningMoves DEF EndPage
<1> QED BY <1>1, <1>2, <1>3, <1>4, <1>5, <1>6, <1>7, <1>8 DEF Step

LEMMA RunningNext == RunningInv /\ [Next]_vars => RunningInv'
<1> SUFFICES ASSUME RunningInv, [Next]_vars PROVE RunningInv'
  OBVIOUS
<1>1. CASE \E f \in ChunkFiles : AddChunkFile(f)
  BY <1>1, RunningSame DEF AddChunkFile, pageVars
<1>2. CASE InitializeDatabasePlugins
  BY <1>2, AdvanceInv DEF InitializeDatabasePlugins, Phases
<1>3. CASE InitializeTemplates
  BY <1>3, AdvanceInv DEF InitializeTemplates, Phases
<1>4. CASE InitializeWebPlugins
  BY <1>4, AdvanceInv DEF InitializeWebPlugins, Phases
<1>5. ASSUME NEW w \in Workers, Step(w)
      PROVE  RunningInv'
  <2>1. loc[w] # "idle"
    BY <1>5 DEF Step, SendPage, CopyLine, FindMarkup, InvalidInstruction, UnknownInstruction,
       EnterClosure, LeaveClosure, EndPage, Scanning
  <2>2. main = "serving"
    BY <2>1 DEF RunningInv
  <2> QED BY <1>5, <2>2, RunningStep
<1>6. ASSUME NEW w \in Workers, NEW p, NEW codes, BeginPage(w, p, codes)
      PROVE  RunningInv'
  BY <1>6, RunningMoves DEF BeginPage, mainVars, Locations
<1>7. CASE \E name \in DbRegisters \cup WebRegisters : ForgetExpander(name)
  BY <1>7, ForgetInv
<1>8. CASE UNCHANGED vars
  BY <1>8, RunningSame DEF vars, mainVars, pageVars
<1> QED BY <1>1, <1>2, <1>3, <1>4, <1>5, <1>6, <1>7, <1>8 DEF Next, Main

(* Whatever the plugins register and forget while pages are expanded, a    *)
(* closure that runs is the one registered under its name.                 *)
THEOREM PagesRunRegistered == Spec => []RunningIsRegistered
<1>1. RunningInv => RunningIsRegistered
  BY DEF RunningInv
<1> QED BY <1>1, RunningInit, RunningNext, PTL DEF Spec

-----------------------------------------------------------------------------
(* The definitions of chunks *)

LEMMA MergeKeeps ==
  ASSUME NEW map, NEW got, NEW n \in DOMAIN map
  PROVE  n \in DOMAIN Merge(map, got) /\ Merge(map, got)[n] = map[n]
BY DEF Merge

Kept == \A n \in DOMAIN chunkMap : n \in DOMAIN chunkMap' /\ chunkMap'[n] = chunkMap[n]

(* Whatever the files are and in whatever order they are added, a chunk    *)
(* keeps its first definition.                                             *)
THEOREM PagesKeepDefinitions == Spec => DefinitionsKept
<1>1. ASSUME [Next]_vars PROVE [Kept]_vars
  <2>1. ASSUME UNCHANGED chunkMap PROVE Kept
    BY <2>1 DEF Kept
  <2>2. CASE \E f \in ChunkFiles : AddChunkFile(f)
    <3>1. PICK f \in ChunkFiles : AddChunkFile(f)
      BY <2>2
    <3>2. chunkMap' = chunkMap \/ chunkMap' = Merge(chunkMap, Parsed(f))
      BY <3>1 DEF AddChunkFile
    <3> QED BY <2>1, <3>2, MergeKeeps DEF Kept
  <2>3. CASE InitializeDatabasePlugins \/ InitializeTemplates \/ InitializeWebPlugins
    BY <2>1, <2>3 DEF InitializeDatabasePlugins, InitializeTemplates, InitializeWebPlugins, Advance
  <2>4. ASSUME NEW w \in Workers, Step(w)
        PROVE  UNCHANGED chunkMap
    BY <2>4 DEF Step, SendPage, CopyLine, FindMarkup, InvalidInstruction, UnknownInstruction,
       EnterClosure, LeaveClosure, EndPage, mainVars
  <2>5. ASSUME NEW w \in Workers, NEW p, NEW codes, BeginPage(w, p, codes)
        PROVE  UNCHANGED chunkMap
    BY <2>5 DEF BeginPage, mainVars
  <2>6. ASSUME NEW name, ForgetExpander(name)
        PROVE  UNCHANGED chunkMap
    BY <2>6 DEF ForgetExpander, mainVars
  <2> QED BY <1>1, <2>1, <2>2, <2>3, <2>4, <2>5, <2>6 DEF Next, Main
<1> QED BY <1>1, PTL DEF Spec, DefinitionsKept, Kept

-----------------------------------------------------------------------------
(* Facts about natural numbers that the provers do not find: every set of  *)
(* them has a least element, hence induction.                              *)

LEMMA Least ==
  ASSUME NEW S \in SUBSET Nat, S # {}
  PROVE  \E n \in S : \A k \in S : n <= k
<1> DEFINE T == {1 .. n : n \in S}
<1>1. \A n \in Nat : IsFiniteSet(1 .. n) /\ 1 .. n \in SUBSET Nat
  BY FS_Interval
<1>2. T \subseteq FiniteSubsetsOf(Nat) /\ T # {}
  BY <1>1 DEF FiniteSubsetsOf
<1>3. PICK x \in T : \A y \in T : <<y, x>> \notin StrictSubsetOrdering(Nat)
  BY <1>2, FS_StrictSubsetOrderingWellFounded, WFMin
<1>4. PICK n \in S : x = 1 .. n
  OBVIOUS
<1>5. ASSUME NEW k \in S, k < n PROVE FALSE
  <2>1. 1 .. k \in T /\ 1 .. k \subseteq 1 .. n /\ 1 .. k # 1 .. n
    <3>1. n \in 1 .. n /\ n \notin 1 .. k
      BY <1>5
    <3> QED BY <1>5, <3>1
  <2>2. 1 .. k \in SUBSET Nat /\ 1 .. n \in SUBSET Nat
    OBVIOUS
  <2>3. <<1 .. k, 1 .. n>> \in StrictSubsetOrdering(Nat)
    BY <2>1, <2>2 DEF StrictSubsetOrdering
  <2> QED BY <1>3, <1>4, <2>1, <2>3
<1> QED BY <1>5

LEMMA Induction ==
  ASSUME NEW S, 0 \in S, \A n \in Nat : n \in S => n + 1 \in S
  PROVE  Nat \subseteq S
<1> SUFFICES ASSUME Nat \ S # {} PROVE FALSE
  OBVIOUS
<1>1. PICK n \in Nat \ S : \A k \in Nat \ S : n <= k
  BY Least
<1>2. n # 0 /\ n - 1 \in Nat
  OBVIOUS
<1>3. n - 1 \in S
  BY <1>1, <1>2
<1> QED BY <1>2, <1>3

LEMMA FirstIsLeast ==
  ASSUME NEW S \in SUBSET Nat, S # {}
  PROVE  First(S) \in S /\ \A k \in S : First(S) <= k
BY Least DEF First

LEMMA Sequences ==
  ASSUME NEW s, IsSequence(s)
  PROVE  Len(s) \in Nat /\ DOMAIN s = 1 .. Len(s)
BY DEF IsSequence

-----------------------------------------------------------------------------
(* The types.  What keeps curpc in its line is where a worker stands: at   *)
(* markup that is closed while it expands an instruction, at a line of its *)
(* template before.                                                        *)

InLine(w) ==
  /\ at[w].done \in 0 .. Len(Lines(w))
  /\ at[w].cur \in 1 .. IF at[w].done < Len(Lines(w)) THEN Len(Line(w)) + 1 ELSE 1

AtMarkup(w) ==
  /\ at[w].done < Len(Lines(w))
  /\ Opens(Line(w), at[w].cur) # {} /\ Closes(Line(w), at[w].cur) # {}

Place(w) ==
  /\ loc[w] \in Locations
  /\ loc[w] = "idle" => job[w] = NoJob /\ at[w] = Start
  /\ loc[w] # "idle" => job[w].page \in DOMAIN Templates /\ job[w].num \in 1 .. MaxPages
  /\ at[w] \in [done : Nat, cur : Nat]
  /\ loc[w] \in {"scan", "dispatch", "closure"} => InLine(w)
  /\ loc[w] \in {"dispatch", "closure"} => AtMarkup(w)

PlaceInv ==
  /\ DOMAIN loc = Workers /\ DOMAIN job = Workers /\ DOMAIN at = Workers
  /\ \A w \in Workers : Place(w)

RestTypes ==
  /\ main \in Phases
  /\ files \in Seq(ChunkFiles) /\ Len(files) <= MaxFiles
  /\ counter \in 0 .. MaxPages /\ forgets \in 0 .. MaxForgets
  /\ aborted \in BOOLEAN
  /\ \A n \in DOMAIN dict : dict[n].by \in {"main", "plugin"}

LEMMA TemplateLines ==
  ASSUME NEW w, job[w].page \in DOMAIN Templates
  PROVE  /\ IsSequence(Lines(w)) /\ Len(Lines(w)) \in Nat
         /\ \A i \in 1 .. Len(Lines(w)) : IsSequence(Lines(w)[i]) /\ Len(Lines(w)[i]) \in Nat
<1>1. IsSequence(Lines(w)) /\ \A i \in DOMAIN Lines(w) : IsSequence(Lines(w)[i])
  BY TemplatesAssumption DEF Lines
<1> QED BY <1>1, Sequences

LEMMA TemplateLine ==
  ASSUME NEW w, job[w].page \in DOMAIN Templates, at[w].done \in Nat, at[w].done < Len(Lines(w))
  PROVE  IsSequence(Line(w)) /\ Len(Line(w)) \in Nat
<1>1. Len(Lines(w)) \in Nat
  BY TemplateLines
<1>2. at[w].done + 1 \in 1 .. Len(Lines(w))
  BY <1>1
<1> QED BY <1>2, TemplateLines DEF Line

LEMMA MarkupBounds ==
  ASSUME NEW line, Len(line) \in Nat, NEW cur \in Nat
  PROVE  /\ Opens(line, cur) # {} =>
              First(Opens(line, cur)) \in cur .. Len(line) /\ First(Opens(line, cur)) \in Opens(line, cur)
         /\ Closes(line, cur) # {} =>
              First(Closes(line, cur)) \in cur .. Len(line) /\ First(Closes(line, cur)) \in Closes(line, cur)
<1>1. Opens(line, cur) \subseteq cur .. Len(line) /\ Closes(line, cur) \subseteq cur .. Len(line)
  BY DEF Opens, Closes
<1>2. Opens(line, cur) \in SUBSET Nat /\ Closes(line, cur) \in SUBSET Nat
  BY <1>1
<1> QED BY <1>1, <1>2, FirstIsLeast

LEMMA PlaceKept ==
  ASSUME NEW v, Place(v), UNCHANGED <<loc[v], job[v], at[v]>>
  PROVE  Place(v)'
BY DEF Place, InLine, AtMarkup, Line, Lines

LEMMA PlaceOfOne ==
  ASSUME PlaceInv, NEW w \in Workers, Place(w)',
         DOMAIN loc' = Workers, DOMAIN job' = Workers, DOMAIN at' = Workers,
         \A v \in Workers \ {w} : UNCHANGED <<loc[v], job[v], at[v]>>
  PROVE  PlaceInv'
BY PlaceKept DEF PlaceInv

LEMMA SkipStays ==
  ASSUME PlaceInv, NEW w \in Workers, loc[w] \in {"dispatch", "closure"}, Skip(w),
         job' = job, loc' = [loc EXCEPT ![w] = "scan"]
  PROVE  PlaceInv'
<1> DEFINE e == First(Closes(Line(w), at[w].cur))
<1>1. Place(w) /\ DOMAIN at = Workers /\ DOMAIN loc = Workers
  BY DEF PlaceInv
<1>2. /\ at[w] \in [done : Nat, cur : Nat] /\ at[w].done < Len(Lines(w))
      /\ Closes(Line(w), at[w].cur) # {} /\ job[w].page \in DOMAIN Templates
  BY <1>1 DEF Place, AtMarkup
<1>3. at' = [at EXCEPT ![w].cur = e + 1]
  BY DEF Skip
<1>4. e \in at[w].cur .. Len(Line(w)) /\ Len(Line(w)) \in Nat
  BY <1>2, TemplateLine, MarkupBounds
<1> HIDE DEF e
<1>5. /\ at'[w].done = at[w].done /\ at'[w].cur = e + 1 /\ at'[w] \in [done : Nat, cur : Nat]
      /\ loc'[w] = "scan" /\ DOMAIN at' = Workers /\ DOMAIN loc' = Workers
      /\ \A v \in Workers \ {w} : UNCHANGED <<loc[v], job[v], at[v]>>
  BY <1>1, <1>2, <1>3, <1>4
<1>6. Lines(w)' = Lines(w) /\ Line(w)' = Line(w)
  BY <1>5 DEF Lines, Line
<1>7. at[w].done \in 0 .. Len(Lines(w)) /\ at[w].cur >= 1
  BY <1>1, <1>2 DEF Place, InLine
<1>8. InLine(w)'
  BY <1>2, <1>4, <1>5, <1>6, <1>7 DEF InLine
<1>9. Place(w)'
  BY <1>1, <1>5, <1>8 DEF Place, Locations
<1> QED BY <1>5, <1>9, PlaceOfOne DEF PlaceInv

LEMMA PlaceStep ==
  ASSUME PlaceInv, NEW w \in Workers, Step(w)
  PROVE  PlaceInv'
<1>0. Place(w) /\ DOMAIN at = Workers /\ DOMAIN loc = Workers /\ DOMAIN job = Workers
  BY DEF PlaceInv
<1>1. CASE SendPage(w)
  <2>1. /\ loc[w] = "scan" /\ UNCHANGED <<job, at>> /\ loc' = [loc EXCEPT ![w] = "sent"]
    BY <1>1 DEF SendPage, Scanning
  <2>2. loc'[w] = "sent" /\ DOMAIN loc' = Workers /\ \A v \in Workers \ {w} : loc'[v] = loc[v]
    BY <1>0, <2>1
  <2>3. Place(w)'
    BY <1>0, <2>1, <2>2 DEF Place, Locations
  <2> QED BY <1>0, <2>1, <2>2, <2>3, PlaceOfOne
<1>2. CASE CopyLine(w)
  <2>1. /\ loc[w] = "scan" /\ UNCHANGED <<job, loc>> /\ at[w].done < Len(Lines(w))
        /\ at' = [at EXCEPT ![w] = [done |-> at[w].done + 1, cur |-> 1]]
    BY <1>2 DEF CopyLine, Scanning
  <2>2. at'[w] = [done |-> at[w].done + 1, cur |-> 1] /\ DOMAIN at' = Workers
        /\ \A v \in Workers \ {w} : at'[v] = at[v]
    BY <1>0, <2>1
  <2>3. at[w].done \in Nat /\ Len(Lines(w)) \in Nat /\ Lines(w)' = Lines(w)
    BY <1>0, <2>1, TemplateLines DEF Place, Lines
  <2>4. (IF at'[w].done < Len(Lines(w)) THEN Len(Line(w)') + 1 ELSE 1) \in Nat \ {0}
    <3>1. ASSUME at'[w].done < Len(Lines(w)) PROVE Len(Line(w)') \in Nat
      <4>1. at[w].done + 2 \in 1 .. Len(Lines(w))
        BY <2>2, <2>3, <3>1
      <4>2. Line(w)' = Lines(w)[at[w].done + 2]
        BY <2>2, <2>3 DEF Line
      <4> QED BY <1>0, <2>1, <4>1, <4>2, TemplateLines DEF Place
    <3> QED BY <3>1
  <2>5. InLine(w)'
    BY <2>1, <2>2, <2>3, <2>4 DEF InLine
  <2>6. Place(w)'
    BY <1>0, <2>1, <2>2, <2>3, <2>5 DEF Place
  <2> QED BY <1>0, <2>1, <2>2, <2>6, PlaceOfOne
<1>3. CASE FindMarkup(w)
  <2> DEFINE s == First(Opens(Line(w), at[w].cur))
             e == First(Closes(Line(w), at[w].cur))
  <2>1. /\ loc[w] = "scan" /\ job' = job /\ at[w].done < Len(Lines(w))
        /\ ~CopiedWhole(w, Line(w), at[w].cur)
        /\ \/ loc' = [loc EXCEPT ![w] = "dispatch"] /\ UNCHANGED at
           \/ at' = [at EXCEPT ![w].cur = s] /\ UNCHANGED loc
           \/ loc' = [loc EXCEPT ![w] = "failed"] /\ UNCHANGED at
    BY <1>3 DEF FindMarkup, Scanning
  <2>2. Opens(Line(w), at[w].cur) # {} /\ Closes(Line(w), at[w].cur) # {}
    BY <2>1 DEF CopiedWhole
  <2>3. /\ at[w] \in [done : Nat, cur : Nat] /\ job[w].page \in DOMAIN Templates
        /\ at[w].cur >= 1 /\ at[w].done \in 0 .. Len(Lines(w))
    BY <1>0, <2>1 DEF Place, InLine
  <2>4. s \in at[w].cur .. Len(Line(w)) /\ Len(Line(w)) \in Nat
    BY <2>1, <2>2, <2>3, TemplateLine, MarkupBounds
  <2> HIDE DEF s, e
  <2>5. CASE loc' = [loc EXCEPT ![w] = "dispatch"] /\ UNCHANGED at
    <3>1. loc'[w] = "dispatch" /\ DOMAIN loc' = Workers /\ \A v \in Workers \ {w} : loc'[v] = loc[v]
      BY <1>0, <2>5
    <3>2. InLine(w)' /\ AtMarkup(w)'
      BY <1>0, <2>1, <2>2, <2>5 DEF Place, InLine, AtMarkup, Lines, Line
    <3>3. Place(w)'
      BY <1>0, <2>1, <2>5, <3>1, <3>2 DEF Place, Locations
    <3> QED BY <1>0, <2>1, <2>5, <3>1, <3>3, PlaceOfOne
  <2>6. CASE at' = [at EXCEPT ![w].cur = s] /\ UNCHANGED loc
    <3>1. /\ at'[w].done = at[w].done /\ at'[w].cur = s /\ at'[w] \in [done : Nat, cur : Nat]
          /\ DOMAIN at' = Workers /\ \A v \in Workers \ {w} : at'[v] = at[v]
      BY <1>0, <2>3, <2>4, <2>6
    <3>2. Lines(w)' = Lines(w) /\ Line(w)' = Line(w)
      BY <2>1, <3>1 DEF Lines, Line
    <3>3. InLine(w)'
      BY <2>1, <2>3, <2>4, <3>1, <3>2 DEF InLine
    <3>4. Place(w)'
      BY <1>0, <2>1, <2>6, <3>1, <3>3 DEF Place
    <3> QED BY <1>0, <2>1, <2>6, <3>1, <3>4, PlaceOfOne
  <2>7. CASE loc' = [loc EXCEPT ![w] = "failed"] /\ UNCHANGED at
    <3>1. loc'[w] = "failed" /\ DOMAIN loc' = Workers /\ \A v \in Workers \ {w} : loc'[v] = loc[v]
      BY <1>0, <2>7
    <3>2. Place(w)'
      BY <1>0, <2>1, <2>7, <3>1 DEF Place, Locations
    <3> QED BY <1>0, <2>1, <2>7, <3>1, <3>2, PlaceOfOne
  <2> QED BY <2>1, <2>5, <2>6, <2>7
<1>4. CASE InvalidInstruction(w) \/ UnknownInstruction(w)
  BY <1>4, SkipStays DEF InvalidInstruction, UnknownInstruction
<1>5. CASE EnterClosure(w)
  <2>1. /\ loc[w] = "dispatch" /\ UNCHANGED <<job, at>> /\ loc' = [loc EXCEPT ![w] = "closure"]
    BY <1>5 DEF EnterClosure
  <2>2. loc'[w] = "closure" /\ DOMAIN loc' = Workers /\ \A v \in Workers \ {w} : loc'[v] = loc[v]
    BY <1>0, <2>1
  <2>3. InLine(w)' /\ AtMarkup(w)'
    BY <1>0, <2>1 DEF Place, InLine, AtMarkup, Lines, Line
  <2>4. Place(w)'
    BY <1>0, <2>1, <2>2, <2>3 DEF Place, Locations
  <2> QED BY <1>0, <2>1, <2>2, <2>4, PlaceOfOne
<1>6. CASE LeaveClosure(w)
  <2>1. CASE UNCHANGED <<loc, at>>
    BY <1>6, <2>1, PlaceKept DEF LeaveClosure, PlaceInv
  <2>2. CASE Skip(w) /\ loc' = [loc EXCEPT ![w] = "scan"]
    BY <1>6, <2>2, SkipStays DEF LeaveClosure
  <2> QED BY <1>6, <2>1, <2>2 DEF LeaveClosure
<1>7. CASE EndPage(w)
  <2>1. /\ loc' = [loc EXCEPT ![w] = "idle"] /\ job' = [job EXCEPT ![w] = NoJob]
        /\ at' = [at EXCEPT ![w] = Start]
    BY <1>7 DEF EndPage
  <2>2. /\ loc'[w] = "idle" /\ job'[w] = NoJob /\ at'[w] = Start
        /\ DOMAIN loc' = Workers /\ DOMAIN job' = Workers /\ DOMAIN at' = Workers
        /\ \A v \in Workers \ {w} : UNCHANGED <<loc[v], job[v], at[v]>>
    BY <1>0, <2>1
  <2>3. Place(w)'
    BY <2>2 DEF Place, Locations, Start
  <2> QED BY <2>2, <2>3, PlaceOfOne
<1> QED BY <1>1, <1>2, <1>3, <1>4, <1>5, <1>6, <1>7 DEF Step

LEMMA BeginPlace ==
  ASSUME PlaceInv, RestTypes, NEW w \in Workers, NEW p \in DOMAIN Templates, NEW codes,
         BeginPage(w, p, codes)
  PROVE  PlaceInv'
<1>1. /\ loc[w] = "idle" /\ counter < MaxPages /\ loc' = [loc EXCEPT ![w] = "scan"] /\ at' = at
      /\ job' = [job EXCEPT ![w] = [page |-> p, num |-> counter + 1, codes |-> codes]]
  BY DEF BeginPage
<1>2. Place(w) /\ DOMAIN at = Workers /\ DOMAIN loc = Workers /\ DOMAIN job = Workers
  BY DEF PlaceInv
<1>3. /\ loc'[w] = "scan" /\ job'[w].page = p /\ job'[w].num = counter + 1 /\ at'[w] = Start
      /\ DOMAIN loc' = Workers /\ DOMAIN job' = Workers /\ DOMAIN at' = Workers
      /\ \A v \in Workers \ {w} : UNCHANGED <<loc[v], job[v], at[v]>>
  BY <1>1, <1>2 DEF Place
<1>4. counter + 1 \in 1 .. MaxPages
  BY <1>1, PagesAssumption DEF RestTypes
<1>5. at'[w].done = 0 /\ at'[w].cur = 1 /\ at'[w] \in [done : Nat, cur : Nat]
  BY <1>3 DEF Start
<1>6. Len(Lines(w)') \in Nat /\ \A i \in 1 .. Len(Lines(w)') : Len(Lines(w)'[i]) \in Nat
  <2>1. Lines(w)' = Templates[p].lines
    BY <1>3 DEF Lines
  <2>2. IsSequence(Templates[p].lines) /\ \A i \in DOMAIN Templates[p].lines : IsSequence(Templates[p].lines[i])
    BY TemplatesAssumption
  <2> QED BY <2>1, <2>2, Sequences
<1>7. 0 < Len(Lines(w)') => Len(Line(w)') \in Nat
  BY <1>5, <1>6 DEF Line
<1>8. InLine(w)'
  BY <1>5, <1>6, <1>7 DEF InLine
<1>9. Place(w)'
  BY <1>3, <1>4, <1>5, <1>8 DEF Place, Locations
<1> QED BY <1>3, <1>9, PlaceOfOne

LEMMA AddTypes ==
  ASSUME RestTypes, NEW f \in ChunkFiles, AddChunkFile(f)
  PROVE  RestTypes'
<1>1. /\ UNCHANGED <<main, counter, forgets, dict>> /\ Len(files) < MaxFiles
      /\ files' \in {files, Append(files, f)} /\ aborted' \in {aborted, TRUE}
  BY DEF AddChunkFile
<1>2. files' \in Seq(ChunkFiles) /\ Len(files') <= MaxFiles
  BY <1>1, PagesAssumption DEF RestTypes
<1>3. aborted' \in BOOLEAN
  BY <1>1 DEF RestTypes
<1> QED BY <1>1, <1>2, <1>3 DEF RestTypes

LEMMA AdvanceTypes ==
  ASSUME RestTypes, NEW from, NEW to \in Phases, NEW who \in {"main", "plugin"}, NEW names,
         Advance(from, to, Register(dict, who, names))
  PROVE  RestTypes'
<1>1. /\ main' = to /\ dict' = Register(dict, who, names)
      /\ UNCHANGED <<files, counter, forgets, aborted>>
  BY DEF Advance
<1>2. \A n \in DOMAIN dict' : dict'[n].by \in {"main", "plugin"}
  BY <1>1, RegisterKeeps DEF RestTypes
<1> QED BY <1>1, <1>2 DEF RestTypes

LEMMA TypesInit == Init => PlaceInv /\ RestTypes
<1> SUFFICES ASSUME Init PROVE PlaceInv /\ RestTypes
  OBVIOUS
<1>1. RestTypes
  <2>1. files \in Seq(ChunkFiles) /\ Len(files) = 0 /\ DOMAIN dict = {}
    BY DEF Init
  <2>2. main = "config" /\ counter = 0 /\ forgets = 0 /\ aborted = FALSE
    BY DEF Init
  <2>3. main \in Phases /\ aborted \in BOOLEAN
    BY <2>2 DEF Phases
  <2>4. Len(files) <= MaxFiles /\ counter \in 0 .. MaxPages /\ forgets \in 0 .. MaxForgets
    BY <2>1, <2>2, PagesAssumption
  <2>5. \A n \in DOMAIN dict : dict[n].by \in {"main", "plugin"}
    BY <2>1
  <2> QED BY <2>1, <2>3, <2>4, <2>5 DEF RestTypes
<1>2. /\ DOMAIN loc = Workers /\ DOMAIN job = Workers /\ DOMAIN at = Workers
      /\ \A w \in Workers : loc[w] = "idle" /\ job[w] = NoJob /\ at[w] = Start
  BY DEF Init
<1>3. PlaceInv
  BY <1>2 DEF PlaceInv, Place, Locations, Start
<1> QED BY <1>1, <1>3

LEMMA TypesNext == PlaceInv /\ RestTypes /\ [Next]_vars => (PlaceInv /\ RestTypes)'
<1> SUFFICES ASSUME PlaceInv, RestTypes, [Next]_vars PROVE PlaceInv' /\ RestTypes'
  OBVIOUS
<1>1. ASSUME UNCHANGED <<loc, job, at>> PROVE PlaceInv'
  BY <1>1, PlaceKept DEF PlaceInv
<1>2. ASSUME UNCHANGED <<main, files, counter, forgets, aborted, dict>> PROVE RestTypes'
  BY <1>2 DEF RestTypes
<1>3. CASE \E f \in ChunkFiles : AddChunkFile(f)
  BY <1>1, <1>3, AddTypes DEF AddChunkFile, pageVars
<1>4. CASE InitializeDatabasePlugins
  BY <1>1, <1>4, AdvanceTypes DEF InitializeDatabasePlugins, Phases, Advance, pageVars
<1>5. CASE InitializeTemplates
  BY <1>1, <1>5, AdvanceTypes DEF InitializeTemplates, Phases, Advance, pageVars
<1>6. CASE InitializeWebPlugins
  BY <1>1, <1>6, AdvanceTypes DEF InitializeWebPlugins, Phases, Advance, pageVars
<1>7. ASSUME NEW w \in Workers, Step(w) PROVE PlaceInv' /\ RestTypes'
  <2>1. UNCHANGED <<main, files, counter, forgets, dict>> /\ aborted' \in {aborted, TRUE}
    BY <1>7 DEF Step, SendPage, CopyLine, FindMarkup, InvalidInstruction, UnknownInstruction,
       EnterClosure, LeaveClosure, EndPage, mainVars
  <2>2. aborted' \in BOOLEAN
    BY <2>1 DEF RestTypes
  <2> QED BY <1>7, <2>1, <2>2, PlaceStep DEF RestTypes
<1>8. ASSUME NEW w \in Workers, NEW p \in DOMAIN Templates, NEW codes, BeginPage(w, p, codes)
      PROVE  PlaceInv' /\ RestTypes'
  <2>1. /\ counter < MaxPages /\ counter' = counter + 1
        /\ UNCHANGED <<main, files, forgets, aborted, dict>>
    BY <1>8 DEF BeginPage, mainVars
  <2>2. counter' \in 0 .. MaxPages
    BY <2>1, PagesAssumption DEF RestTypes
  <2> QED BY <1>8, <2>1, <2>2, BeginPlace DEF RestTypes
<1>9. ASSUME NEW name, ForgetExpander(name) PROVE PlaceInv' /\ RestTypes'
  <2>1. /\ forgets < MaxForgets /\ forgets' = forgets + 1
        /\ dict' = [n \in DOMAIN dict \ {name} |-> dict[n]]
        /\ UNCHANGED <<main, files, counter, aborted>> /\ UNCHANGED <<loc, job, at>>
    BY <1>9 DEF ForgetExpander, mainVars, pageVars
  <2>2. forgets' \in 0 .. MaxForgets
    BY <2>1, PagesAssumption DEF RestTypes
  <2> QED BY <1>1, <2>1, <2>2 DEF RestTypes
<1>10. CASE UNCHANGED vars
  BY <1>1, <1>2, <1>10 DEF vars, mainVars, pageVars
<1> QED BY <1>3, <1>4, <1>5, <1>6, <1>7, <1>8, <1>9, <1>10 DEF Next, Main

(* For any templates, whatever markup they hold and wherever the closing   *)
(* of an instruction is found, a worker never reads past the end of the    *)
(* line it expands, nor past the last line.                                *)
THEOREM PagesTypes == Spec => []TypeOK
<1>1. PlaceInv /\ RestTypes /\ RunningInv => TypeOK
  <2> SUFFICES ASSUME PlaceInv, RestTypes, RunningInv PROVE TypeOK
    OBVIOUS
  <2>1. Range(files) \subseteq ChunkFiles
    BY DEF RestTypes, Range
  <2>2. ASSUME NEW w \in Workers
        PROVE  /\ loc[w] \in Locations
               /\ job[w].page \in DOMAIN Templates \cup {NoJob.page} /\ job[w].num \in 0 .. MaxPages
               /\ loc[w] = "scan" => InLine(w)
    <3>1. Place(w)
      BY DEF PlaceInv
    <3>2. CASE loc[w] = "idle"
      <4>1. job[w] = NoJob
        BY <3>1, <3>2 DEF Place
      <4>2. NoJob.num = 0
        BY Zenon DEF NoJob
      <4> QED BY <3>1, <3>2, <4>1, <4>2, PagesAssumption DEF Place
    <3>3. CASE loc[w] # "idle"
      <4>1. job[w].num \in 1 .. MaxPages
        BY <3>1, <3>3 DEF Place
      <4> QED BY <3>1, <3>3, <4>1, PagesAssumption DEF Place
    <3> QED BY <3>2, <3>3
  <2> QED BY <2>1, <2>2 DEF TypeOK, InLine, RestTypes, RunningInv
<1> QED BY <1>1, TypesInit, TypesNext, RunningInit, RunningNext, PTL DEF Spec
-----------------------------------------------------------------------------
(* The chunk files: the parser, run over a file, then over all of them.    *)

(* Parse is the last state of a run of ParseLine over the lines. *)
LEMMA ParserRuns ==
  ASSUME NEW file, Len(file) \in Nat
  PROVE  \E a : /\ a = [i \in 0 .. Len(file) |->
                          IF i = 0 THEN ParserStart ELSE ParseLine(a[i - 1], file[i])]
                /\ Parse(file) = a[Len(file)]
<1> DEFINE Run(n, a) ==
             a = [i \in 0 .. n |-> IF i = 0 THEN ParserStart ELSE ParseLine(a[i - 1], file[i])]
           S == {n \in Nat : \E a : Run(n, a)}
<1>1. 0 \in S
  <2> DEFINE a == [i \in 0 .. 0 |-> ParserStart]
  <2>1. Run(0, a)
    OBVIOUS
  <2> QED BY <2>1
<1>2. ASSUME NEW n \in Nat, n \in S PROVE n + 1 \in S
  <2>1. PICK a : Run(n, a)
    BY <1>2
  <2> DEFINE b == [i \in 0 .. n + 1 |-> IF i = n + 1 THEN ParseLine(a[n], file[n + 1]) ELSE a[i]]
  <2>2. a[0] = ParserStart /\ \A i \in 1 .. n : a[i] = ParseLine(a[i - 1], file[i])
    BY <2>1
  <2>3. \A i \in 0 .. n + 1 : b[i] = IF i = 0 THEN ParserStart ELSE ParseLine(b[i - 1], file[i])
    <3> SUFFICES ASSUME NEW i \in 0 .. n + 1
                 PROVE  b[i] = IF i = 0 THEN ParserStart ELSE ParseLine(b[i - 1], file[i])
      OBVIOUS
    <3>1. CASE i = 0
      BY <2>2, <3>1
    <3>2. CASE i = n + 1
      BY <3>2
    <3>3. CASE i \in 1 .. n
      BY <2>2, <3>3
    <3> QED BY <3>1, <3>2, <3>3
  <2>4. Run(n + 1, b)
    <3>1. b = [i \in 0 .. n + 1 |-> b[i]]
      OBVIOUS
    <3> HIDE DEF b
    <3> QED BY <2>3, <3>1
  <2>5. \E c : Run(n + 1, c)
    <3> HIDE DEF b, Run
    <3> QED BY <2>4
  <2> QED BY <2>5
<1>3. Len(file) \in S
  <2> HIDE DEF S
  <2> QED BY <1>1, <1>2, Induction
<1>4. \E a : Run(Len(file), a)
  BY <1>3
<1> QED BY <1>4 DEF Parse

-----------------------------------------------------------------------------
Labelled(file) == \A i \in DOMAIN file : file[i].kind = "close" => file[i].label # NoText

NoHeader(file, n) == \A k \in 1 .. n : file[k].kind # "multi"
Singles(file, name, n) == SingleLines(file, name) \cap 1 .. n

ParserInv(file, n, st) ==
  /\ DOMAIN st = {"state", "map", "name", "body", "label", "lines"}
  /\ st.state \in {"SKIPSPACES", "INSIDECHUNK", "FATAL"}
  /\ st.state = "SKIPSPACES" => NoHeader(file, n)
  /\ st.state = "INSIDECHUNK" => ~NoHeader(file, n)
  /\ st.state # "FATAL" =>
       \A name : /\ name \in DOMAIN st.map <=> Singles(file, name, n) # {}
                 /\ name \in DOMAIN st.map =>
                      st.map[name] = Body(file[First(Singles(file, name, n))].text)

LEMMA FirstKept ==
  ASSUME NEW n \in Nat, NEW S \in SUBSET (1 .. n)
  PROVE  /\ S # {} => First(S \cup {n + 1}) = First(S)
         /\ First({n + 1}) = n + 1
<1>1. S \in SUBSET Nat /\ S \cup {n + 1} \in SUBSET Nat /\ {n + 1} \in SUBSET Nat
  OBVIOUS
<1>2. First({n + 1}) \in {n + 1}
  BY <1>1, FirstIsLeast
<1>3. ASSUME S # {} PROVE First(S \cup {n + 1}) = First(S)
  <2>1. First(S) \in S /\ \A k \in S : First(S) <= k
    BY <1>1, <1>3, FirstIsLeast
  <2>2. /\ First(S \cup {n + 1}) \in S \cup {n + 1}
        /\ \A k \in S \cup {n + 1} : First(S \cup {n + 1}) <= k
    BY <1>1, FirstIsLeast
  <2> DEFINE f == First(S)
             g == First(S \cup {n + 1})
  <2>3. f \in S /\ f \in 1 .. n /\ g <= f
    BY <2>1, <2>2
  <2>4. g \in S
    BY <2>2, <2>3
  <2>5. f <= g
    BY <2>1, <2>4
  <2>6. g \in 1 .. n
    BY <2>4
  <2> HIDE DEF f, g
  <2>7. f = g
    BY <2>3, <2>5, <2>6
  <2> QED BY <2>7 DEF f, g
<1> QED BY <1>2, <1>3

LEMMA SinglesGrow ==
  ASSUME NEW file, Len(file) \in Nat, DOMAIN file = 1 .. Len(file),
         NEW n \in Nat, n < Len(file), NEW name
  PROVE  IF file[n + 1].kind = "single" /\ NoHeader(file, n) /\ file[n + 1].name = name
         THEN Singles(file, name, n + 1) = Singles(file, name, n) \cup {n + 1}
         ELSE Singles(file, name, n + 1) = Singles(file, name, n)
<1>1. 1 .. n + 1 = 1 .. n \cup {n + 1} /\ n + 1 \in DOMAIN file
  OBVIOUS
<1>2. n + 1 \in SingleLines(file, name) <=>
        file[n + 1].kind = "single" /\ NoHeader(file, n) /\ file[n + 1].name = name
  <2>1. (\A k \in 1 .. n + 1 : file[k].kind # "multi") <=>
          (\A k \in 1 .. n : file[k].kind # "multi") /\ file[n + 1].kind # "multi"
    BY <1>1
  <2>2. n + 1 \in SingleLines(file, name) <=>
          /\ file[n + 1].kind = "single" /\ file[n + 1].name = name
          /\ \A k \in 1 .. n + 1 : file[k].kind # "multi"
    BY <1>1 DEF SingleLines
  <2> QED BY <2>1, <2>2 DEF NoHeader
<1> QED BY <1>1, <1>2 DEF Singles

LEMMA ParserStarts == ASSUME NEW file PROVE ParserInv(file, 0, ParserStart)
<1>1. /\ DOMAIN ParserStart = {"state", "map", "name", "body", "label", "lines"}
      /\ ParserStart.state = "SKIPSPACES" /\ ParserStart.map = NoChunks
  BY DEF ParserStart
<1>2. NoHeader(file, 0) /\ \A name : Singles(file, name, 0) = {}
  BY DEF NoHeader, Singles
<1>3. DOMAIN NoChunks = {}
  BY DEF NoChunks
<1> QED BY <1>1, <1>2, <1>3 DEF ParserInv

(* Lines that define nothing. *)
LEMMA ParserSkips ==
  ASSUME NEW file, Len(file) \in Nat, DOMAIN file = 1 .. Len(file),
         NEW n \in Nat, n < Len(file), NEW st, ParserInv(file, n, st), st.state # "FATAL",
         file[n + 1].kind # "single" \/ ~NoHeader(file, n),
         NEW new, DOMAIN new = DOMAIN st, new.map = st.map,
         new.state = IF NoHeader(file, n + 1) THEN "SKIPSPACES" ELSE "INSIDECHUNK"
  PROVE  ParserInv(file, n + 1, new)
<1>1. ASSUME NEW name PROVE Singles(file, name, n + 1) = Singles(file, name, n)
  BY SinglesGrow
<1>2. NoHeader(file, n + 1) => NoHeader(file, n)
  BY DEF NoHeader
<1>3. /\ DOMAIN new = {"state", "map", "name", "body", "label", "lines"}
      /\ new.state \in {"SKIPSPACES", "INSIDECHUNK", "FATAL"}
      /\ new.state = "SKIPSPACES" => NoHeader(file, n + 1)
      /\ new.state = "INSIDECHUNK" => ~NoHeader(file, n + 1)
  BY DEF ParserInv
<1>4. ASSUME NEW name
      PROVE  /\ name \in DOMAIN new.map <=> Singles(file, name, n + 1) # {}
             /\ name \in DOMAIN new.map =>
                  new.map[name] = Body(file[First(Singles(file, name, n + 1))].text)
  <2>1. /\ name \in DOMAIN st.map <=> Singles(file, name, n) # {}
        /\ name \in DOMAIN st.map =>
             st.map[name] = Body(file[First(Singles(file, name, n))].text)
    BY DEF ParserInv
  <2> QED BY <1>1, <2>1
<1> QED BY <1>3, <1>4 DEF ParserInv

LEMMA ParserDefines ==
  ASSUME NEW file, Len(file) \in Nat, DOMAIN file = 1 .. Len(file),
         NEW n \in Nat, n < Len(file), NEW st, ParserInv(file, n, st), st.state = "SKIPSPACES",
         file[n + 1].kind = "single",
         NEW new, DOMAIN new = DOMAIN st, new.state = "SKIPSPACES",
         new.map = Insert(st.map, file[n + 1].name, Body(file[n + 1].text))
  PROVE  ParserInv(file, n + 1, new)
<1>1. NoHeader(file, n)
  BY DEF ParserInv
<1>2. NoHeader(file, n + 1)
  BY <1>1 DEF NoHeader
<1>3. /\ DOMAIN new.map = DOMAIN st.map \cup {file[n + 1].name}
      /\ \A name \in DOMAIN st.map : new.map[name] = st.map[name]
      /\ file[n + 1].name \notin DOMAIN st.map => new.map[file[n + 1].name] = Body(file[n + 1].text)
  BY DEF Insert
<1>4. ASSUME NEW name
      PROVE  /\ name \in DOMAIN new.map <=> Singles(file, name, n + 1) # {}
             /\ name \in DOMAIN new.map =>
                  new.map[name] = Body(file[First(Singles(file, name, n + 1))].text)
  <2>0. Singles(file, name, n) \in SUBSET (1 .. n)
    BY DEF Singles
  <2>1. /\ name \in DOMAIN st.map <=> Singles(file, name, n) # {}
        /\ name \in DOMAIN st.map =>
                      st.map[name] = Body(file[First(Singles(file, name, n))].text)
    BY DEF ParserInv
  <2>2. CASE name # file[n + 1].name
    <3>1. Singles(file, name, n + 1) = Singles(file, name, n)
      BY <2>2, SinglesGrow
    <3> QED BY <1>3, <2>1, <2>2, <3>1
  <2>3. CASE name = file[n + 1].name
    <3>1. Singles(file, name, n + 1) = Singles(file, name, n) \cup {n + 1}
      BY <1>1, <2>3, SinglesGrow
    <3>2. CASE name \in DOMAIN st.map
      <4>1. First(Singles(file, name, n + 1)) = First(Singles(file, name, n))
        BY <2>0, <2>1, <3>1, <3>2, FirstKept
      <4> QED BY <1>3, <2>1, <3>1, <3>2, <4>1
    <3>3. CASE name \notin DOMAIN st.map
      <4>1. First(Singles(file, name, n + 1)) = n + 1
        BY <2>0, <2>1, <3>1, <3>3, FirstKept
      <4> QED BY <1>3, <2>3, <3>1, <3>3, <4>1
    <3> QED BY <3>2, <3>3
  <2> QED BY <2>2, <2>3
<1> QED BY <1>2, <1>4 DEF ParserInv

LEMMA ParserStep ==
  ASSUME NEW file, Len(file) \in Nat, DOMAIN file = 1 .. Len(file), Labelled(file),
         NEW n \in Nat, n < Len(file), NEW st, ParserInv(file, n, st)
  PROVE  ParserInv(file, n + 1, ParseLine(st, file[n + 1]))
<1> DEFINE line == file[n + 1]
           counted == [st EXCEPT !.lines = @ + 1]
           new == ParseLine(st, line)
<1> SUFFICES ParserInv(file, n + 1, new)
  OBVIOUS
<1>0. new = IF st.state = "FATAL" THEN st
            ELSE IF counted.lines >= MaxLines THEN [counted EXCEPT !.state = "FATAL"]
            ELSE IF st.state = "SKIPSPACES" THEN ParseOutside(counted, line)
            ELSE ParseInside(counted, line)
  BY DEF ParseLine
<1>1. /\ DOMAIN counted = DOMAIN st /\ counted.state = st.state /\ counted.map = st.map
      /\ DOMAIN st = {"state", "map", "name", "body", "label", "lines"}
  BY DEF ParserInv
<1> HIDE DEF counted, new, line
<1>2. ASSUME new.state = "FATAL", DOMAIN new = DOMAIN st PROVE ParserInv(file, n + 1, new)
  BY <1>1, <1>2 DEF ParserInv
<1>3. /\ st.state = "FATAL" => new = st
      /\ st.state # "FATAL" /\ counted.lines >= MaxLines => new = [counted EXCEPT !.state = "FATAL"]
      /\ st.state = "SKIPSPACES" /\ ~(counted.lines >= MaxLines) => new = ParseOutside(counted, line)
      /\ st.state = "INSIDECHUNK" /\ ~(counted.lines >= MaxLines) => new = ParseInside(counted, line)
  BY <1>0
<1>4. CASE st.state = "FATAL"
  BY <1>2, <1>3, <1>4
<1>5. CASE st.state # "FATAL" /\ counted.lines >= MaxLines
  <2>1. DOMAIN new = DOMAIN st /\ new.state = "FATAL"
    BY <1>1, <1>3, <1>5
  <2> QED BY <1>2, <2>1
<1>6. CASE st.state = "SKIPSPACES" /\ ~(counted.lines >= MaxLines)
  <2>1. NoHeader(file, n)
    BY <1>6 DEF ParserInv
  <2>2. NoHeader(file, n + 1) <=> line.kind # "multi"
    BY <2>1 DEF NoHeader, line
  <2>3. CASE line.kind \in {"blank", "comment"}
    <3>1. new = counted
      BY <1>3, <1>6, <2>3 DEF ParseOutside
    <3>2. DOMAIN new = DOMAIN st /\ new.map = st.map /\ new.state = "SKIPSPACES"
      BY <1>1, <1>6, <3>1
    <3> QED BY <1>6, <2>2, <2>3, <3>2, ParserSkips DEF line
  <2>4. CASE line.kind = "single"
    <3>1. new = [counted EXCEPT !.map = Insert(counted.map, line.name, Body(line.text))]
      BY <1>3, <1>6, <2>4 DEF ParseOutside
    <3>2. /\ DOMAIN new = DOMAIN st /\ new.state = "SKIPSPACES"
          /\ new.map = Insert(st.map, line.name, Body(line.text))
      BY <1>1, <1>6, <3>1
    <3> QED BY <1>6, <2>4, <3>2, ParserDefines DEF line
  <2>5. CASE line.kind = "multi"
    <3>1. DOMAIN new = DOMAIN st /\ new.state = "INSIDECHUNK" /\ new.map = st.map
      BY <1>1, <1>3, <1>6, <2>5 DEF ParseOutside
    <3> QED BY <1>6, <2>2, <2>5, <3>1, ParserSkips DEF line
  <2>6. CASE line.kind \notin {"blank", "comment", "single", "multi"}
    <3>1. new = [counted EXCEPT !.state = "FATAL"]
      BY <1>3, <1>6, <2>6 DEF ParseOutside
    <3>2. DOMAIN new = DOMAIN st /\ new.state = "FATAL"
      BY <1>1, <3>1
    <3> QED BY <1>2, <3>2
  <2> QED BY <2>3, <2>4, <2>5, <2>6
<1>7. CASE st.state = "INSIDECHUNK" /\ ~(counted.lines >= MaxLines)
  <2>1. ~NoHeader(file, n) /\ ~NoHeader(file, n + 1)
    BY <1>7 DEF ParserInv, NoHeader
  <2>2. ~(line.kind = "close" /\ line.label = EndLabel(counted))
    BY DEF Labelled, EndLabel, line
  <2>3. new = [counted EXCEPT !.body = counted.body \o Body(line.text)]
    BY <1>3, <1>7, <2>2 DEF ParseInside
  <2>4. DOMAIN new = DOMAIN st /\ new.state = "INSIDECHUNK" /\ new.map = st.map
    BY <1>1, <1>7, <2>3
  <2> QED BY <1>7, <2>1, <2>4, ParserSkips DEF line
<1>8. st.state \in {"SKIPSPACES", "INSIDECHUNK", "FATAL"}
  BY DEF ParserInv
<1> QED BY <1>4, <1>5, <1>6, <1>7, <1>8

(* The parser is right about any file it accepts. *)
LEMMA ParsedIsFirst ==
  ASSUME NEW file, IsSequence(file), Labelled(file), ~Fatal(file), NEW name
  PROVE  /\ name \in DOMAIN Parsed(file) <=> DefinedIn(file, name)
         /\ name \in DOMAIN Parsed(file) => Parsed(file)[name] = DefinitionIn(file, name)
<1>1. Len(file) \in Nat /\ DOMAIN file = 1 .. Len(file)
  BY Sequences
<1>2. PICK a : /\ a = [i \in 0 .. Len(file) |->
                          IF i = 0 THEN ParserStart ELSE ParseLine(a[i - 1], file[i])]
              /\ Parse(file) = a[Len(file)]
  BY <1>1, ParserRuns
<1> DEFINE S == {n \in Nat : n <= Len(file) => ParserInv(file, n, a[n])}
<1>3. 0 \in S
  <2>1. a[0] = ParserStart
    BY <1>1, <1>2
  <2> QED BY <2>1, ParserStarts
<1>4. ASSUME NEW n \in Nat, n \in S PROVE n + 1 \in S
  <2> SUFFICES ASSUME n + 1 <= Len(file) PROVE ParserInv(file, n + 1, a[n + 1])
    OBVIOUS
  <2>1. n < Len(file) /\ ParserInv(file, n, a[n])
    BY <1>1, <1>4
  <2>2. a[n + 1] = ParseLine(a[n], file[n + 1])
    BY <1>1, <1>2, <2>1
  <2> QED BY <1>1, <2>1, <2>2, ParserStep
<1>5. Len(file) \in S
  <2> HIDE DEF S
  <2> QED BY <1>1, <1>3, <1>4, Induction
<1>6. ParserInv(file, Len(file), Parse(file))
  BY <1>1, <1>2, <1>5
<1>7. Singles(file, name, Len(file)) = SingleLines(file, name)
  BY <1>1 DEF Singles, SingleLines
<1>8. DefinitionIn(file, name) = Body(file[First(SingleLines(file, name))].text)
  BY DEF DefinitionIn, First
<1> QED BY <1>6, <1>7, <1>8 DEF ParserInv, Parsed, Fatal, DefinedIn

-----------------------------------------------------------------------------
(* The map has the first definition of every name. *)
Definers(fs, name) == {i \in DOMAIN fs : DefinedIn(fs[i], name)}

ChunksAreFirst ==
  \A name : /\ name \in DOMAIN chunkMap <=> \E i \in DOMAIN files : DefinedIn(files[i], name)
            /\ Entry(chunkMap, name) = FirstDefinition(files, name)

LEMMA FirstDefined ==
  ASSUME NEW fs, NEW name
  PROVE  FirstDefinition(fs, name) =
           IF Definers(fs, name) = {} THEN <<>>
           ELSE DefinitionIn(fs[First(Definers(fs, name))], name)
BY DEF FirstDefinition, Definers, First

LEMMA FirstOfMore ==
  ASSUME NEW fs \in Seq(ChunkFiles), NEW f \in ChunkFiles, NEW name
  PROVE  FirstDefinition(Append(fs, f), name) =
           IF Definers(fs, name) # {} THEN FirstDefinition(fs, name)
           ELSE IF DefinedIn(f, name) THEN DefinitionIn(f, name) ELSE <<>>
<1> DEFINE more == Append(fs, f)
           n == Len(fs)
<1>1. /\ n \in Nat /\ DOMAIN fs = 1 .. n /\ DOMAIN more = 1 .. n + 1
      /\ more[n + 1] = f /\ \A i \in 1 .. n : more[i] = fs[i]
  OBVIOUS
<1>2. 1 .. n + 1 = 1 .. n \cup {n + 1} /\ n + 1 \notin 1 .. n
  BY <1>1
<1> HIDE DEF more, n
<1>3. Definers(fs, name) \in SUBSET (1 .. n)
  BY <1>1 DEF Definers
<1>4. IF DefinedIn(f, name) THEN Definers(more, name) = Definers(fs, name) \cup {n + 1}
      ELSE Definers(more, name) = Definers(fs, name)
  BY <1>1, <1>2 DEF Definers
<1>5. ASSUME Definers(fs, name) # {}
      PROVE  FirstDefinition(more, name) = FirstDefinition(fs, name)
  <2>1. First(Definers(more, name)) = First(Definers(fs, name)) /\ Definers(more, name) # {}
    BY <1>1, <1>3, <1>4, <1>5, FirstKept
  <2>2. First(Definers(fs, name)) \in 1 .. n
    BY <1>3, <1>5, FirstIsLeast
  <2> QED BY <1>1, <1>5, <2>1, <2>2, FirstDefined
<1>6. ASSUME Definers(fs, name) = {}, DefinedIn(f, name)
      PROVE  FirstDefinition(more, name) = DefinitionIn(f, name)
  <2>1. Definers(more, name) = {n + 1}
    BY <1>4, <1>6
  <2>2. First({n + 1}) = n + 1
    BY <1>1, <1>3, FirstKept
  <2> QED BY <1>1, <2>1, <2>2, FirstDefined
<1>7. ASSUME Definers(fs, name) = {}, ~DefinedIn(f, name)
      PROVE  FirstDefinition(more, name) = <<>>
  BY <1>4, <1>7, FirstDefined
<1> QED BY <1>5, <1>6, <1>7 DEF more

LEMMA ChunksInit == Init => ChunksAreFirst
<1> SUFFICES ASSUME Init, NEW name
             PROVE  /\ name \in DOMAIN chunkMap <=> \E i \in DOMAIN files : DefinedIn(files[i], name)
                    /\ Entry(chunkMap, name) = FirstDefinition(files, name)
  BY DEF ChunksAreFirst
<1>1. DOMAIN chunkMap = {} /\ DOMAIN files = {}
  BY DEF Init, NoChunks
<1>2. Definers(files, name) = {}
  BY <1>1 DEF Definers
<1> QED BY <1>1, <1>2, FirstDefined DEF Entry

LEMMA ChunksAdd ==
  ASSUME ChunksAreFirst, RestTypes, NEW f \in ChunkFiles, AddChunkFile(f)
  PROVE  ChunksAreFirst'
<1>1. CASE Fatal(f)
  BY <1>1 DEF AddChunkFile, ChunksAreFirst
<1>2. CASE ~Fatal(f)
  <2>1. files' = Append(files, f) /\ chunkMap' = Merge(chunkMap, Parsed(f)) /\ files \in Seq(ChunkFiles)
    BY <1>2 DEF AddChunkFile, RestTypes
  <2>2. IsSequence(f) /\ Labelled(f)
    BY FilesAssumption DEF Labelled
  <2> SUFFICES ASSUME NEW name
               PROVE  /\ name \in DOMAIN chunkMap' <=> \E i \in DOMAIN files' : DefinedIn(files'[i], name)
                      /\ Entry(chunkMap', name) = FirstDefinition(files', name)
    BY DEF ChunksAreFirst
  <2>3. /\ name \in DOMAIN Parsed(f) <=> DefinedIn(f, name)
        /\ name \in DOMAIN Parsed(f) => Parsed(f)[name] = DefinitionIn(f, name)
    BY <1>2, <2>2, ParsedIsFirst
  <2>4. /\ name \in DOMAIN chunkMap <=> Definers(files, name) # {}
        /\ Entry(chunkMap, name) = FirstDefinition(files, name)
    BY DEF ChunksAreFirst, Definers
  <2>5. (\E i \in DOMAIN files' : DefinedIn(files'[i], name)) <=>
          Definers(files, name) # {} \/ DefinedIn(f, name)
    BY <2>1 DEF Definers
  <2>6. FirstDefinition(files', name) =
          IF Definers(files, name) # {} THEN FirstDefinition(files, name)
          ELSE IF DefinedIn(f, name) THEN DefinitionIn(f, name) ELSE <<>>
    BY <2>1, FirstOfMore
  <2>7. /\ DOMAIN chunkMap' = DOMAIN chunkMap \cup DOMAIN Parsed(f)
        /\ name \in DOMAIN chunkMap => chunkMap'[name] = chunkMap[name]
        /\ name \in DOMAIN Parsed(f) \ DOMAIN chunkMap => chunkMap'[name] = Parsed(f)[name]
    BY <2>1 DEF Merge
  <2> QED BY <2>3, <2>4, <2>5, <2>6, <2>7 DEF Entry
<1> QED BY <1>1, <1>2

LEMMA ChunksNext == ChunksAreFirst /\ RestTypes /\ [Next]_vars => ChunksAreFirst'
<1> SUFFICES ASSUME ChunksAreFirst, RestTypes, [Next]_vars PROVE ChunksAreFirst'
  OBVIOUS
<1>1. CASE \E f \in ChunkFiles : AddChunkFile(f)
  BY <1>1, ChunksAdd
<1>2. CASE InitializeDatabasePlugins \/ InitializeTemplates \/ InitializeWebPlugins
  BY <1>2 DEF InitializeDatabasePlugins, InitializeTemplates, InitializeWebPlugins, Advance,
     ChunksAreFirst
<1>3. ASSUME NEW w \in Workers, Step(w) PROVE UNCHANGED <<files, chunkMap>>
  BY <1>3 DEF Step, SendPage, CopyLine, FindMarkup, InvalidInstruction, UnknownInstruction,
     EnterClosure, LeaveClosure, EndPage, mainVars
<1>4. ASSUME NEW w \in Workers, NEW p, NEW codes, BeginPage(w, p, codes)
      PROVE  UNCHANGED <<files, chunkMap>>
  BY <1>4 DEF BeginPage, mainVars
<1>5. ASSUME NEW name, ForgetExpander(name) PROVE UNCHANGED <<files, chunkMap>>
  BY <1>5 DEF ForgetExpander, mainVars
<1>6. CASE UNCHANGED vars
  BY <1>6 DEF vars, mainVars, ChunksAreFirst
<1> QED BY <1>1, <1>2, <1>3, <1>4, <1>5, <1>6 DEF Next, Main, ChunksAreFirst

(* Whatever files the configuration names, the map defines the names they  *)
(* define, and hcv_get_chunkmap_entry gives the first definition.          *)
THEOREM PagesFirstDefinitions == Spec => []ChunksAreFirst
<1> QED BY ChunksInit, ChunksNext, TypesInit, TypesNext, PTL DEF Spec

-----------------------------------------------------------------------------
(* Concatenations of sequences: FlattenSeq, one sequence at a time.        *)

(* Sequences of anything: what the provers need is a set of elements. *)
LEMMA Common ==
  ASSUME NEW s, NEW t, NEW u, IsSequence(s), IsSequence(t), IsSequence(u)
  PROVE  \E S : s \in Seq(S) /\ t \in Seq(S) /\ u \in Seq(S)
<1> DEFINE S == Range(s) \cup Range(t) \cup Range(u)
<1>1. Range(s) \subseteq S /\ Range(t) \subseteq S /\ Range(u) \subseteq S
  OBVIOUS
<1>2. s \in Seq(Range(s)) /\ t \in Seq(Range(t)) /\ u \in Seq(Range(u))
  BY DEF IsSequence
<1> HIDE DEF S
<1> QED BY <1>1, <1>2, SeqMonotonic

(* A sequence of members of a set is one of its own elements. *)
LEMMA OfSet ==
  ASSUME NEW S, NEW s \in Seq(S)
  PROVE  IsSequence(s)
<1>1. Len(s) \in Nat /\ DOMAIN s = 1 .. Len(s) /\ s = [i \in 1 .. Len(s) |-> s[i]]
  OBVIOUS
<1>2. \A i \in 1 .. Len(s) : s[i] \in Range(s)
  BY <1>1 DEF Range
<1>3. s \in [1 .. Len(s) -> Range(s)]
  BY <1>1, <1>2
<1> QED BY <1>1, <1>3 DEF IsSequence

LEMMA Concat ==
  ASSUME NEW s, NEW t, NEW u, IsSequence(s), IsSequence(t), IsSequence(u)
  PROVE  /\ IsSequence(s \o t)
         /\ (s \o t) \o u = s \o (t \o u)
         /\ s \o <<>> = s /\ <<>> \o s = s
<1>1. PICK S : s \in Seq(S) /\ t \in Seq(S) /\ u \in Seq(S)
  BY Common
<1>2. s \o t \in Seq(S)
  BY <1>1, ConcatProperties
<1>3. IsSequence(s \o t)
  BY <1>2, OfSet
<1>4. (s \o t) \o u = s \o (t \o u)
  BY <1>1, ConcatAssociative
<1>5. s \o <<>> = s /\ <<>> \o s = s
  BY <1>1, ConcatEmptySeq
<1> QED BY <1>3, <1>4, <1>5

LEMMA Small ==
  IsSequence(<<>>) /\ \A x : IsSequence(<<x>>)
<1>1. <<>> \in Seq({})
  OBVIOUS
<1>2. ASSUME NEW x PROVE <<x>> \in Seq({x})
  OBVIOUS
<1> QED BY <1>1, <1>2, OfSet

Join(s, t) == s \o t

(* The run of the fold in FlattenSeq. *)
LEMMA FlattenRuns ==
  ASSUME NEW q, Len(q) \in Nat \ {0}
  PROVE  \E a : /\ a[1] = q[1] /\ \A i \in 2 .. Len(q) : a[i] = Join(a[i - 1], q[i])
                /\ FlattenSeq(q) = a[Len(q)]
<1> DEFINE Run(n, a) == a = [i \in 1 .. n |-> IF i = 1 THEN q[i] ELSE Join(a[i - 1], q[i])]
           S == {n \in Nat : \E a : Run(n, a)}
<1>1. 0 \in S
  <2>1. Run(0, [i \in 1 .. 0 |-> q[i]])
    OBVIOUS
  <2> QED BY <2>1
<1>2. ASSUME NEW n \in Nat, n \in S PROVE n + 1 \in S
  <2>1. PICK a : Run(n, a)
    BY <1>2
  <2> DEFINE last == IF n = 0 THEN q[1] ELSE Join(a[n], q[n + 1])
             b == [i \in 1 .. n + 1 |-> IF i = n + 1 THEN last ELSE a[i]]
  <2>2. \A i \in 1 .. n : a[i] = IF i = 1 THEN q[i] ELSE Join(a[i - 1], q[i])
    BY <2>1
  <2>3. \A i \in 1 .. n + 1 : b[i] = IF i = 1 THEN q[i] ELSE Join(b[i - 1], q[i])
    <3> SUFFICES ASSUME NEW i \in 1 .. n + 1
                 PROVE  b[i] = IF i = 1 THEN q[i] ELSE Join(b[i - 1], q[i])
      OBVIOUS
    <3>1. CASE i = n + 1
      <4>1. CASE n = 0
        BY <3>1, <4>1
      <4>2. CASE n # 0
        <5>1. b[i] = Join(a[n], q[n + 1]) /\ b[i - 1] = a[n]
          BY <3>1, <4>2
        <5> QED BY <3>1, <4>2, <5>1
      <4> QED BY <4>1, <4>2
    <3>2. CASE i = 1 /\ i \in 1 .. n
      BY <2>2, <3>2
    <3>3. CASE i \in 2 .. n
      <4>1. b[i] = a[i] /\ b[i - 1] = a[i - 1] /\ a[i] = Join(a[i - 1], q[i])
        BY <2>2, <3>3
      <4> QED BY <3>3, <4>1
    <3> QED BY <3>1, <3>2, <3>3
  <2>4. Run(n + 1, b)
    <3>1. b = [i \in 1 .. n + 1 |-> b[i]]
      OBVIOUS
    <3> HIDE DEF b
    <3> QED BY <2>3, <3>1
  <2>5. \E c : Run(n + 1, c)
    <3> HIDE DEF b, Run
    <3> QED BY <2>4
  <2> QED BY <2>5
<1>3. Len(q) \in S
  <2> HIDE DEF S
  <2> QED BY <1>1, <1>2, Induction
<1>4. \E a : Run(Len(q), a)
  BY <1>3
<1>5. \E a : Run(Len(q), a) /\ FlattenSeq(q) = a[Len(q)]
  BY <1>4 DEF FlattenSeq, Join
<1>6. PICK a : Run(Len(q), a) /\ FlattenSeq(q) = a[Len(q)]
  BY <1>5
<1>7. \A i \in 1 .. Len(q) : a[i] = IF i = 1 THEN q[i] ELSE Join(a[i - 1], q[i])
  BY <1>6
<1>8. a[1] = q[1] /\ \A i \in 2 .. Len(q) : a[i] = Join(a[i - 1], q[i])
  BY <1>7
<1> HIDE DEF Run
<1> QED BY <1>6, <1>8

(* The first n elements. *)
Part(q, n) == [i \in 1 .. n |-> q[i]]

LEMMA FlattenStep ==
  ASSUME NEW n \in Nat, NEW q, \A i \in 1 .. n + 1 : IsSequence(q[i])
  PROVE  /\ FlattenSeq(Part(q, 0)) = <<>>
         /\ FlattenSeq(Part(q, 1)) = q[1]
         /\ n > 0 => FlattenSeq(Part(q, n + 1)) = FlattenSeq(Part(q, n)) \o q[n + 1]
<1>1. \A m \in Nat : Len(Part(q, m)) = m
  BY DEF Part
<1>2. Part(q, 0) = <<>>
  BY DEF Part
<1>3. FlattenSeq(Part(q, 0)) = <<>>
  BY <1>1, <1>2 DEF FlattenSeq
<1>4. FlattenSeq(Part(q, 1)) = q[1]
  <2>1. PICK a : a[1] = Part(q, 1)[1] /\ FlattenSeq(Part(q, 1)) = a[1]
    BY <1>1, FlattenRuns
  <2> QED BY <2>1 DEF Part
<1>5. ASSUME n > 0 PROVE FlattenSeq(Part(q, n + 1)) = FlattenSeq(Part(q, n)) \o q[n + 1]
  <2> DEFINE p == Part(q, n)
             r == Part(q, n + 1)
  <2>1. Len(p) = n /\ Len(r) = n + 1 /\ \A i \in 1 .. n : p[i] = q[i] /\ r[i] = q[i]
    BY <1>1 DEF Part
  <2>1a. r[n + 1] = q[n + 1]
    BY DEF Part
  <2>1b. Len(r) \in Nat \ {0} /\ Len(p) \in Nat \ {0}
    BY <1>5, <2>1
  <2> HIDE DEF p, r
  <2>2. \E a : /\ a[1] = r[1] /\ \A i \in 2 .. Len(r) : a[i] = Join(a[i - 1], r[i])
              /\ FlattenSeq(r) = a[Len(r)]
    BY <2>1b, FlattenRuns
  <2>3. \E b : /\ b[1] = p[1] /\ \A i \in 2 .. Len(p) : b[i] = Join(b[i - 1], p[i])
              /\ FlattenSeq(p) = b[Len(p)]
    BY <2>1b, FlattenRuns
  <2>2a. PICK a : /\ a[1] = r[1] /\ \A i \in 2 .. n + 1 : a[i] = Join(a[i - 1], r[i])
                  /\ FlattenSeq(r) = a[n + 1]
    BY <2>1, <2>2
  <2>3a. PICK b : /\ b[1] = p[1] /\ \A i \in 2 .. n : b[i] = Join(b[i - 1], p[i])
                  /\ FlattenSeq(p) = b[n]
    BY <2>1, <2>3
  <2> DEFINE S == {i \in Nat : i \in 1 .. n => a[i] = b[i]}
  <2>4. 0 \in S
    OBVIOUS
  <2>5. ASSUME NEW i \in Nat, i \in S PROVE i + 1 \in S
    <3> SUFFICES ASSUME i + 1 \in 1 .. n PROVE a[i + 1] = b[i + 1]
      OBVIOUS
    <3>1. CASE i = 0
      <4>1. a[1] = r[1] /\ b[1] = p[1]
        BY <1>5, <2>2a, <2>3a
      <4> QED BY <1>5, <2>1, <3>1, <4>1
    <3>2. CASE i # 0
      <4>1. a[i + 1] = Join(a[i], r[i + 1]) /\ b[i + 1] = Join(b[i], p[i + 1])
        BY <2>2a, <2>3a, <3>2
      <4> QED BY <2>1, <2>5, <3>2, <4>1
    <3> QED BY <3>1, <3>2
  <2>6. n \in S
    <3> HIDE DEF S
    <3> QED BY <2>4, <2>5, Induction
  <2>7. a[n + 1] = Join(a[n], r[n + 1])
    BY <1>5, <2>2a
  <2>8. a[n] = b[n]
    BY <1>5, <2>6
  <2>9. FlattenSeq(r) = FlattenSeq(p) \o q[n + 1]
    BY <2>1a, <2>2a, <2>3a, <2>7, <2>8 DEF Join
  <2> QED BY <2>9 DEF p, r
<1> QED BY <1>3, <1>4, <1>5

(* Every prefix flattens to a sequence, and grows with the next element. *)
LEMMA FlattenAll ==
  ASSUME NEW m \in Nat, NEW q, \A i \in 1 .. m : IsSequence(q[i])
  PROVE  /\ FlattenSeq(Part(q, 0)) = <<>>
         /\ \A n \in 0 .. m : IsSequence(FlattenSeq(Part(q, n)))
         /\ \A n \in 0 .. m - 1 : FlattenSeq(Part(q, n + 1)) = FlattenSeq(Part(q, n)) \o q[n + 1]
<1>1. FlattenSeq(Part(q, 0)) = <<>>
  <2>1. Part(q, 0) = <<>> /\ Len(Part(q, 0)) = 0
    BY DEF Part
  <2> QED BY <2>1 DEF FlattenSeq
<1>2. ASSUME NEW n \in 0 .. m - 1
      PROVE  FlattenSeq(Part(q, n + 1)) = FlattenSeq(Part(q, n)) \o q[n + 1]
  <2>1. n \in Nat /\ n + 1 \in 1 .. m /\ \A i \in 1 .. n + 1 : IsSequence(q[i])
    OBVIOUS
  <2>2. CASE n = 0
    <3>1. <<>> \o q[1] = q[1]
      BY <2>1, <2>2, Concat
    <3>2. FlattenSeq(Part(q, 1)) = q[1]
      BY <2>1, FlattenStep
    <3>3. FlattenSeq(Part(q, 1)) = FlattenSeq(Part(q, 0)) \o q[1]
      BY <1>1, <3>1, <3>2
    <3>4. n + 1 = 1
      BY <2>2
    <3> QED BY <2>2, <3>3, <3>4
  <2>3. CASE n # 0
    <3>1. n > 0 => FlattenSeq(Part(q, n + 1)) = FlattenSeq(Part(q, n)) \o q[n + 1]
      BY <2>1, FlattenStep
    <3> QED BY <2>1, <2>3, <3>1
  <2> QED BY <2>2, <2>3
<1> DEFINE S == {n \in Nat : n <= m => IsSequence(FlattenSeq(Part(q, n)))}
<1>3. 0 \in S
  BY <1>1, Small
<1>4. ASSUME NEW n \in Nat, n \in S PROVE n + 1 \in S
  <2> SUFFICES ASSUME n + 1 <= m PROVE IsSequence(FlattenSeq(Part(q, n + 1)))
    OBVIOUS
  <2>1. IsSequence(FlattenSeq(Part(q, n))) /\ IsSequence(q[n + 1]) /\ n \in 0 .. m - 1
    BY <1>4
  <2>2. IsSequence(FlattenSeq(Part(q, n)) \o q[n + 1])
    BY <2>1, Concat
  <2> QED BY <1>2, <2>1, <2>2
<1>5. Nat \subseteq S
  <2> HIDE DEF S
  <2> QED BY <1>3, <1>4, Induction
<1>6. \A n \in 0 .. m : IsSequence(FlattenSeq(Part(q, n)))
  BY <1>5
<1> HIDE DEF S
<1>7. \A n \in 0 .. m - 1 : FlattenSeq(Part(q, n + 1)) = FlattenSeq(Part(q, n)) \o q[n + 1]
  BY <1>2
<1> QED BY <1>1, <1>6, <1>7

(* What the properties read of one item. *)
One(item) == IF item.k \in Read THEN <<item>> ELSE <<>>

LEMMA OneIsSequence == ASSUME NEW item PROVE IsSequence(One(item))
BY Small DEF One

LEMMA ReadAppended ==
  ASSUME NEW items, IsSequence(items), NEW item
  PROVE  /\ IsSequence(AsRead(items)) /\ IsSequence(Append(items, item))
         /\ AsRead(Append(items, item)) = AsRead(items) \o One(item)
         /\ AsRead(<<>>) = <<>>
<1> DEFINE n == Len(items)
           r == Append(items, item)
           q == [i \in 1 .. n + 1 |-> One(r[i])]
<1>1. n \in Nat /\ DOMAIN items = 1 .. n /\ items \in Seq(Range(items))
  BY Sequences DEF IsSequence
<1>2. DOMAIN r = 1 .. n + 1 /\ r[n + 1] = item /\ \A i \in 1 .. n : r[i] = items[i]
  BY <1>1
<1>3. IsSequence(r)
  <2>1. items \in Seq(Range(items) \cup {item})
    BY <1>1, SeqMonotonic
  <2>2. r \in Seq(Range(items) \cup {item})
    BY <2>1
  <2> HIDE DEF r
  <2> QED BY <2>2, OfSet
<1> HIDE DEF n, r
<1>4. \A i \in 1 .. n + 1 : IsSequence(q[i])
  BY OneIsSequence
<1>5. AsRead(items) = FlattenSeq(Part(q, n))
  <2>1. [i \in DOMAIN items |-> One(items[i])] = Part(q, n)
    BY <1>1, <1>2 DEF Part
  <2> HIDE DEF q
  <2> QED BY <2>1 DEF AsRead, One
<1>6. AsRead(r) = FlattenSeq(Part(q, n + 1))
  <2>1. [i \in DOMAIN r |-> One(r[i])] = Part(q, n + 1)
    BY <1>1, <1>2 DEF Part
  <2> HIDE DEF q
  <2> QED BY <2>1 DEF AsRead, One
<1>7. q[n + 1] = One(item)
  BY <1>1, <1>2
<1>8. AsRead(<<>>) = <<>>
  <2>1. [i \in DOMAIN <<>> |-> One(<<>>[i])] = Part(q, 0) /\ Part(q, 0) = <<>>
    BY DEF Part
  <2>2. AsRead(<<>>) = FlattenSeq(Part(q, 0))
    <3> HIDE DEF q
    <3> QED BY <2>1 DEF AsRead, One
  <2> HIDE DEF q
  <2> QED BY <1>1, <1>4, <2>2, FlattenAll
<1> HIDE DEF q
<1>9. /\ IsSequence(FlattenSeq(Part(q, n)))
      /\ FlattenSeq(Part(q, n + 1)) = FlattenSeq(Part(q, n)) \o q[n + 1]
  <2>1. n + 1 \in Nat /\ n \in 0 .. n + 1 /\ n \in 0 .. (n + 1) - 1
    BY <1>1
  <2> QED BY <1>4, <2>1, FlattenAll
<1>10. AsRead(r) = AsRead(items) \o One(item)
  BY <1>5, <1>6, <1>7, <1>9
<1> QED BY <1>3, <1>5, <1>8, <1>9, <1>10 DEF r

(* Reading a page distributes over what is appended to it. *)
LEMMA ReadConcat ==
  ASSUME NEW s, NEW t, IsSequence(s), IsSequence(t)
  PROVE  /\ AsRead(s \o t) = AsRead(s) \o AsRead(t)
         /\ IsSequence(AsRead(s)) /\ IsSequence(AsRead(t))
<1> DEFINE S == {m \in Nat : m <= Len(t) => /\ IsSequence(Part(t, m))
                                            /\ AsRead(s \o Part(t, m)) = AsRead(s) \o AsRead(Part(t, m))}
<1>0. Len(t) \in Nat /\ DOMAIN t = 1 .. Len(t) /\ t \in Seq(Range(t))
  BY Sequences DEF IsSequence
<1>1. Part(t, Len(t)) = t
  BY <1>0 DEF Part
<1>2. 0 \in S
  <2>1. Part(t, 0) = <<>>
    BY DEF Part
  <2>2. AsRead(<<>>) = <<>> /\ IsSequence(AsRead(s))
    BY ReadAppended
  <2>3. s \o <<>> = s /\ AsRead(s) \o <<>> = AsRead(s)
    BY <2>2, Concat
  <2> QED BY <2>1, <2>2, <2>3, Small
<1>3. ASSUME NEW m \in Nat, m \in S PROVE m + 1 \in S
  <2> SUFFICES ASSUME m + 1 <= Len(t)
               PROVE  /\ IsSequence(Part(t, m + 1))
                      /\ AsRead(s \o Part(t, m + 1)) = AsRead(s) \o AsRead(Part(t, m + 1))
    OBVIOUS
  <2> DEFINE p == Part(t, m)
             x == t[m + 1]
  <2>1. IsSequence(p) /\ AsRead(s \o p) = AsRead(s) \o AsRead(p)
    BY <1>3, <1>0
  <2>2. Part(t, m + 1) = Append(p, x)
    BY <1>0 DEF Part
  <2>3. s \o Append(p, x) = Append(s \o p, x)
    <3>1. PICK A : s \in Seq(A) /\ p \in Seq(A) /\ <<x>> \in Seq(A)
      BY <2>1, Common, Small
    <3>2. Append(p, x) = p \o <<x>> /\ Append(s \o p, x) = (s \o p) \o <<x>>
      <4>1. s \o p \in Seq(A) /\ x \in A
        BY <3>1
      <4> HIDE DEF p, x
      <4> QED BY <3>1, <4>1
    <3> HIDE DEF p, x
    <3> QED BY <3>1, <3>2, ConcatAssociative
  <2> HIDE DEF p, x
  <2>4. IsSequence(s \o p)
    BY <2>1, Concat
  <2>5. AsRead(Append(s \o p, x)) = AsRead(s \o p) \o One(x)
    BY <2>4, ReadAppended
  <2>6. AsRead(Append(p, x)) = AsRead(p) \o One(x) /\ IsSequence(Append(p, x)) /\ IsSequence(AsRead(p))
    BY <2>1, ReadAppended
  <2>7. (AsRead(s) \o AsRead(p)) \o One(x) = AsRead(s) \o (AsRead(p) \o One(x))
    <3> DEFINE readS == AsRead(s)
               readP == AsRead(p)
               one == One(x)
    <3>1. IsSequence(readS) /\ IsSequence(readP) /\ IsSequence(one)
      BY <2>6, ReadAppended, OneIsSequence
    <3> HIDE DEF readS, readP, one
    <3>2. (readS \o readP) \o one = readS \o (readP \o one)
      BY <3>1, Concat
    <3> QED BY <3>2 DEF readS, readP, one
  <2> QED BY <2>1, <2>2, <2>3, <2>5, <2>6, <2>7
<1>4. Len(t) \in S
  <2> HIDE DEF S
  <2> QED BY <1>0, <1>2, <1>3, Induction
<1>5. AsRead(s \o Part(t, Len(t))) = AsRead(s) \o AsRead(Part(t, Len(t)))
  BY <1>0, <1>4
<1>6. IsSequence(AsRead(s)) /\ IsSequence(AsRead(t))
  BY ReadAppended
<1> HIDE DEF S
<1> QED BY <1>1, <1>5, <1>6

-----------------------------------------------------------------------------
(* Offsets of the tokens of a line *)

LEMMA OffsetRuns ==
  ASSUME NEW line, NEW m \in Nat
  PROVE  \E a : /\ a[0] = 0 /\ \A k \in 1 .. m : a[k] = a[k - 1] + Width(line[k])
                /\ Offset(line, m + 1) = a[m]
<1> DEFINE Run(n, a) == a = [k \in 0 .. n |-> IF k = 0 THEN 0 ELSE a[k - 1] + Width(line[k])]
           S == {n \in Nat : \E a : Run(n, a)}
<1>1. 0 \in S
  <2>1. Run(0, [k \in 0 .. 0 |-> 0])
    OBVIOUS
  <2> QED BY <2>1
<1>2. ASSUME NEW n \in Nat, n \in S PROVE n + 1 \in S
  <2>1. PICK a : Run(n, a)
    BY <1>2
  <2> DEFINE b == [k \in 0 .. n + 1 |-> IF k = n + 1 THEN a[n] + Width(line[n + 1]) ELSE a[k]]
  <2>2. a[0] = 0 /\ \A k \in 1 .. n : a[k] = a[k - 1] + Width(line[k])
    BY <2>1
  <2>3. \A k \in 0 .. n + 1 : b[k] = IF k = 0 THEN 0 ELSE b[k - 1] + Width(line[k])
    <3> SUFFICES ASSUME NEW k \in 0 .. n + 1
                 PROVE  b[k] = IF k = 0 THEN 0 ELSE b[k - 1] + Width(line[k])
      OBVIOUS
    <3>1. CASE k = 0
      BY <2>2, <3>1
    <3>2. CASE k = n + 1
      BY <3>2
    <3>3. CASE k \in 1 .. n
      BY <2>2, <3>3
    <3> QED BY <3>1, <3>2, <3>3
  <2>4. Run(n + 1, b)
    <3>1. b = [k \in 0 .. n + 1 |-> b[k]]
      OBVIOUS
    <3> HIDE DEF b
    <3> QED BY <2>3, <3>1
  <2>5. \E c : Run(n + 1, c)
    <3> HIDE DEF b, Run
    <3> QED BY <2>4
  <2> QED BY <2>5
<1>3. m \in S
  <2> HIDE DEF S
  <2> QED BY <1>1, <1>2, Induction
<1>4. (m + 1) - 1 = m
  OBVIOUS
<1>5. \E a : Run(m, a) /\ Offset(line, m + 1) = a[m]
  BY <1>3, <1>4 DEF Offset
<1>6. PICK a : Run(m, a) /\ Offset(line, m + 1) = a[m]
  BY <1>5
<1>7. a[0] = 0 /\ \A k \in 1 .. m : a[k] = a[k - 1] + Width(line[k])
  BY <1>6
<1> HIDE DEF Run
<1> QED BY <1>6, <1>7

LEMMA OffsetStep ==
  ASSUME NEW line, NEW m \in Nat
  PROVE  /\ Offset(line, 1) = 0
         /\ Offset(line, m + 2) = Offset(line, m + 1) + Width(line[m + 1])
<1>1. Offset(line, 1) = 0
  <2>1. PICK a : a[0] = 0 /\ Offset(line, 0 + 1) = a[0]
    BY OffsetRuns
  <2> QED BY <2>1
<1>2. PICK a : /\ a[0] = 0 /\ \A k \in 1 .. m : a[k] = a[k - 1] + Width(line[k])
               /\ Offset(line, m + 1) = a[m]
  BY OffsetRuns
<1>3. PICK b : /\ b[0] = 0 /\ \A k \in 1 .. m + 1 : b[k] = b[k - 1] + Width(line[k])
               /\ Offset(line, (m + 1) + 1) = b[m + 1]
  <2>1. m + 1 \in Nat
    OBVIOUS
  <2> QED BY <2>1, OffsetRuns
<1> DEFINE S == {k \in Nat : k <= m => a[k] = b[k]}
<1>4. 0 \in S
  BY <1>2, <1>3
<1>5. ASSUME NEW k \in Nat, k \in S PROVE k + 1 \in S
  <2> SUFFICES ASSUME k + 1 <= m PROVE a[k + 1] = b[k + 1]
    OBVIOUS
  <2>1. a[k] = b[k] /\ k + 1 \in 1 .. m /\ k + 1 \in 1 .. m + 1 /\ (k + 1) - 1 = k
    BY <1>5
  <2>2. a[k + 1] = a[k] + Width(line[k + 1]) /\ b[k + 1] = b[k] + Width(line[k + 1])
    BY <1>2, <1>3, <2>1
  <2> QED BY <2>1, <2>2
<1>6. m \in S
  <2> HIDE DEF S
  <2> QED BY <1>4, <1>5, Induction
<1>7. a[m] = b[m]
  BY <1>6
<1>8. b[m + 1] = b[m] + Width(line[m + 1])
  BY <1>3
<1>9. (m + 1) + 1 = m + 2
  OBVIOUS
<1> QED BY <1>1, <1>2, <1>3, <1>7, <1>8, <1>9

(* Offsets grow along a line, by the width of each token. *)
LEMMA Offsets ==
  ASSUME NEW line, NEW n \in Nat, \A k \in 1 .. n : line[k].width \in Nat
  PROVE  /\ \A i \in 1 .. n + 1 : Offset(line, i) \in Nat
         /\ \A i, j \in 1 .. n + 1 : i <= j => Offset(line, i) <= Offset(line, j)
         /\ \A i \in 1 .. n : Offset(line, i + 1) = Offset(line, i) + Width(line[i])
<1>1. \A k \in 1 .. n : Width(line[k]) \in Nat
  BY DEF Width
<1>2. \A i \in 1 .. n : Offset(line, i + 1) = Offset(line, i) + Width(line[i])
  <2> SUFFICES ASSUME NEW i \in 1 .. n
               PROVE  Offset(line, i + 1) = Offset(line, i) + Width(line[i])
    OBVIOUS
  <2>1. i - 1 \in Nat /\ (i - 1) + 1 = i /\ (i - 1) + 2 = i + 1
    OBVIOUS
  <2> QED BY <2>1, OffsetStep
<1> DEFINE Below(m) == \A i \in 1 .. m + 1 : /\ Offset(line, i) \in Nat
                                              /\ Offset(line, i) <= Offset(line, m + 1)
           S == {m \in Nat : m <= n => Below(m)}
<1>3. 0 \in S
  <2>1. Offset(line, 1) = 0
    BY OffsetStep
  <2> QED BY <2>1
<1>4. ASSUME NEW m \in Nat, m \in S PROVE m + 1 \in S
  <2> SUFFICES ASSUME m + 1 <= n, NEW i \in 1 .. m + 2
               PROVE  Offset(line, i) \in Nat /\ Offset(line, i) <= Offset(line, m + 2)
    OBVIOUS
  <2> DEFINE last == Offset(line, m + 1)
             width == Width(line[m + 1])
             next == Offset(line, m + 2)
  <2>1. last \in Nat /\ \A j \in 1 .. m + 1 : Offset(line, j) \in Nat /\ Offset(line, j) <= last
    BY <1>4
  <2>2. width \in Nat /\ next = last + width
    <3>1. m + 1 \in 1 .. n /\ (m + 1) + 1 = m + 2
      OBVIOUS
    <3> QED BY <1>1, <1>2, <3>1
  <2>3. next \in Nat /\ last <= next
    <3> HIDE DEF last, width, next
    <3> QED BY <2>1, <2>2
  <2>4. CASE i \in 1 .. m + 1
    <3>1. Offset(line, i) \in Nat /\ Offset(line, i) <= last
      BY <2>1, <2>4
    <3> HIDE DEF last, width, next
    <3>2. Offset(line, i) <= next
      BY <2>1, <2>3, <3>1
    <3> QED BY <3>1, <3>2 DEF next
  <2>5. CASE i = m + 2
    BY <2>3, <2>5
  <2> QED BY <2>4, <2>5
<1>5. Nat \subseteq S
  <2> HIDE DEF S
  <2> QED BY <1>3, <1>4, Induction
<1>6. ASSUME NEW j \in 1 .. n + 1
      PROVE  /\ Offset(line, j) \in Nat
             /\ \A i \in 1 .. j : Offset(line, i) <= Offset(line, j)
  <2>1. j - 1 \in S /\ (j - 1) + 1 = j /\ j - 1 <= n
    BY <1>5
  <2> QED BY <2>1
<1> HIDE DEF S
<1> QED BY <1>2, <1>6

-----------------------------------------------------------------------------
(* Regular lines *)

AtToken(line, cur) == cur = 1 \/ line[cur - 1].t = "close"
Plain(token) == token.t \notin {"open", "body", "close"}

(* Before the next markup of a regular line there is text only. *)
LEMMA NoMarkupLeft ==
  ASSUME NEW line, Len(line) \in Nat, DOMAIN line = 1 .. Len(line), Regular(line),
         NEW cur \in 1 .. Len(line) + 1, AtToken(line, cur),
         NEW s \in cur .. Len(line) + 1, \A i \in cur .. s - 1 : line[i].t # "open"
  PROVE  \A i \in cur .. s - 1 : Plain(line[i])
<1> SUFFICES ASSUME NEW i \in cur .. s - 1 PROVE line[i].t # "body" /\ line[i].t # "close"
  BY DEF Plain
<1>0. i \in DOMAIN line
  OBVIOUS
<1>1. ASSUME line[i].t = "body" PROVE FALSE
  <2>1. i > 1 /\ line[i - 1].t = "open"
    BY <1>0, <1>1 DEF Regular
  <2>2. i = cur
    BY <2>1
  <2> QED BY <2>1, <2>2 DEF AtToken
<1>2. ASSUME line[i].t = "close" PROVE FALSE
  <2>1. i > 2 /\ line[i - 2].t = "open" /\ i - 2 \in DOMAIN line
    BY <1>0, <1>2 DEF Regular
  <2>2. i - 2 < cur
    BY <2>1
  <2>3. CASE i = cur + 1
    BY <2>1, <2>3 DEF AtToken
  <2>4. CASE i = cur
    <3>1. line[(i - 2) + 1].t = "body" /\ (i - 2) + 1 = cur - 1
      BY <2>1, <2>4 DEF Regular
    <3> QED BY <2>1, <2>4, <3>1 DEF AtToken
  <2> QED BY <2>2, <2>3, <2>4
<1> QED BY <1>1, <1>2

(* The ?> that the search of a regular line finds closes its instruction. *)
LEMMA MarkupFound ==
  ASSUME NEW line, Len(line) \in Nat, DOMAIN line = 1 .. Len(line), Regular(line),
         \A k \in DOMAIN line : line[k].width \in Nat,
         NEW cur \in 1 .. Len(line) + 1, AtToken(line, cur), Opens(line, cur) # {}
  PROVE  LET s == First(Opens(line, cur)) IN
         /\ s \in cur .. Len(line) /\ s + 2 <= Len(line)
         /\ line[s].t = "open" /\ line[s + 1].t = "body" /\ line[s + 2].t = "close"
         /\ \A i \in cur .. s - 1 : Plain(line[i])
         /\ Closes(line, cur) # {} /\ First(Closes(line, cur)) = s + 2
<1> DEFINE s == First(Opens(line, cur))
<1>1. Opens(line, cur) \in SUBSET Nat
  BY DEF Opens
<1>2. s \in Opens(line, cur) /\ \A k \in Opens(line, cur) : s <= k
  BY <1>1, FirstIsLeast
<1> HIDE DEF s
<1>3. s \in cur .. Len(line) /\ line[s].t = "open" /\ \A i \in cur .. s - 1 : line[i].t # "open"
  BY <1>2 DEF Opens
<1>3a. s \in DOMAIN line /\ s \in cur .. Len(line) + 1
  BY <1>3
<1>4. s + 2 <= Len(line) /\ line[s + 1].t = "body" /\ line[s + 2].t = "close"
  BY <1>3, <1>3a DEF Regular
<1>5. \A i \in cur .. s - 1 : Plain(line[i])
  BY <1>3, <1>3a, NoMarkupLeft
<1>6. s + 2 \in Closes(line, cur)
  <2>1. /\ Offset(line, s + 1) = Offset(line, s) + Width(line[s])
        /\ Offset(line, s) >= Offset(line, cur) /\ Offset(line, s + 2) >= Offset(line, s + 1)
        /\ Offset(line, s) \in Nat /\ Offset(line, cur) \in Nat /\ Offset(line, s + 2) \in Nat
    <3>1. s \in 1 .. Len(line) /\ s + 1 \in 1 .. Len(line) + 1 /\ s + 2 \in 1 .. Len(line) + 1 /\ cur <= s
      BY <1>3, <1>4
    <3>2. \A k \in 1 .. Len(line) : line[k].width \in Nat
      OBVIOUS
    <3>3. /\ \A i \in 1 .. Len(line) + 1 : Offset(line, i) \in Nat
          /\ \A i, j \in 1 .. Len(line) + 1 : i <= j => Offset(line, i) <= Offset(line, j)
          /\ \A i \in 1 .. Len(line) : Offset(line, i + 1) = Offset(line, i) + Width(line[i])
      BY <3>2, Offsets
    <3>4. s \in 1 .. Len(line) + 1 /\ cur \in 1 .. Len(line) + 1 /\ s + 1 <= s + 2
      BY <3>1
    <3>5. Offset(line, s) >= Offset(line, cur) /\ Offset(line, s + 2) >= Offset(line, s + 1)
      BY <3>1, <3>3, <3>4
    <3> QED BY <3>1, <3>3, <3>4, <3>5
  <2>2. Width(line[s]) = 6
    BY <1>3 DEF Width
  <2>3. Offset(line, s + 2) >= Offset(line, cur) + 6
    BY <2>1, <2>2
  <2> QED BY <1>3, <1>4, <2>3 DEF Closes
<1>7. ASSUME NEW i \in Closes(line, cur) PROVE s + 2 <= i
  <2>1. i \in cur .. Len(line) /\ line[i].t = "close"
    BY DEF Closes
  <2>2. i > s
    BY <1>3, <1>5, <2>1 DEF Plain
  <2>3. i # s + 1
    BY <1>4, <2>1
  <2> QED BY <1>3, <2>1, <2>2, <2>3
<1>8. First(Closes(line, cur)) = s + 2
  <2>1. Closes(line, cur) \in SUBSET Nat /\ Closes(line, cur) # {}
    BY <1>6 DEF Closes
  <2>2. First(Closes(line, cur)) \in Closes(line, cur) /\ \A k \in Closes(line, cur) : First(Closes(line, cur)) <= k
    BY <2>1, FirstIsLeast
  <2>3. First(Closes(line, cur)) <= s + 2 /\ s + 2 <= First(Closes(line, cur))
    BY <1>6, <1>7, <2>2
  <2>4. First(Closes(line, cur)) \in Nat /\ s + 2 \in Nat
    BY <1>3, <2>1, <2>2
  <2> QED BY <2>3, <2>4
<1> QED BY <1>3, <1>4, <1>5, <1>6, <1>8 DEF s

-----------------------------------------------------------------------------
(* The items a page is expected to have, one line and one token at a time. *)

LEMMA ReadOne == ASSUME NEW item PROVE AsRead(<<item>>) = One(item)
<1>1. AsRead(Append(<<>>, item)) = AsRead(<<>>) \o One(item) /\ AsRead(<<>>) = <<>>
  BY Small, ReadAppended
<1>2. <<>> \o One(item) = One(item)
  BY OneIsSequence, Concat
<1>3. Append(<<>>, item) = <<item>>
  OBVIOUS
<1> QED BY <1>1, <1>2, <1>3

LEMMA ReadShown ==
  ASSUME NEW name, NEW value
  PROVE  /\ IsSequence(Shown(name, value))
         /\ AsRead(Shown(name, value)) = IF name \in Read THEN Shown(name, value) ELSE <<>>
<1> DEFINE item == [k |-> name, v |-> value]
<1>1. item.k = name
  OBVIOUS
<1> HIDE DEF item
<1>2. Shown(name, value) = <<item>>
  BY DEF Shown, item
<1> QED BY <1>1, <1>2, Small, ReadOne DEF One

(* The items of the first tokens of a line, and of the first lines. *)
LineOf(request, i) == Templates[request.page].lines[i]

ItemsOf(named, request, i, n) ==
  FlattenSeq([k \in 1 .. n |-> ExpectedItems(named, request, i, LineOf(request, i)[k])])

LinesOf(named, request, n) == FlattenSeq([i \in 1 .. n |-> ExpectedLine(named, request, i)])

LEMMA ItemsAreSequence ==
  ASSUME NEW named, NEW request, NEW i, NEW token
  PROVE  IsSequence(ExpectedItems(named, request, i, token))
<1> USE DEF ExpectedItems
<1>1. CASE token.t # "body"
  BY <1>1, Small
<1>2. CASE token.t = "body"
  BY <1>2, Small, ReadShown
<1> QED BY <1>1, <1>2

LEMMA ItemsGrow ==
  ASSUME NEW named, NEW request, NEW i, NEW n \in Nat
  PROVE  /\ ItemsOf(named, request, i, 0) = <<>>
         /\ IsSequence(ItemsOf(named, request, i, n))
         /\ ItemsOf(named, request, i, n + 1) =
              ItemsOf(named, request, i, n) \o
                ExpectedItems(named, request, i, LineOf(request, i)[n + 1])
<1> DEFINE e(k) == ExpectedItems(named, request, i, LineOf(request, i)[k])
           q == [k \in 1 .. n + 1 |-> e(k)]
<1>1. \A k \in 1 .. n + 1 : IsSequence(q[k])
  BY ItemsAreSequence
<1>2. \A m \in 0 .. n + 1 : ItemsOf(named, request, i, m) = FlattenSeq(Part(q, m))
  <2> SUFFICES ASSUME NEW m \in 0 .. n + 1
               PROVE  ItemsOf(named, request, i, m) = FlattenSeq(Part(q, m))
    OBVIOUS
  <2>1. [k \in 1 .. m |-> e(k)] = Part(q, m)
    <3> HIDE DEF e
    <3> QED BY DEF Part
  <2> HIDE DEF q
  <2> QED BY <2>1 DEF ItemsOf
<1>3. q[n + 1] = e(n + 1)
  <2> HIDE DEF e
  <2> QED OBVIOUS
<1> HIDE DEF q, e
<1>4. n + 1 \in Nat /\ n \in 0 .. (n + 1) - 1 /\ n \in 0 .. n + 1 /\ n + 1 \in 0 .. n + 1 /\ 0 \in 0 .. n + 1
  OBVIOUS
<1>5. /\ FlattenSeq(Part(q, 0)) = <<>> /\ IsSequence(FlattenSeq(Part(q, n)))
      /\ FlattenSeq(Part(q, n + 1)) = FlattenSeq(Part(q, n)) \o q[n + 1]
  BY <1>1, <1>4, FlattenAll
<1> QED BY <1>2, <1>3, <1>4, <1>5 DEF e

LEMMA LineItems ==
  ASSUME NEW named, NEW request, NEW i, IsSequence(LineOf(request, i))
  PROVE  /\ ExpectedLine(named, request, i) =
              ItemsOf(named, request, i, Len(LineOf(request, i))) \o <<Newline>>
         /\ IsSequence(ExpectedLine(named, request, i))
<1> DEFINE line == LineOf(request, i)
<1>1. Len(line) \in Nat /\ DOMAIN line = 1 .. Len(line)
  BY Sequences
<1>2. ExpectedLine(named, request, i) = ItemsOf(named, request, i, Len(line)) \o <<Newline>>
  BY <1>1 DEF ExpectedLine, ItemsOf, LineOf
<1>3. IsSequence(ItemsOf(named, request, i, Len(line)))
  BY <1>1, ItemsGrow
<1> QED BY <1>2, <1>3, Small, Concat

LEMMA LinesGrow ==
  ASSUME NEW named, NEW request, NEW n \in Nat,
         \A i \in 1 .. n + 1 : IsSequence(LineOf(request, i))
  PROVE  /\ LinesOf(named, request, 0) = <<>>
         /\ IsSequence(LinesOf(named, request, n))
         /\ LinesOf(named, request, n + 1) = LinesOf(named, request, n) \o ExpectedLine(named, request, n + 1)
<1> DEFINE q == [i \in 1 .. n + 1 |-> ExpectedLine(named, request, i)]
<1>1. \A i \in 1 .. n + 1 : IsSequence(q[i])
  BY LineItems
<1>2. \A m \in 0 .. n + 1 : LinesOf(named, request, m) = FlattenSeq(Part(q, m))
  <2> SUFFICES ASSUME NEW m \in 0 .. n + 1
               PROVE  LinesOf(named, request, m) = FlattenSeq(Part(q, m))
    OBVIOUS
  <2>1. [i \in 1 .. m |-> ExpectedLine(named, request, i)] = Part(q, m)
    BY DEF Part
  <2> HIDE DEF q
  <2> QED BY <2>1 DEF LinesOf
<1>3. q[n + 1] = ExpectedLine(named, request, n + 1)
  OBVIOUS
<1> HIDE DEF q
<1>4. n + 1 \in Nat /\ n \in 0 .. (n + 1) - 1 /\ n \in 0 .. n + 1 /\ n + 1 \in 0 .. n + 1 /\ 0 \in 0 .. n + 1
  OBVIOUS
<1>5. /\ FlattenSeq(Part(q, 0)) = <<>> /\ IsSequence(FlattenSeq(Part(q, n)))
      /\ FlattenSeq(Part(q, n + 1)) = FlattenSeq(Part(q, n)) \o q[n + 1]
  BY <1>1, <1>4, FlattenAll
<1> QED BY <1>2, <1>3, <1>4, <1>5

PlainFrom(line, first, last) == \A k \in first .. last : Plain(line[k])
CopyOf(line, first, last) == Copy(SubSeq(line, first, last))

(* Plain tokens are copied as they are expected. *)
LEMMA Copied ==
  ASSUME NEW named, NEW request, NEW i, NEW line, line = LineOf(request, i),
         NEW seen \in Nat, NEW cur, cur = seen + 1, NEW e \in Nat, seen <= e,
         PlainFrom(line, cur, e)
  PROVE  /\ IsSequence(CopyOf(line, cur, e))
         /\ ItemsOf(named, request, i, e) =
              Join(ItemsOf(named, request, i, seen), AsRead(CopyOf(line, cur, e)))
<1> DEFINE c(m) == [j \in 1 .. m |-> Text(line[cur - 1 + j])]
           items(n) == ItemsOf(named, request, i, n)
           last == e + 1 - cur
<1>1. last \in Nat /\ cur - 1 + last = e
  OBVIOUS
<1>2. CopyOf(line, cur, e) = c(last)
  <2>1. /\ DOMAIN SubSeq(line, cur, e) = 1 .. last
        /\ \A j \in 1 .. last : SubSeq(line, cur, e)[j] = line[cur - 1 + j]
    BY <1>1
  <2> HIDE DEF last
  <2> QED BY <2>1 DEF Copy, CopyOf
<1>2a. ASSUME NEW n \in Nat
       PROVE  /\ IsSequence(items(n))
              /\ items(n + 1) = items(n) \o ExpectedItems(named, request, i, line[n + 1])
  <2> HIDE DEF c, last
  <2>1. /\ ItemsOf(named, request, i, 0) = <<>>
        /\ IsSequence(ItemsOf(named, request, i, n))
        /\ ItemsOf(named, request, i, n + 1) =
             ItemsOf(named, request, i, n) \o
               ExpectedItems(named, request, i, LineOf(request, i)[n + 1])
    BY ItemsGrow
  <2> QED BY <2>1
<1> DEFINE S == {m \in Nat : m <= last => /\ IsSequence(c(m))
                                         /\ items(cur - 1 + m) = items(cur - 1) \o AsRead(c(m))}
<1>3. 0 \in S
  <2>1. c(0) = <<>>
    OBVIOUS
  <2>2. AsRead(<<>>) = <<>> /\ IsSequence(items(cur - 1)) /\ cur - 1 + 0 = cur - 1
    <3>1. cur - 1 \in Nat /\ cur - 1 + 0 = cur - 1
      OBVIOUS
    <3> QED BY <3>1, <1>2a, Small, ReadAppended
  <2>3. items(cur - 1) \o <<>> = items(cur - 1)
    BY <2>2, Concat
  <2> HIDE DEF c, items
  <2> QED BY <2>1, <2>2, <2>3, Small
<1>4. ASSUME NEW m \in Nat, m \in S PROVE m + 1 \in S
  <2> SUFFICES ASSUME m + 1 <= last
               PROVE  /\ IsSequence(c(m + 1))
                      /\ items(cur - 1 + (m + 1)) = items(cur - 1) \o AsRead(c(m + 1))
    OBVIOUS
  <2> DEFINE x == Text(line[cur + m])
  <2>1. IsSequence(c(m)) /\ items(cur - 1 + m) = items(cur - 1) \o AsRead(c(m))
    BY <1>1, <1>4
  <2>2. c(m + 1) = Append(c(m), x)
    OBVIOUS
  <2>3. ExpectedItems(named, request, i, line[cur + m]) = <<x>> /\ One(x) = <<x>>
    <3>1. cur + m \in cur .. e
      BY <1>1
    <3>2. Plain(line[cur + m])
      BY <3>1 DEF PlainFrom
    <3>3. x.k = "text" /\ "text" \in Read
      BY DEF Text, Read
    <3> QED BY <3>2, <3>3 DEF Plain, ExpectedItems, One
  <2>4. cur - 1 + m \in Nat /\ (cur - 1 + m) + 1 = cur + m /\ cur - 1 + (m + 1) = cur + m /\ cur - 1 \in Nat
    OBVIOUS
  <2>5. items(cur + m) = items(cur - 1 + m) \o <<x>> /\ IsSequence(items(cur - 1))
    <3> HIDE DEF items, x
    <3>1. items((cur - 1 + m) + 1) = items(cur - 1 + m) \o ExpectedItems(named, request, i, line[(cur - 1 + m) + 1])
      BY <1>2a, <2>4
    <3>2. IsSequence(items(cur - 1))
      BY <1>2a, <2>4
    <3> QED BY <2>3, <2>4, <3>1, <3>2
  <2> HIDE DEF items, c, x
  <2>6. AsRead(Append(c(m), x)) = AsRead(c(m)) \o <<x>> /\ IsSequence(AsRead(c(m))) /\ IsSequence(Append(c(m), x))
    BY <2>1, <2>3, ReadAppended
  <2>7. (items(cur - 1) \o AsRead(c(m))) \o <<x>> = items(cur - 1) \o (AsRead(c(m)) \o <<x>>)
    <3> DEFINE before == items(cur - 1)
               copied == AsRead(c(m))
               one == <<x>>
    <3>1. IsSequence(before) /\ IsSequence(copied) /\ IsSequence(one)
      BY <2>5, <2>6, Small
    <3> HIDE DEF before, copied, one
    <3>2. (before \o copied) \o one = before \o (copied \o one)
      BY <3>1, Concat
    <3> QED BY <3>2 DEF before, copied, one
  <2> QED BY <2>1, <2>2, <2>4, <2>5, <2>6, <2>7
<1>5. last \in S
  <2> HIDE DEF S
  <2> QED BY <1>1, <1>3, <1>4, Induction
<1>6. IsSequence(c(last)) /\ items(cur - 1 + last) = items(cur - 1) \o AsRead(c(last))
  <2> HIDE DEF c, items, last
  <2> QED BY <1>1, <1>5
<1> HIDE DEF c, last
<1>7. cur - 1 = seen
  OBVIOUS
<1> QED BY <1>1, <1>2, <1>6, <1>7 DEF Join

-----------------------------------------------------------------------------
(* What a closure writes is what its instruction is expected to give.      *)

LEMMA MessageIsExpected ==
  ASSUME ChunksAreFirst, NEW w, NEW body
  PROVE  Message(body, w) = ExpectedMessage(files, body, job[w].codes)
<1> DEFINE lang == RequestLanguage(job[w].codes)
<1>1. \A name : Entry(chunkMap, name) = FirstDefinition(files, name)
  BY DEF ChunksAreFirst
<1>2. /\ Entry(chunkMap, <<body.arg>>) = FirstDefinition(files, <<body.arg>>)
      /\ Entry(chunkMap, LangName(body.arg, lang)) = FirstDefinition(files, LangName(body.arg, lang))
  BY <1>1
<1> QED BY <1>2 DEF Message, ExpectedMessage

(* The closures of hcv_initialize_templates that may return. *)
LEMMA OwnExpansion ==
  ASSUME ChunksAreFirst, NEW w, NEW body, body.t = "body", body.name \in BuiltinNames \ DbRegisters,
         running[w].by = "main", running[w].does = body.name, ~Fails(body.name, body)
  PROVE  /\ IsSequence(Expansion(body, w))
         /\ AsRead(Expansion(body, w)) = ExpectedItems(files, job[w], at[w].done + 1, body)
<1> DEFINE name == body.name
           expected == ExpectedItems(files, job[w], at[w].done + 1, body)
<1> SUFFICES IsSequence(Expansion(body, w)) /\ AsRead(Expansion(body, w)) = expected
  OBVIOUS
<1>0. ASSUME NEW value, Expansion(body, w) = Shown(name, value),
             expected = IF name \in Read THEN Shown(name, value) ELSE <<>>
      PROVE  IsSequence(Expansion(body, w)) /\ AsRead(Expansion(body, w)) = expected
  BY <1>0, ReadShown
<1>1. ASSUME Expansion(body, w) = <<>>, expected = <<>>
      PROVE  IsSequence(Expansion(body, w)) /\ AsRead(Expansion(body, w)) = expected
  BY <1>1, Small, ReadAppended
<1>2. expected = CASE name = "msg"            -> Shown("msg", ExpectedMessage(files, body, job[w].codes))
                   [] name = "request_number" -> Shown("request_number", job[w].num)
                   [] name = "lineno"         -> Shown("lineno", at[w].done + 1)
                   [] name = "gitid"          -> Shown("gitid", "build")
                   [] OTHER                   -> <<>>
  BY DEF ExpectedItems
<1>3. running[w].by # "plugin"
  OBVIOUS
<1> HIDE DEF expected
<1>4. CASE name \in {"date", "now"}
  <2>1. Expansion(body, w) = Shown(name, "time")
    BY <1>3, <1>4 DEF Expansion, Clock
  <2>2. expected = <<>> /\ name \notin Read
    BY <1>2, <1>4 DEF Read
  <2> QED BY <1>0, <2>1, <2>2
<1>5. CASE name \in {"gitid", "half_gitid", "timestamp"}
  <2>1. Expansion(body, w) = Shown(name, "build")
    BY <1>3, <1>5 DEF Expansion, Build
  <2>2. expected = IF name \in Read THEN Shown(name, "build") ELSE <<>>
    BY <1>2, <1>5 DEF Read
  <2> QED BY <1>0, <2>1, <2>2
<1>6. CASE name \in {"pid", "hostname", "webroot"}
  <2>1. Expansion(body, w) = Shown(name, "process")
    BY <1>3, <1>6 DEF Expansion, Process
  <2>2. expected = <<>> /\ name \notin Read
    BY <1>2, <1>6 DEF Read
  <2> QED BY <1>0, <2>1, <2>2
<1>7. CASE name \in {"request_number", "request_method", "request_path"}
  <2>1. Expansion(body, w) = RequestPart(name, w)
    BY <1>3, <1>7 DEF Expansion
  <2>2. CASE name = "request_number"
    <3>1. Expansion(body, w) = Shown(name, job[w].num)
      BY <2>1, <2>2 DEF RequestPart
    <3>2. expected = IF name \in Read THEN Shown(name, job[w].num) ELSE <<>>
      BY <1>2, <2>2 DEF Read
    <3> QED BY <1>0, <3>1, <3>2
  <2>3. CASE name \in {"request_method", "request_path"}
    <3>1. \E value : Expansion(body, w) = Shown(name, value)
      BY <2>1, <2>3 DEF RequestPart
    <3>2. expected = <<>> /\ name \notin Read
      BY <1>2, <2>3 DEF Read
    <3> QED BY <1>0, <3>1, <3>2
  <2> QED BY <1>7, <2>2, <2>3
<1>8. CASE name \in {"filename", "lineno", "offset"}
  <2>1. Expansion(body, w) = Shown(name, at[w].done + 1)
    BY <1>3, <1>8 DEF Expansion, Position
  <2>2. expected = IF name \in Read THEN Shown(name, at[w].done + 1) ELSE <<>>
    BY <1>2, <1>8 DEF Read
  <2> QED BY <1>0, <2>1, <2>2
<1>9. CASE name = "basefilepos"
  <2>1. Expansion(body, w) = BaseFilePos(body.arg, w)
    BY <1>3, <1>9 DEF Expansion
  <2>2. BaseFilePos(body.arg, w) \in {<<>>, Shown("basefilepos", at[w].done + 1)}
    BY Zenon DEF BaseFilePos
  <2>3. expected = <<>> /\ name \notin Read
    BY <1>2, <1>9 DEF Read
  <2> QED BY <1>0, <1>1, <1>9, <2>1, <2>2, <2>3
<1>10. CASE name = "html_config"
  <2>1. Expansion(body, w) = <<>>
    BY <1>3, <1>10 DEF Expansion, HtmlConfig
  <2>2. expected = <<>>
    BY <1>2, <1>10
  <2> QED BY <1>1, <2>1, <2>2
<1>11. CASE name = "register_form_token"
  <2>1. Expansion(body, w) = Shown(name, job[w].num)
    BY <1>3, <1>11 DEF Expansion, FormToken
  <2>2. expected = <<>> /\ name \notin Read
    BY <1>2, <1>11 DEF Read
  <2> QED BY <1>0, <2>1, <2>2
<1>12. CASE name = "msg"
  <2>1. Expansion(body, w) = Shown(name, Message(body, w))
    BY <1>3, <1>12 DEF Expansion
  <2>2. expected = IF name \in Read THEN Shown(name, Message(body, w)) ELSE <<>>
    BY <1>2, <1>12, MessageIsExpected DEF Read
  <2> QED BY <1>0, <2>1, <2>2
<1>13. name # "confmsg"
  BY DEF Fails
<1> QED BY <1>4, <1>5, <1>6, <1>7, <1>8, <1>9, <1>10, <1>11, <1>12, <1>13 DEF BuiltinNames

(* A closure of a plugin writes nothing that the properties read. *)
LEMMA PluginExpansion ==
  ASSUME NEW w, NEW body, body.t = "body", body.name \in DbRegisters \/ body.name \notin BuiltinNames,
         running[w].by = "plugin"
  PROVE  /\ IsSequence(Expansion(body, w))
         /\ AsRead(Expansion(body, w)) = ExpectedItems(files, job[w], at[w].done + 1, body)
<1>1. Expansion(body, w) = Shown("plugin", running[w].does)
  BY DEF Expansion
<1>2. "plugin" \notin Read
  BY DEF Read
<1>3. ExpectedItems(files, job[w], at[w].done + 1, body) = <<>>
  BY DEF ExpectedItems, BuiltinNames
<1> QED BY <1>1, <1>2, <1>3, ReadShown

-----------------------------------------------------------------------------
(* The dictionary once the program serves. *)
Owned(n) ==
  /\ dict[n].does = n /\ dict[n].by \in {"main", "plugin"}
  /\ dict[n].by = "main" => n \in BuiltinNames \ DbRegisters
  /\ dict[n].by = "plugin" => n \in DbRegisters \/ n \notin BuiltinNames

DictInv ==
  /\ \A n \in DOMAIN dict : Owned(n)
  /\ main = "config" => DOMAIN dict = {}
  /\ main = "templates" => DbRegisters \subseteq DOMAIN dict
  /\ main \in {"web", "serving"} =>
       \A n \in BuiltinNames \ DbRegisters : n \in DOMAIN dict /\ dict[n].by = "main"

LEMMA DictInit == Init => DictInv
<1> SUFFICES ASSUME Init PROVE DictInv
  OBVIOUS
<1>1. DOMAIN dict = {} /\ main = "config"
  BY DEF Init
<1> QED BY <1>1 DEF DictInv

LEMMA DictKept == ASSUME DictInv, UNCHANGED <<main, dict>> PROVE DictInv'
BY DEF DictInv, Owned

(* hcv_register_template_expander_closure *)
LEMMA Registered ==
  ASSUME NEW d, NEW who, NEW names, NEW n
  PROVE  /\ n \in DOMAIN Register(d, who, names) <=> n \in DOMAIN d \/ n \in names
         /\ n \in DOMAIN d => Register(d, who, names)[n] = d[n]
         /\ n \in names \ DOMAIN d =>
              Register(d, who, names)[n].by = who /\ Register(d, who, names)[n].does = n
BY DEF Register

LEMMA DictNext == DictInv /\ [Next]_vars => DictInv'
<1> SUFFICES ASSUME DictInv, [Next]_vars PROVE DictInv'
  OBVIOUS
<1>1. CASE \E f \in ChunkFiles : AddChunkFile(f)
  BY <1>1, DictKept DEF AddChunkFile
<1>2. CASE InitializeDatabasePlugins
  <2>1. main = "config" /\ main' = "templates" /\ dict' = Register(dict, "plugin", DbRegisters)
    BY <1>2 DEF InitializeDatabasePlugins, Advance
  <2>2. DOMAIN dict = {}
    BY <2>1 DEF DictInv
  <2>3. DOMAIN dict' = DbRegisters
    BY <2>1, <2>2, Registered
  <2>4. ASSUME NEW n \in DOMAIN dict' PROVE Owned(n)'
    BY <2>1, <2>2, <2>3, Registered DEF Owned
  <2> QED BY <2>1, <2>3, <2>4 DEF DictInv
<1>3. CASE InitializeTemplates
  <2>1. main = "templates" /\ main' = "web" /\ dict' = Register(dict, "main", BuiltinNames)
    BY <1>3 DEF InitializeTemplates, Advance
  <2>2. DbRegisters \subseteq DOMAIN dict
    BY <2>1 DEF DictInv
  <2>3. ASSUME NEW n \in DOMAIN dict' PROVE Owned(n)'
    <3>1. CASE n \in DOMAIN dict
      BY <2>1, <3>1, Registered DEF Owned, DictInv
    <3>2. CASE n \notin DOMAIN dict
      BY <2>1, <2>2, <3>2, Registered DEF Owned
    <3> QED BY <3>1, <3>2
  <2>4. ASSUME NEW n \in BuiltinNames \ DbRegisters PROVE n \in DOMAIN dict' /\ dict'[n].by = "main"
    <3>1. n \in DOMAIN dict'
      BY <2>1, Registered
    <3>2. Owned(n)'
      BY <2>3, <3>1
    <3> QED BY <3>1, <3>2 DEF Owned
  <2> QED BY <2>1, <2>3, <2>4 DEF DictInv
<1>4. CASE InitializeWebPlugins
  <2>1. main = "web" /\ main' = "serving" /\ dict' = Register(dict, "plugin", WebRegisters)
    BY <1>4 DEF InitializeWebPlugins, Advance
  <2>2. \A n \in BuiltinNames \ DbRegisters : n \in DOMAIN dict /\ dict[n].by = "main"
    BY <2>1 DEF DictInv
  <2>3. ASSUME NEW n \in DOMAIN dict' PROVE Owned(n)'
    <3>1. CASE n \in DOMAIN dict
      BY <2>1, <3>1, Registered DEF Owned, DictInv
    <3>2. CASE n \notin DOMAIN dict
      BY <2>1, <2>2, <3>2, Registered DEF Owned
    <3> QED BY <3>1, <3>2
  <2>4. ASSUME NEW n \in BuiltinNames \ DbRegisters PROVE n \in DOMAIN dict' /\ dict'[n].by = "main"
    BY <2>1, <2>2, Registered
  <2> QED BY <2>1, <2>3, <2>4 DEF DictInv
<1>5. ASSUME NEW w \in Workers, Step(w) PROVE UNCHANGED <<main, dict>>
  BY <1>5 DEF Step, SendPage, CopyLine, FindMarkup, InvalidInstruction, UnknownInstruction,
     EnterClosure, LeaveClosure, EndPage, mainVars
<1>6. ASSUME NEW w \in Workers, NEW p, NEW codes, BeginPage(w, p, codes)
      PROVE  UNCHANGED <<main, dict>>
  BY <1>6 DEF BeginPage, mainVars
<1>7. ASSUME NEW name, ForgetExpander(name) PROVE DictInv'
  <2>1. /\ main = "serving" /\ main' = main /\ name \in DOMAIN dict /\ dict[name].by = "plugin"
        /\ DOMAIN dict' = DOMAIN dict \ {name} /\ \A n \in DOMAIN dict' : dict'[n] = dict[n]
    BY <1>7 DEF ForgetExpander, mainVars
  <2>2. \A n \in DOMAIN dict' : Owned(n)'
    BY <2>1 DEF DictInv, Owned
  <2>3. \A n \in BuiltinNames \ DbRegisters : n \in DOMAIN dict' /\ dict'[n].by = "main"
    BY <2>1 DEF DictInv
  <2> QED BY <2>1, <2>2, <2>3 DEF DictInv
<1>8. CASE UNCHANGED vars
  BY <1>8, DictKept DEF vars, mainVars
<1> QED BY <1>1, <1>2, <1>3, <1>4, <1>5, <1>6, <1>7, <1>8, DictKept DEF Next, Main

-----------------------------------------------------------------------------
(* What a worker has written so far: the lines it has passed, and of its   *)
(* line the tokens before curpc, or before the markup it dispatches.       *)

SoFar(named, request, done, seen) ==
  LinesOf(named, request, done) \o ItemsOf(named, request, done + 1, seen)

Seen(w) == IF loc[w] = "scan" THEN at[w].cur - 1 ELSE Markup(w) - 1

Expanding(w) == loc[w] \in {"scan", "dispatch", "closure"} /\ RegularPage(job[w].page)

InPage(w) ==
  /\ IsSequence(out[w])
  /\ at[w].done < Len(Lines(w)) => AtToken(Line(w), at[w].cur)
  /\ AsRead(out[w]) = SoFar(files, job[w], at[w].done, Seen(w))

Written(w) ==
  /\ loc[w] = "idle" => out[w] = <<>>
  /\ loc[w] = "closure" => Runs(w) /\ running[w].name = Instruction(w).name
  /\ Expanding(w) => InPage(w)
  /\ loc[w] = "sent" /\ RegularPage(job[w].page) => AsRead(out[w]) = ExpectedPage(files, job[w])

WrittenInv ==
  /\ DOMAIN out = Workers
  /\ \A w \in Workers : Written(w)

LEMMA WrittenKept ==
  ASSUME NEW v, Written(v), files' = files,
         UNCHANGED <<loc[v], job[v], at[v], out[v], running[v]>>
  PROVE  Written(v)'
BY DEF Written, Expanding, InPage, Seen, Markup, Instruction, Line, Lines, Runs

(* Only one worker moves. *)
LEMMA WrittenOfOne ==
  ASSUME WrittenInv, NEW w \in Workers, Written(w)', files' = files, DOMAIN out' = Workers,
         \A v \in Workers \ {w} : UNCHANGED <<loc[v], job[v], at[v], out[v], running[v]>>
  PROVE  WrittenInv'
BY WrittenKept DEF WrittenInv

LEMMA WrittenInit == Init => WrittenInv
<1> SUFFICES ASSUME Init PROVE WrittenInv
  OBVIOUS
<1>1. DOMAIN out = Workers /\ \A w \in Workers : loc[w] = "idle" /\ out[w] = <<>>
  BY DEF Init
<1> QED BY <1>1 DEF WrittenInv, Written, Expanding

(* The line a worker is at, when it is regular. *)
LEMMA RegularLine ==
  ASSUME NEW w, Place(w), Expanding(w), at[w].done < Len(Lines(w))
  PROVE  /\ Line(w) = LineOf(job[w], at[w].done + 1) /\ IsSequence(Line(w)) /\ Regular(Line(w))
         /\ Len(Line(w)) \in Nat /\ DOMAIN Line(w) = 1 .. Len(Line(w))
         /\ \A k \in DOMAIN Line(w) : Line(w)[k].width \in Nat
         /\ at[w].done \in Nat /\ at[w].cur \in 1 .. Len(Line(w)) + 1
<1>1. /\ job[w].page \in DOMAIN Templates /\ at[w] \in [done : Nat, cur : Nat] /\ InLine(w)
  BY DEF Place, Expanding
<1>2. at[w].done \in Nat /\ at[w].cur \in 1 .. Len(Line(w)) + 1
  BY <1>1 DEF InLine
<1>3. Len(Lines(w)) \in Nat /\ IsSequence(Lines(w))
  BY <1>1, TemplateLines
<1>4. DOMAIN Lines(w) = 1 .. Len(Lines(w))
  BY <1>3, Sequences
<1>5. at[w].done + 1 \in DOMAIN Lines(w)
  BY <1>2, <1>3, <1>4
<1>6. Regular(Line(w))
  BY <1>5 DEF Expanding, RegularPage, Line, Lines
<1>7. IsSequence(Line(w)) /\ \A k \in DOMAIN Line(w) : Line(w)[k].width \in Nat
  BY <1>1, <1>5, TemplatesAssumption DEF Line, Lines
<1>8. Len(Line(w)) \in Nat /\ DOMAIN Line(w) = 1 .. Len(Line(w))
  BY <1>7, Sequences
<1>9. Line(w) = LineOf(job[w], at[w].done + 1)
  BY DEF Line, Lines, LineOf
<1> QED BY <1>2, <1>6, <1>7, <1>8, <1>9

LEMMA LinesAreSequence ==
  ASSUME NEW w, job[w].page \in DOMAIN Templates, NEW n \in Nat, n <= Len(Lines(w)), NEW named
  PROVE  IsSequence(LinesOf(named, job[w], n))
<1>0. \A i \in 1 .. Len(Lines(w)) : IsSequence(LineOf(job[w], i))
  BY TemplateLines DEF Lines, LineOf
<1>1. Len(Lines(w)) \in Nat
  BY TemplateLines
<1>2. CASE n = 0
  BY <1>2, Small DEF LinesOf, FlattenSeq
<1>3. CASE n # 0
  <2> DEFINE m == n - 1
  <2>1. m \in Nat /\ m + 1 = n
    BY <1>3
  <2>2. \A i \in 1 .. m + 1 : IsSequence(LineOf(job[w], i))
    BY <1>0, <1>1, <2>1
  <2> HIDE DEF m
  <2>3. IsSequence(LinesOf(named, job[w], m)) /\ IsSequence(ExpectedLine(named, job[w], m + 1))
    BY <2>1, <2>2, LinesGrow, LineItems
  <2>4. LinesOf(named, job[w], m + 1) = LinesOf(named, job[w], m) \o ExpectedLine(named, job[w], m + 1)
    BY <2>1, <2>2, LinesGrow
  <2> QED BY <2>1, <2>3, <2>4, Concat
<1> QED BY <1>2, <1>3

(* At the end of the input the page is complete. *)
LEMMA WrittenSends ==
  ASSUME PlaceInv, WrittenInv, NEW w \in Workers, SendPage(w)
  PROVE  WrittenInv'
<1>1. /\ loc[w] = "scan" /\ at[w].done = Len(Lines(w)) /\ loc' = [loc EXCEPT ![w] = "sent"]
      /\ UNCHANGED <<files, job, at, out, running>>
  BY DEF SendPage, Scanning, mainVars
<1>2. Place(w) /\ Written(w) /\ DOMAIN loc = Workers /\ DOMAIN out = Workers
  BY DEF PlaceInv, WrittenInv
<1>3. loc'[w] = "sent" /\ \A v \in Workers \ {w} : loc'[v] = loc[v]
  BY <1>1, <1>2
<1>4. ASSUME RegularPage(job[w].page) PROVE AsRead(out[w]) = ExpectedPage(files, job[w])
  <2>1. /\ job[w].page \in DOMAIN Templates /\ at[w].cur = 1
        /\ at[w].done = Len(Lines(w)) /\ at[w].done \in Nat
    <3>1. InLine(w) /\ at[w] \in [done : Nat, cur : Nat] /\ job[w].page \in DOMAIN Templates
      BY <1>1, <1>2 DEF Place
    <3>2. Len(Lines(w)) \in Nat
      BY <3>1, TemplateLines
    <3> QED BY <1>1, <3>1, <3>2 DEF InLine
  <2>2. AsRead(out[w]) = SoFar(files, job[w], Len(Lines(w)), 0)
    BY <1>1, <1>2, <1>4, <2>1 DEF Written, Expanding, InPage, Seen
  <2>3. DOMAIN Lines(w) = 1 .. Len(Lines(w))
    BY <2>1, TemplateLines, Sequences
  <2>4. ExpectedPage(files, job[w]) = LinesOf(files, job[w], Len(Lines(w)))
    BY <2>3 DEF ExpectedPage, LinesOf, Lines
  <2>5. ItemsOf(files, job[w], Len(Lines(w)) + 1, 0) = <<>>
    BY <2>1, ItemsGrow
  <2>6. IsSequence(LinesOf(files, job[w], Len(Lines(w))))
    BY <2>1, LinesAreSequence
  <2>7. LinesOf(files, job[w], Len(Lines(w))) \o <<>> = LinesOf(files, job[w], Len(Lines(w)))
    BY <2>6, Concat
  <2> QED BY <2>2, <2>4, <2>5, <2>7 DEF SoFar
<1>5. Written(w)'
  BY <1>1, <1>3, <1>4 DEF Written, Expanding
<1> QED BY <1>1, <1>2, <1>3, <1>5, WrittenOfOne

LEMMA NewlineRead == One(Newline) = <<Newline>>
<1>1. Newline.k = "newline"
  BY Zenon DEF Newline
<1>2. "newline" \in Read
  BY DEF Read
<1> QED BY <1>1, <1>2 DEF One

(* Some of a line is written: what precedes it stays. *)
LEMMA MoreWritten ==
  ASSUME NEW w, job[w].page \in DOMAIN Templates, NEW n \in Nat, n <= Len(Lines(w)),
         NEW i, i = n + 1, NEW seen \in Nat, NEW next \in Nat,
         NEW o, IsSequence(o), NEW more, IsSequence(more),
         AsRead(o) = SoFar(files, job[w], n, seen),
         ItemsOf(files, job[w], i, next) = Join(ItemsOf(files, job[w], i, seen), AsRead(more))
  PROVE  /\ IsSequence(o \o more)
         /\ AsRead(o \o more) = SoFar(files, job[w], n, next)
<1> DEFINE lines == LinesOf(files, job[w], n)
           items == ItemsOf(files, job[w], i, seen)
<1>1. IsSequence(lines) /\ IsSequence(items)
  BY LinesAreSequence, ItemsGrow
<1>2. AsRead(o \o more) = AsRead(o) \o AsRead(more) /\ IsSequence(AsRead(more)) /\ IsSequence(o \o more)
  BY ReadConcat, Concat
<1>3. AsRead(o) = lines \o items
  BY DEF SoFar
<1>4. SoFar(files, job[w], n, next) = lines \o (items \o AsRead(more))
  BY DEF SoFar, Join
<1> HIDE DEF lines, items
<1>5. (lines \o items) \o AsRead(more) = lines \o (items \o AsRead(more))
  BY <1>1, <1>2, Concat
<1> QED BY <1>2, <1>3, <1>4, <1>5

(* The end of a line is written. *)
LEMMA LineWritten ==
  ASSUME NEW w, job[w].page \in DOMAIN Templates, NEW n \in Nat, n < Len(Lines(w)),
         NEW o, IsSequence(o), AsRead(o) = SoFar(files, job[w], n, Len(LineOf(job[w], n + 1)))
  PROVE  /\ IsSequence(o \o <<Newline>>)
         /\ AsRead(o \o <<Newline>>) = SoFar(files, job[w], n + 1, 0)
<1> DEFINE lines == LinesOf(files, job[w], n)
           items == ItemsOf(files, job[w], n + 1, Len(LineOf(job[w], n + 1)))
<1>0. \A i \in 1 .. n + 1 : IsSequence(LineOf(job[w], i))
  <2>1. \A i \in 1 .. Len(Lines(w)) : IsSequence(LineOf(job[w], i))
    BY TemplateLines DEF Lines, LineOf
  <2>2. Len(Lines(w)) \in Nat
    BY TemplateLines
  <2> QED BY <2>1, <2>2
<1>1. IsSequence(lines) /\ IsSequence(items)
  <2>1. Len(LineOf(job[w], n + 1)) \in Nat
    BY <1>0, Sequences
  <2>2. n <= Len(Lines(w))
    BY TemplateLines
  <2> QED BY <2>1, <2>2, LinesAreSequence, ItemsGrow
<1>2. AsRead(o \o <<Newline>>) = AsRead(o) \o <<Newline>> /\ IsSequence(o \o <<Newline>>)
  <2>1. AsRead(<<Newline>>) = <<Newline>> /\ IsSequence(<<Newline>>)
    BY ReadOne, NewlineRead, Small
  <2> DEFINE nl == <<Newline>>
  <2> HIDE DEF nl
  <2>2. AsRead(o \o nl) = AsRead(o) \o AsRead(nl) /\ IsSequence(o \o nl)
    BY <2>1, ReadConcat, Concat DEF nl
  <2> QED BY <2>1, <2>2 DEF nl
<1>3. AsRead(o) = lines \o items
  BY DEF SoFar
<1>4. SoFar(files, job[w], n + 1, 0) = LinesOf(files, job[w], n + 1) \o <<>>
  BY ItemsGrow DEF SoFar
<1>5. LinesOf(files, job[w], n + 1) = lines \o (items \o <<Newline>>)
  <2>1. LinesOf(files, job[w], n + 1) = lines \o ExpectedLine(files, job[w], n + 1)
    BY <1>0, LinesGrow
  <2>2. ExpectedLine(files, job[w], n + 1) = items \o <<Newline>>
    BY <1>0, LineItems
  <2> QED BY <2>1, <2>2
<1>6. IsSequence(LinesOf(files, job[w], n + 1))
  <2>1. n + 1 \in Nat /\ n + 1 <= Len(Lines(w))
    BY TemplateLines
  <2> QED BY <2>1, LinesAreSequence
<1> HIDE DEF lines, items
<1>7. (lines \o items) \o <<Newline>> = lines \o (items \o <<Newline>>)
  BY <1>1, Small, Concat
<1>8. LinesOf(files, job[w], n + 1) \o <<>> = LinesOf(files, job[w], n + 1)
  BY <1>6, Concat
<1> QED BY <1>2, <1>3, <1>4, <1>5, <1>7, <1>8

(* No markup is left: the rest of the line is text. *)
LEMMA WrittenCopies ==
  ASSUME PlaceInv, WrittenInv, NEW w \in Workers, CopyLine(w)
  PROVE  WrittenInv'
<1> DEFINE copy == Copy(SubSeq(Line(w), at[w].cur, Len(Line(w))))
<1>1. /\ loc[w] = "scan" /\ at[w].done < Len(Lines(w)) /\ CopiedWhole(w, Line(w), at[w].cur)
      /\ out' = [out EXCEPT ![w] = out[w] \o copy \o <<Newline>>]
      /\ at' = [at EXCEPT ![w] = [done |-> at[w].done + 1, cur |-> 1]]
      /\ UNCHANGED <<files, job, loc, running>>
  BY DEF CopyLine, Scanning, mainVars
<1>2. Place(w) /\ Written(w) /\ DOMAIN at = Workers /\ DOMAIN out = Workers
  BY DEF PlaceInv, WrittenInv
<1> HIDE DEF copy
<1>3. /\ out'[w] = (out[w] \o copy) \o <<Newline>> /\ DOMAIN out' = Workers
      /\ at'[w].done = at[w].done + 1 /\ at'[w].cur = 1
      /\ \A v \in Workers \ {w} : out'[v] = out[v] /\ at'[v] = at[v]
  BY <1>1, <1>2
<1>4. ASSUME Expanding(w)
      PROVE  /\ IsSequence(out'[w])
             /\ AsRead(out'[w]) = SoFar(files, job[w], at[w].done + 1, 0)
  <2> DEFINE line == Line(w)
             cur == at[w].cur
             n == at[w].done
  <2>1. /\ line = LineOf(job[w], n + 1) /\ IsSequence(line) /\ Regular(line)
        /\ Len(line) \in Nat /\ DOMAIN line = 1 .. Len(line)
        /\ \A k \in DOMAIN line : line[k].width \in Nat
        /\ n \in Nat /\ cur \in 1 .. Len(line) + 1
    BY <1>1, <1>2, <1>4, RegularLine
  <2>2. /\ IsSequence(out[w]) /\ AtToken(line, cur)
        /\ AsRead(out[w]) = SoFar(files, job[w], n, cur - 1)
    BY <1>1, <1>2, <1>4 DEF Written, InPage, Seen
  <2>3. job[w].page \in DOMAIN Templates
    BY <1>1, <1>2 DEF Place
  <2>4. CopiedWhole(w, line, cur)
    BY <1>1
  <2> HIDE DEF line, cur, n
  <2>5. Opens(line, cur) = {}
    <3> SUFFICES ASSUME Opens(line, cur) # {} PROVE FALSE
      OBVIOUS
    <3>1. Closes(line, cur) # {}
      BY <2>1, <2>2, MarkupFound
    <3>2. line # <<>> /\ line[1].t = "decl"
      BY <2>4, <3>1 DEF CopiedWhole
    <3>3. 1 \in DOMAIN line
      BY <2>1, <3>2
    <3>4. \A k \in DOMAIN line : line[k].t # "open"
      BY <2>1, <3>2, <3>3 DEF Regular
    <3> QED BY <2>1, <3>4 DEF Opens
  <2>6. \A k \in cur .. Len(line) : Plain(line[k])
    <3>1. \A k \in cur .. (Len(line) + 1) - 1 : line[k].t # "open"
      BY <2>1, <2>5 DEF Opens
    <3>2. Len(line) + 1 \in cur .. Len(line) + 1 /\ (Len(line) + 1) - 1 = Len(line)
      BY <2>1
    <3>3. \A k \in cur .. (Len(line) + 1) - 1 : Plain(line[k])
      BY <2>1, <2>2, <3>1, <3>2, NoMarkupLeft
    <3> QED BY <3>2, <3>3
  <2> DEFINE seen == cur - 1
             last == Len(line)
             i == n + 1
  <2>7. /\ seen \in Nat /\ last \in Nat /\ cur = seen + 1 /\ seen <= last
        /\ i = n + 1 /\ line = LineOf(job[w], i) /\ PlainFrom(line, cur, last)
        /\ AsRead(out[w]) = SoFar(files, job[w], n, seen)
    BY <2>1, <2>2, <2>6 DEF PlainFrom
  <2> HIDE DEF seen, last, i
  <2>8. IsSequence(out[w] \o copy) /\ AsRead(out[w] \o copy) = SoFar(files, job[w], n, Len(line))
    <3>1. n <= Len(Lines(w))
      BY <1>1, <2>1, <2>3, TemplateLines DEF n
    <3>2. copy = CopyOf(line, cur, last)
      BY DEF copy, line, cur, last, CopyOf
    <3>3. /\ IsSequence(CopyOf(line, cur, last))
          /\ ItemsOf(files, job[w], i, last) =
               Join(ItemsOf(files, job[w], i, seen), AsRead(CopyOf(line, cur, last)))
      BY <2>7, Copied
    <3>4. IsSequence(out[w] \o copy) /\ AsRead(out[w] \o copy) = SoFar(files, job[w], n, last)
      BY <2>1, <2>2, <2>3, <2>7, <3>1, <3>2, <3>3, MoreWritten
    <3> QED BY <3>4 DEF last
  <2>9. n < Len(Lines(w))
    BY <1>1 DEF n
  <2> QED BY <1>3, <2>1, <2>3, <2>8, <2>9, LineWritten DEF n
<1>5. Written(w)'
  <2>1. Expanding(w)' = Expanding(w) /\ Lines(w)' = Lines(w) /\ Seen(w)' = 0
    BY <1>1, <1>3 DEF Expanding, Lines, Seen
  <2>2. Expanding(w) => InPage(w)'
    <3> SUFFICES ASSUME Expanding(w) PROVE InPage(w)'
      OBVIOUS
    <3>1. AtToken(Line(w)', at'[w].cur)
      BY <1>3 DEF AtToken
    <3> QED BY <1>1, <1>3, <1>4, <2>1, <3>1 DEF InPage
  <2> QED BY <1>1, <2>1, <2>2 DEF Written
<1> QED BY <1>1, <1>2, <1>3, <1>5, WrittenOfOne

(* The instruction a worker dispatches, when the line is regular. *)
LEMMA AtInstruction ==
  ASSUME NEW w, Place(w), Written(w), Expanding(w), loc[w] \in {"dispatch", "closure"}
  PROVE  LET s == Markup(w) IN
         /\ at[w].done < Len(Lines(w)) /\ at[w].done \in Nat
         /\ Line(w) = LineOf(job[w], at[w].done + 1)
         /\ s \in Nat \ {0} /\ s + 2 <= Len(Line(w))
         /\ Line(w)[s].t = "open" /\ Line(w)[s + 1].t = "body" /\ Line(w)[s + 2].t = "close"
         /\ First(Closes(Line(w), at[w].cur)) = s + 2
<1> DEFINE line == Line(w)
           cur == at[w].cur
           s == First(Opens(line, cur))
<1>1. at[w].done < Len(Lines(w)) /\ Opens(line, cur) # {}
  BY DEF Place, AtMarkup
<1>2. /\ line = LineOf(job[w], at[w].done + 1) /\ Regular(line)
      /\ Len(line) \in Nat /\ DOMAIN line = 1 .. Len(line)
      /\ \A k \in DOMAIN line : line[k].width \in Nat
      /\ at[w].done \in Nat /\ cur \in 1 .. Len(line) + 1
  BY <1>1, RegularLine
<1>3. AtToken(line, cur)
  BY <1>1 DEF Written, InPage
<1> HIDE DEF line, cur
<1>4. /\ s \in cur .. Len(line) /\ s + 2 <= Len(line)
      /\ line[s].t = "open" /\ line[s + 1].t = "body" /\ line[s + 2].t = "close"
      /\ First(Closes(line, cur)) = s + 2
  BY <1>1, <1>2, <1>3, MarkupFound
<1>5. s \in Nat \ {0}
  BY <1>2, <1>4
<1>6. Markup(w) = s
  BY DEF Markup, line, cur
<1> HIDE DEF s
<1>7. line = Line(w) /\ cur = at[w].cur
  BY DEF line, cur
<1> QED BY <1>1, <1>2, <1>4, <1>5, <1>6, <1>7

(* One token more. *)
LEMMA ItemsOfLine ==
  ASSUME NEW named, NEW request, NEW i, NEW line, line = LineOf(request, i),
         NEW n \in Nat, NEW m, m = n + 1
  PROVE  /\ IsSequence(ItemsOf(named, request, i, n))
         /\ ItemsOf(named, request, i, m) =
              Join(ItemsOf(named, request, i, n), ExpectedItems(named, request, i, line[m]))
<1>1. /\ ItemsOf(named, request, i, 0) = <<>>
      /\ IsSequence(ItemsOf(named, request, i, n))
      /\ ItemsOf(named, request, i, n + 1) =
           ItemsOf(named, request, i, n) \o
             ExpectedItems(named, request, i, LineOf(request, i)[n + 1])
  BY ItemsGrow
<1> QED BY <1>1 DEF Join

(* Its markup and what closes it are not in the page, what it writes is. *)
LEMMA Consumed ==
  ASSUME NEW named, NEW request, NEW i, NEW line, line = LineOf(request, i),
         NEW s \in Nat \ {0}, NEW seen, seen = s - 1, NEW body, body = line[s + 1],
         NEW next, next = s + 2,
         line[s].t = "open", line[s + 2].t = "close"
  PROVE  ItemsOf(named, request, i, next) =
           Join(ItemsOf(named, request, i, seen), ExpectedItems(named, request, i, body))
<1> DEFINE e(k) == ExpectedItems(named, request, i, line[k])
           mid == s + 1
<1>1. e(s) = <<>> /\ e(next) = <<>> /\ e(mid) = ExpectedItems(named, request, i, body)
  BY DEF ExpectedItems
<1>2. seen \in Nat /\ mid \in Nat /\ next \in Nat /\ s = seen + 1 /\ mid = s + 1 /\ next = mid + 1
  OBVIOUS
<1> HIDE DEF mid
<1>3. /\ IsSequence(ItemsOf(named, request, i, seen))
      /\ ItemsOf(named, request, i, s) = Join(ItemsOf(named, request, i, seen), e(s))
  BY <1>2, ItemsOfLine
<1>4. ItemsOf(named, request, i, mid) = Join(ItemsOf(named, request, i, s), e(mid))
  BY <1>2, ItemsOfLine
<1>5. /\ IsSequence(ItemsOf(named, request, i, mid))
      /\ ItemsOf(named, request, i, next) = Join(ItemsOf(named, request, i, mid), e(next))
  BY <1>2, ItemsOfLine
<1> HIDE DEF e
<1>6. ASSUME NEW q, IsSequence(q) PROVE Join(q, <<>>) = q
  BY <1>6, Concat DEF Join
<1>7. ItemsOf(named, request, i, s) = ItemsOf(named, request, i, seen)
  BY <1>1, <1>3, <1>6
<1>8. ItemsOf(named, request, i, next) = ItemsOf(named, request, i, mid)
  BY <1>1, <1>5, <1>6
<1> QED BY <1>1, <1>4, <1>7, <1>8

(* A worker is past an instruction. *)
LEMMA WrittenSkips ==
  ASSUME PlaceInv, WrittenInv, NEW w \in Workers, loc[w] \in {"dispatch", "closure"}, Skip(w),
         loc' = [loc EXCEPT ![w] = "scan"], UNCHANGED <<files, job>>,
         DOMAIN out' = Workers, \A v \in Workers \ {w} : out'[v] = out[v] /\ running'[v] = running[v],
         Expanding(w) =>
           \E more : /\ IsSequence(more) /\ out'[w] = Join(out[w], more)
                     /\ AsRead(more) = ExpectedItems(files, job[w], at[w].done + 1, Instruction(w))
  PROVE  WrittenInv'
<1>1. Place(w) /\ Written(w) /\ DOMAIN at = Workers /\ DOMAIN loc = Workers
  BY DEF PlaceInv, WrittenInv
<1>2. at[w] \in [done : Nat, cur : Nat] /\ job[w].page \in DOMAIN Templates
  BY <1>1 DEF Place
<1>3. /\ loc'[w] = "scan" /\ at'[w].done = at[w].done
      /\ at'[w].cur = First(Closes(Line(w), at[w].cur)) + 1
      /\ \A v \in Workers \ {w} : loc'[v] = loc[v] /\ at'[v] = at[v]
  BY <1>1, <1>2 DEF Skip
<1>4. Expanding(w)' = Expanding(w) /\ Line(w)' = Line(w) /\ Lines(w)' = Lines(w)
  BY <1>3 DEF Expanding, Line, Lines
<1>5. ASSUME Expanding(w) PROVE InPage(w)'
  <2> DEFINE s == Markup(w)
             n == at[w].done
             i == n + 1
             seen == s - 1
             next == s + 2
             body == Line(w)[s + 1]
  <2>1. /\ n < Len(Lines(w)) /\ n \in Nat /\ Line(w) = LineOf(job[w], n + 1)
        /\ s \in Nat \ {0} /\ s + 2 <= Len(Line(w))
        /\ Line(w)[s].t = "open" /\ Line(w)[s + 1].t = "body" /\ Line(w)[s + 2].t = "close"
        /\ First(Closes(Line(w), at[w].cur)) = s + 2
    BY <1>1, <1>5, AtInstruction
  <2>2. at'[w].cur = s + 3
    BY <1>3, <2>1
  <2>3. AtToken(Line(w)', at'[w].cur)
    BY <1>4, <2>1, <2>2 DEF AtToken
  <2>4. PICK more : /\ IsSequence(more) /\ out'[w] = Join(out[w], more)
                    /\ AsRead(more) = ExpectedItems(files, job[w], i, body)
    BY <1>5 DEF Instruction
  <2>5. IsSequence(out[w]) /\ AsRead(out[w]) = SoFar(files, job[w], n, seen)
    BY <1>1, <1>5 DEF Written, InPage, Seen
  <2>6. Seen(w)' = next
    BY <1>3, <2>1, <2>2 DEF Seen
  <2>7. /\ i = n + 1 /\ seen = s - 1 /\ next = s + 2 /\ body = Line(w)[s + 1]
        /\ seen \in Nat /\ next \in Nat /\ n <= Len(Lines(w)) /\ Line(w) = LineOf(job[w], i)
    BY <1>2, <2>1, TemplateLines
  <2> HIDE DEF s, n, i, seen, next, body
  <2>8. ItemsOf(files, job[w], i, next) = Join(ItemsOf(files, job[w], i, seen), ExpectedItems(files, job[w], i, body))
    BY <2>1, <2>7, Consumed
  <2>9. ItemsOf(files, job[w], i, next) = Join(ItemsOf(files, job[w], i, seen), AsRead(more))
    BY <2>4, <2>8
  <2>10. IsSequence(out[w] \o more) /\ AsRead(out[w] \o more) = SoFar(files, job[w], n, next)
    <3>1. job[w].page \in DOMAIN Templates /\ n \in Nat /\ n <= Len(Lines(w)) /\ IsSequence(more)
      BY <1>2, <2>1, <2>4, <2>7
    <3>2. i = n + 1 /\ seen \in Nat /\ next \in Nat
      BY <2>7
    <3> QED BY <2>5, <2>9, <3>1, <3>2, MoreWritten
  <2>11. out'[w] = out[w] \o more
    BY <2>4 DEF Join
  <2>12. at'[w].done = n
    BY <1>3 DEF n
  <2> QED BY <2>3, <2>6, <2>10, <2>11, <2>12 DEF InPage
<1>6. Written(w)'
  BY <1>3, <1>4, <1>5 DEF Written
<1> QED BY <1>1, <1>3, <1>6, WrittenOfOne

(* An instruction that writes nothing. *)
LEMMA Unwritten ==
  ASSUME NEW o, IsSequence(o)
  PROVE  o = Join(o, <<>>) /\ IsSequence(<<>>) /\ AsRead(<<>>) = <<>>
BY Small, Concat, ReadAppended DEF Join

(* A regular line has no invalid instruction. *)
LEMMA WrittenInvalid ==
  ASSUME PlaceInv, WrittenInv, NEW w \in Workers, InvalidInstruction(w)
  PROVE  WrittenInv'
<1>1. /\ loc[w] = "dispatch" /\ Instruction(w).t # "body" /\ Skip(w)
      /\ loc' = [loc EXCEPT ![w] = "scan"] /\ UNCHANGED <<files, job, out, running>>
  BY DEF InvalidInstruction, mainVars
<1>2. Place(w) /\ Written(w) /\ DOMAIN out = Workers
  BY DEF PlaceInv, WrittenInv
<1>3. ~Expanding(w)
  BY <1>1, <1>2, AtInstruction DEF Instruction
<1> QED BY <1>1, <1>2, <1>3, WrittenSkips

(* What is not registered is not expected to write. *)
LEMMA WrittenUnknown ==
  ASSUME PlaceInv, WrittenInv, DictInv, main = "serving", NEW w \in Workers, UnknownInstruction(w)
  PROVE  WrittenInv'
<1>1. /\ loc[w] = "dispatch" /\ Instruction(w).name \notin DOMAIN dict /\ Skip(w)
      /\ loc' = [loc EXCEPT ![w] = "scan"] /\ UNCHANGED <<files, job, out, running>>
      /\ Instruction(w).t = "body"
  BY DEF UnknownInstruction, mainVars
<1>2. Place(w) /\ Written(w) /\ DOMAIN out = Workers
  BY DEF PlaceInv, WrittenInv
<1>3. ASSUME Expanding(w)
      PROVE  \E more : /\ IsSequence(more) /\ out'[w] = Join(out[w], more)
                       /\ AsRead(more) = ExpectedItems(files, job[w], at[w].done + 1, Instruction(w))
  <2>1. Instruction(w).name \in DbRegisters \/ Instruction(w).name \notin BuiltinNames
    BY <1>1 DEF DictInv
  <2>2. ExpectedItems(files, job[w], at[w].done + 1, Instruction(w)) = <<>>
    BY <1>1, <2>1 DEF ExpectedItems, BuiltinNames
  <2>3. IsSequence(out[w])
    BY <1>2, <1>3 DEF Written, InPage
  <2> QED BY <1>1, <2>2, <2>3, Unwritten
<1> QED BY <1>1, <1>2, <1>3, WrittenSkips

(* The closure that runs is that of the instruction. *)
LEMMA WrittenEnters ==
  ASSUME PlaceInv, WrittenInv, DictInv, NEW w \in Workers, DOMAIN running = Workers, EnterClosure(w)
  PROVE  WrittenInv'
<1> DEFINE n == Instruction(w).name
           r == [name |-> n, by |-> dict[n].by, does |-> dict[n].does]
<1>1. /\ loc[w] = "dispatch" /\ loc' = [loc EXCEPT ![w] = "closure"] /\ n \in DOMAIN dict
      /\ running' = [running EXCEPT ![w] = r] /\ UNCHANGED <<files, job, at, out>>
  BY DEF EnterClosure, mainVars
<1>2. Place(w) /\ Written(w) /\ DOMAIN out = Workers /\ DOMAIN loc = Workers
  BY DEF PlaceInv, WrittenInv
<1> HIDE DEF n
<1>3. r.name = n /\ r.by = dict[n].by
  OBVIOUS
<1>4. dict[n].by \in {"main", "plugin"}
  BY <1>1 DEF DictInv, Owned
<1>5. NoClosure.by \notin {"main", "plugin"}
  BY Zenon DEF NoClosure
<1>6. r # NoClosure
  BY <1>3, <1>4, <1>5
<1> HIDE DEF r
<1>7. /\ loc'[w] = "closure" /\ running'[w] = r
      /\ \A v \in Workers \ {w} : loc'[v] = loc[v] /\ running'[v] = running[v]
  BY <1>1, <1>2
<1>8. Runs(w)' /\ running'[w].name = Instruction(w)'.name
  BY <1>1, <1>3, <1>6, <1>7 DEF Runs, Instruction, Markup, Line, Lines, n
<1>9. Expanding(w)' = Expanding(w) /\ Seen(w)' = Seen(w)
  BY <1>1, <1>7 DEF Expanding, Seen, Markup, Line, Lines
<1>10. Expanding(w) => InPage(w)'
  BY <1>1, <1>2, <1>9 DEF Written, InPage, Line, Lines
<1>11. Written(w)'
  BY <1>7, <1>8, <1>9, <1>10 DEF Written
<1> QED BY <1>1, <1>2, <1>7, <1>11, WrittenOfOne

(* The closure has written what its instruction is expected to give. *)
LEMMA WrittenLeaves ==
  ASSUME PlaceInv, WrittenInv, DictInv, ChunksAreFirst, RunningInv, NEW w \in Workers, LeaveClosure(w)
  PROVE  WrittenInv'
<1>1. loc[w] = "closure" /\ UNCHANGED <<files, job>>
  BY DEF LeaveClosure, mainVars
<1>2. Place(w) /\ Written(w) /\ DOMAIN out = Workers /\ DOMAIN running = Workers
  BY DEF PlaceInv, WrittenInv, RunningInv
<1>3. CASE UNCHANGED <<out, at, loc, running>>
  BY <1>1, <1>3, WrittenKept DEF WrittenInv
<1>4. CASE /\ ~(running[w].by = "main" /\ Fails(running[w].does, Instruction(w)))
           /\ out' = IF Templates[job[w].page].from = "string" THEN out
                     ELSE [out EXCEPT ![w] = out[w] \o Expansion(Instruction(w), w)]
           /\ Skip(w) /\ running' = [running EXCEPT ![w] = NoClosure]
           /\ loc' = [loc EXCEPT ![w] = "scan"]
  <2>1. /\ DOMAIN out' = Workers
        /\ \A v \in Workers \ {w} : out'[v] = out[v] /\ running'[v] = running[v]
    BY <1>2, <1>4
  <2>2. ASSUME Expanding(w)
        PROVE  \E more : /\ IsSequence(more) /\ out'[w] = Join(out[w], more)
                         /\ AsRead(more) = ExpectedItems(files, job[w], at[w].done + 1, Instruction(w))
    <3> DEFINE body == Instruction(w)
               more == Expansion(body, w)
    <3>1. Templates[job[w].page].from = "file"
      BY <2>2 DEF Expanding, RegularPage
    <3>2. out'[w] = Join(out[w], more)
      BY <1>2, <1>4, <3>1 DEF Join
    <3>3. body.t = "body"
      BY <1>1, <1>2, <2>2, AtInstruction DEF Instruction
    <3>4. running[w] # NoClosure /\ running[w].name = body.name
      BY <1>1, <1>2 DEF Written, Runs
    <3>5. /\ body.name \in DOMAIN dict
          /\ dict[body.name] = [by |-> running[w].by, does |-> running[w].does]
      BY <3>4 DEF RunningInv, RunningIsRegistered
    <3>6. Owned(body.name)
      BY <3>5 DEF DictInv
    <3>7. running[w].by = dict[body.name].by /\ running[w].does = dict[body.name].does
      BY <3>5
    <3> HIDE DEF body
    <3>8. CASE running[w].by = "main"
      <4>1. body.name \in BuiltinNames \ DbRegisters /\ running[w].does = body.name
        BY <3>6, <3>7, <3>8 DEF Owned
      <4>2. ~Fails(body.name, body)
        BY <1>4, <3>8, <4>1 DEF body
      <4>3. /\ IsSequence(more)
            /\ AsRead(more) = ExpectedItems(files, job[w], at[w].done + 1, body)
        BY <3>3, <3>8, <4>1, <4>2, OwnExpansion
      <4> QED BY <3>2, <4>3 DEF body
    <3>9. CASE running[w].by = "plugin"
      <4>1. body.name \in DbRegisters \/ body.name \notin BuiltinNames
        BY <3>6, <3>7, <3>9 DEF Owned
      <4>2. /\ IsSequence(more)
            /\ AsRead(more) = ExpectedItems(files, job[w], at[w].done + 1, body)
        BY <3>3, <3>9, <4>1, PluginExpansion
      <4> QED BY <3>2, <4>2 DEF body
    <3> QED BY <3>6, <3>7, <3>8, <3>9 DEF Owned
  <2> QED BY <1>1, <1>4, <2>1, <2>2, WrittenSkips
<1> QED BY <1>3, <1>4 DEF LeaveClosure

(* The text before an instruction is written. *)
LEMMA TextWritten ==
  ASSUME NEW w, Place(w), Written(w), Expanding(w), loc[w] = "scan", at[w].done < Len(Lines(w)),
         Opens(Line(w), at[w].cur) # {}
  PROVE  LET s    == Markup(w)
             copy == CopyOf(Line(w), at[w].cur, s - 1) IN
         /\ s \in Nat /\ First(Closes(Line(w), at[w].cur)) = s + 2
         /\ IsSequence(out[w] \o copy)
         /\ AsRead(out[w] \o copy) = SoFar(files, job[w], at[w].done, s - 1)
<1> DEFINE line == Line(w)
           cur == at[w].cur
           n == at[w].done
           s == First(Opens(line, cur))
           i == n + 1
           seen == cur - 1
           last == s - 1
           copy == CopyOf(line, cur, last)
<1>1. /\ line = LineOf(job[w], i) /\ IsSequence(line) /\ Regular(line)
      /\ Len(line) \in Nat /\ DOMAIN line = 1 .. Len(line)
      /\ \A k \in DOMAIN line : line[k].width \in Nat
      /\ n \in Nat /\ cur \in 1 .. Len(line) + 1
  BY RegularLine
<1>2. /\ IsSequence(out[w]) /\ AtToken(line, cur)
      /\ AsRead(out[w]) = SoFar(files, job[w], n, seen)
  BY DEF Written, InPage, Seen
<1>3. job[w].page \in DOMAIN Templates /\ n <= Len(Lines(w))
  <2>1. job[w].page \in DOMAIN Templates
    BY DEF Place
  <2> QED BY <1>1, <2>1, TemplateLines
<1>4. Markup(w) = s /\ i = n + 1
  BY DEF Markup
<1>5. Opens(line, cur) # {} /\ line = Line(w) /\ cur = at[w].cur /\ n = at[w].done
  OBVIOUS
<1> HIDE DEF line, cur, n, i
<1>6. /\ s \in cur .. Len(line) /\ First(Closes(line, cur)) = s + 2
      /\ \A k \in cur .. s - 1 : Plain(line[k])
  BY <1>1, <1>2, <1>5, MarkupFound
<1> HIDE DEF s
<1>7. /\ seen \in Nat /\ last \in Nat /\ cur = seen + 1 /\ seen <= last /\ s \in Nat
      /\ PlainFrom(line, cur, last)
  BY <1>1, <1>6 DEF PlainFrom
<1> HIDE DEF seen, last
<1>8. /\ IsSequence(copy)
      /\ ItemsOf(files, job[w], i, last) = Join(ItemsOf(files, job[w], i, seen), AsRead(copy))
  BY <1>1, <1>7, Copied
<1> HIDE DEF copy
<1>9. IsSequence(out[w] \o copy) /\ AsRead(out[w] \o copy) = SoFar(files, job[w], n, last)
  BY <1>1, <1>2, <1>3, <1>4, <1>7, <1>8, MoreWritten
<1>10. last = s - 1 /\ copy = CopyOf(line, cur, s - 1)
  BY DEF last, copy
<1> QED BY <1>4, <1>5, <1>6, <1>7, <1>9, <1>10

LEMMA WrittenFinds ==
  ASSUME PlaceInv, WrittenInv, NEW w \in Workers, FindMarkup(w)
  PROVE  WrittenInv'
<1> DEFINE s == Markup(w)
           e == First(Closes(Line(w), at[w].cur))
           copy == CopyOf(Line(w), at[w].cur, s - 1)
<1>1. /\ loc[w] = "scan" /\ at[w].done < Len(Lines(w)) /\ Opens(Line(w), at[w].cur) # {}
      /\ out' = [out EXCEPT ![w] = out[w] \o copy]
      /\ UNCHANGED <<files, job, running>>
  BY DEF FindMarkup, Scanning, mainVars, Markup, CopyOf, CopiedWhole
<1>2. \/ e > s /\ loc' = [loc EXCEPT ![w] = "dispatch"] /\ UNCHANGED at
      \/ e = s - 1 /\ at' = [at EXCEPT ![w].cur = s] /\ UNCHANGED loc
      \/ e < s - 1 /\ loc' = [loc EXCEPT ![w] = "failed"] /\ UNCHANGED at
  BY DEF FindMarkup, Markup
<1>3. Place(w) /\ Written(w) /\ DOMAIN at = Workers /\ DOMAIN loc = Workers /\ DOMAIN out = Workers
  BY DEF PlaceInv, WrittenInv
<1> HIDE DEF copy, s, e
<1>4. /\ DOMAIN out' = Workers /\ out'[w] = out[w] \o copy /\ loc'[w] \in {"dispatch", "scan", "failed"}
      /\ \A v \in Workers \ {w} : out'[v] = out[v] /\ at'[v] = at[v] /\ loc'[v] = loc[v]
  BY <1>1, <1>2, <1>3
<1>5. ASSUME Expanding(w) PROVE InPage(w)'
  <2>1. /\ s \in Nat /\ e = s + 2 /\ IsSequence(out[w] \o copy)
        /\ AsRead(out[w] \o copy) = SoFar(files, job[w], at[w].done, s - 1)
    BY <1>1, <1>3, <1>5, TextWritten DEF s, e, copy
  <2>2. loc' = [loc EXCEPT ![w] = "dispatch"] /\ UNCHANGED at
    BY <1>2, <2>1
  <2>3. Seen(w)' = s - 1 /\ Line(w)' = Line(w) /\ Lines(w)' = Lines(w)
    <3>1. loc'[w] = "dispatch"
      BY <1>3, <2>2
    <3>2. Line(w)' = Line(w) /\ Lines(w)' = Lines(w) /\ Markup(w)' = s
      BY <1>1, <2>2 DEF Line, Lines, Markup, s
    <3> QED BY <3>1, <3>2 DEF Seen
  <2>4. AtToken(Line(w), at[w].cur)
    BY <1>1, <1>3, <1>5 DEF Written, InPage
  <2> QED BY <1>1, <1>4, <2>1, <2>2, <2>3, <2>4 DEF InPage
<1>6. Expanding(w)' => Expanding(w)
  BY <1>1 DEF Expanding
<1>7. Written(w)'
  BY <1>4, <1>5, <1>6 DEF Written
<1> QED BY <1>1, <1>3, <1>4, <1>7, WrittenOfOne

(* The worker is ready for another page. *)
LEMMA WrittenEnds ==
  ASSUME PlaceInv, WrittenInv, NEW w \in Workers, EndPage(w)
  PROVE  WrittenInv'
<1>1. /\ loc' = [loc EXCEPT ![w] = "idle"] /\ job' = [job EXCEPT ![w] = NoJob]
      /\ at' = [at EXCEPT ![w] = Start] /\ out' = [out EXCEPT ![w] = <<>>]
      /\ UNCHANGED <<files, running>>
  BY DEF EndPage, mainVars
<1>2. /\ DOMAIN loc = Workers /\ DOMAIN job = Workers /\ DOMAIN at = Workers /\ DOMAIN out = Workers
  BY DEF PlaceInv, WrittenInv
<1>3. /\ loc'[w] = "idle" /\ out'[w] = <<>> /\ DOMAIN out' = Workers
      /\ \A v \in Workers \ {w} : UNCHANGED <<loc[v], job[v], at[v], out[v], running[v]>>
  BY <1>1, <1>2
<1>4. Written(w)'
  BY <1>3 DEF Written, Expanding
<1> QED BY <1>1, <1>3, <1>4, WrittenOfOne

LEMMA WrittenBegins ==
  ASSUME PlaceInv, WrittenInv, NEW w \in Workers, NEW p \in DOMAIN Templates, NEW codes,
         BeginPage(w, p, codes)
  PROVE  WrittenInv'
<1> DEFINE r == [page |-> p, num |-> counter + 1, codes |-> codes]
<1>1. /\ loc[w] = "idle" /\ loc' = [loc EXCEPT ![w] = "scan"] /\ job' = [job EXCEPT ![w] = r]
      /\ UNCHANGED <<files, at, out, running>>
  BY DEF BeginPage, mainVars
<1>2. /\ DOMAIN loc = Workers /\ DOMAIN job = Workers /\ DOMAIN out = Workers
      /\ Place(w) /\ Written(w)
  BY DEF PlaceInv, WrittenInv
<1> HIDE DEF r
<1>3. /\ loc'[w] = "scan" /\ job'[w] = r
      /\ \A v \in Workers \ {w} : UNCHANGED <<loc[v], job[v], at[v], out[v], running[v]>>
  BY <1>1, <1>2
<1>4. out'[w] = <<>> /\ at'[w].done = 0 /\ at'[w].cur = 1
  BY <1>1, <1>2 DEF Place, Written, Start
<1>5. SoFar(files, r, 0, 0) = <<>>
  <2>1. LinesOf(files, r, 0) = <<>>
    BY Small DEF LinesOf, FlattenSeq
  <2>2. ItemsOf(files, r, 0 + 1, 0) = <<>>
    BY ItemsGrow
  <2> QED BY <2>1, <2>2, Small, Concat DEF SoFar
<1>6. InPage(w)'
  <2>1. Seen(w)' = 0
    BY <1>3, <1>4 DEF Seen
  <2>2. AsRead(<<>>) = <<>> /\ IsSequence(<<>>)
    BY Small, ReadAppended
  <2>3. AtToken(Line(w)', at'[w].cur)
    BY <1>4 DEF AtToken
  <2> QED BY <1>1, <1>3, <1>4, <1>5, <2>1, <2>2, <2>3 DEF InPage
<1>7. Written(w)'
  BY <1>3, <1>6 DEF Written
<1> QED BY <1>1, <1>2, <1>3, <1>7, WrittenOfOne

(* While nothing is served, files may be loaded. *)
LEMMA WrittenIdle ==
  ASSUME WrittenInv, \A w \in Workers : loc[w] = "idle", UNCHANGED <<loc, out>>
  PROVE  WrittenInv'
BY DEF WrittenInv, Written, Expanding

LEMMA WrittenUnchanged ==
  ASSUME WrittenInv, UNCHANGED <<files, loc, job, at, out, running>>
  PROVE  WrittenInv'
BY WrittenKept DEF WrittenInv

LEMMA WrittenStep ==
  ASSUME PlaceInv, RunningInv, ChunksAreFirst, DictInv, WrittenInv, NEW w \in Workers, Step(w)
  PROVE  WrittenInv'
<1>1. loc[w] # "idle"
  BY DEF Step, SendPage, CopyLine, FindMarkup, InvalidInstruction, UnknownInstruction,
     EnterClosure, LeaveClosure, EndPage, Scanning
<1>2. main = "serving" /\ DOMAIN running = Workers
  BY <1>1 DEF RunningInv
<1> QED BY <1>2, WrittenSends, WrittenCopies, WrittenFinds, WrittenInvalid, WrittenUnknown,
           WrittenEnters, WrittenLeaves, WrittenEnds DEF Step

LEMMA WrittenNext ==
  PlaceInv /\ RunningInv /\ ChunksAreFirst /\ DictInv /\ WrittenInv /\ [Next]_vars => WrittenInv'
<1> SUFFICES ASSUME PlaceInv, RunningInv, ChunksAreFirst, DictInv, WrittenInv, [Next]_vars
             PROVE  WrittenInv'
  OBVIOUS
<1>0. main # "serving" => \A w \in Workers : loc[w] = "idle"
  BY DEF RunningInv
<1>1. ASSUME NEW f \in ChunkFiles, AddChunkFile(f) PROVE WrittenInv'
  BY <1>0, <1>1, WrittenIdle DEF AddChunkFile, pageVars
<1>2. CASE InitializeDatabasePlugins \/ InitializeTemplates \/ InitializeWebPlugins
  BY <1>2, WrittenUnchanged DEF InitializeDatabasePlugins, InitializeTemplates,
     InitializeWebPlugins, Advance, pageVars
<1>3. ASSUME NEW w \in Workers, Step(w) PROVE WrittenInv'
  BY <1>3, WrittenStep
<1>4. ASSUME NEW w \in Workers, NEW p \in DOMAIN Templates, NEW codes, BeginPage(w, p, codes)
      PROVE  WrittenInv'
  BY <1>4, WrittenBegins
<1>5. ASSUME NEW name, ForgetExpander(name) PROVE WrittenInv'
  BY <1>5, WrittenUnchanged DEF ForgetExpander, pageVars, mainVars
<1>6. CASE UNCHANGED vars
  BY <1>6, WrittenUnchanged DEF vars, mainVars, pageVars
<1> QED BY <1>1, <1>2, <1>3, <1>4, <1>5, <1>6 DEF Next, Main

(* For any templates, chunk files, plugins and workers, a page of regular  *)
(* lines is sent as its template reads, its instructions replaced by what  *)
(* the request, the build and the first chunk file that defines a message  *)
(* have for them (hcv_expand_template_input_stream,                        *)
(* hcv_expand_processing_instruction, hcv_view_expand_msg).                *)
THEOREM PagesAreTheirTemplates == Spec => []PageIsItsTemplate
<1>1. WrittenInv => PageIsItsTemplate
  BY DEF WrittenInv, Written, PageIsItsTemplate
<1> QED
  BY <1>1, TypesInit, TypesNext, RunningInit, RunningNext, ChunksInit, ChunksNext, DictInit, DictNext,
     WrittenInit, WrittenNext, PTL DEF Spec

-----------------------------------------------------------------------------
(* The numbers that pages show, regular or not.                            *)

(* Of the items of an output, the request numbers are num.                 *)
OwnNumbers(items, num) == \A i \in DOMAIN items : items[i].k = "request_number" => items[i].v = num

(* What a worker has written shows no request number but that of its       *)
(* request.                                                                *)
NumbersAreOwn == \A w \in Workers : OwnNumbers(out[w], job[w].num)

(* What makes it inductive: an output is a sequence, empty before a page   *)
(* starts, and a worker in a closure has noted which one.                  *)
NumbersInv ==
  /\ DOMAIN out = Workers
  /\ \A w \in Workers : /\ IsSequence(out[w]) /\ OwnNumbers(out[w], job[w].num)
                        /\ loc[w] = "idle" => out[w] = <<>>
                        /\ loc[w] = "closure" => Runs(w)

(* Appending to an output keeps its numbers.                               *)
LEMMA OwnJoined ==
  ASSUME NEW s, NEW t, NEW num, IsSequence(s), IsSequence(t), OwnNumbers(s, num), OwnNumbers(t, num)
  PROVE  IsSequence(s \o t) /\ OwnNumbers(s \o t, num)
<1>1. PICK S : s \in Seq(S) /\ t \in Seq(S)
  BY Common
<1>2. IsSequence(s \o t)
  BY Concat
<1>3. /\ Len(s) \in Nat /\ Len(t) \in Nat /\ DOMAIN s = 1 .. Len(s) /\ DOMAIN t = 1 .. Len(t)
      /\ DOMAIN (s \o t) = 1 .. Len(s) + Len(t)
      /\ \A i \in 1 .. Len(s) + Len(t) : (s \o t)[i] = IF i <= Len(s) THEN s[i] ELSE t[i - Len(s)]
  BY <1>1, ConcatProperties, LenProperties
<1>4. ASSUME NEW i \in DOMAIN (s \o t), (s \o t)[i].k = "request_number" PROVE (s \o t)[i].v = num
  <2>1. CASE i <= Len(s)
    BY <1>3, <1>4, <2>1 DEF OwnNumbers
  <2>2. CASE i > Len(s)
    <3>1. i - Len(s) \in DOMAIN t /\ (s \o t)[i] = t[i - Len(s)]
      BY <1>3, <2>2
    <3> QED BY <1>4, <3>1 DEF OwnNumbers
  <2> QED BY <1>3, <2>1, <2>2
<1> QED BY <1>2, <1>4 DEF OwnNumbers

(* One item of a closure.                                                  *)
LEMMA OwnShown ==
  ASSUME NEW name, NEW value, NEW num, name = "request_number" => value = num
  PROVE  IsSequence(Shown(name, value)) /\ OwnNumbers(Shown(name, value), num)
<1> DEFINE item == [k |-> name, v |-> value]
<1>1. item.k = name /\ item.v = value
  OBVIOUS
<1> HIDE DEF item
<1>2. Shown(name, value) = <<item>>
  BY DEF Shown, item
<1> QED BY <1>1, <1>2, Small DEF OwnNumbers

(* Copied text shows no number.                                            *)
LEMMA OwnCopied ==
  ASSUME NEW line, NEW m \in Int, NEW n \in Int, NEW num
  PROVE  IsSequence(Copy(SubSeq(line, m, n))) /\ OwnNumbers(Copy(SubSeq(line, m, n)), num)
<1> DEFINE s == SubSeq(line, m, n)
<1>1. DOMAIN s = 1 .. 1 + n - m
  OBVIOUS
<1> HIDE DEF s
<1>2. OwnNumbers(Copy(s), num)
  BY DEF OwnNumbers, Copy, Text
<1>3. IsSequence(Copy(s))
  <2> DEFINE len == IF n < m THEN 0 ELSE 1 + n - m
             c == [i \in 1 .. len |-> Text(s[i])]
  <2>1. len \in Nat /\ DOMAIN s = 1 .. len
    BY <1>1
  <2>2. c \in Seq({Text(s[i]) : i \in 1 .. len})
    <3> HIDE DEF len
    <3> QED BY <2>1
  <2>3. Copy(s) = c
    BY <2>1 DEF Copy
  <2> HIDE DEF c
  <2> QED BY <2>2, <2>3, OfSet
<1> QED BY <1>2, <1>3 DEF s

(* Of the closures, only that of request_number writes one, from the       *)
(* template data of its own request.                                       *)
LEMMA OwnExpanded ==
  ASSUME NEW w, NEW body,
         running[w].by = "plugin" \/ running[w].does \in BuiltinNames \ {"confmsg"}
  PROVE  IsSequence(Expansion(body, w)) /\ OwnNumbers(Expansion(body, w), job[w].num)
<1> DEFINE name == running[w].does
           num == job[w].num
<1>0. ASSUME NEW k, NEW v, Expansion(body, w) = Shown(k, v), k = "request_number" => v = num
      PROVE  IsSequence(Expansion(body, w)) /\ OwnNumbers(Expansion(body, w), num)
  BY <1>0, OwnShown
<1>1. CASE running[w].by = "plugin"
  <2>1. Expansion(body, w) = Shown("plugin", name)
    BY <1>1 DEF Expansion
  <2> QED BY <1>0, <2>1
<1>2. CASE name = "request_number" /\ running[w].by # "plugin"
  <2>1. Expansion(body, w) = Shown(name, num)
    BY <1>2 DEF Expansion, RequestPart
  <2> QED BY <1>0, <2>1
<1>3. CASE name \in BuiltinNames \ {"confmsg", "request_number"} /\ running[w].by # "plugin"
  <2>1. CASE name \in {"basefilepos", "html_config"}
    <3>1. Expansion(body, w) \in {<<>>, Shown("basefilepos", at[w].done + 1)}
      <4>1. BaseFilePos(body.arg, w) \in {<<>>, Shown("basefilepos", at[w].done + 1)}
        BY Zenon DEF BaseFilePos
      <4> QED BY <1>3, <2>1, <4>1 DEF Expansion, HtmlConfig
    <3>2. OwnNumbers(<<>>, num)
      BY DEF OwnNumbers
    <3> QED BY <1>0, <3>1, <3>2, Small
  <2>2. CASE name \notin {"basefilepos", "html_config"}
    <3>1. \E v : Expansion(body, w) = Shown(name, v)
      BY <1>3, <2>2 DEF Expansion, BuiltinNames, Clock, Build, Process, RequestPart, Position, FormToken
    <3> QED BY <1>0, <1>3, <3>1
  <2> QED BY <2>1, <2>2
<1> QED BY <1>1, <1>2, <1>3

LEMMA NumbersInit == Init => NumbersInv
<1> SUFFICES ASSUME Init PROVE NumbersInv
  OBVIOUS
<1>1. DOMAIN out = Workers /\ \A w \in Workers : loc[w] = "idle" /\ out[w] = <<>>
  BY DEF Init
<1> QED BY <1>1, Small DEF NumbersInv, OwnNumbers

(* A step of one worker leaves the outputs of the others alone.            *)
LEMMA NumbersOfOne ==
  ASSUME NumbersInv, NEW w \in Workers, DOMAIN out' = Workers,
         IsSequence(out'[w]), OwnNumbers(out'[w], job'[w].num),
         loc'[w] = "idle" => out'[w] = <<>>, loc'[w] = "closure" => Runs(w)',
         \A v \in Workers \ {w} : UNCHANGED <<loc[v], job[v], out[v], running[v]>>
  PROVE  NumbersInv'
BY DEF NumbersInv, Runs

(* A worker writes, or only moves. *)
LEMMA NumbersWritten ==
  ASSUME NumbersInv, PlaceInv, NEW w \in Workers, NEW more, IsSequence(more), OwnNumbers(more, job[w].num),
         out' = [out EXCEPT ![w] = out[w] \o more], loc'[w] \notin {"idle", "closure"}, job' = job,
         \A v \in Workers \ {w} : UNCHANGED <<loc[v], running[v]>>
  PROVE  NumbersInv'
<1>1. DOMAIN out = Workers /\ IsSequence(out[w]) /\ OwnNumbers(out[w], job[w].num)
  BY DEF NumbersInv
<1>2. IsSequence(out[w] \o more) /\ OwnNumbers(out[w] \o more, job[w].num)
  BY <1>1, OwnJoined
<1>3. out'[w] = out[w] \o more /\ DOMAIN out' = Workers /\ \A v \in Workers \ {w} : out'[v] = out[v]
  BY <1>1
<1> QED BY <1>2, <1>3, NumbersOfOne

LEMMA NumbersMoved ==
  ASSUME NumbersInv, PlaceInv, NEW w \in Workers, NEW l \in {"scan", "sent"},
         loc' = [loc EXCEPT ![w] = l], UNCHANGED <<job, out>>,
         \A v \in Workers \ {w} : running'[v] = running[v]
  PROVE  NumbersInv'
<1>1. loc'[w] = l /\ \A v \in Workers \ {w} : loc'[v] = loc[v]
  BY DEF PlaceInv
<1>2. DOMAIN out = Workers /\ IsSequence(out[w]) /\ OwnNumbers(out[w], job[w].num)
  BY DEF NumbersInv
<1> QED BY <1>1, <1>2, NumbersOfOne

LEMMA NumbersUnchanged ==
  ASSUME NumbersInv, UNCHANGED <<loc, job, out, running>>
  PROVE  NumbersInv'
BY DEF NumbersInv, Runs

LEMMA NumbersCopies ==
  ASSUME NumbersInv, PlaceInv, NEW w \in Workers, CopyLine(w)
  PROVE  NumbersInv'
<1> DEFINE copy == Copy(SubSeq(Line(w), at[w].cur, Len(Line(w))))
           nl == <<Newline>>
<1>1. /\ loc[w] = "scan" /\ at[w].done < Len(Lines(w)) /\ UNCHANGED <<loc, job, running>>
      /\ out' = [out EXCEPT ![w] = out[w] \o copy \o nl]
  BY DEF CopyLine, Scanning
<1>2. Place(w) /\ DOMAIN out = Workers /\ IsSequence(out[w]) /\ OwnNumbers(out[w], job[w].num)
  BY DEF PlaceInv, NumbersInv
<1>3. Len(Line(w)) \in Int /\ at[w].cur \in Int
  <2>1. at[w] \in [done : Nat, cur : Nat] /\ job[w].page \in DOMAIN Templates
    BY <1>1, <1>2 DEF Place
  <2> QED BY <1>1, <2>1, TemplateLine
<1>4. IsSequence(copy) /\ OwnNumbers(copy, job[w].num)
  BY <1>3, OwnCopied
<1>5. IsSequence(nl) /\ OwnNumbers(nl, job[w].num)
  <2>1. Newline.k = "newline"
    BY Zenon DEF Newline
  <2> QED BY <2>1, Small DEF OwnNumbers
<1> HIDE DEF copy, nl
<1>6. IsSequence((out[w] \o copy) \o nl) /\ OwnNumbers((out[w] \o copy) \o nl, job[w].num)
  BY <1>2, <1>4, <1>5, OwnJoined
<1>7. /\ out'[w] = (out[w] \o copy) \o nl /\ DOMAIN out' = Workers
      /\ \A v \in Workers \ {w} : out'[v] = out[v]
  BY <1>1, <1>2
<1> QED BY <1>1, <1>6, <1>7, NumbersOfOne

LEMMA NumbersFinds ==
  ASSUME NumbersInv, PlaceInv, NEW w \in Workers, FindMarkup(w)
  PROVE  NumbersInv'
<1> DEFINE s == First(Opens(Line(w), at[w].cur))
           copy == Copy(SubSeq(Line(w), at[w].cur, s - 1))
<1>1. /\ loc[w] = "scan" /\ at[w].done < Len(Lines(w)) /\ UNCHANGED <<job, running>>
      /\ Opens(Line(w), at[w].cur) # {}
      /\ out' = [out EXCEPT ![w] = out[w] \o copy]
      /\ loc' = loc \/ loc' = [loc EXCEPT ![w] = "dispatch"] \/ loc' = [loc EXCEPT ![w] = "failed"]
  BY DEF FindMarkup, Scanning, CopiedWhole
<1>2. Place(w) /\ DOMAIN loc = Workers
  BY DEF PlaceInv
<1>3. s - 1 \in Int /\ at[w].cur \in Int
  <2>1. at[w] \in [done : Nat, cur : Nat] /\ job[w].page \in DOMAIN Templates
    BY <1>1, <1>2 DEF Place
  <2>2. Len(Line(w)) \in Nat /\ at[w].cur \in Nat
    BY <1>1, <2>1, TemplateLine
  <2>3. s \in at[w].cur .. Len(Line(w))
    BY <1>1, <2>2, MarkupBounds
  <2> HIDE DEF s
  <2> QED BY <2>2, <2>3
<1>4. IsSequence(copy) /\ OwnNumbers(copy, job[w].num)
  <2> HIDE DEF s
  <2> QED BY <1>3, OwnCopied
<1> HIDE DEF copy
<1>5. loc'[w] \notin {"idle", "closure"} /\ \A v \in Workers \ {w} : loc'[v] = loc[v]
  BY <1>1, <1>2
<1> QED BY <1>1, <1>4, <1>5, NumbersWritten

LEMMA NumbersLeaves ==
  ASSUME NumbersInv, PlaceInv, RunningInv, DictInv, NEW w \in Workers, LeaveClosure(w)
  PROVE  NumbersInv'
<1>1. loc[w] = "closure" /\ job' = job /\ DOMAIN loc = Workers /\ DOMAIN running = Workers
  BY DEF LeaveClosure, PlaceInv, RunningInv
<1>2. CASE UNCHANGED <<out, at, loc, running>>
  BY <1>1, <1>2, NumbersUnchanged
<1>3. CASE /\ ~(running[w].by = "main" /\ Fails(running[w].does, Instruction(w)))
           /\ out' = IF Templates[job[w].page].from = "string" THEN out
                     ELSE [out EXCEPT ![w] = out[w] \o Expansion(Instruction(w), w)]
           /\ running' = [running EXCEPT ![w] = NoClosure]
           /\ loc' = [loc EXCEPT ![w] = "scan"]
  <2>1. loc'[w] = "scan" /\ \A v \in Workers \ {w} : loc'[v] = loc[v] /\ running'[v] = running[v]
    BY <1>1, <1>3
  <2>2. CASE out' = out
    BY <1>1, <1>3, <2>1, <2>2, NumbersMoved
  <2>3. CASE out' = [out EXCEPT ![w] = out[w] \o Expansion(Instruction(w), w)]
    <3>1. /\ running[w].name \in DOMAIN dict
          /\ dict[running[w].name] = [by |-> running[w].by, does |-> running[w].does]
      <4>1. Runs(w)
        BY <1>1 DEF NumbersInv
      <4> QED BY <4>1 DEF Runs, RunningInv, RunningIsRegistered
    <3>2. Owned(running[w].name)
      BY <3>1 DEF DictInv
    <3>3. \/ running[w].by = "plugin"
          \/ running[w].by = "main" /\ running[w].does \in BuiltinNames
      BY <3>1, <3>2 DEF Owned
    <3>4. running[w].by = "main" => running[w].does # "confmsg"
      BY <1>3 DEF Fails
    <3>5. /\ IsSequence(Expansion(Instruction(w), w))
          /\ OwnNumbers(Expansion(Instruction(w), w), job[w].num)
      BY <3>3, <3>4, OwnExpanded
    <3> QED BY <1>1, <2>1, <2>3, <3>5, NumbersWritten
  <2> QED BY <1>3, <2>2, <2>3
<1> QED BY <1>2, <1>3 DEF LeaveClosure

LEMMA NumbersEnters ==
  ASSUME NumbersInv, PlaceInv, DictInv, NEW w \in Workers, DOMAIN running = Workers, EnterClosure(w)
  PROVE  NumbersInv'
<1> DEFINE n == Instruction(w).name
           r == [name |-> n, by |-> dict[n].by, does |-> dict[n].does]
<1>1. /\ loc' = [loc EXCEPT ![w] = "closure"] /\ n \in DOMAIN dict
      /\ running' = [running EXCEPT ![w] = r] /\ UNCHANGED <<job, out>>
  BY DEF EnterClosure
<1> HIDE DEF n
<1>2. r.by \in {"main", "plugin"}
  BY <1>1 DEF DictInv, Owned
<1>3. NoClosure.by \notin {"main", "plugin"}
  BY Zenon DEF NoClosure
<1>4. r # NoClosure
  BY <1>2, <1>3
<1> HIDE DEF r
<1>5. /\ loc'[w] = "closure" /\ running'[w] = r
      /\ \A v \in Workers \ {w} : loc'[v] = loc[v] /\ running'[v] = running[v]
  BY <1>1 DEF PlaceInv
<1>6. DOMAIN out = Workers /\ IsSequence(out[w]) /\ OwnNumbers(out[w], job[w].num)
  BY DEF NumbersInv
<1> QED BY <1>1, <1>4, <1>5, <1>6, NumbersOfOne DEF Runs

LEMMA NumbersEnds ==
  ASSUME NumbersInv, PlaceInv, NEW w \in Workers, EndPage(w)
  PROVE  NumbersInv'
<1>1. /\ loc' = [loc EXCEPT ![w] = "idle"] /\ job' = [job EXCEPT ![w] = NoJob]
      /\ out' = [out EXCEPT ![w] = <<>>] /\ UNCHANGED running
  BY DEF EndPage
<1>2. DOMAIN loc = Workers /\ DOMAIN job = Workers /\ DOMAIN out = Workers
  BY DEF PlaceInv, NumbersInv
<1>3. /\ loc'[w] = "idle" /\ out'[w] = <<>> /\ DOMAIN out' = Workers
      /\ \A v \in Workers \ {w} : UNCHANGED <<loc[v], job[v], out[v], running[v]>>
  BY <1>1, <1>2
<1>4. IsSequence(out'[w]) /\ OwnNumbers(out'[w], job'[w].num)
  BY <1>3, Small DEF OwnNumbers
<1> QED BY <1>3, <1>4, NumbersOfOne

LEMMA NumbersBegins ==
  ASSUME NumbersInv, PlaceInv, NEW w \in Workers, NEW p, NEW codes, BeginPage(w, p, codes)
  PROVE  NumbersInv'
<1>1. /\ loc[w] = "idle" /\ loc' = [loc EXCEPT ![w] = "scan"]
      /\ job' = [job EXCEPT ![w] = [page |-> p, num |-> counter + 1, codes |-> codes]]
      /\ UNCHANGED <<out, running>>
  BY DEF BeginPage
<1>2. DOMAIN loc = Workers /\ DOMAIN job = Workers /\ DOMAIN out = Workers /\ out[w] = <<>>
  BY <1>1 DEF PlaceInv, NumbersInv
<1>3. /\ loc'[w] = "scan" /\ \A v \in Workers \ {w} : UNCHANGED <<loc[v], job[v], out[v], running[v]>>
  BY <1>1, <1>2
<1>4. IsSequence(out'[w]) /\ OwnNumbers(out'[w], job'[w].num)
  BY <1>1, <1>2, Small DEF OwnNumbers
<1> QED BY <1>1, <1>2, <1>3, <1>4, NumbersOfOne

LEMMA NumbersStep ==
  ASSUME NumbersInv, PlaceInv, RunningInv, DictInv, NEW w \in Workers, Step(w)
  PROVE  NumbersInv'
<1>0. DOMAIN running = Workers
  BY DEF RunningInv
<1>1. CASE SendPage(w)
  BY <1>1, NumbersMoved DEF SendPage
<1>2. CASE InvalidInstruction(w)
  BY <1>2, NumbersMoved DEF InvalidInstruction
<1>3. CASE UnknownInstruction(w)
  BY <1>3, NumbersMoved DEF UnknownInstruction
<1> QED BY <1>0, <1>1, <1>2, <1>3, NumbersCopies, NumbersFinds, NumbersEnters, NumbersLeaves,
           NumbersEnds DEF Step

LEMMA NumbersNext ==
  NumbersInv /\ PlaceInv /\ RunningInv /\ DictInv /\ [Next]_vars => NumbersInv'
<1> SUFFICES ASSUME NumbersInv, PlaceInv, RunningInv, DictInv, [Next]_vars PROVE NumbersInv'
  OBVIOUS
<1>1. CASE Main
  BY <1>1, NumbersUnchanged DEF Main, AddChunkFile, InitializeDatabasePlugins, InitializeTemplates,
     InitializeWebPlugins, Advance, pageVars
<1>2. ASSUME NEW w \in Workers, NEW p, NEW codes, BeginPage(w, p, codes) PROVE NumbersInv'
  BY <1>2, NumbersBegins
<1>3. ASSUME NEW name, ForgetExpander(name) PROVE NumbersInv'
  BY <1>3, NumbersUnchanged DEF ForgetExpander, pageVars
<1>4. CASE UNCHANGED vars
  BY <1>4, NumbersUnchanged DEF vars, pageVars
<1> QED BY <1>1, <1>2, <1>3, <1>4, NumbersStep DEF Next

(* Whatever markup a template holds, regular or not, and whatever the      *)
(* other workers do with hcv_web_request_counter meanwhile, a page never   *)
(* shows the number of another request: the closure of request_number      *)
(* (hcv_initialize_templates) reads it in the template data, not in the    *)
(* counter.                                                                *)
THEOREM PagesShowOwnNumbers == Spec => []NumbersAreOwn
<1>1. NumbersInv => NumbersAreOwn
  BY DEF NumbersInv, NumbersAreOwn
<1> QED
  BY <1>1, NumbersInit, NumbersNext, TypesInit, TypesNext, RunningInit, RunningNext, DictInit, DictNext,
     PTL DEF Spec
==============================================================================
