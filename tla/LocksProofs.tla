---------------------------- MODULE LocksProofs ----------------------------
(* Proofs about Locks, for every set of threads and whatever jobs,         *)
(* closures and initialisers call within the order of the mutexes; and     *)
(* what they say of Plugins.                                               *)
EXTENDS Plugins, TLAPS

-----------------------------------------------------------------------------
(* The order *)

LEMMA LevelValues ==
  /\ \A m \in Mutexes : Level[m] \in 0..6
  /\ \A m, n \in Mutexes : Level[m] = Level[n] => m = n
  /\ Level["plugin"] = 0 /\ Level["todo"] = 1 /\ Level["template"] = 2
  /\ Level["config"] = 3 /\ Level["chunkmap"] = 4 /\ Level["db"] = 5
  /\ Level["syslog"] = 6
BY DEF Level, Mutexes

LEMMA GuardedLevels ==
  /\ Level[Guarded["config-do"]] = 3 /\ Level[Guarded["load-config"]] = 3
  /\ Level[Guarded["add-chunkmap-file"]] = 4 /\ Level[Guarded["get-chunkmap-entry"]] = 4
  /\ Level[Guarded["use-database"]] = 5 /\ Level[Guarded["syslog"]] = 6
  /\ Level[Guarded["load-plugin"]] = 0
<1> USE DEF Level, Mutexes, Guarded, GuardedFunctions
<1>1. Level[Guarded["config-do"]] = 3 OBVIOUS
<1>2. Level[Guarded["load-config"]] = 3 OBVIOUS
<1>3. Level[Guarded["add-chunkmap-file"]] = 4 OBVIOUS
<1>4. Level[Guarded["get-chunkmap-entry"]] = 4 OBVIOUS
<1>5. Level[Guarded["use-database"]] = 5 OBVIOUS
<1>6. Level[Guarded["syslog"]] = 6 OBVIOUS
<1>7. Level[Guarded["load-plugin"]] = 0 OBVIOUS
<1> QED BY <1>1, <1>2, <1>3, <1>4, <1>5, <1>6, <1>7

LEMMA GuardedValues ==
  /\ \A f \in GuardedFunctions : Guarded[f] \in Mutexes
  /\ Guarded["initialize-plugins"] = "plugin" /\ Guarded["load-plugin"] = "plugin"
  /\ Guarded["do-event"] = "todo" /\ Guarded["expand-instruction"] = "template"
  /\ Guarded["config-do"] = "config" /\ Guarded["load-config"] = "config"
  /\ Guarded["add-chunkmap-file"] = "chunkmap" /\ Guarded["get-chunkmap-entry"] = "chunkmap"
  /\ Guarded["prepare-statements"] = "db" /\ Guarded["register-statement"] = "db"
  /\ Guarded["use-database"] = "db" /\ Guarded["syslog"] = "syslog"
BY DEF Guarded, GuardedFunctions, Mutexes

(* Nested calls go up. *)
LEMMA CallsGoUp ==
  ASSUME NEW f \in GuardedFunctions, NEW g \in Calls[f]
  PROVE  g \in GuardedFunctions /\ After(g, Guarded[f])
<1>1. g \in GuardedFunctions
  BY LocksAssumption DEF Calls, GuardedFunctions
<1>2. Guarded[f] \in Mutexes /\ Guarded[g] \in Mutexes
  BY <1>1, GuardedValues
<1>3. CASE f = "initialize-plugins"
  <2>1. Guarded[f] = "plugin" /\ "plugin" \notin NonRecursive
    BY <1>3, GuardedValues DEF NonRecursive
  <2>2. Level["plugin"] <= Level[Guarded[g]]
    BY <1>2, LevelValues
  <2>3. Level[Guarded[g]] \in Nat /\ Level["plugin"] \in Nat /\ "plugin" \in Mutexes
    BY <1>2, LevelValues DEF Mutexes
  <2> QED BY <1>1, <1>2, <2>1, <2>2, <2>3, LevelValues DEF After, LevelOf
<1>4. CASE f = "do-event"
  <2>1. Guarded[f] = "todo" /\ "todo" \notin NonRecursive
    BY <1>4, GuardedValues DEF NonRecursive
  <2>2. g \in JobCalls
    BY <1>4 DEF Calls, GuardedFunctions
  <2>3. Level[Guarded[g]] >= 1
    BY <2>2, LocksAssumption, LevelValues DEF LevelOf
  <2> QED BY <1>1, <1>2, <2>1, <2>3, LevelValues DEF After, LevelOf, Mutexes
<1>5. CASE f = "expand-instruction"
  <2>1. Guarded[f] = "template" /\ "template" \notin NonRecursive
    BY <1>5, GuardedValues DEF NonRecursive
  <2>2. g \in ClosureCalls \cup {"config-do", "get-chunkmap-entry", "syslog"}
    BY <1>5 DEF Calls, GuardedFunctions
  <2>3. Level[Guarded[g]] >= 2
    <3>1. CASE g \in ClosureCalls
      BY <3>1, LocksAssumption, LevelValues DEF LevelOf
    <3>2. CASE g \in {"config-do", "get-chunkmap-entry", "syslog"}
      <4>1. Level[Guarded[g]] \in {3, 4, 6}
        BY <3>2, GuardedLevels
      <4> QED BY <4>1
    <3> QED BY <2>2, <3>1, <3>2
  <2> QED BY <1>1, <1>2, <2>1, <2>3, LevelValues DEF After, LevelOf, Mutexes
<1>6. CASE f = "config-do"
  <2>1. g \in {"add-chunkmap-file", "syslog"}
    BY <1>6 DEF Calls, GuardedFunctions
  <2>2. Level[Guarded[f]] = 3 /\ Level[Guarded[g]] \in {4, 6}
    BY <1>6, <2>1, GuardedLevels
  <2> QED BY <1>1, <2>2 DEF After, LevelOf
<1>7. CASE f = "prepare-statements"
  <2>1. g = "register-statement"
    BY <1>7 DEF Calls, GuardedFunctions
  <2> QED BY <1>1, <1>7, <2>1, GuardedValues DEF After, NonRecursive
<1>8. CASE f \in {"load-plugin", "load-config", "use-database"}
  <2>1. g = "syslog"
    BY <1>8 DEF Calls, GuardedFunctions
  <2>2. Level[Guarded[f]] \in {0, 3, 5} /\ Level[Guarded[g]] = 6
    BY <1>8, <2>1, GuardedLevels
  <2> QED BY <1>1, <2>2 DEF After, LevelOf
<1>9. CASE f \notin {"initialize-plugins", "do-event", "expand-instruction", "config-do",
                     "prepare-statements", "load-plugin", "load-config", "use-database"}
  BY <1>9 DEF Calls, GuardedFunctions
<1> QED BY <1>1, <1>3, <1>4, <1>5, <1>6, <1>7, <1>8, <1>9

(* What comes after a function that comes after a mutex comes after it. *)
LEMMA AfterTransitive ==
  ASSUME NEW f \in GuardedFunctions, NEW g \in GuardedFunctions, NEW m \in Mutexes,
         After(f, m), After(g, Guarded[f])
  PROVE  After(g, m)
<1>1. Guarded[f] \in Mutexes /\ Guarded[g] \in Mutexes
  BY GuardedValues
<1> QED BY <1>1, LevelValues DEF After, LevelOf

-----------------------------------------------------------------------------
(* The inductive invariant: stacks ascend, and mutexes exclude. *)

LocksInv == LocksTypeOK /\ Ascending /\ Exclusion

LEMMA LocksInitInv == LocksInit => LocksInv
BY DEF LocksInit, LocksInv, LocksTypeOK, Ascending, Exclusion, Held

LEMMA CallInv ==
  ASSUME LocksInv, NEW t \in Threads, NEW f \in GuardedFunctions, Call(t, f)
  PROVE  LocksInv'
<1> USE DEF LocksInv
<1>1. stack' = stack /\ wanted' = [wanted EXCEPT ![t] = f]
  BY DEF Call
<1>2. LocksTypeOK'
  BY <1>1 DEF LocksTypeOK
<1>3. Exclusion'
  BY <1>1 DEF Exclusion, Held
<1>4. \A i \in DOMAIN stack[t] : After(f, Guarded[stack[t][i]])
  <2> TAKE i \in DOMAIN stack[t]
  <2> DEFINE s == stack[t]
  <2>1. s \in Seq(GuardedFunctions) /\ s # <<>>
    BY DEF LocksTypeOK
  <2>2. Len(s) \in DOMAIN s /\ s[Len(s)] \in GuardedFunctions /\ s[i] \in GuardedFunctions
        /\ i \in 1..Len(s)
    BY <2>1
  <2>3. f \in Calls[s[Len(s)]]
    BY <2>1 DEF Call, Innermost
  <2>4. After(f, Guarded[s[Len(s)]])
    BY <2>2, <2>3, CallsGoUp
  <2>5. CASE i = Len(s)
    BY <2>4, <2>5
  <2>6. CASE i < Len(s)
    <3>1. After(s[Len(s)], Guarded[s[i]])
      BY <2>2, <2>6 DEF Ascending
    <3>2. Guarded[s[i]] \in Mutexes
      BY <2>2, GuardedValues
    <3> QED BY <3>1, <3>2, <2>2, <2>4, AfterTransitive
  <2> QED BY <2>2, <2>5, <2>6
<1>5. Ascending'
  <2>1. \A u \in Threads : wanted'[u] = IF u = t THEN f ELSE wanted[u]
    BY <1>1 DEF LocksTypeOK
  <2> QED BY <1>1, <1>4, <2>1 DEF Ascending
<1> QED BY <1>2, <1>3, <1>5

LEMMA EnterInv ==
  ASSUME LocksInv, NEW t \in Threads, Enter(t)
  PROVE  LocksInv'
<1> USE DEF LocksInv
<1> DEFINE f == wanted[t]
           s == stack[t]
<1>1. f \in GuardedFunctions /\ s \in Seq(GuardedFunctions)
  BY DEF Enter, LocksTypeOK
<1>2. /\ stack' = [stack EXCEPT ![t] = Append(s, f)]
      /\ wanted' = [wanted EXCEPT ![t] = None]
  BY DEF Enter
<1>3. LocksTypeOK'
  BY <1>1, <1>2 DEF LocksTypeOK
<1>4. /\ \A u \in Threads : stack'[u] = IF u = t THEN Append(s, f) ELSE stack[u]
      /\ \A u \in Threads : wanted'[u] = IF u = t THEN None ELSE wanted[u]
  BY <1>2 DEF LocksTypeOK
<1>5. /\ DOMAIN Append(s, f) = 1..(Len(s) + 1) /\ DOMAIN s = 1..Len(s) /\ Len(s) \in Nat
      /\ \A i \in 1..Len(s) : Append(s, f)[i] = s[i]
      /\ Append(s, f)[Len(s) + 1] = f
  BY <1>1
<1>6. Ascending'
  <2>1. \A i \in DOMAIN s : After(f, Guarded[s[i]])
    BY DEF Ascending, Enter
  <2>2. \A i, j \in 1..(Len(s) + 1) :
          i < j => After(Append(s, f)[j], Guarded[Append(s, f)[i]])
    <3> TAKE i, j \in 1..(Len(s) + 1)
    <3> HAVE i < j
    <3>1. i \in DOMAIN s /\ (j = Len(s) + 1 \/ j \in DOMAIN s)
      BY <1>5
    <3>2. CASE j = Len(s) + 1
      BY <1>5, <2>1, <3>1, <3>2
    <3>3. CASE j \in DOMAIN s
      BY <1>5, <3>1, <3>3 DEF Ascending
    <3> QED BY <3>1, <3>2, <3>3
  <2> QED BY <1>4, <1>5, <2>2 DEF Ascending
<1>7. Exclusion'
  <2>1. \A u \in Threads : u # t => Guarded[f] \notin Held(u)
    BY DEF Enter, WaitsFor
  <2>2. Held(t)' = Held(t) \cup {Guarded[f]}
    <3>1. Held(t)' = {Guarded[Append(s, f)[i]] : i \in 1..(Len(s) + 1)}
      BY <1>4, <1>5 DEF Held
    <3>2. Held(t) = {Guarded[s[i]] : i \in 1..Len(s)}
      BY <1>5 DEF Held
    <3> QED BY <1>5, <3>1, <3>2
  <2>3. \A u \in Threads : u # t => Held(u)' = Held(u)
    BY <1>4 DEF Held
  <2> QED BY <2>1, <2>2, <2>3 DEF Exclusion
<1> QED BY <1>3, <1>6, <1>7

LEMMA ReturnInv ==
  ASSUME LocksInv, NEW t \in Threads, Return(t)
  PROVE  LocksInv'
<1> USE DEF LocksInv
<1> DEFINE s == stack[t]
           r == SubSeq(s, 1, Len(s) - 1)
<1>1. s \in Seq(GuardedFunctions) /\ s # <<>>
  BY DEF Return, LocksTypeOK
<1>2. stack' = [stack EXCEPT ![t] = r] /\ wanted' = wanted /\ wanted[t] = None
  BY DEF Return
<1>3. r \in Seq(GuardedFunctions) /\ DOMAIN r = 1..(Len(s) - 1)
      /\ \A i \in DOMAIN r : i \in DOMAIN s /\ r[i] = s[i]
  BY <1>1
<1>4. LocksTypeOK'
  BY <1>2, <1>3 DEF LocksTypeOK
<1>5. \A u \in Threads : stack'[u] = IF u = t THEN r ELSE stack[u]
  BY <1>2 DEF LocksTypeOK
<1>6. Ascending'
  <2>1. \A i, j \in DOMAIN r : i < j => After(r[j], Guarded[r[i]])
    BY <1>3 DEF Ascending
  <2> QED BY <1>2, <1>5, <2>1 DEF Ascending
<1>7. Exclusion'
  <2>1. Held(t)' \subseteq Held(t)
    <3>1. Held(t)' = {Guarded[r[i]] : i \in DOMAIN r}
      BY <1>5 DEF Held
    <3>2. \A i \in DOMAIN r : i \in DOMAIN s /\ Guarded[r[i]] = Guarded[s[i]]
      BY <1>3
    <3>3. Held(t) = {Guarded[s[i]] : i \in DOMAIN s}
      BY DEF Held
    <3> HIDE DEF r, s
    <3> QED BY <3>1, <3>2, <3>3
  <2>2. \A u \in Threads : u # t => Held(u)' = Held(u)
    BY <1>5 DEF Held
  <2> QED BY <2>1, <2>2 DEF Exclusion
<1> QED BY <1>4, <1>6, <1>7

LEMMA LocksNextInv == LocksInv /\ [LocksNext]_lockVars => LocksInv'
<1> SUFFICES ASSUME LocksInv, [LocksNext]_lockVars PROVE LocksInv'
  OBVIOUS
<1>1. CASE LocksNext
  <2> PICK t \in Threads :
         Enter(t) \/ Return(t) \/ \E f \in GuardedFunctions : Call(t, f)
    BY <1>1 DEF LocksNext
  <2>1. CASE Enter(t)
    BY <2>1, EnterInv
  <2>2. CASE Return(t)
    BY <2>2, ReturnInv
  <2>3. ASSUME NEW f \in GuardedFunctions, Call(t, f) PROVE LocksInv'
    BY <2>3, CallInv
  <2> QED BY <2>1, <2>2, <2>3
<1>2. CASE UNCHANGED lockVars
  <2>1. stack' = stack /\ wanted' = wanted
    BY <1>2 DEF lockVars
  <2>2. LocksTypeOK' /\ Ascending'
    BY <2>1 DEF LocksInv, LocksTypeOK, Ascending
  <2>3. Exclusion'
    BY <2>1 DEF LocksInv, Exclusion, Held
  <2> QED BY <2>2, <2>3 DEF LocksInv
<1> QED BY <1>1, <1>2

-----------------------------------------------------------------------------
(* Of threads that all want something, one wants what comes last. *)
LEMMA SomeoneWantsMost ==
  ASSUME NEW S, S # {}, NEW lev, \A t \in S : lev[t] \in 0..6
  PROVE  \E t \in S : \A u \in S : lev[u] <= lev[t]
<1> SUFFICES ASSUME \A t \in S : \E u \in S : lev[u] > lev[t] PROVE FALSE
  OBVIOUS
<1>0. \E t \in S : lev[t] >= 0
  OBVIOUS
<1>1. \E t \in S : lev[t] >= 1
  BY <1>0
<1>2. \E t \in S : lev[t] >= 2
  BY <1>1
<1>3. \E t \in S : lev[t] >= 3
  BY <1>2
<1>4. \E t \in S : lev[t] >= 4
  BY <1>3
<1>5. \E t \in S : lev[t] >= 5
  BY <1>4
<1>6. \E t \in S : lev[t] >= 6
  BY <1>5
<1>7. \E t \in S : lev[t] >= 7
  BY <1>6
<1> QED BY <1>7

LEMMA LocksInvNoCircularWait == LocksInv => NoCircularWait
<1> SUFFICES ASSUME LocksInv, NEW S \in SUBSET Threads, S # {},
                    \A t \in S : \E u \in S : WaitsFor(t, u)
             PROVE  FALSE
  BY DEF NoCircularWait
<1> USE DEF LocksInv
<1>1. \A t \in S : wanted[t] \in GuardedFunctions /\ Guarded[wanted[t]] \in Mutexes
  BY GuardedValues DEF WaitsFor, LocksTypeOK
<1> DEFINE lev == [t \in S |-> LevelOf(wanted[t])]
<1>2. \A t \in S : lev[t] \in 0..6
  BY <1>1, LevelValues DEF LevelOf
<1>3. PICK t \in S : \A u \in S : lev[u] <= lev[t]
  <2> HIDE DEF lev
  <2> QED BY <1>2, SomeoneWantsMost
<1>4. PICK u \in S : WaitsFor(t, u)
  OBVIOUS
<1> DEFINE m == Guarded[wanted[t]]
<1>5. m \in Held(u) /\ m \in Mutexes
  BY <1>1, <1>4 DEF WaitsFor
<1>6. After(wanted[u], m)
  <2>1. PICK i \in DOMAIN stack[u] : m = Guarded[stack[u][i]]
    BY <1>5 DEF Held
  <2>2. wanted[u] # None
    BY DEF WaitsFor
  <2> QED BY <2>1, <2>2 DEF Ascending
<1>7. ~(Level[m] < LevelOf(wanted[u]))
  BY <1>2, <1>3 DEF LevelOf
<1>8. m = Guarded[wanted[u]] /\ m \notin NonRecursive
  BY <1>6, <1>7 DEF After
<1>9. PICK v \in S : WaitsFor(u, v)
  OBVIOUS
<1>10. u # v /\ m \in Held(v)
  BY <1>8, <1>9 DEF WaitsFor
<1> QED BY <1>5, <1>10 DEF Exclusion

(* However many threads take the mutexes of the program in whatever order  *)
(* its functions and the jobs, closures and initialisers they run allow,   *)
(* none of them wait for one another.                                      *)
THEOREM LocksDeadlockFree == LocksSpec => []NoCircularWait
<1>1. LocksSpec => []LocksInv
  BY LocksInitInv, LocksNextInv, PTL DEF LocksSpec
<1> QED BY <1>1, LocksInvNoCircularWait, PTL

-----------------------------------------------------------------------------
(* Plugins: each of its steps is a step of Locks, or none. *)

LEMMA PluginsStep == [Next]_vars => [LocksNext]_lockVars
<1> SUFFICES ASSUME [Next]_vars PROVE [LocksNext]_lockVars
  OBVIOUS
<1>0. Main \in Threads
  BY PluginsAssumption
<1>1. CASE LoadPlugin
  BY <1>0, <1>1 DEF LoadPlugin, LocksNext
<1>2. CASE InitializePlugin
  BY <1>2 DEF InitializePlugin
<1>3. CASE Initialized
  BY <1>0, <1>3 DEF Initialized, LocksNext
<1>4. CASE Advance
  BY <1>4 DEF Advance
<1>5. ASSUME NEW t \in Threads, Calling(t) \/ Entering(t) \/ Returning(t)
      PROVE  LocksNext
  BY <1>5 DEF Calling, Entering, Returning, LocksNext
<1>6. CASE UNCHANGED vars
  BY <1>6 DEF vars
<1> QED BY <1>1, <1>2, <1>3, <1>4, <1>5, <1>6 DEF Next

(* The program with its plugins keeps to what Locks allows. *)
THEOREM PluginsImplementLocks == Spec => LocksSpec
<1>1. Init => LocksInit
  BY DEF Init
<1> QED BY <1>1, PluginsStep, PTL DEF Spec, LocksSpec

(* Starting, serving and shutting down with any plugins, no threads all    *)
(* wait for one another.                                                   *)
THEOREM PluginsDeadlockFree == Spec => []NoCircularWait
BY PluginsImplementLocks, LocksDeadlockFree, PTL

-----------------------------------------------------------------------------
(* The initialisers of the plugins.  What has run is told by the phase and *)
(* by the cursor; the loads, by the cursor while the options are parsed.   *)

DatabaseDone ==
  IF phase \in {"options", "config", "database"} \/ ~database THEN 0
  ELSE IF phase = "database-plugins" THEN cursor - 1 ELSE Len(options)
WebDone ==
  IF phase = "web-plugins" THEN cursor - 1 ELSE IF phase = "serve" THEN Len(options) ELSE 0

RanOf(d, w) ==
  {<<"database-plugins", options[i]>> : i \in {k \in 1 .. d : options[k] \in WithDatabase}}
    \cup {<<"web-plugins", options[i]>> : i \in 1 .. w}

PhaseNames == {"options", "config", "database", "database-plugins", "start", "web-plugins", "serve"}
Asked == {options[i] : i \in DOMAIN options}

LoadInv ==
  /\ options \in Seq(Asked)
  /\ phase = "database-plugins" => database
  /\ phase \in PhaseNames \cup {"fatal"}
  /\ cursor \in 1 .. Len(options) + 1
  /\ loaded \in Seq(Asked)
  /\ phase = "options" => Len(loaded) = cursor - 1 /\ \A i \in 1 .. cursor - 1 : loaded[i] = options[i]
  /\ phase = "options" /\ ~Idle(Main) => cursor <= Len(options)
  /\ phase \notin {"options", "fatal"} => loaded = options
  /\ \A i, j \in DOMAIN loaded : i # j => loaded[i] # loaded[j]

RanInv ==
  /\ ran \in Seq({"database-plugins", "web-plugins"} \X Asked)
  /\ phase # "fatal" => {ran[i] : i \in DOMAIN ran} = RanOf(DatabaseDone, WebDone)
  /\ \A i, j \in DOMAIN ran : i < j => Before(ran[i], ran[j])

LEMMA LoadInit == Init => LoadInv /\ RanInv
<1> SUFFICES ASSUME Init PROVE LoadInv /\ RanInv
  OBVIOUS
<1>1. options \in OptionLists /\ phase = "options" /\ loaded = <<>> /\ cursor = 1 /\ ran = <<>>
  BY DEF Init
<1>2. options \in Seq(Asked) /\ Len(options) \in Nat
  BY <1>1, PluginsAssumption DEF Asked
<1>3. Idle(Main)
  BY PluginsAssumption DEF Init, LocksInit, Idle
<1>4. LoadInv
  BY <1>1, <1>2, <1>3 DEF LoadInv, PhaseNames
<1>5. RanOf(0, 0) = {}
  BY DEF RanOf
<1>6. DatabaseDone = 0 /\ WebDone = 0
  BY <1>1 DEF DatabaseDone, WebDone
<1>7. RanInv
  BY <1>1, <1>5, <1>6 DEF RanInv
<1> QED BY <1>4, <1>7

LEMMA RanKept ==
  ASSUME RanInv, UNCHANGED <<options, ran>>,
         phase' # "fatal" => phase # "fatal" /\ DatabaseDone' = DatabaseDone /\ WebDone' = WebDone
  PROVE  RanInv'
BY DEF RanInv, Asked, RanOf, Before

(* Functions that are not of plugins, of any thread. *)
LEMMA GuardedKeep ==
  ASSUME LocksInv, LoadInv, RanInv, NEW t \in Threads, Calling(t) \/ Entering(t) \/ Returning(t)
  PROVE  LoadInv' /\ RanInv'
<1>1. UNCHANGED <<options, database, phase, loaded, cursor, ran>>
  BY DEF Calling, Entering, Returning, pluginVars
<1>2. RanInv'
  BY <1>1, RanKept DEF DatabaseDone, WebDone
<1>3. phase = "options" /\ ~Idle(Main)' => cursor <= Len(options)
  <2>1. CASE ~Idle(Main)
    BY <2>1 DEF LoadInv
  <2>2. CASE Idle(Main) /\ t # Main
    <3>1. stack'[Main] = stack[Main] /\ wanted'[Main] = wanted[Main]
      BY <2>2, PluginsAssumption DEF Calling, Entering, Returning, Call, Enter, Return, LocksInv, LocksTypeOK
    <3> QED BY <2>2, <3>1 DEF Idle
  <2>3. CASE Idle(Main) /\ t = Main
    <3>1. PICK f \in GuardedFunctions : MayStart(Main, f)
      BY <2>3 DEF Calling, Entering, Returning, Enter, Return, Idle
    <3>2. ASSUME phase = "options" PROVE f \in (IF cursor <= Len(options) THEN {"load-plugin"} ELSE {})
      BY <3>1, <3>2 DEF MayStart, MainCalls
    <3> QED BY <3>2
  <2> QED BY <2>1, <2>2, <2>3
<1> QED BY <1>1, <1>2, <1>3 DEF LoadInv, Asked

LEMMA LoadPluginInv ==
  ASSUME LocksInv, LoadInv, RanInv, LoadPlugin
  PROVE  LoadInv' /\ RanInv'
<1> DEFINE name == options[cursor]
<1>1. /\ phase = "options" /\ stack[Main] = <<"load-plugin">> /\ wanted[Main] = None
      /\ cursor' = cursor + 1 /\ UNCHANGED <<options, database, ran>>
      /\ \/ phase' = "fatal" /\ UNCHANGED loaded
         \/ name \notin Names /\ loaded' = Append(loaded, name) /\ UNCHANGED phase
  BY DEF LoadPlugin, Load
<1>2. cursor <= Len(options) /\ name \in Asked /\ Len(options) \in Nat
  BY <1>1 DEF LoadInv, Idle, Asked
<1>3. Idle(Main)'
  BY <1>1, PluginsAssumption DEF LoadPlugin, Return, Idle, LocksInv, LocksTypeOK
<1>4. RanInv'
  BY <1>1, RanKept DEF DatabaseDone, WebDone
<1>5. CASE phase' = "fatal" /\ UNCHANGED loaded
  BY <1>1, <1>2, <1>4, <1>5 DEF LoadInv, Asked
<1>6. CASE name \notin Names /\ loaded' = Append(loaded, name) /\ UNCHANGED phase
  <2> HIDE DEF name
  <2>1. /\ loaded' \in Seq(Asked) /\ Len(loaded') = cursor /\ DOMAIN loaded' = 1 .. cursor
        /\ \A i \in 1 .. cursor - 1 : loaded'[i] = loaded[i]
        /\ loaded'[cursor] = name
    BY <1>1, <1>2, <1>6 DEF LoadInv
  <2>2. \A i \in 1 .. cursor - 1 : loaded'[i] = options[i] /\ loaded'[i] # name
    BY <1>1, <1>6, <2>1 DEF LoadInv, Names
  <2>3. \A i \in 1 .. cursor : loaded'[i] = options[i]
    <3>1. loaded'[cursor] = options[cursor]
      BY <2>1 DEF name
    <3>2. cursor \in Nat
      BY <1>2 DEF LoadInv
    <3> QED BY <2>2, <3>1, <3>2
  <2>4. \A i, j \in DOMAIN loaded' : i # j => loaded'[i] # loaded'[j]
    <3>1. DOMAIN loaded = 1 .. cursor - 1 /\ cursor \in Nat
      BY <1>1, <1>2 DEF LoadInv
    <3>2. \A i, j \in 1 .. cursor - 1 : i # j => loaded'[i] # loaded'[j]
      BY <2>1, <3>1 DEF LoadInv
    <3>3. \A i \in 1 .. cursor - 1 : loaded'[i] # loaded'[cursor]
      BY <2>1, <2>2
    <3> QED BY <2>1, <3>1, <3>2, <3>3
  <2>5. /\ options' = options /\ phase' = "options" /\ cursor' = cursor + 1
        /\ options \in Seq(Asked) /\ "options" \in PhaseNames \cup {"fatal"}
        /\ cursor \in 1 .. Len(options) /\ Asked' = Asked
    BY <1>1, <1>2, <1>6 DEF LoadInv, Asked
  <2>6. cursor' \in 1 .. Len(options) + 1 /\ cursor' - 1 = cursor
    BY <2>5
  <2>7. LoadInv'
    BY <1>3, <2>1, <2>3, <2>4, <2>5, <2>6 DEF LoadInv
  <2> QED BY <1>4, <2>7
<1> QED BY <1>1, <1>4, <1>5, <1>6

(* One more initialiser: it comes after all those that have run. *)
LEMMA RanMore ==
  ASSUME LoadInv, RanInv, phase \in {"database-plugins", "web-plugins"}, cursor <= Len(options),
         ran' = Append(ran, <<phase, options[cursor]>>), UNCHANGED <<options, phase>>,
         RanOf(DatabaseDone', WebDone') = RanOf(DatabaseDone, WebDone) \cup {<<phase, options[cursor]>>},
         phase = "database-plugins" => WebDone = 0
  PROVE  RanInv'
<1> DEFINE X == {"database-plugins", "web-plugins"} \X Asked
           new == <<phase, options[cursor]>>
<1>1. cursor \in DOMAIN options /\ new \in X /\ phase # "fatal"
  BY DEF LoadInv, Asked
<1>2. ran \in Seq(X) /\ ran' = Append(ran, new)
  BY DEF RanInv
<1> HIDE DEF X, new
<1>3. /\ ran' \in Seq(X) /\ DOMAIN ran' = DOMAIN ran \cup {Len(ran) + 1}
      /\ \A i \in DOMAIN ran : ran'[i] = ran[i] /\ i < Len(ran) + 1
      /\ ran'[Len(ran) + 1] = new /\ Len(ran) + 1 \notin DOMAIN ran
  BY <1>1, <1>2
<1>4. {ran'[i] : i \in DOMAIN ran'} = {ran[i] : i \in DOMAIN ran} \cup {new}
  <2> DEFINE l == Len(ran) + 1
  <2>1. /\ DOMAIN ran' = DOMAIN ran \cup {l} /\ ran'[l] = new
        /\ \A i \in DOMAIN ran : ran'[i] = ran[i]
    BY <1>3
  <2> HIDE DEF l
  <2> QED BY <2>1
<1>5. {ran'[i] : i \in DOMAIN ran'} = RanOf(DatabaseDone', WebDone')
  BY <1>1, <1>4 DEF RanInv, new
<1>6. RanOf(DatabaseDone, WebDone)' = RanOf(DatabaseDone', WebDone')
  BY DEF RanOf
<1>7. \A i \in DOMAIN ran : Before(ran[i], new)
  <2> SUFFICES ASSUME NEW i \in DOMAIN ran PROVE Before(ran[i], new)
    OBVIOUS
  <2>1. ran[i] \in RanOf(DatabaseDone, WebDone)
    BY <1>1 DEF RanInv
  <2>2. new[1] = phase /\ new[2] = options[cursor]
    BY DEF new
  <2>3. CASE \E k \in 1 .. DatabaseDone : ran[i] = <<"database-plugins", options[k]>>
    <3>1. PICK k \in 1 .. DatabaseDone : ran[i] = <<"database-plugins", options[k]>>
      BY <2>3
    <3>2. CASE phase = "database-plugins"
      <4>1. k \in DOMAIN options /\ k < cursor
        BY <3>1, <3>2 DEF DatabaseDone, LoadInv
      <4> QED BY <1>1, <2>2, <3>1, <3>2, <4>1 DEF Before
    <3> QED BY <2>2, <3>1, <3>2 DEF Before
  <2>4. CASE \E k \in 1 .. WebDone : ran[i] = <<"web-plugins", options[k]>>
    <3>1. PICK k \in 1 .. WebDone : ran[i] = <<"web-plugins", options[k]>>
      BY <2>4
    <3>2. phase = "web-plugins" /\ k \in DOMAIN options /\ k < cursor
      BY <3>1 DEF WebDone, LoadInv
    <3> QED BY <1>1, <2>2, <3>1, <3>2 DEF Before
  <2> QED BY <2>1, <2>3, <2>4 DEF RanOf
<1>8. \A i, j \in DOMAIN ran' : i < j => Before(ran'[i], ran'[j])
  <2> SUFFICES ASSUME NEW i \in DOMAIN ran', NEW j \in DOMAIN ran', i < j
               PROVE  Before(ran'[i], ran'[j])
    OBVIOUS
  <2>1. DOMAIN ran = 1 .. Len(ran) /\ Len(ran) \in Nat
    BY <1>2
  <2>2. i \in DOMAIN ran /\ ran'[i] = ran[i]
    BY <1>3, <2>1
  <2>3. CASE j \in DOMAIN ran
    BY <1>3, <2>2, <2>3 DEF RanInv
  <2>4. CASE j = Len(ran) + 1
    BY <1>3, <1>7, <2>2, <2>4
  <2> QED BY <1>3, <2>3, <2>4
<1>9. (\A i, j \in DOMAIN ran : i < j => Before(ran[i], ran[j]))'
  BY <1>8 DEF Before
<1>10. (ran \in Seq({"database-plugins", "web-plugins"} \X Asked))'
  BY <1>3 DEF X, Asked
<1> QED BY <1>5, <1>6, <1>9, <1>10 DEF RanInv

LEMMA InitializePluginInv ==
  ASSUME LoadInv, RanInv, InitializePlugin
  PROVE  LoadInv' /\ RanInv'
<1> DEFINE name == options[cursor]
<1>1. /\ phase \in {"database-plugins", "web-plugins"} /\ loaded = options /\ cursor <= Len(options)
      /\ cursor' = cursor + 1 /\ UNCHANGED <<lockVars, options, database, phase, loaded>>
      /\ ran' = IF phase = "web-plugins" \/ name \in WithDatabase
                THEN Append(ran, <<phase, name>>) ELSE ran
  BY DEF InitializePlugin, Initializing, RunOrSkip, LoadInv
<1>2. cursor \in Nat \ {0} /\ Len(options) \in Nat /\ cursor' \in 1 .. Len(options) + 1
  BY <1>1 DEF LoadInv
<1>3. LoadInv'
  BY <1>1, <1>2 DEF LoadInv, Asked
<1>4. CASE phase = "web-plugins"
  <2>1. /\ DatabaseDone' = DatabaseDone /\ WebDone = cursor - 1 /\ WebDone' = cursor
    BY <1>1, <1>2, <1>4 DEF DatabaseDone, WebDone
  <2>2. 1 .. cursor = 1 .. cursor - 1 \cup {cursor}
    BY <1>2
  <2>3. RanOf(DatabaseDone', WebDone') = RanOf(DatabaseDone, WebDone) \cup {<<phase, name>>}
    BY <1>4, <2>1, <2>2 DEF RanOf
  <2> QED BY <1>1, <1>3, <1>4, <2>3, RanMore
<1>5. CASE phase = "database-plugins"
  <2>0. database /\ database' = database /\ phase' = phase /\ cursor' - 1 = cursor
    BY <1>1, <1>2, <1>5 DEF LoadInv
  <2>1. DatabaseDone = cursor - 1 /\ DatabaseDone' = cursor /\ WebDone' = WebDone /\ WebDone = 0
    BY <1>5, <2>0 DEF DatabaseDone, WebDone
  <2>2. 1 .. cursor = 1 .. cursor - 1 \cup {cursor}
    BY <1>2
  <2>3. CASE name \in WithDatabase
    <3>1. {k \in 1 .. cursor : options[k] \in WithDatabase}
            = {k \in 1 .. cursor - 1 : options[k] \in WithDatabase} \cup {cursor}
      BY <2>2, <2>3
    <3>2. RanOf(DatabaseDone', WebDone') = RanOf(DatabaseDone, WebDone) \cup {<<phase, name>>}
      BY <1>5, <2>1, <3>1 DEF RanOf
    <3> QED BY <1>1, <1>3, <1>5, <2>1, <2>3, <3>2, RanMore
  <2>4. CASE name \notin WithDatabase
    <3>1. {k \in 1 .. cursor : options[k] \in WithDatabase}
            = {k \in 1 .. cursor - 1 : options[k] \in WithDatabase}
      BY <2>2, <2>4
    <3>2. RanOf(DatabaseDone', WebDone') = RanOf(DatabaseDone, WebDone)
      BY <2>1, <3>1 DEF RanOf
    <3>3. RanOf(DatabaseDone, WebDone)' = RanOf(DatabaseDone', WebDone')
      BY <1>1 DEF RanOf
    <3>4. ran' = ran /\ UNCHANGED <<options, phase>> /\ Asked' = Asked
      BY <1>1, <1>5, <2>4 DEF Asked
    <3> QED BY <1>3, <3>2, <3>3, <3>4 DEF RanInv, Before
  <2> QED BY <2>3, <2>4
<1> QED BY <1>1, <1>4, <1>5

LEMMA PhaseInv ==
  ASSUME LoadInv, RanInv, Initialized \/ Advance
  PROVE  LoadInv' /\ RanInv'
<1>1. /\ UNCHANGED <<options, database, loaded, ran>> /\ cursor' = 1
      /\ \/ phase = "options" /\ phase' = "config" /\ cursor > Len(options)
         \/ phase = "config" /\ phase' = "database"
         \/ phase = "database" /\ phase' = "database-plugins" /\ database
         \/ phase = "database" /\ phase' = "start" /\ ~database
         \/ phase = "database-plugins" /\ phase' = "start" /\ cursor > Len(loaded)
         \/ phase = "start" /\ phase' = "web-plugins"
         \/ phase = "web-plugins" /\ phase' = "serve" /\ cursor > Len(loaded)
  <2>1. CASE Initialized
    BY <2>1 DEF Initialized, Initializing
  <2>2. CASE Advance
    BY <2>2 DEF Advance
  <2> QED BY <2>1, <2>2
<1>2. /\ options \in Seq(Asked) /\ Len(options) \in Nat /\ cursor \in 1 .. Len(options) + 1
      /\ loaded \in Seq(Asked)
  BY DEF LoadInv
<1>3. loaded = options
  <2>1. CASE phase = "options"
    <3>1. cursor = Len(options) + 1 /\ Len(loaded) = Len(options)
          /\ \A i \in 1 .. Len(options) : loaded[i] = options[i]
      BY <1>1, <1>2, <2>1 DEF LoadInv
    <3> QED BY <1>2, <3>1
  <2> QED BY <1>1, <2>1 DEF LoadInv
<1>4. LoadInv'
  BY <1>1, <1>2, <1>3 DEF LoadInv, PhaseNames, Asked
<1>5. DatabaseDone' = DatabaseDone /\ WebDone' = WebDone
  BY <1>1, <1>2, <1>3 DEF DatabaseDone, WebDone
<1>6. RanInv'
  BY <1>1, <1>5, RanKept
<1> QED BY <1>4, <1>6

LEMMA InitializedNext == LocksInv /\ LoadInv /\ RanInv /\ [Next]_vars => (LoadInv /\ RanInv)'
<1> SUFFICES ASSUME LocksInv, LoadInv, RanInv, [Next]_vars PROVE LoadInv' /\ RanInv'
  OBVIOUS
<1>1. CASE LoadPlugin
  BY <1>1, LoadPluginInv
<1>2. CASE InitializePlugin
  BY <1>2, InitializePluginInv
<1>3. CASE Initialized \/ Advance
  BY <1>3, PhaseInv
<1>4. ASSUME NEW t \in Threads, Calling(t) \/ Entering(t) \/ Returning(t)
      PROVE  LoadInv' /\ RanInv'
  BY <1>4, GuardedKeep
<1>5. CASE UNCHANGED vars
  <2>1. UNCHANGED <<options, database, phase, loaded, cursor, ran, stack, wanted>>
    BY <1>5 DEF vars, lockVars, pluginVars
  <2>2. RanInv'
    BY <2>1, RanKept DEF DatabaseDone, WebDone
  <2> QED BY <2>1, <2>2 DEF LoadInv, Asked, Idle
<1> QED BY <1>1, <1>2, <1>3, <1>4, <1>5 DEF Next

(* Whatever plugins are asked for, and whatever the other threads and the  *)
(* initialisers call meanwhile, a server that serves has loaded each once  *)
(* and run once, in order, each of its initialisers: those for the         *)
(* database when one is configured, and those for the web.                 *)
THEOREM PluginsRunOnce == Spec => []PluginsInitialized
<1>1. Spec => []LocksInv
  BY LocksInitInv, LocksNextInv, PluginsImplementLocks, PTL DEF LocksSpec
<1>2. Spec => [](LoadInv /\ RanInv)
  BY <1>1, LoadInit, InitializedNext, PTL DEF Spec
<1>3. LoadInv /\ RanInv => PluginsInitialized
  <2> SUFFICES ASSUME LoadInv, RanInv, phase = "serve" PROVE PluginsInitialized
    BY DEF PluginsInitialized
  <2>1. loaded = options /\ DOMAIN options = 1 .. Len(options)
    BY DEF LoadInv
  <2>2. {ran[i] : i \in DOMAIN ran} = RanOf(IF database THEN Len(options) ELSE 0, Len(options))
    BY DEF RanInv, DatabaseDone, WebDone
  <2>3. RanOf(IF database THEN Len(options) ELSE 0, Len(options)) = DatabaseSteps \cup WebSteps
    <3>1. CASE database
      BY <2>1, <3>1 DEF RanOf, DatabaseSteps, WebSteps, Names
    <3>2. CASE ~database
      BY <2>1, <3>2 DEF RanOf, DatabaseSteps, WebSteps, Names
    <3> QED BY <3>1, <3>2
  <2> QED BY <2>1, <2>2, <2>3 DEF PluginsInitialized, LoadInv, RanInv
<1> QED BY <1>2, <1>3, PTL
==============================================================================
