------------------------------ MODULE Plugins ------------------------------
(* Loading and initialising plugins (hcv_plugins.cc), as main does while   *)
(* the other threads come to life: the options load them one after the     *)
(* other; hcv_initialize_database, before there is another thread, runs    *)
(* their database initialisers, unless the configuration names no          *)
(* database; hcv_webserver_run, when the background thread runs already,   *)
(* runs their web initialisers; then the workers of the pool start.        *)
EXTENDS Locks

CONSTANTS
  Main, Background, Workers,
  OptionLists,      \* sequences of names that may be given to --plugin
  Loadable,         \* those whose file has the mandatory symbols
  WithDatabase,     \* those with an hcvplugin_initialize_database
  Starts            \* per thread, the functions it calls when it is in none

ASSUME PluginsAssumption ==
  /\ Threads = {Main, Background} \cup Workers
  /\ Main # Background /\ {Main, Background} \cap Workers = {}
  /\ \A o \in OptionLists : o \in Seq({o[i] : i \in DOMAIN o})

VARIABLES
  options,          \* those of this process
  database,         \* does its configuration name a database?
  phase,            \* of main
  loaded,           \* hcv_plugin_vect
  cursor,           \* the plugin whose initialiser is next
  ran               \* history: the initialisers that ran, <<kind, name>>

pluginVars == <<options, database, phase, loaded, cursor, ran>>
vars == <<lockVars, pluginVars>>

Init ==
  /\ LocksInit
  /\ options \in OptionLists
  /\ database \in BOOLEAN
  /\ phase = "options"
  /\ loaded = <<>>
  /\ cursor = 1
  /\ ran = <<>>

Names == {loaded[i] : i \in DOMAIN loaded}

(* What main calls in each phase. *)
MainCalls ==
  CASE phase = "options"  -> IF cursor <= Len(options) THEN {"load-plugin"} ELSE {}
    [] phase = "config"   -> {"load-config", "config-do"}
    [] phase = "database" -> {"config-do"} \cup (IF database THEN {"prepare-statements"} ELSE {})
    [] phase = "start"    -> {"register-closure"}
    [] phase \in {"database-plugins", "web-plugins"} -> {"initialize-plugins"}
    [] OTHER              -> {}

Alive(t) ==
  CASE t = Main       -> TRUE
    [] t = Background -> phase \in {"web-plugins", "serve"}
    [] OTHER          -> phase = "serve"

MayStart(t, f) == Alive(t) /\ f \in (IF t = Main THEN MainCalls ELSE Starts[t])

(* hcv_load_plugin: the second of the same name and one that misses a      *)
(* symbol are fatal; a wrong gitapi only warns.                            *)
Load(name) ==
  IF name \in Names \/ name \notin Loadable
  THEN phase' = "fatal" /\ UNCHANGED loaded
  ELSE loaded' = Append(loaded, name) /\ UNCHANGED phase

LoadPlugin ==
  /\ phase = "options"
  /\ stack[Main] = <<"load-plugin">> /\ wanted[Main] = None
  /\ Load(options[cursor])
  /\ cursor' = cursor + 1
  /\ Return(Main)
  /\ UNCHANGED <<options, database, ran>>

(* One turn of the loop of hcv_initialize_plugins_for_database or _for_web: *)
(* the initialiser of the plugin may then call what it likes.               *)
StopAtMissing(name) ==
  IF phase = "web-plugins" \/ name \in WithDatabase
  THEN ran' = Append(ran, <<phase, name>>) /\ cursor' = cursor + 1
  ELSE cursor' = Len(loaded) + 1 /\ UNCHANGED ran
RunOrSkip(name) ==
  /\ cursor' = cursor + 1
  /\ ran' = IF phase = "web-plugins" \/ name \in WithDatabase
            THEN Append(ran, <<phase, name>>) ELSE ran

Initializing ==
  /\ phase \in {"database-plugins", "web-plugins"}
  /\ stack[Main] = <<"initialize-plugins">> /\ wanted[Main] = None

InitializePlugin ==
  /\ Initializing
  /\ cursor <= Len(loaded)
  /\ RunOrSkip(loaded[cursor])
  /\ UNCHANGED <<lockVars, options, database, phase, loaded>>

Initialized ==
  /\ Initializing
  /\ cursor > Len(loaded)
  /\ phase' = IF phase = "web-plugins" THEN "serve" ELSE "start"
  /\ cursor' = 1
  /\ Return(Main)
  /\ UNCHANGED <<options, database, loaded, ran>>

(* Main goes to its next phase when it is in no guarded function.  Without *)
(* a [postgresql] group, or with an empty connection or "-", the database  *)
(* is left alone, and so are the database initialisers; the server serves  *)
(* nevertheless (what uses the database then ends the process: see         *)
(* Database).                                                              *)
Advance ==
  /\ Idle(Main)
  /\ \/ phase = "options" /\ cursor > Len(options) /\ phase' = "config"
     \/ phase = "config" /\ phase' = "database"
     \/ phase = "database" /\ phase' = IF database THEN "database-plugins" ELSE "start"
     \/ phase = "start" /\ phase' = "web-plugins"
  /\ cursor' = 1
  /\ UNCHANGED <<lockVars, options, database, loaded, ran>>

(* These return by LoadPlugin and Initialized. *)
InOneTurn(t) == t = Main /\ (stack[Main] = <<"load-plugin">> \/ Initializing)

Calling(t) ==
  \E f \in GuardedFunctions :
    /\ Idle(t) => MayStart(t, f)
    /\ Call(t, f)
    /\ UNCHANGED pluginVars

Entering(t) == Enter(t) /\ UNCHANGED pluginVars

Returning(t) == ~InOneTurn(t) /\ Return(t) /\ UNCHANGED pluginVars

Next ==
  /\ phase # "fatal"
  /\ \/ LoadPlugin \/ InitializePlugin \/ Initialized \/ Advance
     \/ \E t \in Threads : Calling(t) \/ Entering(t) \/ Returning(t)

Spec == Init /\ [][Next]_vars
-----------------------------------------------------------------------------
(* When the server starts serving, each plugin asked for is loaded once;   *)
(* the database initialisers there are ran if there is a database, and     *)
(* none of them if there is none, then all the web initialisers, each once *)
(* and both in the order of the options                                    *)
(* (hcv_initialize_plugins_for_database and _for_web in hcv_plugins.cc).   *)
DatabaseSteps ==
  IF database THEN {<<"database-plugins", name>> : name \in Names \cap WithDatabase} ELSE {}
WebSteps == {<<"web-plugins", name>> : name \in Names}

Before(s, t) ==
  \/ s[1] = "database-plugins" /\ t[1] = "web-plugins"
  \/ s[1] = t[1] /\ \E i, j \in DOMAIN options : i < j /\ options[i] = s[2] /\ options[j] = t[2]

PluginsInitialized ==
  phase = "serve" =>
    /\ loaded = options
    /\ \A i, j \in DOMAIN loaded : i # j => loaded[i] # loaded[j]
    /\ {ran[i] : i \in DOMAIN ran} = DatabaseSteps \cup WebSteps
    /\ \A i, j \in DOMAIN ran : i < j => Before(ran[i], ran[j])
==============================================================================
