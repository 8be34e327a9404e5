------------------------------- MODULE Locks -------------------------------
(* The mutexes of the program and the functions that take them with a      *)
(* std::lock_guard.  A thread is represented by the stack of the guarded   *)
(* functions it is in: what it holds is what they guard, and what it may   *)
(* call is what the innermost of them calls.  The one function of the      *)
(* model stands for the code's functions that guard the same mutex and     *)
(* call the same others.  Left out: hcv_fatalmtx and the mutex of          *)
(* hcv_debug_at, leaves as hcv_syslogmtx is, and the mutex of Hcv_Random,  *)
(* which the program never takes.                                          *)
EXTENDS Integers, Sequences

CONSTANTS
  Threads,
  JobCalls,         \* the functions postponed jobs may call
  ClosureCalls,     \* those that template closures of plugins may call
  InitializerCalls, \* those that plugin initialisers may call
  MaxNesting,       \* bound on the depth of the stacks
  None              \* not a function

Mutexes == {"plugin", "todo", "template", "config", "chunkmap", "db", "syslog"}

(* The others are std::recursive_mutex. *)
NonRecursive == {"chunkmap"}

GuardedFunctions == {"load-plugin", "initialize-plugins", "loaded-plugins", "do-event", "postpone",
              "expand-instruction", "register-closure", "config-do", "load-config",
              "add-chunkmap-file", "get-chunkmap-entry", "prepare-statements",
              "register-statement", "use-database", "syslog"}

Guarded ==
  [f \in GuardedFunctions |->
    IF f \in {"load-plugin", "initialize-plugins", "loaded-plugins"} THEN "plugin"
    ELSE IF f \in {"do-event", "postpone"} THEN "todo"
    ELSE IF f \in {"expand-instruction", "register-closure"} THEN "template"
    ELSE IF f \in {"config-do", "load-config"} THEN "config"
    ELSE IF f \in {"add-chunkmap-file", "get-chunkmap-entry"} THEN "chunkmap"
    ELSE IF f = "syslog" THEN "syslog" ELSE "db"]

(* The order that the nested calls of the program keep, and that plugins   *)
(* must keep: a job may expand a template, a closure may not postpone one. *)
Level ==
  [m \in Mutexes |->
    IF m = "plugin" THEN 0
    ELSE IF m = "todo" THEN 1
    ELSE IF m = "template" THEN 2
    ELSE IF m = "config" THEN 3
    ELSE IF m = "chunkmap" THEN 4
    ELSE IF m = "db" THEN 5
    ELSE 6]
LevelOf(f) == Level[Guarded[f]]

ASSUME LocksAssumption ==
  /\ None \notin GuardedFunctions
  /\ MaxNesting \in Nat
  /\ JobCalls \subseteq {f \in GuardedFunctions : LevelOf(f) >= Level["todo"]}
  /\ ClosureCalls \subseteq {f \in GuardedFunctions : LevelOf(f) >= Level["template"]}
  /\ InitializerCalls \subseteq {f \in GuardedFunctions : LevelOf(f) >= Level["plugin"]}

(* What each function calls while it holds its mutex: its own nested calls *)
(* and those of the jobs, closures or initialisers it runs.                *)
(* The first form is what a comment plans (hcv_views.cc:136): clean up the *)
(* token of a form with hcv_do_postpone_background, from a closure.        *)
CallsCleaningTokens ==
  [f \in GuardedFunctions |->
    {g \in GuardedFunctions :
      \/ f = "initialize-plugins" /\ g \in InitializerCalls \cup {"syslog"}
      \/ f = "do-event"           /\ g \in JobCalls
      \/ f = "expand-instruction" /\ g \in ClosureCalls \cup
                                          {"config-do", "get-chunkmap-entry", "syslog", "postpone"}
      \/ f = "config-do"          /\ g \in {"add-chunkmap-file", "syslog"}
      \/ f = "prepare-statements" /\ g = "register-statement"
      \/ f \in {"load-plugin", "load-config", "use-database"} /\ g = "syslog"}]
Calls ==
  [f \in GuardedFunctions |->
    {g \in GuardedFunctions :
      \/ f = "initialize-plugins" /\ g \in InitializerCalls \cup {"syslog"}
      \/ f = "do-event"           /\ g \in JobCalls
      \/ f = "expand-instruction" /\ g \in ClosureCalls \cup
                                          {"config-do", "get-chunkmap-entry", "syslog"}
      \/ f = "config-do"          /\ g \in {"add-chunkmap-file", "syslog"}
      \/ f = "prepare-statements" /\ g = "register-statement"
      \/ f \in {"load-plugin", "load-config", "use-database"} /\ g = "syslog"}]

VARIABLES
  stack,            \* the guarded functions each thread is in, outermost first
  wanted            \* the function whose guard a thread is taking, or None

lockVars == <<stack, wanted>>

LocksInit ==
  /\ stack = [t \in Threads |-> <<>>]
  /\ wanted = [t \in Threads |-> None]

Idle(t) == stack[t] = <<>> /\ wanted[t] = None
Innermost(t) == stack[t][Len(stack[t])]

Held(t) == {Guarded[stack[t][i]] : i \in DOMAIN stack[t]}

(* What stands between a thread and the mutex it wants: another thread, or *)
(* itself when the mutex is not recursive.                                 *)
WaitsFor(t, u) ==
  /\ wanted[t] # None
  /\ Guarded[wanted[t]] \in Held(u)
  /\ t # u \/ Guarded[wanted[t]] \in NonRecursive

Call(t, f) ==
  /\ wanted[t] = None
  /\ Len(stack[t]) < MaxNesting
  /\ stack[t] # <<>> => f \in Calls[Innermost(t)]
  /\ wanted' = [wanted EXCEPT ![t] = f]
  /\ UNCHANGED stack

Enter(t) ==
  /\ wanted[t] # None
  /\ \A u \in Threads : ~WaitsFor(t, u)
  /\ stack' = [stack EXCEPT ![t] = Append(@, wanted[t])]
  /\ wanted' = [wanted EXCEPT ![t] = None]

Return(t) ==
  /\ stack[t] # <<>>
  /\ wanted[t] = None
  /\ stack' = [stack EXCEPT ![t] = SubSeq(@, 1, Len(@) - 1)]
  /\ UNCHANGED wanted

LocksNext ==
  \E t \in Threads : Enter(t) \/ Return(t) \/ \E f \in GuardedFunctions : Call(t, f)

LocksSpec == LocksInit /\ [][LocksNext]_lockVars

-----------------------------------------------------------------------------
LocksTypeOK ==
  /\ stack \in [Threads -> Seq(GuardedFunctions)]
  /\ wanted \in [Threads -> GuardedFunctions \cup {None}]

(* Two threads never hold the same mutex. *)
Exclusion == \A t, u \in Threads : t # u => Held(t) \cap Held(u) = {}

(* No threads all wait for one another, however many threads there are and *)
(* whatever each of them is calling: jobs that run under hcv_todo_mtx,     *)
(* closures under hcv_template_mtx and initialisers under hcv_plugin_mtx   *)
(* included (hcv_background.cc:318, hcv_template.cc:342,                   *)
(* hcv_plugins.cc:198).                                                    *)
NoCircularWait ==
  \A S \in SUBSET Threads :
    S # {} => \E t \in S : \A u \in S : ~WaitsFor(t, u)

(* Why: what a thread wants comes after all it holds, or is recursive and  *)
(* held already.                                                           *)
After(f, m) == Level[m] < LevelOf(f) \/ (m = Guarded[f] /\ m \notin NonRecursive)
Ascending ==
  \A t \in Threads :
    /\ \A i, j \in DOMAIN stack[t] : i < j => After(stack[t][j], Guarded[stack[t][i]])
    /\ wanted[t] # None => \A i \in DOMAIN stack[t] : After(wanted[t], Guarded[stack[t][i]])
==============================================================================
