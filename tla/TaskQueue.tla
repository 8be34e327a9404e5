------------------------------ MODULE TaskQueue ------------------------------
(***************************************************************************)
(* What the class TaskQueue of httplib.h promises to Server::listen, which *)
(* hands it one task per accepted connection: tasks start in the order     *)
(* they were accepted, each runs once, and shutdown returns when all of    *)
(* them are finished.                                                      *)
(***************************************************************************)
EXTENDS Sequences

CONSTANT Tasks

VARIABLES
  waiting,          \* accepted and not started, in order
  running,          \* started and not finished
  finished,
  closed            \* has shutdown returned?

taskVars == <<waiting, running, finished, closed>>

Init ==
  /\ waiting = <<>>
  /\ running = {}
  /\ finished = {}
  /\ closed = FALSE

Waiting == {waiting[i] : i \in DOMAIN waiting}

Accept(t) ==
  /\ ~closed
  /\ t \notin Waiting \cup running \cup finished
  /\ waiting' = Append(waiting, t)
  /\ UNCHANGED <<running, finished, closed>>

Start ==
  /\ waiting # <<>>
  /\ waiting' = Tail(waiting)
  /\ running' = running \cup {Head(waiting)}
  /\ UNCHANGED <<finished, closed>>

Finish(t) ==
  /\ t \in running
  /\ running' = running \ {t}
  /\ finished' = finished \cup {t}
  /\ UNCHANGED <<waiting, closed>>

Close ==
  /\ waiting = <<>> /\ running = {}
  /\ closed' = TRUE
  /\ UNCHANGED <<waiting, running, finished>>

Next == Start \/ Close \/ \E t \in Tasks : Accept(t) \/ Finish(t)

Spec == Init /\ [][Next]_taskVars
==============================================================================
