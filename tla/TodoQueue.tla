------------------------------ MODULE TodoQueue ------------------------------
(***************************************************************************)
(* What the postponed-job facility of hcv_background.cc promises to the    *)
(* code that registers jobs, without threads, file descriptors or locks:   *)
(* an accepted job waits under a due time no other waiting job has, jobs   *)
(* leave the queue only by being started, earliest due time first, and no  *)
(* job is ever started twice.  (When a job may start is deliberately left  *)
(* open: Background shows that the code starts jobs early.)                *)
(***************************************************************************)
EXTENDS Naturals

CONSTANTS
  Jobs,             \* the closures that may be registered
  Times             \* the due times they may have, natural numbers

VARIABLES
  waiting,          \* accepted jobs not yet started, each with its due time
  started           \* jobs whose closure has been called

queueVars == <<waiting, started>>

Init ==
  /\ waiting = <<>>
  /\ started = {}

Accept(j, t) ==
  /\ j \notin DOMAIN waiting \cup started
  /\ \A k \in DOMAIN waiting : waiting[k] # t
  /\ waiting' = [k \in DOMAIN waiting \cup {j} |-> IF k = j THEN t ELSE waiting[k]]
  /\ UNCHANGED started

Start(j) ==
  /\ j \in DOMAIN waiting
  /\ \A k \in DOMAIN waiting : waiting[j] <= waiting[k]
  /\ waiting' = [k \in DOMAIN waiting \ {j} |-> waiting[k]]
  /\ started' = started \cup {j}

Next == \E j \in Jobs : Start(j) \/ \E t \in Times : Accept(j, t)

Spec == Init /\ [][Next]_queueVars
==============================================================================
