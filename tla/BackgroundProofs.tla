-------------------------- MODULE BackgroundProofs --------------------------
(* Proofs about Background, for every set of jobs, posters and delays.      *)
EXTENDS Background, FiniteSetTheorems, WellFoundedInduction, TLAPS

-----------------------------------------------------------------------------
(* A nonempty set of times has an earliest member, and EarliestOf is it. *)
LEMMA EarliestIsLeast ==
  ASSUME NEW S \in SUBSET Nat, S # {}
  PROVE  EarliestOf(S) \in S /\ \A u \in S : EarliestOf(S) <= u
<1> DEFINE R == {ss \in Nat \X Nat : ss[1] < ss[2]}
<1>1. OpToRel(<, Nat) = R
  BY DEF OpToRel
<1>2. \E t \in S : \A u \in S : <<u, t>> \notin R
  BY <1>1, NatLessThanWellFounded, WFMin
<1>3. \A t, u \in Nat : <<u, t>> \notin R => t <= u
  OBVIOUS
<1>4. \E t \in S : \A u \in S : t <= u
  BY <1>2, <1>3
<1> QED
  BY <1>4 DEF EarliestOf

(* std::map::insert adds at most one entry and keeps those there are. *)
LEMMA InsertKeeps ==
  ASSUME TypeOK, NEW t \in DueTimes, NEW j \in Jobs
  PROVE  /\ Insert(t, j) \in [DOMAIN todo \cup {t} -> Jobs]
         /\ DOMAIN Insert(t, j) = DOMAIN todo \cup {t}
         /\ \A u \in DOMAIN todo : Insert(t, j)[u] = todo[u]
         /\ t \notin DOMAIN todo => Insert(t, j)[t] = j
BY DEF Insert, TypeOK

LEMMA ClampInRange ==
  ASSUME NEW d \in Delays
  PROVE  Clamp(d) \in 1 .. MaxDelay
BY BackgroundAssumption DEF Clamp

(* The first entry of a nonempty map is one of its due times. *)
LEMMA FirstIsLeast ==
  ASSUME TypeOK, DOMAIN todo # {}
  PROVE  /\ First(todo) \in DOMAIN todo
         /\ First(todo) \in DueTimes
         /\ \A u \in DOMAIN todo : First(todo) <= u
<1>1. DOMAIN todo \in SUBSET Nat
  BY DEF TypeOK, DueTimes
<1> QED
  BY <1>1, EarliestIsLeast DEF First, TypeOK

-----------------------------------------------------------------------------
(* Types *)

(* Posting a job keeps the types, whoever posts it. *)
LEMMA EnqueueType ==
  ASSUME TypeOK, NEW t \in DueTimes, NEW j \in Jobs, Enqueue(j, t)
  PROVE  /\ DOMAIN todo' \subseteq DueTimes
         /\ todo' \in [DOMAIN todo' -> Jobs]
         /\ fate' \in [Jobs -> Fates]
         /\ due' \in [Jobs -> DueTimes \cup {0}]
         /\ running' = running
<1>1. DOMAIN todo' = DOMAIN todo \cup {t} /\ todo' \in [DOMAIN todo \cup {t} -> Jobs]
  BY InsertKeeps DEF Enqueue
<1>2. fate' \in [Jobs -> Fates] /\ due' \in [Jobs -> DueTimes \cup {0}]
  BY DEF Enqueue, TypeOK, Fates
<1> QED
  BY <1>1, <1>2 DEF Enqueue, TypeOK

(* A todotime computed now is a due time. *)
LEMMA TodotimeType ==
  ASSUME TypeOK, NEW d \in Delays
  PROVE  now + Clamp(d) \in DueTimes
<1>1. now \in 1 .. Horizon /\ Clamp(d) \in 1 .. MaxDelay
  BY ClampInRange DEF TypeOK
<1> QED
  BY <1>1, BackgroundAssumption DEF DueTimes

(* Every step keeps the types. *)
LEMMA TypeStep ==
  ASSUME TypeOK, CallsOwnTheirJobs, [Next]_vars
  PROVE  TypeOK'
<1> USE DEF vars, fdVars, jobVars, stopVars, envVars, Abort
<1>1. ASSUME StartThread \/ StopThread
      PROVE  TypeOK'
  <2>1. CASE StartThread
    BY <2>1 DEF StartThread, TypeOK, Locations
  <2>2. CASE StopThread
    BY <2>2 DEF StopThread, TypeOK
  <2> QED
    BY <1>1, <2>1, <2>2
<1>2. ASSUME NEW p \in Posters, FinishPostpone(p)
      PROVE  TypeOK'
  <2>1. CASE TooMuchTodo
    BY <1>2, <2>1 DEF FinishPostpone, TypeOK, Locations, NoCall
  <2>2. CASE ~TooMuchTodo
    <3>1. call[p].job \in Jobs /\ call[p].due \in DueTimes
      BY <1>2 DEF FinishPostpone, CallsOwnTheirJobs
    <3>2. Enqueue(call[p].job, call[p].due) /\ WriteEvent
      BY <1>2, <2>2 DEF FinishPostpone
    <3>3. /\ DOMAIN todo' \subseteq DueTimes
          /\ todo' \in [DOMAIN todo' -> Jobs]
          /\ fate' \in [Jobs -> Fates]
          /\ due' \in [Jobs -> DueTimes \cup {0}]
          /\ running' = running
      BY <3>1, <3>2, EnqueueType
    <3>4. eventCount' \in Nat /\ pc' \in Locations
      BY <3>2 DEF WriteEvent, TypeOK, Locations
    <3>5. call' \in [Posters -> [job : Jobs \cup {NoJob}, due : DueTimes \cup {0}]]
      BY <1>2 DEF FinishPostpone, TypeOK, NoCall
    <3> QED
      BY <1>2, <3>3, <3>4, <3>5 DEF FinishPostpone, TypeOK
  <2> QED
    BY <2>1, <2>2
<1>3. ASSUME NEW p \in Posters, NEW j \in Jobs, NEW d \in Delays, CallPostpone(p, j, d)
      PROVE  TypeOK'
  <2>1. now + Clamp(d) \in DueTimes
    BY TodotimeType
  <2> QED
    BY <1>3, <2>1 DEF CallPostpone, TypeOK, Fates
<1>4. ASSUME NEW j \in Jobs, NEW d \in Delays, PostponeFromJob(j, d)
      PROVE  TypeOK'
  <2>1. CASE TooMuchTodo
    BY <1>4, <2>1 DEF PostponeFromJob, TypeOK, Locations
  <2>2. CASE ~TooMuchTodo
    <3>1. Enqueue(j, now + Clamp(d)) /\ WriteEvent
      BY <1>4, <2>2 DEF PostponeFromJob
    <3>2. /\ DOMAIN todo' \subseteq DueTimes
          /\ todo' \in [DOMAIN todo' -> Jobs]
          /\ fate' \in [Jobs -> Fates]
          /\ due' \in [Jobs -> DueTimes \cup {0}]
          /\ running' = running
      BY <3>1, EnqueueType, TodotimeType
    <3>3. eventCount' \in Nat /\ pc' \in Locations
      BY <3>1 DEF WriteEvent, TypeOK, Locations
    <3> QED
      BY <1>4, <3>2, <3>3 DEF PostponeFromJob, TypeOK
  <2> QED
    BY <2>1, <2>2
<1>5. CASE LoopTest \/ Poll \/ ReadEvent
  BY <1>5 DEF LoopTest, Poll, ReadEvent, TypeOK, Locations, Readable
<1>6. ASSUME NEW inv \in Invocations, NothingTodo(inv) \/ StartJob(inv) \/ FinishJob(inv)
      PROVE  TypeOK'
  <2>1. inv.job \in Locations /\ inv.return \in Locations
    BY DEF Invocations, Locations
  <2>2. CASE NothingTodo(inv)
    BY <2>1, <2>2 DEF NothingTodo, TypeOK
  <2>3. CASE StartJob(inv)
    <3>1. First(todo) \in DOMAIN todo
      BY <2>3, FirstIsLeast DEF StartJob
    <3> QED
      BY <2>1, <2>3, <3>1 DEF StartJob, Erase, TypeOK, Fates
  <2>4. CASE FinishJob(inv)
    <3>1. DOMAIN todo # {} => First(todo) \in DueTimes
      BY FirstIsLeast
    <3> QED
      BY <2>1, <2>4, <3>1 DEF FinishJob, TypeOK, Fates
  <2> QED
    BY <1>6, <2>2, <2>3, <2>4
<1>7. CASE ReadSignal
  BY <1>7 DEF ReadSignal, HandleSignal, Terminate, TypeOK, Locations
<1>8. CASE ReadTimer
  BY <1>8 DEF ReadTimer, TypeOK, Locations
<1>9. CASE Tick
  BY <1>9, BackgroundAssumption DEF Tick, TypeOK
<1>10. ASSUME NEW s \in Signals, Kill(s)
       PROVE  TypeOK'
  BY <1>10 DEF Kill, TypeOK
<1>11. CASE UNCHANGED vars
  BY <1>11 DEF TypeOK
<1> QED
  BY <1>1, <1>2, <1>3, <1>4, <1>5, <1>6, <1>7, <1>8, <1>9, <1>10, <1>11
     DEF Next, Thread, Postpone, DoEvent

-----------------------------------------------------------------------------
(* The queue *)

(* A step that leaves the map, the jobs and the calls alone keeps the      *)
(* invariant, as long as it does not enter a job.                          *)
LEMMA QueueInvUnchanged ==
  ASSUME QueueInv, TypeOK', UNCHANGED <<todo, running, fate, due, call>>,
         Locked' => Locked, (Locked \/ pc = "aborted") => (Locked' \/ pc' = "aborted")
  PROVE  QueueInv'
BY DEF QueueInv, QueueHoldsQueuedJobs, CallsOwnTheirJobs, OnlyRunningJobRuns, Queued

(* Posting a job that is not in the queue keeps map and fates in step, and *)
(* changes the fate of no other job.                                       *)
LEMMA EnqueueKeepsQueue ==
  ASSUME QueueInv, NEW t \in DueTimes, NEW j \in Jobs, fate[j] \notin {"queued", "running"},
         Enqueue(j, t)
  PROVE  /\ QueueHoldsQueuedJobs'
         /\ \A k \in Jobs \ {j} : fate'[k] = fate[k]
         /\ fate'[j] \in {"queued", "dropped"}
<1> USE DEF QueueInv
<1>1. /\ DOMAIN todo' = DOMAIN todo \cup {t}
      /\ \A u \in DOMAIN todo : todo'[u] = todo[u]
      /\ t \notin DOMAIN todo => todo'[t] = j
  BY InsertKeeps DEF Enqueue
<1>2. /\ \A k \in Jobs \ {j} : fate'[k] = fate[k] /\ due'[k] = due[k]
      /\ fate'[j] = IF t \in DOMAIN todo THEN "dropped" ELSE "queued"
      /\ due'[j] = t
  BY DEF Enqueue, TypeOK
<1>3. j \notin Queued
  BY DEF Queued
<1>4. \A u \in DOMAIN todo : todo[u] # j
  BY <1>3 DEF QueueHoldsQueuedJobs
<1>5. ASSUME NEW k \in Queued'
      PROVE  due'[k] \in DOMAIN todo' /\ todo'[due'[k]] = k
  <2>1. CASE k = j
    BY <1>1, <1>2, <1>5, <2>1 DEF Queued
  <2>2. CASE k # j
    <3>1. k \in Queued /\ due'[k] = due[k]
      BY <1>2, <1>5, <2>2 DEF Queued
    <3> QED
      BY <1>1, <3>1 DEF QueueHoldsQueuedJobs
  <2> QED
    BY <2>1, <2>2
<1>6. ASSUME NEW u \in DOMAIN todo'
      PROVE  todo'[u] \in Queued' /\ due'[todo'[u]] = u
  <2>1. CASE u \in DOMAIN todo
    <3>1. todo'[u] = todo[u] /\ todo[u] \in Queued /\ due[todo[u]] = u /\ todo[u] # j
      BY <1>1, <1>4, <2>1 DEF QueueHoldsQueuedJobs
    <3> QED
      BY <1>2, <3>1 DEF Queued
  <2>2. CASE u \notin DOMAIN todo
    BY <1>1, <1>2, <1>6, <2>2 DEF Queued
  <2> QED
    BY <2>1, <2>2
<1> QED
  BY <1>2, <1>5, <1>6 DEF QueueHoldsQueuedJobs

(* Starting the first job takes it, and nothing else, out of the map. *)
LEMMA StartKeepsQueue ==
  ASSUME QueueInv, NEW inv \in Invocations, StartJob(inv), TypeOK'
  PROVE  QueueInv'
<1> USE DEF QueueInv
<1> DEFINE f == First(todo)
           j == todo[f]
<1>1. f \in DOMAIN todo /\ j \in Queued /\ j \in Jobs /\ due[j] = f
  BY FirstIsLeast DEF StartJob, QueueHoldsQueuedJobs, Queued
<1>2. /\ DOMAIN todo' = DOMAIN todo \ {f}
      /\ \A u \in DOMAIN todo' : todo'[u] = todo[u]
  BY DEF StartJob, Erase
<1>3. /\ fate'[j] = "running" /\ running' = j
      /\ \A k \in Jobs \ {j} : fate'[k] = fate[k]
      /\ due' = due /\ call' = call
  BY <1>1 DEF StartJob, TypeOK, envVars
<1>4. Queued' = Queued \ {j}
  BY <1>1, <1>3 DEF Queued
<1>5. QueueHoldsQueuedJobs'
  BY <1>1, <1>2, <1>3, <1>4 DEF QueueHoldsQueuedJobs
<1>6. CallsOwnTheirJobs'
  BY <1>1, <1>3 DEF CallsOwnTheirJobs, Queued
<1>7. \A k \in Jobs : fate[k] # "running"
  <2>1. ~Locked /\ pc # "aborted"
    BY DEF StartJob, Invocations, Locked
  <2> QED
    BY <2>1 DEF OnlyRunningJobRuns
<1>8. Locked'
  BY DEF StartJob, Invocations, Locked
<1>9. OnlyRunningJobRuns'
  BY <1>1, <1>3, <1>7, <1>8 DEF OnlyRunningJobRuns
<1> QED
  BY <1>5, <1>6, <1>9

(* The job that ends was in nobody's queue or call. *)
LEMMA FinishKeepsQueue ==
  ASSUME QueueInv, NEW inv \in Invocations, FinishJob(inv), TypeOK'
  PROVE  QueueInv'
<1> USE DEF QueueInv
<1>1. Locked /\ running \in Jobs /\ fate[running] = "running"
  BY DEF FinishJob, Invocations, Locked, OnlyRunningJobRuns
<1>2. /\ fate'[running] = "done"
      /\ \A k \in Jobs \ {running} : fate'[k] = fate[k]
      /\ due' = due /\ call' = call /\ todo' = todo
  BY <1>1 DEF FinishJob, TypeOK, envVars
<1>3. Queued' = Queued
  BY <1>1, <1>2 DEF Queued
<1>4. QueueHoldsQueuedJobs'
  BY <1>2, <1>3 DEF QueueHoldsQueuedJobs
<1>5. CallsOwnTheirJobs'
  BY <1>1, <1>2 DEF CallsOwnTheirJobs
<1>6. \A k \in Jobs : fate'[k] # "running"
  BY <1>2 DEF OnlyRunningJobRuns
<1>7. ~Locked'
  BY DEF FinishJob, Invocations, Locked
<1> QED
  BY <1>4, <1>5, <1>6, <1>7 DEF OnlyRunningJobRuns

(* hcv_do_postpone_background, in its two halves and from within a job. *)
LEMMA PostponeKeepsQueue ==
  ASSUME QueueInv, TypeOK', Postpone
  PROVE  QueueInv'
<1> USE DEF QueueInv, jobVars, envVars, fdVars, stopVars
<1>1. ASSUME NEW p \in Posters, NEW j \in Jobs, NEW d \in Delays, CallPostpone(p, j, d)
      PROVE  QueueInv'
  <2>1. /\ fate[j] = "new" /\ call[p] = NoCall
        /\ fate'[j] = "called" /\ \A k \in Jobs \ {j} : fate'[k] = fate[k]
        /\ call'[p] = [job |-> j, due |-> now + Clamp(d)]
        /\ \A q \in Posters \ {p} : call'[q] = call[q]
        /\ todo' = todo /\ running' = running /\ due' = due /\ pc' = pc
    BY <1>1 DEF CallPostpone, TypeOK
  <2>2. Queued' = Queued
    BY <2>1 DEF Queued
  <2>3. QueueHoldsQueuedJobs'
    BY <2>1, <2>2 DEF QueueHoldsQueuedJobs
  <2>4. now + Clamp(d) \in DueTimes
    BY TodotimeType
  <2>5. CallsOwnTheirJobs'
    BY <2>1, <2>4 DEF CallsOwnTheirJobs
  <2>6. OnlyRunningJobRuns'
    BY <2>1 DEF OnlyRunningJobRuns, Locked
  <2> QED
    BY <2>3, <2>5, <2>6
<1>2. ASSUME NEW p \in Posters, FinishPostpone(p)
      PROVE  QueueInv'
  <2> DEFINE j == call[p].job
  <2>1. /\ call[p] # NoCall /\ ~Locked /\ pc # "aborted"
        /\ call'[p] = NoCall /\ \A q \in Posters \ {p} : call'[q] = call[q]
    BY <1>2 DEF FinishPostpone, TypeOK
  <2>2. \A k \in Jobs : fate[k] # "running"
    BY <2>1 DEF OnlyRunningJobRuns
  <2>3. /\ j \in Jobs /\ fate[j] = "called" /\ call[p].due \in DueTimes
        /\ \A q \in Posters \ {p} : call[q] # NoCall => call[q].job # j
    BY <2>1 DEF CallsOwnTheirJobs
  <2>4. CASE TooMuchTodo
    <3>1. UNCHANGED <<todo, running, fate, due>> /\ pc' = "aborted"
      BY <1>2, <2>4 DEF FinishPostpone, Abort
    <3>2. QueueHoldsQueuedJobs' /\ OnlyRunningJobRuns'
      BY <2>2, <3>1 DEF QueueHoldsQueuedJobs, Queued, OnlyRunningJobRuns, Locked
    <3>3. CallsOwnTheirJobs'
      BY <2>1, <3>1 DEF CallsOwnTheirJobs
    <3> QED
      BY <3>2, <3>3
  <2>5. CASE ~TooMuchTodo
    <3>1. Enqueue(j, call[p].due) /\ WriteEvent
      BY <1>2, <2>5 DEF FinishPostpone
    <3>2. /\ QueueHoldsQueuedJobs'
          /\ \A k \in Jobs \ {j} : fate'[k] = fate[k]
          /\ fate'[j] \in {"queued", "dropped"}
      BY <2>3, <3>1, EnqueueKeepsQueue
    <3>3. CallsOwnTheirJobs'
      BY <2>1, <2>3, <3>2 DEF CallsOwnTheirJobs
    <3>4. ~Locked'
      BY <2>1, <3>1 DEF WriteEvent, Locked, Abort
    <3>5. OnlyRunningJobRuns'
      BY <2>2, <3>2, <3>4 DEF OnlyRunningJobRuns
    <3> QED
      BY <3>2, <3>3, <3>5
  <2> QED
    BY <2>4, <2>5
<1>3. ASSUME NEW j \in Jobs, NEW d \in Delays, PostponeFromJob(j, d)
      PROVE  QueueInv'
  <2>1. Locked /\ fate[j] = "new" /\ call' = call
    BY <1>3 DEF PostponeFromJob
  <2>2. CASE TooMuchTodo
    <3>1. UNCHANGED <<todo, running, fate, due, call>> /\ pc' = "aborted"
      BY <1>3, <2>2 DEF PostponeFromJob, Abort
    <3> QED
      BY <3>1, QueueInvUnchanged DEF Locked
  <2>3. CASE ~TooMuchTodo
    <3>1. Enqueue(j, now + Clamp(d)) /\ WriteEvent
      BY <1>3, <2>3 DEF PostponeFromJob
    <3>2. /\ QueueHoldsQueuedJobs'
          /\ \A k \in Jobs \ {j} : fate'[k] = fate[k]
          /\ fate'[j] \in {"queued", "dropped"}
      BY <2>1, <3>1, EnqueueKeepsQueue, TodotimeType
    <3>3. CallsOwnTheirJobs'
      BY <2>1, <3>2 DEF CallsOwnTheirJobs
    <3>4. pc' = pc /\ running' = running
      BY <2>1, <3>1 DEF WriteEvent, Enqueue, Locked
    <3>5. OnlyRunningJobRuns'
      BY <2>1, <3>2, <3>4 DEF OnlyRunningJobRuns, Locked
    <3> QED
      BY <3>2, <3>3, <3>5
  <2> QED
    BY <2>2, <2>3
<1> QED
  BY <1>1, <1>2, <1>3 DEF Postpone

(* Every step keeps the queue's invariant. *)
LEMMA QueueInvStep ==
  ASSUME QueueInv, [Next]_vars
  PROVE  QueueInv'
<1> USE DEF vars, jobVars, envVars, fdVars, stopVars
<1>1. TypeOK'
  BY TypeStep DEF QueueInv
<1>2. CASE StartThread \/ StopThread
  BY <1>1, <1>2, QueueInvUnchanged DEF StartThread, StopThread, Locked
<1>3. CASE LoopTest \/ Poll \/ ReadEvent \/ ReadTimer
  BY <1>1, <1>3, QueueInvUnchanged DEF LoopTest, Poll, ReadEvent, ReadTimer, Locked, Abort
<1>4. CASE DoEvent
  <2>1. ASSUME NEW inv \in Invocations, NothingTodo(inv)
        PROVE  QueueInv'
    BY <1>1, <2>1, QueueInvUnchanged DEF NothingTodo, Invocations, Locked
  <2> QED
    BY <1>1, <1>4, <2>1, StartKeepsQueue, FinishKeepsQueue DEF DoEvent
<1>5. CASE ReadSignal
  BY <1>1, <1>5, QueueInvUnchanged
     DEF ReadSignal, HandleSignal, Terminate, Locked, Abort
<1>6. CASE Postpone
  BY <1>1, <1>6, PostponeKeepsQueue
<1>7. CASE Tick
  BY <1>1, <1>7, QueueInvUnchanged DEF Tick, Locked
<1>8. ASSUME NEW s \in Signals, Kill(s)
      PROVE  QueueInv'
  BY <1>1, <1>8, QueueInvUnchanged DEF Kill, Locked
<1>9. CASE UNCHANGED vars
  BY <1>1, <1>9, QueueInvUnchanged DEF Locked
<1> QED
  BY <1>2, <1>3, <1>4, <1>5, <1>6, <1>7, <1>8, <1>9 DEF Next, Thread

(* QueueInv, and with it the types and QueueHoldsQueuedJobs, holds from    *)
(* the start of the program on.                                            *)
THEOREM QueueInvariant == Spec => []QueueInv
<1>1. ASSUME Init
      PROVE  QueueInv
  <2>1. DOMAIN todo = {} /\ todo \in [DOMAIN todo -> Jobs]
    BY <1>1 DEF Init
  <2>2. TypeOK
    <3>1. now \in 1 .. Horizon
      BY <1>1, BackgroundAssumption DEF Init
    <3>2. call \in [Posters -> [job : Jobs \cup {NoJob}, due : DueTimes \cup {0}]]
      BY <1>1 DEF Init, NoCall
    <3>3. fate \in [Jobs -> Fates] /\ due \in [Jobs -> DueTimes \cup {0}]
      BY <1>1 DEF Init, Fates
    <3> QED
      BY <1>1, <2>1, <3>1, <3>2, <3>3 DEF Init, TypeOK, Locations
  <2>3. QueueHoldsQueuedJobs
    BY <1>1, <2>1 DEF Init, QueueHoldsQueuedJobs, Queued
  <2> QED
    BY <1>1, <2>2, <2>3
       DEF Init, QueueInv, CallsOwnTheirJobs, OnlyRunningJobRuns, NoCall, Locked
<1>2. QueueInv /\ [Next]_vars => QueueInv'
  BY QueueInvStep
<1> QED
  BY <1>1, <1>2, PTL DEF Spec

(* Types, and the queue's consistency, as the runs check them. *)
THEOREM TypeCorrect == Spec => []TypeOK
BY QueueInvariant, PTL DEF QueueInv

THEOREM QueueConsistent == Spec => []QueueHoldsQueuedJobs
BY QueueInvariant, PTL DEF QueueInv

-----------------------------------------------------------------------------
(* The bound on the queue *)

(* A step grows the map by at most one entry, and only below the limit. *)
LEMMA QueueBoundedStep ==
  ASSUME QueueInv, QueueBounded, [Next]_vars
  PROVE  QueueBounded'
<1> USE DEF QueueInv, vars, jobVars, envVars, fdVars, stopVars
<1>1. IsFiniteSet(DOMAIN todo) /\ Cardinality(DOMAIN todo) \in Nat
  <2>1. IsFiniteSet(DueTimes)
    BY FS_Interval, BackgroundAssumption DEF DueTimes
  <2> QED
    BY <2>1, FS_Subset, FS_CardinalityType DEF TypeOK
<1>2. ASSUME NEW t \in DueTimes, NEW j \in Jobs, Enqueue(j, t), ~TooMuchTodo
      PROVE  QueueBounded'
  <2>1. DOMAIN todo' = DOMAIN todo \cup {t}
    BY <1>2, InsertKeeps DEF Enqueue
  <2>2. Cardinality(DOMAIN todo \cup {t}) <= Cardinality(DOMAIN todo) + 1
    BY <1>1, FS_AddElement
  <2>3. Cardinality(DOMAIN todo \cup {t}) \in Nat
    BY <1>1, FS_AddElement, FS_CardinalityType
  <2> QED
    BY <1>1, <1>2, <2>1, <2>2, <2>3, BackgroundAssumption DEF QueueBounded, TooMuchTodo
<1>3. ASSUME NEW inv \in Invocations, StartJob(inv)
      PROVE  QueueBounded'
  <2>1. DOMAIN todo' = DOMAIN todo \ {First(todo)}
    BY <1>3 DEF StartJob, Erase
  <2>2. Cardinality(DOMAIN todo') <= Cardinality(DOMAIN todo) /\ Cardinality(DOMAIN todo') \in Nat
    <3>1. LET S == DOMAIN todo \ {First(todo)}
          IN  /\ IsFiniteSet(S)
              /\ Cardinality(S) = IF First(todo) \in DOMAIN todo
                                  THEN Cardinality(DOMAIN todo) - 1
                                  ELSE Cardinality(DOMAIN todo)
      BY <1>1, FS_RemoveElement
    <3>2. Cardinality(DOMAIN todo \ {First(todo)}) \in Nat
      BY <3>1, FS_CardinalityType
    <3> QED
      BY <1>1, <2>1, <3>1, <3>2
  <2> QED
    BY <1>1, <2>2, BackgroundAssumption DEF QueueBounded
<1>4. CASE todo' = todo
  BY <1>4 DEF QueueBounded
<1>5. ASSUME NEW p \in Posters, FinishPostpone(p)
      PROVE  QueueBounded'
  <2>1. call[p].job \in Jobs /\ call[p].due \in DueTimes
    BY <1>5 DEF FinishPostpone, CallsOwnTheirJobs
  <2> QED
    BY <1>2, <1>4, <1>5, <2>1 DEF FinishPostpone
<1>6. ASSUME NEW j \in Jobs, NEW d \in Delays, PostponeFromJob(j, d)
      PROVE  QueueBounded'
  BY <1>2, <1>4, <1>6, TodotimeType DEF PostponeFromJob
<1> QED
  BY <1>3, <1>4, <1>5, <1>6
     DEF Next, Thread, Postpone, DoEvent, StartThread, StopThread, LoopTest, Poll,
         ReadEvent, NothingTodo, FinishJob, ReadSignal, ReadTimer, CallPostpone, Tick, Kill

(* The queue never holds more than HCV_MAX_TODO + 1 jobs. *)
THEOREM QueueStaysBounded == Spec => []QueueBounded
<1>1. Init => QueueBounded
  <2>1. Init => DOMAIN todo = {}
    BY DEF Init
  <2> QED
    BY <2>1, FS_EmptySet, BackgroundAssumption DEF QueueBounded
<1>2. QueueInv /\ QueueBounded /\ [Next]_vars => QueueBounded'
  BY QueueBoundedStep
<1> QED
  BY <1>1, <1>2, QueueInvariant, PTL DEF Spec

-----------------------------------------------------------------------------
(* The order of jobs *)

(* Only hcv_bg_do_event starts a job, and it starts the first of the map. *)
LEMMA OnlyFirstStarts ==
  ASSUME QueueInv, [Next]_vars, NEW j \in Queued, fate'[j] = "running"
  PROVE  /\ \E inv \in Invocations : StartJob(inv)
         /\ due[j] = First(todo)
<1> USE DEF QueueInv, vars, jobVars, envVars, fdVars, stopVars
<1>1. j \in Jobs /\ fate[j] = "queued"
  BY DEF Queued
<1>2. \A inv \in Invocations : ~FinishJob(inv)
  <2>1. ASSUME NEW inv \in Invocations, FinishJob(inv)
        PROVE  FALSE
    BY <1>1, <2>1 DEF FinishJob, TypeOK
  <2> QED
    BY <2>1
<1>3. \A p \in Posters : ~FinishPostpone(p)
  BY <1>1 DEF FinishPostpone, Enqueue, TypeOK, CallsOwnTheirJobs
<1>4. \A k \in Jobs, d \in Delays : ~PostponeFromJob(k, d)
  BY <1>1 DEF PostponeFromJob, Enqueue, TypeOK
<1>5. \A p \in Posters, k \in Jobs, d \in Delays : ~CallPostpone(p, k, d)
  BY <1>1 DEF CallPostpone, TypeOK
<1>6. PICK inv \in Invocations : StartJob(inv)
  BY <1>1, <1>2, <1>3, <1>4, <1>5
     DEF Next, Thread, Postpone, DoEvent, StartThread, StopThread, LoopTest, Poll,
         ReadEvent, NothingTodo, ReadSignal, ReadTimer, Tick, Kill
<1>7. j = todo[First(todo)]
  BY <1>1, <1>6 DEF StartJob, TypeOK
<1>8. First(todo) \in DOMAIN todo
  BY <1>6, FirstIsLeast DEF StartJob
<1> QED
  BY <1>6, <1>7, <1>8 DEF QueueHoldsQueuedJobs

(* Jobs start in the order of their due times: EarliestFirst. *)
THEOREM EarliestRunsFirst == Spec => EarliestFirst
<1>1. ASSUME QueueInv, [Next]_vars
      PROVE  \A j, k \in Jobs :
               (j \in Queued /\ fate'[j] = "running" /\ k \in Queued) => due[j] <= due[k]
  <2>1. ASSUME NEW j \in Queued, NEW k \in Queued, fate'[j] = "running"
        PROVE  due[j] <= due[k]
    <3>1. due[j] = First(todo) /\ due[k] \in DOMAIN todo
      BY <1>1, <2>1, OnlyFirstStarts DEF QueueInv, QueueHoldsQueuedJobs
    <3> QED
      BY <1>1, <3>1, FirstIsLeast DEF QueueInv
  <2> QED
    BY <2>1
<1> QED
  BY <1>1, QueueInvariant, PTL DEF Spec, EarliestFirst

-----------------------------------------------------------------------------
(* Shutdown *)

(* From SIGTERM's handling on, the thread runs to its end. *)
LEMMA ShutdownStep ==
  ASSUME TypeOK, ShutdownIsFinal, [Next]_vars
  PROVE  ShutdownIsFinal'
<1> USE DEF ShutdownIsFinal, vars, fdVars, jobVars, stopVars, envVars, Abort
<1>1. CASE StartThread \/ StopThread \/ LoopTest \/ Poll
  BY <1>1 DEF StartThread, StopThread, LoopTest, Poll
<1>2. CASE ReadEvent \/ ReadTimer
  BY <1>2 DEF ReadEvent, ReadTimer
<1>3. CASE ReadSignal
  BY <1>3 DEF ReadSignal, HandleSignal, Terminate
<1>4. CASE DoEvent
  BY <1>4 DEF DoEvent, Invocations, NothingTodo, StartJob, FinishJob
<1>5. CASE Postpone
  BY <1>5 DEF Postpone, CallPostpone, FinishPostpone, PostponeFromJob, WriteEvent, Locked
<1>6. CASE Tick \/ (\E s \in Signals : Kill(s)) \/ UNCHANGED vars
  BY <1>6 DEF Tick, Kill
<1> QED
  BY <1>1, <1>2, <1>3, <1>4, <1>5, <1>6 DEF Next, Thread

(* After SIGTERM closed the database no job starts: NoJobAfterShutdown. *)
THEOREM NoJobStartsAfterShutdown == Spec => NoJobAfterShutdown
<1>1. Init => ShutdownIsFinal
  BY DEF Init, ShutdownIsFinal
<1>2. QueueInv /\ ShutdownIsFinal /\ [Next]_vars => ShutdownIsFinal'
  BY ShutdownStep DEF QueueInv
<1>3. ASSUME QueueInv, ShutdownIsFinal, [Next]_vars, down # {}, NEW j \in Jobs, fate'[j] = "running"
      PROVE  fate[j] = "running"
  <2> USE DEF QueueInv, vars, fdVars, jobVars, stopVars, envVars
  <2>1. ~Locked /\ \A inv \in Invocations : ~StartJob(inv) /\ ~FinishJob(inv)
    BY <1>3 DEF ShutdownIsFinal, Invocations, StartJob, FinishJob, Locked
  <2>2. \A p \in Posters : FinishPostpone(p) => fate[j] = "running"
    BY <1>3 DEF FinishPostpone, Enqueue, TypeOK, CallsOwnTheirJobs
  <2>3. \A p \in Posters, k \in Jobs, d \in Delays :
          CallPostpone(p, k, d) => fate[j] = "running"
    BY <1>3 DEF CallPostpone, TypeOK
  <2> QED
    BY <1>3, <2>1, <2>2, <2>3
       DEF Next, Thread, Postpone, DoEvent, StartThread, StopThread, LoopTest, Poll,
           ReadEvent, NothingTodo, ReadSignal, ReadTimer, PostponeFromJob, Tick, Kill
<1>4. QueueInv /\ ShutdownIsFinal /\ [Next]_vars =>
        [down # {} => \A j \in Jobs : fate'[j] = "running" => fate[j] = "running"]_vars
  BY <1>3
<1> QED
  BY <1>1, <1>2, <1>4, QueueInvariant, PTL DEF Spec, NoJobAfterShutdown

-----------------------------------------------------------------------------
(* The timer *)

(* Nothing is queued or being posted before the thread is started. *)
LEMMA StartStep ==
  ASSUME ~EarlyPosts, TypeOK, NothingPostedBeforeStart, [Next]_vars
  PROVE  NothingPostedBeforeStart'
<1> USE DEF NothingPostedBeforeStart, vars, fdVars, jobVars, stopVars, envVars, Abort
<1>1. CASE pc = "unstarted"
  <2>1. \A p \in Posters : ~FinishPostpone(p)
    BY <1>1 DEF FinishPostpone
  <2>2. \A p \in Posters, j \in Jobs, d \in Delays : ~CallPostpone(p, j, d)
    BY <1>1 DEF CallPostpone
  <2>3. \A j \in Jobs, d \in Delays : ~PostponeFromJob(j, d)
    BY <1>1 DEF PostponeFromJob, Locked
  <2>4. ~DoEvent
    BY <1>1 DEF DoEvent, Invocations, NothingTodo, StartJob, FinishJob
  <2> QED
    BY <1>1, <2>1, <2>2, <2>3, <2>4
       DEF Next, Thread, Postpone, StartThread, StopThread, LoopTest, Poll,
           ReadEvent, ReadSignal, ReadTimer, Tick, Kill
<1>2. CASE pc # "unstarted"
  <2>1. pc' # "unstarted"
    BY <1>2 DEF Next, Thread, Postpone, DoEvent, Invocations, StartThread, StopThread,
         LoopTest, Poll, ReadEvent, NothingTodo, StartJob, FinishJob, ReadSignal,
         HandleSignal, Terminate, ReadTimer, CallPostpone, FinishPostpone,
         PostponeFromJob, WriteEvent, Tick, Kill
  <2> QED
    BY <2>1
<1> QED
  BY <1>1, <1>2

(* Every step keeps the timer at the earliest entry, once no wake-up is    *)
(* owed: posts owe one, and hcv_bg_do_event arms the timer when it ends.   *)
LEMMA TimerStep ==
  ASSUME ~EarlyPosts, QueueInv, NothingPostedBeforeStart, TimerGuardsQueue, [Next]_vars
  PROVE  TimerGuardsQueue'
<1> USE DEF QueueInv, vars, fdVars, jobVars, stopVars, envVars, Abort
<1> DEFINE Quiet == pc \in {"loop", "poll", "event", "signal", "timer"}
<1>1. CASE StartThread
  BY <1>1 DEF StartThread, NothingPostedBeforeStart, TimerGuardsQueue
<1>2. CASE StopThread
  BY <1>2 DEF StopThread, TimerGuardsQueue, TypeOK
<1>3. CASE LoopTest \/ Poll
  BY <1>3 DEF LoopTest, Poll, TimerGuardsQueue, First
<1>4. CASE ReadEvent \/ ReadSignal
  BY <1>4 DEF ReadEvent, ReadSignal, HandleSignal, Terminate, TimerGuardsQueue, First
<1>5. CASE ReadTimer
  BY <1>5 DEF ReadTimer, TimerExpired, TimerGuardsQueue, First
<1>6. ASSUME NEW inv \in Invocations, NothingTodo(inv) \/ StartJob(inv)
      PROVE  TimerGuardsQueue'
  BY <1>6 DEF NothingTodo, StartJob, Invocations, TimerGuardsQueue
<1>7. ASSUME NEW inv \in Invocations, FinishJob(inv)
      PROVE  TimerGuardsQueue'
  BY <1>7 DEF FinishJob, TimerGuardsQueue, First
<1>8. CASE Postpone
  <2>1. ASSUME NEW p \in Posters, NEW j \in Jobs, NEW d \in Delays, CallPostpone(p, j, d)
        PROVE  TimerGuardsQueue'
    BY <2>1 DEF CallPostpone, TimerGuardsQueue, First
  <2>2. ASSUME WriteEvent, pc # "unstarted"
        PROVE  TimerGuardsQueue'
    BY <2>2 DEF WriteEvent, TimerGuardsQueue, TypeOK
  <2>3. ASSUME pc' = "aborted"
        PROVE  TimerGuardsQueue'
    BY <2>3 DEF TimerGuardsQueue
  <2>4. ASSUME NEW p \in Posters, FinishPostpone(p)
        PROVE  TimerGuardsQueue'
    BY <2>2, <2>3, <2>4 DEF FinishPostpone, NothingPostedBeforeStart
  <2>5. ASSUME NEW j \in Jobs, NEW d \in Delays, PostponeFromJob(j, d)
        PROVE  TimerGuardsQueue'
    BY <2>2, <2>3, <2>5 DEF PostponeFromJob, Locked
  <2> QED
    BY <1>8, <2>1, <2>4, <2>5 DEF Postpone
<1>9. CASE Tick
  <2>1. First(todo)' = First(todo)
    BY <1>9 DEF Tick, First
  <2>2. DOMAIN todo # {} => First(todo) \in Nat
    BY FirstIsLeast DEF DueTimes
  <2> QED
    BY <1>9, <2>1, <2>2 DEF Tick, TimerGuardsQueue, TypeOK
<1>10. CASE (\E s \in Signals : Kill(s)) \/ UNCHANGED vars
  BY <1>10 DEF Kill, TimerGuardsQueue, First
<1> QED
  BY <1>1, <1>2, <1>3, <1>4, <1>5, <1>6, <1>7, <1>8, <1>9, <1>10 DEF Next, Thread, DoEvent

(* Unless a job is posted before the thread is started, a thread that no   *)
(* event is going to wake has its timer set for the next job.              *)
THEOREM TimerGuards ==
  ASSUME ~EarlyPosts
  PROVE  Spec => []TimerGuardsQueue
<1>1. Init => NothingPostedBeforeStart /\ TimerGuardsQueue
  <2>1. Init => DOMAIN todo = {}
    BY DEF Init
  <2> QED
    BY <2>1 DEF Init, NothingPostedBeforeStart, TimerGuardsQueue
<1>2. QueueInv /\ NothingPostedBeforeStart /\ TimerGuardsQueue /\ [Next]_vars
        => NothingPostedBeforeStart' /\ TimerGuardsQueue'
  BY StartStep, TimerStep DEF QueueInv
<1> QED
  BY <1>1, <1>2, QueueInvariant, PTL DEF Spec

-----------------------------------------------------------------------------
(* The abstract queue *)

(* An accepted job enters the abstract queue; one whose due time is taken  *)
(* leaves it as it is.                                                     *)
LEMMA EnqueueAccepts ==
  ASSUME QueueInv, NEW t \in DueTimes, NEW j \in Jobs,
         fate[j] \in {"new", "called"}, Enqueue(j, t)
  PROVE  [Queue!Next]_(Queue!queueVars)
<1> USE DEF QueueInv
<1>1. /\ \A k \in Jobs \ {j} : fate'[k] = fate[k] /\ due'[k] = due[k]
      /\ fate'[j] = IF t \in DOMAIN todo THEN "dropped" ELSE "queued"
      /\ due'[j] = t
  BY DEF Enqueue, TypeOK
<1>2. Started' = Started
  BY <1>1 DEF Started
<1>3. CASE t \in DOMAIN todo
  <2>1. Queued' = Queued /\ \A k \in Queued : due'[k] = due[k]
    BY <1>1, <1>3 DEF Queued
  <2>2. [k \in Queued |-> due[k]]' = [k \in Queued |-> due[k]]
    BY <2>1
  <2> QED
    BY <1>2, <2>2 DEF Queue!queueVars
<1>4. CASE t \notin DOMAIN todo
  <2>1. Queued' = Queued \cup {j} /\ \A k \in Queued : k # j /\ due'[k] = due[k]
    BY <1>1, <1>4 DEF Queued
  <2>2. j \notin Queued \cup Started
    BY DEF Queued, Started
  <2>3. \A k \in Queued : due[k] # t
    BY <1>4 DEF QueueHoldsQueuedJobs
  <2>4. Queue!Accept(j, t)
    BY <1>1, <1>2, <2>1, <2>2, <2>3 DEF Queue!Accept
  <2> QED
    BY <2>4 DEF Queue!Next
<1> QED
  BY <1>3, <1>4

(* hcv_bg_do_event takes the abstract queue's earliest job. *)
LEMMA StartJobStarts ==
  ASSUME QueueInv, NEW inv \in Invocations, StartJob(inv)
  PROVE  Queue!Next
<1> USE DEF QueueInv
<1>1. First(todo) \in DOMAIN todo /\ \A u \in DOMAIN todo : First(todo) <= u
  BY FirstIsLeast DEF StartJob
<1>2. PICK j \in Jobs : j = todo[First(todo)] /\ j \in Queued /\ due[j] = First(todo)
  BY <1>1 DEF QueueHoldsQueuedJobs, Queued
<1>3. /\ fate'[j] = "running" /\ due' = due
      /\ \A k \in Jobs \ {j} : fate'[k] = fate[k]
  BY <1>2 DEF StartJob, TypeOK
<1>4. Queued' = Queued \ {j} /\ Started' = Started \cup {j}
  BY <1>2, <1>3 DEF Queued, Started
<1>5. \A k \in Queued : due[j] <= due[k]
  BY <1>1, <1>2 DEF QueueHoldsQueuedJobs
<1>6. Queue!Start(j)
  BY <1>2, <1>3, <1>4, <1>5 DEF Queue!Start
<1> QED
  BY <1>6 DEF Queue!Next

(* Every step of the code is a step of the abstract queue, or none. *)
LEMMA QueueRefinementStep ==
  ASSUME QueueInv, [Next]_vars
  PROVE  [Queue!Next]_(Queue!queueVars)
<1> USE DEF QueueInv, vars, fdVars, jobVars, stopVars, envVars
<1>1. ASSUME Queued' = Queued, Started' = Started, due' = due
      PROVE  UNCHANGED Queue!queueVars
  <2>1. [j \in Queued |-> due[j]]' = [j \in Queued |-> due[j]]
    BY <1>1
  <2> QED
    BY <1>1, <2>1 DEF Queue!queueVars
<1>2. ASSUME UNCHANGED <<fate, due>>
      PROVE  UNCHANGED Queue!queueVars
  BY <1>1, <1>2 DEF Queued, Started
<1>3. ASSUME NEW p \in Posters, FinishPostpone(p)
      PROVE  [Queue!Next]_(Queue!queueVars)
  <2>1. call[p].job \in Jobs /\ fate[call[p].job] = "called" /\ call[p].due \in DueTimes
    BY <1>3 DEF FinishPostpone, CallsOwnTheirJobs
  <2> QED
    BY <1>2, <1>3, <2>1, EnqueueAccepts DEF FinishPostpone
<1>4. ASSUME NEW j \in Jobs, NEW d \in Delays, PostponeFromJob(j, d)
      PROVE  [Queue!Next]_(Queue!queueVars)
  BY <1>2, <1>4, EnqueueAccepts, TodotimeType DEF PostponeFromJob
<1>5. ASSUME NEW p \in Posters, NEW j \in Jobs, NEW d \in Delays, CallPostpone(p, j, d)
      PROVE  [Queue!Next]_(Queue!queueVars)
  BY <1>1, <1>5 DEF CallPostpone, Queued, Started, TypeOK
<1>6. ASSUME NEW inv \in Invocations, FinishJob(inv)
      PROVE  [Queue!Next]_(Queue!queueVars)
  <2>1. running \in Jobs /\ fate[running] = "running"
    BY <1>6 DEF FinishJob, Invocations, OnlyRunningJobRuns, Locked
  <2> QED
    BY <1>1, <1>6, <2>1 DEF FinishJob, Queued, Started, TypeOK
<1>7. ASSUME NEW inv \in Invocations, NothingTodo(inv) \/ StartJob(inv)
      PROVE  [Queue!Next]_(Queue!queueVars)
  BY <1>2, <1>7, StartJobStarts DEF NothingTodo
<1> QED
  BY <1>2, <1>3, <1>4, <1>5, <1>6, <1>7
     DEF Next, Thread, Postpone, DoEvent, StartThread, StopThread, LoopTest, Poll,
         ReadEvent, ReadSignal, ReadTimer, Tick, Kill

(* The code's queue is the abstract one: jobs are accepted at distinct     *)
(* times, started at most once, and earliest first.                        *)
THEOREM ImplementsQueue == Spec => QueueSpec
<1>1. Init => Queue!Init
  BY DEF Init, Queue!Init, Queued, Started
<1>2. QueueInv /\ [Next]_vars => [Queue!Next]_(Queue!queueVars)
  BY QueueRefinementStep
<1> QED
  BY <1>1, <1>2, QueueInvariant, PTL DEF Spec, QueueSpec, Queue!Spec
=============================================================================
