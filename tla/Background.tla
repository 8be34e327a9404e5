----------------------------- MODULE Background ------------------------------
(***************************************************************************)
(* The background thread of HelpCovid (src/hcv_background.cc): the queue   *)
(* of postponed jobs hcv_todo_map, the eventfd by which posters wake the   *)
(* thread, the signalfd, the one-shot timerfd, and the poll loop that      *)
(* serves them.                                                            *)
(*                                                                         *)
(* Time is CLOCK_MONOTONIC counted in ticks, starting at 1, so that 0 can  *)
(* mean "disarmed" as it does for timerfd_settime.  The critical sections  *)
(* under hcv_todo_mtx are atomic steps, except that a job's closure runs   *)
(* inside hcv_bg_do_event with the mutex held: pc is then "eventJob" or    *)
(* "pipeJob" and posters wait.  A poll time-out only logs and is left out. *)
(***************************************************************************)
EXTENDS Naturals, FiniteSets

CONSTANTS
  Jobs,          \* closures that may be registered, each at most once
  NoJob,         \* not a job
  Posters,       \* threads that call hcv_do_postpone_background
  Delays,        \* delays they ask for, in ticks
  MinDelay,      \* HCV_POSTPONE_MINIMAL_DELAY
  MaxDelay,      \* HCV_POSTPONE_MAXIMAL_DELAY
  MaxTodo,       \* HCV_MAX_TODO
  Signals,       \* which signals of the mask are sent to the process
  MaxKills,      \* bound on the number of signals sent
  Horizon,       \* bound on the clock
  EarlyPosts     \* may a job be posted before the thread is started?

ASSUME BackgroundAssumption ==
  /\ NoJob \notin Jobs
  /\ Delays \subseteq Nat
  /\ MinDelay \in Nat \ {0}
  /\ MaxDelay \in Nat /\ MinDelay <= MaxDelay
  /\ MaxTodo \in Nat
  /\ MaxKills \in Nat
  /\ Horizon \in Nat \ {0}
  /\ Signals \subseteq {"HUP", "PIPE", "TERM", "XCPU"}
  /\ EarlyPosts \in BOOLEAN

VARIABLES
  now,           \* the monotonic clock
  todo,          \* hcv_todo_map: due time -> job
  eventCount,    \* counter of hcv_bg_event_fd
  timer,         \* time hcv_bg_timer_fd is armed for, 0 when disarmed
  pending,       \* blocked signals readable from hcv_bg_signal_fd
  ready,         \* revents of the last poll, a set of descriptors
  pc,            \* where the background thread is; "aborted": abort() was called
  running,       \* the job whose closure is being executed
  stop,          \* hcv_should_stop_bg_thread
  down,          \* subsystems closed by hcv_process_SIGTERM_signal
  call,          \* each poster's call in progress: its job and todotime
  kills,         \* number of signals sent so far
  fate,          \* history: what became of each job
  due            \* history: the todotime each job was posted with, 0 before

fdVars    == <<eventCount, timer, pending>>
jobVars   == <<todo, running, fate, due>>
stopVars  == <<stop, down>>
envVars   == <<now, call, kills>>
vars      == <<fdVars, jobVars, stopVars, envVars, ready, pc>>

Descriptors == {"event", "signal", "timer"}
Locations   == {"unstarted", "loop", "poll", "event", "eventRun", "eventJob",
                "signal", "pipeRun", "pipeJob", "timer", "ended", "aborted"}
Fates       == {"new", "called", "queued", "dropped", "running", "done"}
NoCall      == [job |-> NoJob, due |-> 0]
DueTimes    == 1 .. (Horizon + MaxDelay)

-----------------------------------------------------------------------------
(* hcv_todo_map *)

(* std::map::insert: an entry already present under that time is kept. *)
InsertOverwriting(t, j) == [u \in DOMAIN todo \cup {t} |-> IF u = t THEN j ELSE todo[u]]

Insert(t, j) ==
  [u \in DOMAIN todo \cup {t} |-> IF u \in DOMAIN todo THEN todo[u] ELSE j]

Erase(t) == [u \in DOMAIN todo \ {t} |-> todo[u]]

LatestOf(S) == CHOOSE t \in S : \A u \in S : u <= t

(* hcv_todo_map.begin() *)
EarliestOf(S) == CHOOSE t \in S : \A u \in S : t <= u

First(map) == EarliestOf(DOMAIN map)

ClampBelow(d) == IF d < MinDelay THEN MinDelay ELSE d

Clamp(d) ==
  IF d < MinDelay THEN MinDelay ELSE IF d > MaxDelay THEN MaxDelay ELSE d

Locked == pc \in {"eventJob", "pipeJob"}

Abort == pc' = "aborted"

-----------------------------------------------------------------------------
Init ==
  /\ now = 1
  /\ todo = <<>>
  /\ eventCount = 0
  /\ timer = 0
  /\ pending = {}
  /\ ready = {}
  /\ pc = "unstarted"
  /\ running = NoJob
  /\ stop = FALSE
  /\ down = {}
  /\ call = [p \in Posters |-> NoCall]
  /\ kills = 0
  /\ fate = [j \in Jobs |-> "new"]
  /\ due = [j \in Jobs |-> 0]

-----------------------------------------------------------------------------
(* hcv_do_postpone_background *)

(* Up to line 350: the delay is clamped and todotime computed, without the *)
(* mutex.                                                                  *)
CallPostpone(p, j, d) ==
  /\ pc # "aborted"
  /\ pc = "unstarted" => EarlyPosts
  /\ call[p] = NoCall
  /\ fate[j] = "new"
  /\ call' = [call EXCEPT ![p] = [job |-> j, due |-> now + Clamp(d)]]
  /\ fate' = [fate EXCEPT ![j] = "called"]
  /\ UNCHANGED <<fdVars, stopVars, todo, running, due, now, kills, ready, pc>>

NeverTooMuchTodo == FALSE

TooMuchTodo == Cardinality(DOMAIN todo) > MaxTodo

Enqueue(j, t) ==
  /\ todo' = Insert(t, j)
  /\ fate' = [fate EXCEPT ![j] = IF t \in DOMAIN todo THEN "dropped" ELSE "queued"]
  /\ due' = [due EXCEPT ![j] = t]
  /\ UNCHANGED running

(* The write of 1 to hcv_bg_event_fd.  Before hcv_start_background_thread  *)
(* that variable is 0: the bytes go to the standard input, which takes or  *)
(* refuses them.                                                           *)
WriteEvent ==
  \/ /\ pc # "unstarted"
     /\ eventCount' = eventCount + 1
     /\ UNCHANGED pc
  \/ /\ pc = "unstarted"
     /\ UNCHANGED eventCount
     /\ UNCHANGED pc \/ Abort

(* From line 351, under the mutex. *)
FinishPostpone(p) ==
  /\ pc # "aborted"
  /\ call[p] # NoCall
  /\ ~Locked
  /\ call' = [call EXCEPT ![p] = NoCall]
  /\ \/ /\ TooMuchTodo
        /\ Abort
        /\ UNCHANGED <<jobVars, eventCount>>
     \/ /\ ~TooMuchTodo
        /\ Enqueue(call[p].job, call[p].due)
        /\ WriteEvent
  /\ UNCHANGED <<timer, pending, stopVars, now, kills, ready>>

(* The closure being executed registers a job: the mutex is recursive. *)
PostponeFromJob(j, d) ==
  /\ Locked
  /\ fate[j] = "new"
  /\ \/ /\ TooMuchTodo
        /\ Abort
        /\ UNCHANGED <<jobVars, eventCount>>
     \/ /\ ~TooMuchTodo
        /\ Enqueue(j, now + Clamp(d))
        /\ WriteEvent
  /\ UNCHANGED <<timer, pending, stopVars, envVars, ready>>

-----------------------------------------------------------------------------
(* hcv_start_background_thread, hcv_stop_background_thread *)

StartThread ==
  /\ pc = "unstarted"
  /\ pc' = "loop"
  /\ eventCount' = 0
  /\ timer' = 0
  /\ UNCHANGED <<pending, jobVars, stopVars, envVars, ready>>

StopThread ==
  /\ pc \notin {"unstarted", "aborted"}
  /\ ~stop
  /\ stop' = TRUE
  /\ eventCount' = eventCount + 1
  /\ UNCHANGED <<timer, pending, jobVars, down, envVars, ready, pc>>

-----------------------------------------------------------------------------
(* The loop of hcv_background_thread_body *)

LoopTest ==
  /\ pc = "loop"
  /\ pc' = IF stop THEN "ended" ELSE "poll"
  /\ UNCHANGED <<fdVars, jobVars, stopVars, envVars, ready>>

TimerExpired == timer # 0 /\ timer <= now

Readable ==
  {f \in Descriptors : \/ f = "event" /\ eventCount > 0
                       \/ f = "signal" /\ pending # {}
                       \/ f = "timer" /\ TimerExpired}

Poll ==
  /\ pc = "poll"
  /\ Readable # {}
  /\ ready' = Readable
  /\ pc' = "event"
  /\ UNCHANGED <<fdVars, jobVars, stopVars, envVars>>

(* Reading an eventfd returns and clears the whole counter: however many   *)
(* posts it stands for, hcv_bg_do_event is called once.                    *)
ReadEventOnlyWhenOne ==
  /\ pc = "event"
  /\ \/ /\ "event" \in ready
        /\ eventCount' = 0
        /\ pc' = IF eventCount = 1 THEN "eventRun" ELSE "signal"
     \/ /\ "event" \notin ready
        /\ pc' = "signal"
        /\ UNCHANGED eventCount
  /\ UNCHANGED <<timer, pending, jobVars, stopVars, envVars, ready>>

ReadEvent ==
  /\ pc = "event"
  /\ \/ /\ "event" \in ready
        /\ eventCount' = 0
        /\ pc' = "eventRun"
     \/ /\ "event" \notin ready
        /\ pc' = "signal"
        /\ UNCHANGED eventCount
  /\ UNCHANGED <<timer, pending, jobVars, stopVars, envVars, ready>>

(* hcv_bg_do_event: where it starts, runs its job, and returns to. *)
Invocations ==
  {[entry |-> "eventRun", job |-> "eventJob", return |-> "signal"],
   [entry |-> "pipeRun",  job |-> "pipeJob",  return |-> "timer"]}

NothingTodo(inv) ==
  /\ pc = inv.entry
  /\ DOMAIN todo = {}
  /\ pc' = inv.return
  /\ UNCHANGED <<fdVars, jobVars, stopVars, envVars, ready>>

(* The first entry is erased, whatever its time, and its closure called. *)
StartJobUnerased(inv) ==
  /\ pc = inv.entry
  /\ DOMAIN todo # {}
  /\ running' = todo[First(todo)]
  /\ fate' = [fate EXCEPT ![todo[First(todo)]] = "running"]
  /\ pc' = inv.job
  /\ UNCHANGED <<fdVars, stopVars, envVars, todo, due, ready>>

StartJob(inv) ==
  /\ pc = inv.entry
  /\ DOMAIN todo # {}
  /\ running' = todo[First(todo)]
  /\ todo' = Erase(First(todo))
  /\ fate' = [fate EXCEPT ![todo[First(todo)]] = "running"]
  /\ pc' = inv.job
  /\ UNCHANGED <<fdVars, stopVars, envVars, due, ready>>

(* The closure returns; the timer is armed for the new first entry, and    *)
(* left as it is when the map is empty.                                    *)
FinishJobUnlessArmed(inv) ==
  /\ pc = inv.job
  /\ running' = NoJob
  /\ fate' = [fate EXCEPT ![running] = "done"]
  /\ timer' = IF DOMAIN todo = {} \/ timer # 0 THEN timer ELSE First(todo)
  /\ pc' = inv.return
  /\ UNCHANGED <<eventCount, pending, stopVars, envVars, todo, due, ready>>

FinishJob(inv) ==
  /\ pc = inv.job
  /\ running' = NoJob
  /\ fate' = [fate EXCEPT ![running] = "done"]
  /\ timer' = IF DOMAIN todo = {} THEN timer ELSE First(todo)
  /\ pc' = inv.return
  /\ UNCHANGED <<eventCount, pending, stopVars, envVars, todo, due, ready>>

(* hcv_process_SIGTERM_signal, then the stop flag.  hcv_close_database     *)
(* asserts that there is a connection, which the configuration may not ask *)
(* for.                                                                    *)
TerminateWithoutStop ==
  \/ /\ down' = {"web", "database"}
     /\ pc' = "timer"
     /\ UNCHANGED stop
  \/ /\ down' = {"web"}
     /\ Abort
     /\ UNCHANGED stop

Terminate ==
  \/ /\ down' = {"web", "database"}
     /\ stop' = TRUE
     /\ pc' = "timer"
  \/ /\ down' = {"web"}
     /\ Abort
     /\ UNCHANGED stop

HandleSignal(s) ==
  \/ /\ s = "TERM"
     /\ Terminate
  \/ /\ s \in {"HUP", "XCPU"}
     /\ Abort
     /\ UNCHANGED stopVars
  \/ /\ s = "PIPE"
     /\ pc' = "pipeRun"
     /\ UNCHANGED stopVars

ReadSignal ==
  /\ pc = "signal"
  /\ \/ /\ "signal" \in ready
        /\ \E s \in pending :
             /\ pending' = pending \ {s}
             /\ HandleSignal(s)
     \/ /\ "signal" \notin ready
        /\ pc' = "timer"
        /\ UNCHANGED <<pending, stopVars>>
  /\ UNCHANGED <<eventCount, timer, jobVars, envVars, ready>>

(* The timer branch reads the expiration count and runs nothing.  Its read *)
(* fails when the timer was armed anew since the poll.                     *)
ReadTimer ==
  /\ pc = "timer"
  /\ \/ /\ "timer" \in ready /\ TimerExpired
        /\ timer' = 0
        /\ pc' = "loop"
     \/ /\ "timer" \in ready /\ ~TimerExpired
        /\ Abort
        /\ UNCHANGED timer
     \/ /\ "timer" \notin ready
        /\ pc' = "loop"
        /\ UNCHANGED timer
  /\ UNCHANGED <<eventCount, pending, jobVars, stopVars, envVars, ready>>

-----------------------------------------------------------------------------
(* Environment *)

Tick ==
  /\ pc # "aborted"
  /\ now < Horizon
  /\ now' = now + 1
  /\ UNCHANGED <<fdVars, jobVars, stopVars, call, kills, ready, pc>>

(* Somebody kills the process.  The signals are blocked, hence kept        *)
(* pending (once each), from hcv_start_background_thread on.               *)
Kill(s) ==
  /\ pc \notin {"unstarted", "aborted"}
  /\ kills < MaxKills
  /\ kills' = kills + 1
  /\ pending' = pending \cup {s}
  /\ UNCHANGED <<eventCount, timer, jobVars, stopVars, now, call, ready, pc>>

-----------------------------------------------------------------------------
DoEvent == \E inv \in Invocations : NothingTodo(inv) \/ StartJob(inv) \/ FinishJob(inv)

Thread == LoopTest \/ Poll \/ ReadEvent \/ DoEvent \/ ReadSignal \/ ReadTimer

Postpone ==
  \/ \E p \in Posters :
       \/ FinishPostpone(p)
       \/ \E j \in Jobs, d \in Delays : CallPostpone(p, j, d)
  \/ \E j \in Jobs, d \in Delays : PostponeFromJob(j, d)

Next ==
  \/ StartThread \/ StopThread
  \/ Thread
  \/ Postpone
  \/ Tick
  \/ \E s \in Signals : Kill(s)

Spec == Init /\ [][Next]_vars

(* The scheduler runs the thread and the posters (a closure returns, and a *)
(* poster gets the mutex in the end), main starts the thread, time passes. *)
Fairness ==
  /\ WF_vars(StartThread)
  /\ WF_vars(Thread)
  /\ \A p \in Posters : WF_vars(FinishPostpone(p))
  /\ WF_vars(Tick)

FairSpec == Spec /\ Fairness

-----------------------------------------------------------------------------
(* The types of the variables. *)
TypeOK ==
  /\ now \in 1 .. Horizon
  /\ DOMAIN todo \subseteq DueTimes
  /\ todo \in [DOMAIN todo -> Jobs]
  /\ eventCount \in Nat
  /\ timer \in DueTimes \cup {0}
  /\ pending \subseteq Signals
  /\ ready \subseteq Descriptors
  /\ pc \in Locations
  /\ running \in Jobs \cup {NoJob}
  /\ stop \in BOOLEAN
  /\ down \subseteq {"web", "database"}
  /\ call \in [Posters -> [job : Jobs \cup {NoJob}, due : DueTimes \cup {0}]]
  /\ kills \in Nat
  /\ fate \in [Jobs -> Fates]
  /\ due \in [Jobs -> DueTimes \cup {0}]

Queued == {j \in Jobs : fate[j] = "queued"}
Started == {j \in Jobs : fate[j] \in {"running", "done"}}
Dead == pc \in {"ended", "aborted"}

(* No accepted job is lost from the queue or left in it once started: the  *)
(* map holds exactly the queued jobs, each under the time it was posted    *)
(* with, also across nested posts made by a running job and insertions     *)
(* under a time already taken (hcv_bg_do_event erases before it calls;     *)
(* std::map::insert does not overwrite).                                   *)
QueueHoldsQueuedJobs ==
  /\ \A j \in Queued : due[j] \in DOMAIN todo /\ todo[due[j]] = j
  /\ \A t \in DOMAIN todo : todo[t] \in Queued /\ due[todo[t]] = t

(* The queue outgrows HCV_MAX_TODO by at most one: the size is tested with *)
(* ">" before the insertion.                                               *)
QueueBounded == Cardinality(DOMAIN todo) <= MaxTodo + 1

(* A poll never blocks on a queue whose next job is still to come without  *)
(* the timer set for exactly that job: when no wake-up is owed, the timer  *)
(* stands at the earliest entry, or has already fired for it.  (With posts *)
(* made before hcv_start_background_thread it fails: see EarlyPosts.)      *)
TimerGuardsQueue ==
  (/\ DOMAIN todo # {}
   /\ eventCount = 0
   /\ pc \in {"loop", "poll", "event", "signal", "timer"})
    => \/ timer = First(todo)
       \/ timer = 0 /\ First(todo) <= now

(* What makes QueueHoldsQueuedJobs inductive: the job of a call in progress *)
(* belongs to that call only, and the job marked as running is the one the *)
(* thread is executing.                                                    *)
CallsOwnTheirJobs ==
  /\ \A p \in Posters : call[p] # NoCall =>
       /\ call[p].job \in Jobs /\ fate[call[p].job] = "called"
       /\ call[p].due \in DueTimes
  /\ \A p, q \in Posters :
       call[p] # NoCall /\ call[q] # NoCall /\ p # q => call[p].job # call[q].job

OnlyRunningJobRuns ==
  /\ Locked => running \in Jobs /\ fate[running] = "running"
  /\ \A j \in Jobs : fate[j] = "running" =>
       running = j /\ (Locked \/ pc = "aborted")

QueueInv ==
  TypeOK /\ QueueHoldsQueuedJobs /\ CallsOwnTheirJobs /\ OnlyRunningJobRuns

(* What makes TimerGuardsQueue inductive when nobody posts early. *)
NothingPostedBeforeStart ==
  pc = "unstarted" => DOMAIN todo = {} /\ \A p \in Posters : call[p] = NoCall

(* What makes NoJobAfterShutdown hold: the branch that handles SIGTERM is  *)
(* followed by the timer branch and the loop test only.                    *)
ShutdownIsFinal ==
  down # {} => (stop /\ pc \in {"timer", "loop", "ended"}) \/ pc = "aborted"

(* Jobs start in the order of their due times. *)
EarliestFirst ==
  [][\A j, k \in Jobs :
        (j \in Queued /\ fate'[j] = "running" /\ k \in Queued) => due[j] <= due[k]]_vars

(* Once SIGTERM closed the web server and the database, no job of the      *)
(* queue is started any more: a job may well use the database.             *)
NoJobAfterShutdown ==
  [][down # {} => \A j \in Jobs : fate'[j] = "running" => fate[j] = "running"]_vars

(* A wake-up never gets lost: with the eventfd counter positive and a job  *)
(* waiting, one more job is started, or the thread ends.                   *)
WakeupStartsAJob ==
  \A n \in 0 .. Cardinality(Jobs) :
    (eventCount > 0 /\ DOMAIN todo # {} /\ Cardinality(Started) = n)
      ~> (Cardinality(Started) > n \/ Dead)

(* SIGTERM ends the thread, whatever else keeps it busy. *)
TermEndsThread == "TERM" \in pending ~> Dead

-----------------------------------------------------------------------------
(* The code implements the abstract queue. *)
Queue == INSTANCE TodoQueue WITH
  Times <- DueTimes,
  waiting <- [j \in Queued |-> due[j]],
  started <- Started

QueueSpec == Queue!Spec

-----------------------------------------------------------------------------
(* What the documentation and the code's own checks say, and the code does *)
(* not do.                                                                 *)

(* hcv_header.hh:769-771: a job is executed "postponed by some delay", so  *)
(* not before its due time.                                                *)
JobsArePostponed ==
  [][\A j \in Jobs : (j \in Queued /\ fate'[j] = "running") => due[j] <= now]_vars

(* hcv_header.hh:769: a registered closure is "to be executed".            *)
EveryJobRuns == \A j \in Jobs : fate[j] = "queued" ~> (j \in Started \/ Dead)

(* hcv_header.hh:769: registering a closure keeps it.                      *)
NoJobDropped == \A j \in Jobs : fate[j] # "dropped"

(* hcv_background.cc:193-195: reading a timerfd that poll reported never   *)
(* fails.                                                                  *)
TimerReadSucceeds == (pc = "timer" /\ "timer" \in ready) => TimerExpired
==============================================================================
