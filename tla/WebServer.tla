------------------------------ MODULE WebServer ------------------------------
(***************************************************************************)
(* The life of the web server object hcv_webserver: the main thread makes  *)
(* it listen (Server::listen_internal of httplib.h), every connection it   *)
(* accepts becomes a job of a ThreadPool whose threads sleep on a          *)
(* condition variable, and the background thread stops and deletes it when *)
(* SIGTERM comes (hcv_stop_web), without waiting for the main thread.      *)
(*                                                                         *)
(* What the program does before the background thread starts is in         *)
(* Program, which gives these variables their values.                      *)
(*                                                                         *)
(* A thread that uses the deleted server reads freed memory: it finds      *)
(* there what was there before, or the process crashes (UseDeleted).       *)
(***************************************************************************)
EXTENDS Naturals, Sequences, FiniteSets

CONSTANTS
  Conns,            \* the connections clients make
  NoConn,           \* not a connection
  MaxThreads        \* the number of threads the system lets a process start

ASSUME WebServerAssumption == NoConn \notin Conns /\ MaxThreads \in Nat \ {0}

VARIABLES
  main,             \* where the main thread is
  outcome,          \* "run", or how the process ended
  server,           \* the Server object
  pointer,          \* hcv_webserver is not null
  valid,            \* Server::is_valid
  port,             \* the port hcv_weburl gives, 0 when hcv_weburl is no URL
  euid,             \* the effective user
  threads,          \* hcv_http_max_threads
  sock,             \* svr_sock_: INVALID_SOCKET, or a descriptor open or closed
  listening,        \* is_running_
  jobs,             \* ThreadPool::jobs_
  shutdown,         \* ThreadPool::shutdown_
  worker,           \* what each thread of the pool does
  conn,             \* the connection it serves
  made,             \* connections made so far
  backlog,          \* those in the backlog of the listening socket
  answered,         \* those whose job has ended
  bg,               \* where the background thread is
  term              \* has SIGTERM been sent, is it taken?

objectVars == <<server, pointer, valid, port, euid, threads>>
socketVars == <<sock, listening>>
poolVars   == <<jobs, shutdown, worker, conn, answered>>
clientVars == <<made, backlog>>
bgVars     == <<bg, term>>
serverVars == <<main, outcome, objectVars, socketVars, poolVars, clientVars, bgVars>>

Workers == 1 .. MaxThreads

Listening == {"announce", "loop", "select", "accept", "shut", "notify", "join", "leave"}
MainServes == {"register", "bind"} \cup Listening \cup {"returned", "ended"}
Outcomes == {"run", "fatal", "exit", "terminated", "killed", "crashed"}

ServerInit ==
  /\ outcome = "run"
  /\ server = "none" /\ pointer = FALSE /\ valid = FALSE /\ port = 0
  /\ sock = "invalid" /\ listening = FALSE
  /\ jobs = <<>> /\ shutdown = FALSE /\ answered = {}
  /\ worker = [w \in Workers |-> "none"]
  /\ conn = [w \in Workers |-> NoConn]
  /\ made = {} /\ backlog = {}
  /\ bg = "none" /\ term = "none"

(* Where the main thread goes; HCV_FATALOUT, an uncaught exception and a   *)
(* crash end the process where it is.                                      *)
GoTo(loc)  == main' = loc /\ UNCHANGED outcome
Ends(how)  == outcome' = how /\ UNCHANGED main

-----------------------------------------------------------------------------
(* The main thread *)

(* hcv_webserver_run, up to listen: hcv_weburl is parsed, the handlers are *)
(* registered.                                                             *)
RegisterHandlers ==
  /\ main = "register"
  /\ IF pointer /\ port > 0 THEN GoTo("bind") ELSE Ends("fatal")
  /\ UNCHANGED <<objectVars, socketVars, poolVars, clientVars, bgVars>>

(* Server::bind_internal, called through hcv_webserver.  Another process   *)
(* may have the port; listen then returns false, which nothing tests.      *)
MayBind == euid = "root" \/ port >= 1024

Bind ==
  /\ main = "bind"
  /\ \/ ~pointer /\ Ends("crashed") /\ UNCHANGED sock
     \/ pointer /\ valid /\ MayBind /\ GoTo("announce") /\ sock' = "open"
     \/ pointer /\ GoTo("returned") /\ UNCHANGED sock
  /\ UNCHANGED <<objectVars, listening, poolVars, clientVars, bgVars>>

(* is_running_ = true, then the ThreadPool is built; std::thread throws    *)
(* when the system has no more threads to give.                            *)
Announce ==
  /\ main = "announce"
  /\ listening' = TRUE
  /\ IF threads <= MaxThreads
     THEN GoTo("loop") /\ worker' = [w \in Workers |-> IF w <= threads THEN "check" ELSE "none"]
     ELSE Ends("terminated") /\ UNCHANGED worker
  /\ UNCHANGED <<objectVars, sock, jobs, shutdown, conn, answered, clientVars, bgVars>>

TestSocket ==
  /\ main = "loop"
  /\ GoTo(IF sock = "invalid" THEN "shut" ELSE "select")
  /\ UNCHANGED <<objectVars, socketVars, poolVars, clientVars, bgVars>>

(* select_read waits 0.1 second, and fails on a descriptor that is closed. *)
Select ==
  /\ main = "select"
  /\ GoTo(IF sock = "open" /\ backlog = {} THEN "loop" ELSE "accept")
  /\ UNCHANGED <<objectVars, socketVars, poolVars, clientVars, bgVars>>

(* cond_.notify_one(): one of the sleeping threads, if any, is woken. *)
NotifyNone == UNCHANGED worker
NotifyOne ==
  IF \E w \in Workers : worker[w] = "sleep"
  THEN \E w \in Workers : worker[w] = "sleep" /\ worker' = [worker EXCEPT ![w] = "check"]
  ELSE UNCHANGED worker

(* accept(2) gives a connection, enqueued as a job. *)
Accept(c) ==
  /\ main = "accept"
  /\ sock = "open" /\ c \in backlog
  /\ backlog' = backlog \ {c}
  /\ jobs' = Append(jobs, c)
  /\ NotifyOne
  /\ GoTo("loop")
  /\ UNCHANGED <<objectVars, socketVars, shutdown, conn, answered, made, bgVars>>

(* accept(2) fails: on the socket that stop() has closed; for lack of file *)
(* descriptors, and it is tried again; for any other reason (the client    *)
(* gave up), and the server closes its socket and ends.                    *)
AcceptFails ==
  /\ main = "accept"
  /\ \/ sock # "open" /\ GoTo("shut") /\ UNCHANGED sock
     \/ sock = "open" /\ GoTo("loop") /\ UNCHANGED sock
     \/ sock = "open" /\ GoTo("shut") /\ sock' = "closed"
  /\ UNCHANGED <<objectVars, listening, poolVars, clientVars, bgVars>>

(* ThreadPool::shutdown: the flag is set under the mutex, the threads are  *)
(* woken after it is released, then joined.                                *)
SetShutdown ==
  /\ main = "shut"
  /\ shutdown' = TRUE
  /\ GoTo("notify")
  /\ UNCHANGED <<objectVars, socketVars, jobs, worker, conn, answered, clientVars, bgVars>>

NotifyAll ==
  /\ main = "notify"
  /\ worker' = [w \in Workers |-> IF worker[w] = "sleep" THEN "check" ELSE worker[w]]
  /\ GoTo("join")
  /\ UNCHANGED <<objectVars, socketVars, jobs, shutdown, conn, answered, clientVars, bgVars>>

Join ==
  /\ main = "join"
  /\ \A w \in Workers : worker[w] \in {"none", "done"}
  /\ GoTo("leave")
  /\ UNCHANGED <<objectVars, socketVars, poolVars, clientVars, bgVars>>

Leave ==
  /\ main = "leave"
  /\ listening' = FALSE
  /\ GoTo("returned")
  /\ UNCHANGED <<objectVars, sock, poolVars, clientVars, bgVars>>

(* main returns; the destructor of hcv_bgthread, still joinable since      *)
(* nothing joins or detaches it, calls std::terminate.                     *)
EndMain ==
  /\ main = "returned"
  /\ main' = "ended"
  /\ outcome' = IF bg = "none" THEN "exit" ELSE "terminated"
  /\ UNCHANGED <<objectVars, socketVars, poolVars, clientVars, bgVars>>

MainServing ==
  \/ RegisterHandlers \/ Bind \/ Announce \/ TestSocket \/ Select
  \/ AcceptFails \/ SetShutdown \/ NotifyAll \/ Join \/ Leave \/ EndMain
  \/ \E c \in Conns : Accept(c)

-----------------------------------------------------------------------------
(* A thread of the pool: what ThreadPool::worker::operator() does between  *)
(* two waits.  The predicate is tested and the job taken under the mutex.  *)

CanStopEarly == shutdown
CanStop == shutdown /\ jobs = <<>>

StopWorker(w) ==
  /\ worker[w] = "check" /\ CanStop
  /\ worker' = [worker EXCEPT ![w] = "done"]
  /\ UNCHANGED <<jobs, conn, answered>>

TakeJob(w) ==
  /\ worker[w] = "check" /\ jobs # <<>>
  /\ jobs' = Tail(jobs)
  /\ conn' = [conn EXCEPT ![w] = Head(jobs)]
  /\ worker' = [worker EXCEPT ![w] = "serve"]
  /\ UNCHANGED answered

WaitBlindly(w) ==
  /\ worker[w] = "check" /\ ~shutdown
  /\ worker' = [worker EXCEPT ![w] = "sleep"]
  /\ UNCHANGED <<jobs, conn, answered>>
Wait(w) ==
  /\ worker[w] = "check" /\ jobs = <<>> /\ ~shutdown
  /\ worker' = [worker EXCEPT ![w] = "sleep"]
  /\ UNCHANGED <<jobs, conn, answered>>

EndJobReset(w) ==
  /\ worker[w] = "serve"
  /\ conn' = [conn EXCEPT ![w] = NoConn]
  /\ answered' = answered \cup {conn'[w]}
  /\ worker' = [worker EXCEPT ![w] = "check"]
  /\ UNCHANGED jobs
(* process_and_close_socket returns: the client closed the connection, was *)
(* silent for five seconds, or got its last answer (see Requests).         *)
EndJob(w) ==
  /\ worker[w] = "serve"
  /\ answered' = answered \cup {conn[w]}
  /\ conn' = [conn EXCEPT ![w] = NoConn]
  /\ worker' = [worker EXCEPT ![w] = "check"]
  /\ UNCHANGED jobs

(* Some jobs never end: MultipartFormDataParser loops for ever on a form   *)
(* cut in the headers of a part, and a client that sends a line one byte   *)
(* every few seconds is waited for without limit.  Such a job uses its     *)
(* connection only, not the Server.                                        *)
Stick(w) ==
  /\ worker[w] = "serve"
  /\ worker' = [worker EXCEPT ![w] = "stuck"]
  /\ UNCHANGED <<main, outcome, objectVars, socketVars, jobs, shutdown, conn, answered, clientVars, bgVars>>

(* A condition variable may wake a thread for no reason. *)
WakeSpuriously(w) ==
  /\ worker[w] = "sleep"
  /\ worker' = [worker EXCEPT ![w] = "check"]
  /\ UNCHANGED <<jobs, conn, answered>>

WorkerStep(w) ==
  /\ StopWorker(w) \/ TakeJob(w) \/ Wait(w) \/ EndJob(w)
  /\ UNCHANGED <<main, outcome, objectVars, socketVars, shutdown, clientVars, bgVars>>

Spurious(w) ==
  /\ WakeSpuriously(w)
  /\ UNCHANGED <<main, outcome, objectVars, socketVars, shutdown, clientVars, bgVars>>

-----------------------------------------------------------------------------
(* The background thread, when SIGTERM is in its signalfd *)

TakeTerm ==
  /\ bg = "loop" /\ term = "pending"
  /\ bg' = "stop" /\ term' = "taken"
  /\ UNCHANGED <<main, outcome, objectVars, socketVars>>

StopServerIdle ==
  /\ bg = "stop"
  /\ IF pointer
     THEN /\ bg' = "delete"
          /\ sock' = IF listening THEN sock ELSE "invalid"
          /\ UNCHANGED outcome
     ELSE outcome' = "fatal" /\ UNCHANGED <<bg, sock>>
  /\ UNCHANGED <<main, objectVars, listening, term>>

(* hcv_stop_web: HCV_ASSERT(hcv_webserver), then Server::stop, which does  *)
(* nothing unless is_running_.                                             *)
StopServer ==
  /\ bg = "stop"
  /\ IF pointer
     THEN /\ bg' = "delete"
          /\ sock' = IF listening THEN "invalid" ELSE sock
          /\ UNCHANGED outcome
     ELSE outcome' = "fatal" /\ UNCHANGED <<bg, sock>>
  /\ UNCHANGED <<main, objectVars, listening, term>>

DeleteServer ==
  /\ bg = "delete"
  /\ server' = "deleted"
  /\ bg' = "null"
  /\ UNCHANGED <<main, outcome, pointer, valid, port, euid, threads, socketVars, term>>

(* hcv_webserver = nullptr, then hcv_close_database (see Database). *)
ClearPointer ==
  /\ bg = "null"
  /\ pointer' = FALSE
  /\ bg' = "close"
  /\ UNCHANGED <<main, outcome, server, valid, port, euid, threads, socketVars, term>>

(* HCV_ASSERT(hcv_dbconn) fails when no database is configured, and a      *)
(* transaction in progress makes the constructor of another throw (see     *)
(* Database).                                                              *)
CloseDatabase ==
  /\ bg = "close"
  /\ \/ bg' = "ended" /\ UNCHANGED outcome
     \/ outcome' \in {"fatal", "terminated"} /\ UNCHANGED bg
  /\ UNCHANGED <<main, objectVars, socketVars, term>>

BackgroundStep ==
  /\ TakeTerm \/ StopServer \/ DeleteServer \/ ClearPointer \/ CloseDatabase
  /\ UNCHANGED <<poolVars, clientVars>>

-----------------------------------------------------------------------------
(* The environment *)

Connect(c) ==
  /\ c \notin made
  /\ sock = "open"
  /\ made' = made \cup {c}
  /\ backlog' = backlog \cup {c}
  /\ UNCHANGED <<main, outcome, objectVars, socketVars, poolVars, bgVars>>

SendTerm ==
  /\ term = "none" /\ bg # "none"
  /\ term' = "pending"
  /\ UNCHANGED <<main, outcome, objectVars, socketVars, poolVars, clientVars, bg>>

UseDeleted ==
  /\ server = "deleted"
  /\ \/ main \in Listening \ {"join"} \/ (main \in {"register", "bind"} /\ pointer)
     \/ \E w \in Workers : worker[w] = "serve"
  /\ Ends("crashed")
  /\ UNCHANGED <<objectVars, socketVars, poolVars, clientVars, bgVars>>

ServerNext ==
  /\ outcome = "run"
  /\ \/ MainServing \/ BackgroundStep \/ SendTerm \/ UseDeleted
     \/ \E w \in Workers : WorkerStep(w) \/ Stick(w) \/ Spurious(w)
     \/ \E c \in Conns : Connect(c)

-----------------------------------------------------------------------------
(* Properties *)

ServerTypeOK ==
  /\ outcome \in Outcomes
  /\ server \in {"none", "alive", "deleted"}
  /\ pointer \in BOOLEAN /\ valid \in BOOLEAN /\ port \in Nat
  /\ threads \in Nat
  /\ sock \in {"invalid", "open", "closed"} /\ listening \in BOOLEAN
  /\ jobs \in Seq(Conns) /\ shutdown \in BOOLEAN
  /\ worker \in [Workers -> {"none", "check", "sleep", "serve", "stuck", "done"}]
  /\ conn \in [Workers -> Conns \cup {NoConn}]
  /\ made \subseteq Conns /\ backlog \subseteq made /\ answered \subseteq made
  /\ bg \in {"none", "loop", "stop", "delete", "null", "close", "ended"}
  /\ term \in {"none", "pending", "taken"}

(* A connection in the queue is never forgotten: some thread of the pool   *)
(* has not gone, and threads sleep only while those that are awake and     *)
(* free are enough for the queue, although notify_one may wake a thread    *)
(* that finds its job taken by another, and shutdown wakes the threads     *)
(* after its flag is visible.                                              *)
Checking == {w \in Workers : worker[w] = "check"}
NoJobForgotten ==
  /\ jobs # <<>> => \E w \in Workers : worker[w] \in {"check", "serve", "stuck"}
  /\ (\E w \in Workers : worker[w] = "sleep") => Len(jobs) <= Cardinality(Checking)

(* No thread of the pool sleeps when shutdown waits for it. *)
NoneSleepsAtJoin ==
  main = "join" => \A w \in Workers : worker[w] # "sleep"

Pool == INSTANCE TaskQueue WITH
  Tasks    <- Conns,
  waiting  <- jobs,
  running  <- {conn[w] : w \in {v \in Workers : worker[v] \in {"serve", "stuck"}}},
  finished <- answered,
  closed   <- main \in {"leave", "returned", "ended"} /\ shutdown

(* The pool is the task queue listen needs: connections are served in the  *)
(* order they were accepted, each once, and shutdown returns when all are  *)
(* answered.                                                               *)
PoolSpec == Pool!Spec

(* SIGTERM ends a server that listens: after hcv_stop_web has found it     *)
(* running, whatever deleting it does, the process goes on for ever only   *)
(* when shutdown waits for threads whose jobs never end, and for no other. *)
OnlyStuckLeft ==
  /\ main = "join"
  /\ \A w \in Workers : worker[w] \in {"none", "done", "stuck"}
  /\ \E w \in Workers : worker[w] = "stuck"
ListeningTermEnds == (bg = "stop" /\ listening) ~> (outcome # "run" \/ OnlyStuckLeft)

(* Every connection that is accepted gets its answer, unless the process   *)
(* ends first, the job of the connection never ends, or the jobs that      *)
(* never end have taken all the threads: fewer of them delay nobody for    *)
(* ever.                                                                   *)
Queued(c) == \E i \in DOMAIN jobs : jobs[i] = c
StuckOn(c) == \E w \in Workers : worker[w] = "stuck" /\ conn[w] = c
AllStuck == \A w \in Workers : worker[w] \in {"none", "stuck"}
EveryConnectionAnswered ==
  \A c \in Conns : Queued(c) ~> (c \in answered \/ StuckOn(c) \/ AllStuck \/ outcome # "run")
==============================================================================
