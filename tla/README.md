# TLA+ models of HelpCovid

HelpCovid is a C++17 web application: an HTTP(S) server over cpp-httplib, a
PostGreSQL database over libpqxx, HTML templates, plugins, and a background
thread that runs postponed jobs and handles Unix signals. This directory holds
TLA+ models of it, the TLC configurations that check them on small instances,
and theorems about them checked by TLAPS.

Contents: [inventory](#inventory), [the modules](#the-modules),
[the runs](#the-runs), [fairness](#fairness), [proofs](#proofs),
[what the code does otherwise than it says](#what-the-code-does-otherwise-than-it-says),
[not modelled](#not-modelled), [how to run](#how-to-run).

## Inventory

The process has one main thread, which initialises everything and then listens;
`helpcovid/threads` worker threads of cpp-httplib's pool, which run the request
handlers; and one background thread. They share global variables, each family
under a mutex of its own.

| Component | State | Operations | Interacts with | What makes it correct | Module |
|---|---|---|---|---|---|
| Background thread (`hcv_background.cc`) | `hcv_todo_map` under `hcv_todo_mtx`, an eventfd, a signalfd, a timerfd, `hcv_should_stop_bg_thread` | start, stop, postpone a job, poll, run a job, handle SIGTERM, SIGHUP, SIGXCPU, SIGPIPE | any thread posts jobs; SIGTERM closes the web server and the database | no job lost, doubled or run out of order; wake-ups not lost; nothing runs after the shutdown; SIGTERM ends the thread | `Background` |
| Database connection (`hcv_database.cc`, `hcv_models.cc`) | `hcv_dbconn` under `hcv_dbmtx`, the one active transaction of the connection, the prepared statements | register a web cookie, run a prepared statement, look an e-mail up, close | called by handlers in worker threads, closed by the background thread | a cookie names its own row; no transaction on a closed connection; no path keeps the mutex | `Database` |
| Registry of processes (`hcv_database.cc`) | table `tb_helpcovidinstance`, `hcv_database_serial` | register, clear the database, unregister | several processes on one database | one row per running process, removed by its owner only | `Instances` |
| Accounts (`hcv_database.cc`, `hcv_models.cc`) | tables of users, passwords, sessions, e-mail confirmations | validate, create and authenticate a user; open, ping, close a session; delete dormant users | stored functions, one transaction each | no session without user; a session that is over stays over | `Accounts` |
| Web server (`hcv_web.cc`, `hcv_main.cc`, `httplib.h`) | `hcv_webserver`, its socket, its pool of threads and their queue | listen, accept, serve, stop, delete | `hcv_stop_web` runs in the background thread while main listens | no connection forgotten; SIGTERM ends it | `WebServer`, `TaskQueue` |
| Requests (`hcv_web.cc`, `hcv_views.cc`, `httplib.h`) | `hcv_web_request_counter`, the response of each worker | read, route, count, view, error page, write, keep alive | templates, database | unique numbers, fitting answers, closings announced | `Requests` |
| Templates (`hcv_template.cc`, `hcv_views.cc`) | `hcv_template_expander_dict` under `hcv_template_mtx` | register, forget a closure, expand a file or a string | closures call back into other parts, with the mutex held | a page is its template; no closure runs once forgotten | `Pages` |
| Chunk maps (`hcv_chunkmap.cc`) | `hcv_globchunk_map` under its mutex | parse a file, merge, look up | messages of templates | the first definition stays | `ChunkMap` |
| Plugins (`hcv_plugins.cc`) | `hcv_plugin_vect` under `hcv_plugin_mtx` | load, initialise for the database and for the web | plugin code calls every other part | each initialised once; order of locks | `Plugins`, `Locks` |
| Start (`hcv_main.cc`) | options, environment, configuration; number of threads, effective user, pid file | parse, load, make the server, seteuid, command, initialise | all | sane pool, the right account | `Program`, `Options` |
| Random numbers, scripts | - | - | - | see [not modelled](#not-modelled) | - |

The hazards each of them is exposed to are listed in `PROJECT.json`, at the
line where they bite, with the properties that cover them. In short:

- *interleaving*: one connection and one session shared by the workers, with a
  mutex that a prepared statement gives back before its transaction ends; a
  registry cleared under the processes that are in it; a sign-in while dormant
  users are deleted; one counter for all requests;
- *ordering*: wake-ups that merge in an eventfd, a notify that reaches a thread
  too late, a timer armed by one branch of an iteration and read by the next;
  SIGTERM before `listen`, or `main` returning before the background thread;
- *deadlock*: jobs, closures and initialisers that run with a mutex held;
- *partial failure*: a commit in doubt, a statement that throws, a plugin
  without initialiser, a negative identifier met by an assertion;
- *crash*: processes that end without unregistering;
- *liveness*: jobs of the pool that never end, transactions and mutexes kept by
  who failed;
- *sequences*: a start without a database, an effective user taken too late;
- *boundaries*: the size of the queue, jobs due at the same instant, the last
  request of a connection, `hardware_concurrency() - 1` on unsigned integers.

## The modules

| Module | Models | Proofs |
|---|---|---|
| `TodoQueue` | abstract: what a poster of jobs may rely on | |
| `Background` | `hcv_background.cc`; implements `TodoQueue` | `BackgroundProofs` |
| `CookieLedger` | abstract: what a browser that gets a cookie may rely on | |
| `Database` | `hcv_dbconn` under its users; implements `CookieLedger` | `DatabaseProofs` |
| `Instances` | `tb_helpcovidinstance` under several processes | `InstancesProofs` |
| `Accounts` | users and sessions, the stored functions, the models | `AccountsProofs` |
| `Options` | how options, environment and configuration give parameters (operators) | `ProgramProofs` |
| `TaskQueue` | abstract: what `listen` needs of its pool | |
| `WebServer` | the server object under main, its pool and the background thread; implements `TaskQueue` | `ProgramProofs` |
| `Program` | `main`; composes `Options` and `WebServer` | `ProgramProofs` |
| `Requests` | what a worker does with a connection | `RequestsProofs` |
| `ChunkMap` | parser, merge and lookup of chunk files (operators) | `PagesProofs` |
| `Pages` | templates, closures and messages; uses `ChunkMap` | `PagesProofs` |
| `Locks` | the mutexes and the functions that hold them | `LocksProofs` |
| `Plugins` | plugins next to the other threads; implements `Locks` | `LocksProofs` |
| `MC...` | symmetry sets and constants for TLC | |

The parts meet at named steps: a job of `WebServer` is a connection of
`Requests` (`ConnectionEnds` is why `EndJob` is fair, and its "spin" a reason for
`Stick`); the view of a page in
`Requests` is an expansion of `Pages`, and its cookie a request of `Database`;
`CloseDatabase` of `WebServer` is the closing in `Database` and `Instances`;
`Terminate` of `Background` is what `StopServer` starts; `InitializeDatabase` of
`Program` is the start of a process in `Instances`.

Some modules hold, beside an action, a variant of it named for a slip one could
make there (`InsertOverwriting` beside `Insert`). The specifications do not use
these: they are what the properties have been tested against, and `PROJECT.json`
says which property each one breaks.

### Background

A step is what the thread does between two points where another thread can
intervene. `todo` is the map from due times to jobs, `eventCount`, `timer` and
`pending` are what the three descriptors hold, `ready` is the `revents` of the
last `poll`, `call` the postponement each poster has started and not finished.
`fate` and `due` are history variables: what became of each job and the due time
it was posted with.

| Code | Actions |
|---|---|
| `hcv_do_postpone_background` | `CallPostpone` (due time computed, before the mutex), `FinishPostpone` (under the mutex, with the write to the eventfd), `PostponeFromJob` (the same from inside a job, which already holds the recursive mutex) |
| `hcv_start_background_thread`, `hcv_stop_background_thread` | `StartThread`, `StopThread` |
| `hcv_background_thread_body` | `LoopTest`, `Poll`, `ReadEvent`, `ReadSignal`, `ReadTimer`: one iteration serves the event, the signal and the timer in that order, from one `revents` |
| `hcv_bg_do_event` | `NothingTodo`, `StartJob`, `FinishJob`: a job runs between the last two, with the mutex held |
| `hcv_process_SIG*_signal` | `Terminate`, `HandleSignal` |
| kernel | `Kill`, `Tick` |

Time is counted in ticks and starts at 1, so that 0 means a disarmed timer as in
`timerfd_settime`. A due time is a `double` in the code; two of them collide
when equal, as ticks do. A write to descriptor 0 before the thread is started is
taken to succeed. `EarlyPosts` lets jobs be posted before
`hcv_start_background_thread` creates the eventfd: their wake-up is lost, so that
`TimerGuardsQueue` holds, and is stated, for posts after the start; everything
else is proved, and the liveness checked, with early posts too. That there may
be no database connection at SIGTERM is a disjunct of `Terminate`. HCV_FATALOUT is the location `aborted`. The log line of a poll
that times out is left out.

### Database

A step is a lock, an unlock, or one call into libpqxx. `txn` is the thread whose
`pqxx::work` is active: the constructor of a second one on the connection throws
`usage_error`, and a transaction destroyed without a commit is rolled back.
`nextval` and `lastval` are the sequence of `tb_web_cookie` and the `LASTVAL()` of
the session; a rollback undoes neither. `rows` are the committed rows, `sent` the
identifier in the cookie of each request.

| Code | Actions |
|---|---|
| `hcv_database_get_id_of_added_web_cookie` | `CookieBegin`, `CookieInsert`, `CookieLastval`, `CookieCommit`, `CookieUnlock`; `Catch` is its handler |
| `hcv_web_make_cookie_string`, `hcv_web_register_fresh_cookie` | `CookieMake`, with the assertion on the identifier |
| `Hcv_PreparedStatement` | `StatementBegin`, `StatementUnlock` (end of the constructor), `Query`, `CommitQuery` |
| `hcv_database_with_known_email` | `LookupBegin`, `Query`, `CommitQuery` |
| `hcv_close_database`, called on SIGTERM | `StopWeb`, `CloseBegin`, `CloseDelete`, `CloseCommit`, `CloseReset`, `CloseUnlock` |

`DbFails` lets any statement or commit fail, a commit also after the server
committed (the connection broke before the answer). An exception in a handler
is answered with an error page by cpp-httplib; one in the background thread
ends the process (`terminated`), a null `hcv_dbconn` too (`segfault`), and so does
HCV_ASSERT (`aborted`). `StatementKnown` says whether the name the user model asks
for is prepared: the repository registers `user_create_pstm` and asks for
`user_create`, so it is not; both values are checked. Nobody in the repository
calls `hcv_database_with_known_email`; it is modelled as plugins may use it.
The external services (PostGreSQL, libpqxx, cpp-httplib) appear only as far as
the code depends on them.

### Instances

`rows` maps `hcvinst_id` to the process that inserted it, `serial` is each
process's `hcv_database_serial`. `dispossessed` is a history variable: the starts
that lost their row while they served. Statements of a transaction are seen by others at
its commit: `creator` holds the uncommitted table, `victims` the uncommitted
DELETE. A process is a place (`p`) and the number of its start, so that a place
that crashes and starts again is another process. `Crash` happens anywhere:
`abort`, an uncaught exception, SIGHUP, SIGXCPU, kill -9.

| Code | Actions |
|---|---|
| `hcv_initialize_database` | `Connect`, `Clear` (with `--clear-database`), `CreateTable`, `Insert`, `CommitInsert` |
| `hcv_close_database` | `Unregister`, `CommitUnregister` |

A process that dies without unregistering leaves its row for ever, as nothing in
the code looks for such rows; `StaleRowsAreOfCrashes` says that only crashes do.
Nothing keeps `--clear-database` from dropping the registry under the processes
that serve: `Clear` may happen at any time that its locks allow. Such a process
has lost its row, and the number it keeps may be given again to another, whose
row its `Unregister` then deletes, and that one has lost its row as well.
`ServingIsRegistered` and `DeletesOnlyOwnRow` name that exception (`Lost`), and say
that nobody else is touched; that every process that serves has a row is false
(`EachServingProcessHasARow`, below).

### Accounts

Each call of a stored function is a transaction of its own, so each is a step,
but for the two that interfere through row locks: `open_session` holds the row
of its user until its commit (`opening`), and `delete_dormant_users` chooses its
users in the rows committed when it starts (`doomed`) and deletes them when
nobody holds their rows. Time is counted in session lengths of one hour.

| Code | Actions |
|---|---|
| `hcv_user_model_validate`, `_create`, `_authenticate` | `Validate`, `CreateUser`, `Authenticate` |
| `open_session`, `close_session`, `ping_session` | `OpenSession`, `CommitSession`, `LoseSession`; `CloseSession`; `Ping` |
| `delete_dormant_users` | `FindDormant`, `DeleteDormant` |
| `create_new_user`, `verify_email_token`, `get_email_verification_token`, `is_session_valid` | `CallBroken`: they name columns that do not exist, or select into nothing |
| outside | `InsertUser`, `Tick` |

### Program, Options, WebServer, TaskQueue

`Program` is `main` step by step until the background thread is started, from a
`setup`: how the program is started, its option, environment and configuration
values. Each step is one function or one group of statements of `main`, with
its fatal errors (`Ends("fatal")` is HCV_FATALOUT, "terminated" an exception
nobody catches). Unsigned numbers wrap (`Unsigned`), at `MaxUnsigned`.
`WebServer` takes over at `RegisterHandlers`.

| Code | Actions |
|---|---|
| `hcv_early_initialize`, `hcv_parse_program_arguments`, `hcv_load_config_file` | `EarlyInitialize`, `ParseArguments`, `LoadConfigFile` |
| keys of `[helpcovid]`, `hcv_initialize_web`, `hcv_set_euid` | `ConfigThreads`, `ConfigKeys`, `MakeServer`, `SetEuid` |
| `hcv_config_handle_helpcovid_config_group`, pid file, database | `HandleGroup`, `WritePid`, `InitializeDatabase` |
| `hcv_start_background_thread` | `StartBackground`; `Killed` is SIGTERM before it |
| `hcv_webserver_run`, `Server::bind_internal`, `listen_internal` | `RegisterHandlers`, `Bind`, `Announce`, `TestSocket`, `Select`, `Accept`, `AcceptFails`, `Leave` |
| `ThreadPool` | `NotifyOne` in `Accept`, `SetShutdown`, `NotifyAll`, `Join`; per thread `StopWorker`, `TakeJob`, `Wait`, `EndJob`, `WakeSpuriously`; `Stick` for a job that never ends |
| `hcv_stop_web` | `TakeTerm`, `StopServer`, `DeleteServer`, `ClearPointer`, `CloseDatabase` |
| end of `main` | `EndMain` |

The use of the deleted server is undefined: `UseDeleted` is a crash, and every
other action that uses it may also find the memory as it was. A job that is
"stuck" is one whose form the parser loops over, or whose client sends a byte now
and then for ever: it keeps its thread, and `Join` waits for it. `CloseDatabase`
ends the process when there is no database or a transaction is in progress
(`Database` says when).

### Requests

One worker per connection, each with its program counter `loc`. A message is
what decides the path of a request: the verdict of the parser on its line and
headers, method, path, version, the headers `Connection` and `Range`, the body.

| Code | Actions |
|---|---|
| `detail::process_socket` | `TakeConnection`, `Receive`, `GiveUp`, `NextRequest` with `Onwards` |
| `Server::process_request` | `ReadRequest` (`NoLine`, `Refuse`, `ReadHeaders`, `RangeOverflows`) |
| `Server::routing`, `handle_file_request`, `read_content` | `Route` (`ServeFile`, `GoOn`), `ReadContent` (`Read`, `Stick`) |
| `Server::dispatch_request`, `hcv_incremented_request_counter` | `Dispatch` (`Call` with `Count`, `NoHandler`) |
| handlers of `hcv_webserver_run`, `hcv_views.cc` | `View`: `PageView`, `EmptyView`, `StatusView`, `LoginView`, `PluginView` |
| `Server::write_response`, `hcv_web_error_handler` | `WriteResponse`, `ErrorNumber`, `EndsInWriting` |

Of a time-out and the end of a connection only the result is kept (`GiveUp`).
`MaxRequests` bounds the counter.

### ChunkMap and Pages

`ChunkMap` has no variables: `ParseLine` is the automaton of
`hcv_parse_chunk_map`, `Parse` its fold over the lines of a file, `Merge` what
`hcv_add_chunkmap_file` does with the result, `Entry` the lookup. A line is the
kind its tests tell apart and the parts `sscanf` takes from it; a chunk body is a
sequence of texts. The bound on the bytes of a file is left out beside that on its
lines, which is the same check.

`Pages` has the main thread load chunk files and register closures, then workers
expanding templates, which are sequences of lines of tokens. What a closure
writes is a pair of its name and of what it depends on.

| Code | Actions |
|---|---|
| `hcv_config_handle_helpcovid_config_group` | `AddChunkFile` |
| plugin initialisers, `hcv_initialize_templates` | `InitializeDatabasePlugins`, `InitializeTemplates`, `InitializeWebPlugins` with `Register` |
| `hcv_expand_template_file`, `_input_stream`, `_string` | `BeginPage`, `CopyLine`, `FindMarkup`, `SendPage`, `EndPage` |
| `hcv_expand_processing_instruction` | `InvalidInstruction`, `UnknownInstruction`, `EnterClosure`, `LeaveClosure`: the closure runs between the last two, under `hcv_template_mtx` |
| the closures, `hcv_view_expand_msg` | `Expansion` and the operators it names |
| `hcv_forget_template_expander` | `ForgetExpander` |

### Locks and Plugins

A thread of `Locks` is the stack of the guarded functions it is in; `Calls` says
which guarded functions each one calls while it holds its mutex, `JobCalls`,
`ClosureCalls` and `InitializerCalls` what foreign code may. `Level` is the order
the program keeps: plugins, jobs, templates, configuration, chunks, database,
syslog. A function stands for those that guard the same mutex and call the same
others. `Plugins` is `main` loading (`LoadPlugin`) and initialising
(`InitializePlugin`, `Initialized`) them while the other threads come to life.
`database` says whether the configuration names a database: without one
`hcv_initialize_database` returns before it prepares statements and runs the
database initialisers, and `Advance` skips that phase. In `Pages` such a process
is one whose plugins register nothing in that phase (`DbRegisters` = {}).

## The runs

Deadlock is checked in `accounts` only: the other models stop when their bounded
supply of jobs, requests, starts or nested calls is used up, or the process ends.

| Run | Bounds | Shows |
|---|---|---|
| `background` | 3 jobs, a poster besides the jobs, which post too, delays below and above the limits 1 and 2, one signal of 3 kinds (SIGXCPU is handled as SIGHUP), clock to 2, queue limit 1 | `TypeOK`, `QueueHoldsQueuedJobs`, `QueueBounded`, `EarliestFirst`, `NoJobAfterShutdown`, `TimerGuardsQueue`; `QueueSpec` (refinement of `TodoQueue`); `WakeupStartsAJob`, `TermEndsThread` |
| `database` | 2 workers, 4 requests, statements fail | `TypeOK`, `CookieIsOwnRow`, `ConnectionOutlivesTransactions`, `RegisteredUntilClosed`; `LedgerSpec` (refinement of `CookieLedger`); `EveryCallEnds` |
| `instances` | 3 places, 4 starts, cleared at any time | `TypeOK`, `ServingIsRegistered`, `StaleRowsAreOfCrashes`, `DeletesOnlyOwnRow` |
| `pages` | 2 workers, 2 requests, 5 templates, 2 of 4 chunk files in any order, one closure forgotten | `TypeOK`, `PageIsItsTemplate`, `RunningIsRegistered`, `DefinitionsKept` |
| `program` | some 400 ways to start, 7 of which serve; 2 or 3 pool threads, 3 connections, any jobs stuck, numbers to 1000 | `TypeOK`, `ThreadsBounded`, `RunsAsRequested`, `NoJobForgotten`; `PoolSpec` (refinement of `TaskQueue`); `ListeningTermEnds`, `EveryConnectionAnswered` |
| `requests` | 2 workers, 15 messages, 2 requests a connection, 3 numbered ones | `TypeOK`, `NumbersUnique`, `AnswerFits`, `CloseIffAnnounced`, `ConnectionEnds` |
| `plugins` | 4 threads, stacks of 4, 3 lists of options, with a database and without | `NoCircularWait`, `PluginsInitialized` |
| `accounts` | 2 users, 2 sessions, dormancy of 1 session length, clock to 5 | `TypeOK`, `NoOrphanSession`, `OverForGood` |

Why these bounds. *Background*: the queue's order, its limit and the merging of
wake-ups need two jobs waiting and a third one running or arriving, while a
thread and a running job post; a call whose due time is computed before the
mutex is taken races with the posts of that job and with the clock, and delays 0
and 3 use both ends of the clamping. That two threads post changes nothing for
the safety properties, which are theorems for any number of posters. *Database*: one
worker can hold the mutex, the other a transaction without it (only prepared
statements do), and the closer wait; a fourth request lets a worker come back.
*Instances*: two processes interfere, and a third can start or end between two
statements of one of them, or clear the database; the fourth start reuses a
place after a crash, or a number after a clearing.
*Pages*: templates cover what the scanner tells apart, regular, unclosed,
misplaced and fatal markup; two requests at a time make the numbers and the
mutex matter; two files may define one name twice; the one Accept-Language header
has two codes, for the first of which one file has a message. *Program*: a lost wake-up
needs a sleeping thread, a busy one and a queued connection; the third
connection arrives while both of two threads are busy or the pool is being shut
down. Each start differs from a plain one in one or two parameters, as the code
reads its parameters independently of one another. *Requests*: a connection
that may go on and one that may not, two workers counting at once, and a message
for each path of the code. *Plugins*: main, the background thread and two
workers can hold the mutexes of any cycle of the order, and four levels are the
longest chain of nested calls that code and plugins use here. *Accounts*: one
user signs in while the other or the same one is deleted; five session lengths
let a user become dormant after a sign-in. The theorems say that nothing proved
depends on these numbers.

The other four runs each show one statement of the documentation or of the code
that the code does not fulfil, see
[below](#what-the-code-does-otherwise-than-it-says).

## Fairness

`Background!FairSpec` has weak fairness of the thread's steps, of each poster's
critical section (a lock that is free again and again is granted; the closures
themselves return), of the start by `main` and of the clock. Nothing is assumed
of the arrival of jobs or signals. `Database!FairSpec` has weak fairness of each
worker's and of the closer's steps: a thread that can run does, statements
return, and a mutex that stays free is taken. With a bounded number of requests
a mutex cannot be taken away from a waiting thread for ever, so that weak
fairness is enough. Requests and SIGTERM come or do not.

`Program!FairSpec` has weak fairness of the main thread, of the background
thread and of each thread of the pool, which the scheduler gives them. It
includes `EndJob`: a job that is not stuck ends because cpp-httplib bounds the
requests of a connection and the time it waits for each read, which is what
`ConnectionEnds` checks in `Requests`. It bounds neither the parser's loop over a
form cut in the headers of a part nor the time a client takes that sends its
bytes one by one: `Stick` lets any job get stuck, at any time, and the two
liveness properties of `program` name these jobs and only these.
`ListeningTermEnds`: the process ends, or nothing is left but a `join` that waits
for stuck jobs. `EveryConnectionAnswered`: a connection waits for ever only if
its own job is stuck, or all threads are. Nothing is assumed of SIGTERM, of
spurious wake-ups and of crashes.
`Requests!FairSpec` has weak fairness of each worker's steps, reads included:
a read ends within five seconds, with or without data, and clients are assumed
to send lines, headers and bodies that end.

`EveryCallEnds`, `ListeningTermEnds`, `EveryConnectionAnswered` and
`ConnectionEnds` allow the death of the process; the code does end it, with an
assertion or an exception, in the cases named.

## Proofs

All theorems are of the specification for every value of the constants that
the named assumptions allow; no theorem assumes fairness or a bound on threads.

| Theorem | Says | Argument |
|---|---|---|
| `QueueInvariant` | `Spec => []QueueInv` | inductive: to `QueueHoldsQueuedJobs` one adds that a call in progress owns its job (two posters never insert the same one) and that the job marked as running is the one the thread is in (`CallsOwnTheirJobs`, `OnlyRunningJobRuns`) |
| `TypeCorrect`, `QueueConsistent` | the two parts of it | |
| `QueueStaysBounded` | `[]QueueBounded` | cardinality of a domain with one element more; needs only that the domain is finite |
| `EarliestRunsFirst` | `EarliestFirst` | the map holds the queued jobs under their due times, and its first key is taken |
| `NoJobStartsAfterShutdown` | `NoJobAfterShutdown` | `ShutdownIsFinal`: once something is closed, only the timer branch and the loop test are left, and the latter ends the thread |
| `TimerGuards` | `[]TimerGuardsQueue`, for posts after the start | `NothingPostedBeforeStart` and the queue invariant: each insertion owes a wake-up, each job that ends arms the timer |
| `ImplementsQueue` | `Spec => QueueSpec` | the jobs queued with their due times are the abstract queue; all steps but an insertion and the start of a job are stutters |
| `DatabaseInvariant` | `Spec => []DatabaseInv` | `Exclusion`: mutex and transaction belong to those who think so; `OwnIdentifier`: between INSERT and LASTVAL nobody else draws a number, because the transaction is active, mutex or not; `ClosingSteps` |
| `DatabaseTypeCorrect`, `CookiesOwnTheirRows`, `ConnectionIsSafe`, `RegistrationFollowsConnection` | its parts that runs check | |
| `ImplementsLedger` | `Spec => LedgerSpec` | committed rows and sent cookies are the ledger; a commit records, `CookieMake` gives |
| `InstancesInvariant` | `Spec => []InstancesInv` | a number is drawn once from the present sequence by those that did not lose their row (`SerialsDistinct`), one row per start (`RegisteredOnce`), who lost its row gets no other (`LostForGood`), DELETEs of different rows, one's own unless it was lost (`VictimIsOwn`), one creating transaction (`CreatorAlone`) |
| `InstancesTypeCorrect`, `ServingStaysRegistered`, `OnlyCrashesLeaveRows`, `NobodyDeletesOthers` | its parts and the action property | |
| `LocksDeadlockFree` | `LocksSpec => []NoCircularWait` | `Ascending`: what a thread wants comes after all it holds, or is recursive and held already; with `Exclusion`, in a set of waiting threads one that wants the highest mutex waits for nobody |
| `PluginsImplementLocks`, `PluginsDeadlockFree` | the program keeps that discipline | every step of `Plugins` is a step of `Locks` or leaves the stacks alone |
| `RequestNumbersUnique` | `[]NumbersUnique` | the counter only grows and a handler takes the next number |
| `RequestAnswerFits` | `[]AnswerFits` | `Routed`: at each location what is known of the message and the route it took |
| `RequestCloseAnnounced` | `CloseIffAnnounced` | `Connection`: how many requests are left, who asked to close and what was said, at each location |
| `RequestTypes` | `[]TypeOK` | the counter stays in its bound because uncounted requests are reserved in it |
| `AccountTypes`, `SessionsHaveUsers`, `SessionsStayOver` | `TypeOK`, `NoOrphanSession`, `OverForGood` | `AccountsInv`: a row being inserted has a fresh identifier, and its user cannot be deleted before it is committed |
| `ProgramThreadsBounded`, `ProgramRunsAsRequested` | `[]ThreadsBounded`, `[]RunsAsRequested` | `StartInv`: where `args` and `confEuid` come from at each step of `main`, and that nothing later changes `threads` or `euid` |
| `ProgramNoJobForgotten` | `[]NoJobForgotten` | a thread sleeps only when it sees the queue empty, and whoever adds to the queue wakes one more if any sleeps: the threads awake and free are counted against the queue |
| `ProgramImplementsPool` | `Spec => PoolSpec` | connections are made once and move from the backlog to the queue to a thread; shutdown is joined by threads that saw the queue empty, which nothing fills any more |
| `PagesRunRegistered` | `[]RunningIsRegistered` | `RunningInv`: a closure runs under the mutex, in a worker, and names what it runs; once pages are served, the dictionary changes only while nobody holds the mutex |
| `PagesKeepDefinitions` | `DefinitionsKept` | `Merge` keeps the entries of its first argument |
| `PagesTypes` | `[]TypeOK` | `PlaceInv`: a worker that dispatches an instruction is at a line with a markup and a `?>` in it, and scanning goes on behind that `?>`; `RestTypes` |
| `PagesFirstDefinitions` | `[]ChunksAreFirst` | a line that the parser reads adds at most one name, the first time it is defined (`ParsedIsFirst`, by induction over the lines); `Merge` does the same for a file |
| `PagesAreTheirTemplates` | `[]PageIsItsTemplate` | `WrittenInv`, see below |
| `PagesShowOwnNumbers` | `[]NumbersAreOwn`, for regular pages and others | `NumbersInv`: of all closures only that of `request_number` writes a number, and it runs registered (`RunningInv`, `DictInv`) in the worker of the request |
| `PluginsRunOnce` | `[]PluginsInitialized` | `LoadInv`: what is loaded is a prefix of the options without repetition; `RanInv`: what has run is all that precedes the cursor, each before the next, nothing for the database without one |
| `ProgramTypes` | `[]TypeOK` | the types that the invariants above lack, with what `StartInv` and `PoolInv` know |
| `ProgramNoneSleepsAtJoin` | `[]NoneSleepsAtJoin` | `PoolInv`: once shutdown is set and announced, a thread that waits has been woken |

What makes the identifier of a cookie right deserves a sentence: `hcv_dbmtx`
alone would not, since a prepared statement runs outside it. It is libpqxx's
refusal of a second transaction that keeps another thread from drawing a number
of the same session in between; the price is the failed request, which the run
`database_cookie_id` follows to its end.

`PageIsItsTemplate` compares a page with its whole template once it is sent; what
is inductive is what a worker has written at each point of the scan:

- `PlaceInv` and `RunningInv`: where the worker is, and that the closure it runs is
  registered under the name of its instruction;
- `DictInv`: from `hcv_initialize_templates` on, a built-in name that no plugin took
  before belongs to the built-in closure, and only to it;
- `ChunksAreFirst`: the map gives the first definition of each name, so that
  `hcv_view_expand_msg` gives the expected message (`MessageIsExpected`);
- `WrittenInv`: of a regular page, the output is the expected items of the lines
  passed, then those of the tokens before `curpc`, or before the markup that is
  dispatched.

A step then extends the output by what the next tokens are expected to give:
text up to the next markup (`TextWritten`, `WrittenCopies`), nothing for the markup
and its `?>` (`Consumed`), and what the closure writes for the instruction
(`OwnExpansion`, `PluginExpansion`). That the `?>` the search finds is the one that
closes the instruction is `MarkupFound`: the search starts six bytes after `curpc`,
which is no further than the instruction that follows it (`Offsets`). Of a page
that is not regular the theorems say less: its types, and that a request number in
it is its own (`PagesShowOwnNumbers`).

`Offset`, `Parse` and `FlattenSeq` are recursive functions over the data. The
theorem of the library that allows induction over numbers takes an operator as
parameter and cannot be used here; `Induction` states it for a set and comes from
the well-founded order of finite sets. That such a function exists is proved with
it as well, since an equation that defines a function by itself says nothing
before (`ParserRuns`, `FlattenRuns`, `OffsetRuns`).

The theorems assume, besides the kinds of the constants, what the code gives:
files and templates are finite sequences of lines, a line that closes a chunk has a
label (`FilesAssumption`), the tokens of a line have lengths (`TemplatesAssumption`),
options are a finite list, jobs, closures and initialisers call only functions
that `Locks` allows them. TLC evaluates each assumption on the constants of its run.

Only model-checked: the liveness properties (`WakeupStartsAJob`, `TermEndsThread`,
`EveryCallEnds`, `ListeningTermEnds`, `EveryConnectionAnswered`, `ConnectionEnds`):
TLAPS proves neither liveness under fairness nor ENABLED. Every invariant and action
property and every refinement that a run checks is a theorem. The violated
properties are shown by TLC's counterexamples.

## What the code does otherwise than it says

Shown by a run:

| Run | Property | Statement | What happens |
|---|---|---|---|
| `background_starvation` | `EveryJobRuns` | `hcv_header.hh:769` | two posts before one poll: one job is run, the timer fires for the other and its branch does nothing |
| `database_cookie_id` | `CookieIdPositive` | `hcv_web.cc:263` | GET /register during a login: -2 instead of an identifier, and the assertion aborts the server |
| `pages_multi_line` | `MultiLineDefined` | `CUSTOMIZATION.md:59-66` | the end label is zeroed for each line, so that no labelled chunk of several lines is ever closed |
| `requests_head` | `OnlyGetReachesViews` | `hcv_views.cc:101` | HEAD for a page is routed to the GET handler, whose view aborts the process |

Stated in a module and violated under the constants of the named configuration;
add the line to it to see the counterexample:

| Definition | Configuration | Statement | What happens |
|---|---|---|---|
| `JobsArePostponed` | `Background.cfg` | `hcv_header.hh:769` | the wake-up of a post runs the first job at once, whatever its delay |
| `NoJobDropped` | `Background.cfg` | `hcv_header.hh:769` | two jobs due at the same time: `std::map::insert` drops the second |
| `TimerReadSucceeds` | `Background.cfg` | `hcv_background.cc:193` | the event branch arms the expired timer anew; the read that follows fails, which is fatal |
| `TransactionsSerialized` | `DatabaseCookieId.cfg` | `DATABASE.md:63` | a prepared statement's transaction outlives its lock |
| `EachServingProcessHasARow` | `Instances.cfg` | `DATABASE.md:145` | `--clear-database` drops the rows of running processes |
| `PortIsBindable` | `Program.cfg` | none: what a default port suggests | port 80, the default of root, cannot be bound after `seteuid` (`hcv_web.cc:71`) |

Met while modelling; the models do as the code does:

- *Start*: the environment variable looked for is named `$HELPCOVID_NBWORKERTHREADS`,
  dollar included (`hcv_main.cc:462`), and the configuration overrides the option,
  contrary to `README.md:352-358` for `threads`, and for an absolute `pid_file`.
  `--seteuid` is declared but rejected. A startup command that closes its output and
  runs on blocks the start in `pclose`. An https URL without certificate gives a
  plain HTTP server.
- *Server*: `accept` failing for anything but a lack of descriptors ends the
  server. SIGTERM before `listen`, or during it, deletes a server in use; `main`
  returns under the joinable background thread, so that the process always ends by
  `std::terminate`.
- *Requests*: every login is answered 500, for the statement is registered with the
  suffix `_pstm` and asked for without (`hcv_models.cc:101`, `hcv_database.cc:737`). The
  number on an error page is that of another request, or 0. A range that starts
  beyond the body is an exception nobody catches, and so is one whose numbers
  overflow; what fails in the error page ends the process. The headers of a part of a form
  cut by the end of a buffer make the parser loop, and its thread is
  lost: after SIGTERM the process then waits for it for ever. Headers cut short after
  `Connection: close` announce an end that does not come.
- *Pages*: expanding from a stream or a string loses what closures write.
  `html_config` and `basefilepos` without argument never write anything. `lastgitcommit` is registered
  under the name `gitid`, taken already. English is chosen over a French that the browser
  prefers. `confmsg` is fatal. A postponement from a closure, planned in
  `hcv_views.cc:136`, would take `hcv_todo_mtx` under `hcv_template_mtx`, against the
  order of jobs: `CallsCleaningTokens` in `Locks` deadlocks.
- *Accounts*: `ping_session` finds no session, `is_session_valid`, `create_new_user` and
  the functions on e-mail tokens fail on every call. A form that misses a field is
  valid. A user who just signed in may be deleted as dormant. The rows of
  `tb_password` stay when their user goes.
- *Random numbers*: `Hcv_Random::start_deterministic` is never called.

## Not modelled

- The text of cookies, headers, HTML, JSON, log lines and options: layout.
- Parsing of the `Cookie` header and `hcv_web_forget_cookie`, which change no shared
  state; e-mail templates, which nothing expands.
- `Hcv_Random`: a generator per thread, whose values are data.
- The client side, TLS records and compression of cpp-httplib, libpqxx and
  PostGreSQL beyond what the code depends on; pgTAP and the SQL tests.
- Scripts and web pages: not part of the running program.
- The lock modes of PostGreSQL at the creation of the tables. Two processes that
  start at once may each hold a share lock that the other's INSERT waits for; the
  server then aborts one, which `Instances` has as a crash.

## How to run

    tlc -workers 2 -config Background.cfg MCBackground.tla
    tlapm BackgroundProofs.tla

Every run and every proof module ends within five minutes, from nothing.
`PROJECT.json` lists runs, properties, the source lines of each definition,
hazards, findings and theorems.
