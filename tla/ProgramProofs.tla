---------------------------- MODULE ProgramProofs ----------------------------
(* Proofs about Program and WebServer, for any starts, any number of       *)
(* threads and any connections.                                            *)
EXTENDS Program, SequenceTheorems, FiniteSetTheorems, TLAPS

-----------------------------------------------------------------------------
(* The number of threads *)

Bounded(n, cores) == n >= 2 /\ (cores > 0 => n <= 4 \/ n <= cores - 1)

LEMMA UnsignedIsNatural ==
  ASSUME NEW n \in -MaxUnsigned .. MaxUnsigned
  PROVE  Unsigned(n) \in Nat /\ (n >= 0 => Unsigned(n) = n)
BY OptionsAssumption DEF Unsigned

LEMMA EarlyThreadsBounded ==
  ASSUME NEW cores \in 0 .. MaxUnsigned
  PROVE  EarlyThreads(cores) \in Nat /\ Bounded(EarlyThreads(cores), cores)
BY OptionsAssumption DEF EarlyThreads, Bounded, Unsigned

LEMMA ClampThreadsBounded ==
  ASSUME NEW asked \in -MaxUnsigned .. MaxUnsigned, NEW cores \in 0 .. MaxUnsigned
  PROVE  ClampThreads(asked, cores) \in Nat /\ Bounded(ClampThreads(asked, cores), cores)
<1> DEFINE n == Unsigned(asked)
<1>1. n \in Nat
  BY UnsignedIsNatural
<1>2. cores > 0 => Unsigned(cores - 1) = cores - 1
  BY OptionsAssumption DEF Unsigned
<1>3. ClampThreads(asked, cores) =
        IF n < 2 THEN 2
        ELSE IF n > 4 /\ n > Unsigned(cores - 1) THEN (IF cores > 8 THEN cores - 1 ELSE 4)
        ELSE n
  BY DEF ClampThreads
<1> HIDE DEF n
<1> QED BY <1>1, <1>2, <1>3, OptionsAssumption DEF Bounded

LEMMA GivenThreadsBounded ==
  ASSUME NEW asked \in Numbers, NEW cores \in 0 .. MaxUnsigned, NEW otherwise \in Nat,
         Bounded(otherwise, cores)
  PROVE  /\ GivenThreads(asked, cores, otherwise) \in Nat
         /\ Bounded(GivenThreads(asked, cores, otherwise), cores)
<1>1. CASE asked = NotGiven
  BY <1>1 DEF GivenThreads
<1>2. CASE asked # NotGiven
  <2>1. asked[1] \in -MaxUnsigned .. MaxUnsigned
    BY <1>2 DEF Numbers
  <2> QED BY <1>2, <2>1, ClampThreadsBounded DEF GivenThreads
<1> QED BY <1>1, <1>2

-----------------------------------------------------------------------------
(* Starting: what the steps of main up to the background thread do.        *)

StartInv ==
  /\ setup \in Setups
  /\ threads \in Nat
  /\ main # "early" => Bounded(threads, setup.cores)
  /\ main \in MainStarts \cup MainServes
  /\ main \in {"early", "options", "config", "threads", "web", "keys"} => confEuid = ""
  /\ main \in {"config", "threads", "web", "keys", "seteuid"} => args.seteuid = setup.seteuid.env
  /\ main = "seteuid" => confEuid = (IF setup.group THEN setup.seteuid.key ELSE "")
  /\ "seteuid" \in DOMAIN args
  /\ RunsAsRequested

LEMMA SetupTypes ==
  ASSUME setup \in Setups
  PROVE  /\ setup.cores \in 0 .. MaxUnsigned
         /\ setup.threads.option \in Numbers /\ setup.threads.key \in Numbers
BY ProgramAssumption

LEMMA StartInit == Init => StartInv
<1> SUFFICES ASSUME Init PROVE StartInv
  OBVIOUS
<1>1. main = "early" /\ setup \in Setups /\ threads \in Nat /\ confEuid = ""
  BY DEF Init
<1>2. "seteuid" \in DOMAIN args
  BY DEF Init, NoArgs
<1>3. RunsAsRequested
  BY <1>1 DEF RunsAsRequested, MainServes, Listening
<1> QED BY <1>1, <1>2, <1>3 DEF StartInv, MainStarts

(* Serving leaves alone what starting has set. *)
LEMMA ServingKeeps ==
  ASSUME Serving
  PROVE  /\ UNCHANGED <<setup, args, confEuid, threads, euid>>
         /\ (main' = main \/ (main' \in MainServes /\ main \in MainServes))
<1> USE DEF Serving, ServerNext, startVars, objectVars, GoTo, Ends, MainServes, Listening
<1>1. UNCHANGED <<setup, args, confEuid>>
  OBVIOUS
<1>2. CASE MainServing
  BY <1>1, <1>2 DEF MainServing, RegisterHandlers, Bind, Announce, TestSocket, Select, AcceptFails,
     SetShutdown, NotifyAll, Join, Leave, EndMain, Accept
<1>3. CASE BackgroundStep
  BY <1>1, <1>3 DEF BackgroundStep, TakeTerm, StopServer, DeleteServer, ClearPointer, CloseDatabase
<1>4. CASE SendTerm \/ UseDeleted
  BY <1>1, <1>4 DEF SendTerm, UseDeleted
<1>5. ASSUME NEW w \in Workers, WorkerStep(w) \/ Stick(w) \/ Spurious(w)
      PROVE  UNCHANGED <<threads, euid, main>>
  BY <1>5 DEF WorkerStep, Stick, Spurious
<1>6. ASSUME NEW c \in Conns, Connect(c)
      PROVE  UNCHANGED <<threads, euid, main>>
  BY <1>6 DEF Connect
<1> QED BY <1>1, <1>2, <1>3, <1>4, <1>5, <1>6

LEMMA StartingInv ==
  ASSUME StartInv, Starting
  PROVE  StartInv'
<1> USE DEF GoTo, Ends
<1>0. setup' = setup /\ setup \in Setups /\ setup.cores \in 0 .. MaxUnsigned
  BY SetupTypes DEF Starting, stepVars, StartInv
<1>1. CASE UNCHANGED <<main, threads, euid, args, confEuid>>
  BY <1>0, <1>1 DEF StartInv, RunsAsRequested, Account
<1>2. CASE EarlyInitialize
  <2>1. main' = "options" /\ threads' = EarlyThreads(setup.cores) /\ UNCHANGED <<args, confEuid>>
    BY <1>2 DEF EarlyInitialize
  <2>2. threads' \in Nat /\ Bounded(threads', setup.cores)
    BY <1>0, <2>1, EarlyThreadsBounded
  <2>3. confEuid = "" /\ "seteuid" \in DOMAIN args
    BY <1>2 DEF StartInv, EarlyInitialize
  <2>4. RunsAsRequested'
    BY <2>1 DEF RunsAsRequested, MainServes, Listening
  <2> QED BY <1>0, <2>1, <2>2, <2>3, <2>4 DEF StartInv, MainStarts
<1>3. CASE ParseArguments /\ ~setup.badOption
  <2>1. /\ main = "options" /\ main' = "config" /\ UNCHANGED confEuid
        /\ threads' = GivenThreads(setup.threads.option, setup.cores, threads)
    BY <1>3 DEF ParseArguments
  <2>2. args'.seteuid = setup.seteuid.env /\ "seteuid" \in DOMAIN args'
    BY <1>3 DEF ParseArguments
  <2>3. confEuid = "" /\ threads \in Nat /\ Bounded(threads, setup.cores)
    BY <2>1 DEF StartInv
  <2>4. threads' \in Nat /\ Bounded(threads', setup.cores)
    BY <1>0, <2>1, <2>3, GivenThreadsBounded, SetupTypes
  <2>5. RunsAsRequested'
    BY <2>1 DEF RunsAsRequested, MainServes, Listening
  <2> QED BY <1>0, <2>1, <2>2, <2>3, <2>4, <2>5 DEF StartInv, MainStarts
<1>4. CASE ConfigThreads
  <2>1. /\ main = "threads" /\ main' = "web" /\ UNCHANGED <<args, confEuid>>
        /\ threads' = IF setup.group THEN GivenThreads(setup.threads.key, setup.cores, threads)
                                     ELSE threads
    BY <1>4 DEF ConfigThreads
  <2>2. threads \in Nat /\ Bounded(threads, setup.cores)
    BY <2>1 DEF StartInv
  <2>3. threads' \in Nat /\ Bounded(threads', setup.cores)
    BY <1>0, <2>1, <2>2, GivenThreadsBounded, SetupTypes
  <2>4. RunsAsRequested'
    BY <2>1 DEF RunsAsRequested, MainServes, Listening
  <2> QED BY <1>0, <2>1, <2>3, <2>4 DEF StartInv, MainStarts
<1>5. CASE LoadConfigFile /\ main' # main
  <2>1. main = "config" /\ main' = "threads" /\ UNCHANGED <<threads, args, confEuid>>
    BY <1>5 DEF LoadConfigFile
  <2>2. RunsAsRequested'
    BY <2>1 DEF RunsAsRequested, MainServes, Listening
  <2> QED BY <1>0, <2>1, <2>2 DEF StartInv, MainStarts
<1>6. CASE MakeServer /\ main' # main
  <2>1. main = "web" /\ main' = "keys" /\ UNCHANGED <<threads, args, confEuid>>
    BY <1>6 DEF MakeServer, InitializeWeb
  <2>2. RunsAsRequested'
    BY <2>1 DEF RunsAsRequested, MainServes, Listening
  <2> QED BY <1>0, <2>1, <2>2 DEF StartInv, MainStarts
<1>7. CASE ConfigKeys
  <2>1. main = "keys" /\ main' = "seteuid" /\ UNCHANGED threads
    BY <1>7 DEF ConfigKeys
  <2>2. confEuid' = IF setup.group THEN setup.seteuid.key ELSE ""
    BY <1>7, <2>1 DEF ConfigKeys, StartInv
  <2>3. args'.seteuid = args.seteuid /\ "seteuid" \in DOMAIN args'
    BY <1>7 DEF ConfigKeys, StartInv
  <2>4. RunsAsRequested'
    BY <2>1 DEF RunsAsRequested, MainServes, Listening
  <2> QED BY <1>0, <2>1, <2>2, <2>3, <2>4 DEF StartInv, MainStarts
<1>8. CASE SetEuid /\ main' # main
  <2>1. main = "seteuid" /\ UNCHANGED <<threads, args, confEuid>>
    BY <1>8 DEF SetEuid
  <2>2. (IF args.seteuid # "" THEN args.seteuid ELSE confEuid) = Account
    BY <2>1 DEF StartInv, Account
  <2>3. BecomeUser(Account)
    BY <1>8, <2>2 DEF SetEuid
  <2>4. main' = "group" /\ (Account \in NoAccount \/ euid' = Account)
    BY <1>8, <2>3 DEF BecomeUser
  <2>5. Account' = Account
    BY <1>0 DEF Account
  <2>6. RunsAsRequested'
    BY <2>4, <2>5 DEF RunsAsRequested
  <2> QED BY <1>0, <2>1, <2>4, <2>6 DEF StartInv, MainStarts
<1>9. CASE (HandleGroup \/ WritePid \/ InitializeDatabase \/ StartBackground) /\ main' # main
  <2>1. /\ main \in {"group", "pidfile", "database", "background"}
        /\ main' \in {"pidfile", "database", "background", "register", "returned"}
        /\ UNCHANGED <<threads, euid, args, confEuid>>
    <3>1. CASE HandleGroup
      BY <1>9, <3>1 DEF HandleGroup
    <3>2. CASE WritePid \/ InitializeDatabase \/ StartBackground
      BY <1>9, <3>2 DEF WritePid, InitializeDatabase, StartBackground
    <3> QED BY <1>9, <3>1, <3>2
  <2>2. Account' = Account
    BY <1>0 DEF Account
  <2>3. RunsAsRequested'
    BY <2>1, <2>2 DEF StartInv, RunsAsRequested
  <2> QED BY <1>0, <2>1, <2>3 DEF StartInv, MainStarts, MainServes
<1>10. ASSUME LoadConfigFile \/ MakeServer \/ SetEuid \/ HandleGroup \/ WritePid
              \/ InitializeDatabase \/ StartBackground \/ Killed \/ (ParseArguments /\ setup.badOption),
              main' = main
       PROVE  UNCHANGED <<threads, euid, args, confEuid>>
  <2>1. CASE LoadConfigFile \/ HandleGroup \/ WritePid \/ InitializeDatabase \/ StartBackground \/ Killed
    BY <2>1 DEF LoadConfigFile, HandleGroup, WritePid, InitializeDatabase, StartBackground, Killed
  <2>2. CASE MakeServer
    BY <2>2 DEF MakeServer
  <2>3. CASE SetEuid
    BY <1>10, <2>3 DEF SetEuid, BecomeUser
  <2>4. CASE ParseArguments /\ setup.badOption
    BY <2>4 DEF ParseArguments
  <2> QED BY <1>10, <2>1, <2>2, <2>3, <2>4
<1>11. CASE LoadConfigFile \/ MakeServer \/ SetEuid \/ HandleGroup \/ WritePid
            \/ InitializeDatabase \/ StartBackground \/ Killed \/ (ParseArguments /\ setup.badOption)
  <2>1. CASE main' = main
    BY <1>1, <1>10, <1>11, <2>1
  <2>2. CASE main' # main
    <3>1. ~Killed /\ ~(ParseArguments /\ setup.badOption)
      BY <2>2 DEF Killed, ParseArguments
    <3> QED BY <1>5, <1>6, <1>8, <1>9, <1>11, <2>2, <3>1
  <2> QED BY <2>1, <2>2
<1>12. CASE ParseArguments
  <2>1. CASE setup.badOption
    BY <1>11, <1>12, <2>1
  <2>2. CASE ~setup.badOption
    BY <1>3, <1>12, <2>2
  <2> QED BY <2>1, <2>2
<1>13. Step \/ Killed
  BY DEF Starting
<1> QED BY <1>2, <1>4, <1>7, <1>11, <1>12, <1>13 DEF Step

LEMMA StartNext == StartInv /\ [Next]_vars => StartInv'
<1> SUFFICES ASSUME StartInv, [Next]_vars PROVE StartInv'
  OBVIOUS
<1>1. CASE Starting
  BY <1>1, StartingInv
<1>2. CASE Serving
  <2>1. UNCHANGED <<setup, args, confEuid, threads, euid>>
    BY <1>2, ServingKeeps
  <2>2. CASE main' = main
    BY <2>1, <2>2 DEF StartInv, RunsAsRequested, Account
  <2>3. CASE main' \in MainServes /\ main \in MainServes
    <3>1. Account' = Account
      BY <2>1 DEF Account
    <3>2. RunsAsRequested'
      BY <2>1, <2>3, <3>1 DEF StartInv, RunsAsRequested
    <3> QED BY <2>1, <2>3, <3>2 DEF StartInv, MainServes, Listening
  <2> QED BY <1>2, <2>2, <2>3, ServingKeeps
<1>3. CASE UNCHANGED vars
  BY <1>3 DEF vars, serverVars, startVars, objectVars, StartInv, RunsAsRequested, Account
<1> QED BY <1>1, <1>2, <1>3 DEF Next

LEMMA StartInvariant == Spec => []StartInv
BY StartInit, StartNext, PTL DEF Spec

(* Whatever numbers of threads are asked for, and on any machine, the pool *)
(* gets between two and the larger of four and one less than the cores.    *)
THEOREM ProgramThreadsBounded == Spec => []ThreadsBounded
<1>1. StartInv => ThreadsBounded
  BY DEF StartInv, ThreadsBounded, Bounded
<1> QED BY <1>1, StartInvariant, PTL

(* However it is started, the program serves as the account asked for.     *)
THEOREM ProgramRunsAsRequested == Spec => []RunsAsRequested
<1>1. StartInv => RunsAsRequested
  BY DEF StartInv
<1> QED BY <1>1, StartInvariant, PTL

-----------------------------------------------------------------------------
(* The pool.  Awake is what makes NoJobForgotten inductive: while the main *)
(* thread may enqueue, no thread of the pool has ended, and there is one.  *)

Serves(w) == worker[w] \in {"serve", "stuck"}
Lively == {"loop", "select", "accept", "shut"}
Quiet == MainStarts \cup {"register", "bind", "announce"}
Over == {"leave", "returned", "ended"}

PoolTypes ==
  /\ jobs \in Seq(Conns)
  /\ worker \in [Workers -> {"none", "check", "sleep", "serve", "stuck", "done"}]
  /\ conn \in [Workers -> Conns \cup {NoConn}]
  /\ main \in MainStarts \cup MainServes
  /\ threads \in Nat

Awake ==
  /\ main \in Quiet => jobs = <<>> /\ ~shutdown /\ \A w \in Workers : worker[w] = "none"
  /\ main \in Lively => ~shutdown
  /\ main \in Lively \cup {"notify", "join"} => worker[1] # "none"
  /\ main \in {"notify", "join", "leave"} => shutdown
  /\ \A w \in Workers : worker[w] = "done" => shutdown /\ jobs = <<>>
  /\ main = "join" => \A w \in Workers : worker[w] # "sleep"
  /\ main \in Over => \A w \in Workers : worker[w] \in {"none", "done"}
  /\ NoJobForgotten

(* Each connection is in one place, once. *)
Placed ==
  /\ backlog \subseteq made
  /\ answered \subseteq made \ backlog
  /\ \A i \in DOMAIN jobs : jobs[i] \in made \ (backlog \cup answered)
  /\ \A i, j \in DOMAIN jobs : i # j => jobs[i] # jobs[j]
  /\ \A w \in Workers : Serves(w) => conn[w] \in made \ (backlog \cup answered)
  /\ \A w \in Workers : Serves(w) => \A i \in DOMAIN jobs : jobs[i] # conn[w]
  /\ \A v, w \in Workers : Serves(v) /\ Serves(w) /\ v # w => conn[v] # conn[w]
  /\ \A w \in Workers : Serves(w) => conn[w] \in Conns

PoolInv == PoolTypes /\ Awake /\ Placed

EnoughAwake == (\E w \in Workers : worker[w] = "sleep") => Len(jobs) <= Cardinality(Checking)

(* How the threads that are awake and free are counted. *)
LEMMA WorkersFinite ==
  ASSUME NEW S \in SUBSET Workers
  PROVE  IsFiniteSet(S) /\ Cardinality(S) \in Nat
<1>1. IsFiniteSet(Workers)
  BY WebServerAssumption, FS_Interval DEF Workers
<1>2. IsFiniteSet(S)
  BY <1>1, FS_Subset
<1> QED BY <1>2, FS_CardinalityType

LEMMA CheckingIsCounted ==
  /\ Checking \in SUBSET Workers
  /\ IsFiniteSet(Checking) /\ Cardinality(Checking) \in Nat
<1>1. Checking \in SUBSET Workers
  BY DEF Checking
<1> QED BY <1>1, WorkersFinite

LEMMA CheckingGains ==
  ASSUME NEW w \in Workers, worker[w] # "check",
         \A v \in Workers : worker'[v] = IF v = w THEN "check" ELSE worker[v]
  PROVE  Cardinality(Checking') = Cardinality(Checking) + 1
<1>1. Checking' = Checking \cup {w} /\ w \notin Checking
  BY DEF Checking
<1> QED BY <1>1, CheckingIsCounted, FS_AddElement

LEMMA CheckingLoses ==
  ASSUME NEW w \in Workers, worker[w] = "check", NEW s, s # "check",
         \A v \in Workers : worker'[v] = IF v = w THEN s ELSE worker[v]
  PROVE  Cardinality(Checking') = Cardinality(Checking) - 1
<1>1. Checking' = Checking \ {w} /\ w \in Checking
  BY DEF Checking
<1> QED BY <1>1, CheckingIsCounted, FS_RemoveElement

poolAndClients == <<main, jobs, shutdown, worker, conn, answered, made, backlog, threads>>

LEMMA PoolInit == Init => PoolInv
<1> SUFFICES ASSUME Init PROVE PoolInv
  OBVIOUS
<1>1. PoolTypes
  <2>1. main = "early" /\ threads = 8 /\ jobs = <<>>
    BY DEF Init, ServerInit
  <2>2. /\ worker \in [Workers -> {"none", "check", "sleep", "serve", "stuck", "done"}]
        /\ conn \in [Workers -> Conns \cup {NoConn}]
    BY DEF Init, ServerInit
  <2>3. <<>> \in Seq(Conns) /\ 8 \in Nat
    OBVIOUS
  <2>4. "early" \in MainStarts
    BY DEF MainStarts
  <2> QED BY <2>1, <2>2, <2>3, <2>4 DEF PoolTypes
<1>2. Awake
  BY DEF Init, ServerInit, Awake, Quiet, MainStarts, Lively, Over, NoJobForgotten
<1>3. Placed
  <2>1. jobs = <<>> /\ backlog = {} /\ made = {} /\ answered = {}
    BY DEF Init, ServerInit
  <2>2. \A w \in Workers : ~Serves(w)
    BY DEF Init, ServerInit, Serves
  <2>3. DOMAIN jobs = {}
    BY <2>1
  <2> QED BY <2>1, <2>2, <2>3 DEF Placed
<1> QED BY <1>1, <1>2, <1>3 DEF PoolInv

(* Steps that move the main thread only, from a place to another that asks *)
(* for no more.                                                            *)
LEMMA PoolSame ==
  ASSUME PoolInv, UNCHANGED poolAndClients
  PROVE  PoolInv'
<1>1. PoolTypes' /\ Placed'
  BY DEF PoolInv, poolAndClients, PoolTypes, Placed, Serves
<1>2. Awake'
  BY DEF PoolInv, poolAndClients, Awake, NoJobForgotten, Checking
<1> QED BY <1>1, <1>2 DEF PoolInv

LEMMA PoolMoves ==
  ASSUME PoolInv, UNCHANGED <<jobs, worker, conn, answered, made, backlog>>,
         threads' \in Nat, main' \in MainStarts \cup MainServes,
         \/ main \in Quiet /\ main' \in Quiet \cup {"returned"} /\ UNCHANGED shutdown
         \/ main \in Lively /\ main' \in Lively /\ UNCHANGED shutdown
         \/ main = "shut" /\ main' = "notify" /\ shutdown' = TRUE
         \/ main = "join" /\ main' = "leave" /\ UNCHANGED shutdown
              /\ \A w \in Workers : worker[w] \in {"none", "done"}
         \/ main = "leave" /\ main' = "returned" /\ UNCHANGED shutdown
         \/ main = "returned" /\ main' = "ended" /\ UNCHANGED shutdown
  PROVE  PoolInv'
<1>1. PoolTypes' /\ Placed'
  BY DEF PoolInv, PoolTypes, Placed, Serves
<1>2. NoJobForgotten'
  BY DEF PoolInv, Awake, NoJobForgotten, Checking
<1>3. Awake'
  BY <1>2 DEF PoolInv, Awake, Quiet, Lively, Over, MainStarts
<1> QED BY <1>1, <1>3 DEF PoolInv

LEMMA AcceptInv ==
  ASSUME PoolInv, NEW c \in Conns, Accept(c)
  PROVE  PoolInv'
<1> USE DEF PoolInv, PoolTypes
<1>1. /\ main = "accept" /\ main' = "loop" /\ c \in backlog
      /\ jobs' = Append(jobs, c) /\ backlog' = backlog \ {c}
      /\ UNCHANGED <<threads, shutdown, conn, answered, made>>
  BY DEF Accept, GoTo, objectVars
<1>2. ~shutdown /\ worker[1] # "none" /\ 1 \in Workers
  BY <1>1, WebServerAssumption DEF Awake, Lively, Workers
<1>3. \A w \in Workers : worker[w] # "done"
  BY <1>2 DEF Awake
<1>4. /\ worker' \in [Workers -> {"none", "check", "sleep", "serve", "stuck", "done"}]
      /\ \A w \in Workers : worker'[w] = worker[w] \/ (worker[w] = "sleep" /\ worker'[w] = "check")
      /\ \E w \in Workers : worker'[w] \in {"check", "serve", "stuck"}
  <2>1. CASE \E w \in Workers : worker[w] = "sleep"
    <3>1. PICK w \in Workers : worker[w] = "sleep" /\ worker' = [worker EXCEPT ![w] = "check"]
      BY <2>1 DEF Accept, NotifyOne
    <3> QED BY <3>1
  <2>2. CASE ~\E w \in Workers : worker[w] = "sleep"
    <3>1. worker' = worker
      BY <2>2 DEF Accept, NotifyOne
    <3>2. worker[1] \in {"check", "serve", "stuck"}
      BY <1>2, <1>3, <2>2
    <3> QED BY <1>2, <3>1, <3>2
  <2> QED BY <2>1, <2>2
<1>5. PoolTypes'
  BY <1>1, <1>4 DEF MainServes, Listening
<1>8. EnoughAwake'
  <2>1. CASE \E w \in Workers : worker[w] = "sleep"
    <3>1. PICK w \in Workers : worker[w] = "sleep" /\ worker' = [worker EXCEPT ![w] = "check"]
      BY <2>1 DEF Accept, NotifyOne
    <3>2. \A v \in Workers : worker'[v] = IF v = w THEN "check" ELSE worker[v]
      BY <3>1
    <3>3. Cardinality(Checking') = Cardinality(Checking) + 1
      BY <3>1, <3>2, CheckingGains
    <3>4. Len(jobs) <= Cardinality(Checking)
      BY <2>1 DEF Awake, NoJobForgotten
    <3>5. Len(jobs') = Len(jobs) + 1 /\ Len(jobs) \in Nat
      BY <1>1
    <3> QED BY <3>3, <3>4, <3>5, CheckingIsCounted DEF EnoughAwake
  <2>2. CASE ~\E w \in Workers : worker[w] = "sleep"
    BY <1>4, <2>2 DEF EnoughAwake
  <2> QED BY <2>1, <2>2
<1>6. Awake'
  BY <1>1, <1>2, <1>3, <1>4, <1>8 DEF Awake, Quiet, Lively, Over, MainStarts, NoJobForgotten, EnoughAwake
<1>7. Placed'
  <2>1. \A w \in Workers : Serves(w)' <=> Serves(w)
    BY <1>4 DEF Serves
  <2>2. /\ DOMAIN jobs' = 1 .. (Len(jobs) + 1) /\ DOMAIN jobs = 1 .. Len(jobs) /\ Len(jobs) \in Nat
        /\ \A i \in DOMAIN jobs : jobs'[i] = jobs[i]
        /\ jobs'[Len(jobs) + 1] = c
    BY <1>1
  <2>3. \A i \in DOMAIN jobs : jobs[i] # c
    BY <1>1 DEF Placed
  <2>4. \A w \in Workers : Serves(w) => conn[w] # c
    BY <1>1 DEF Placed
  <2>5. c \in made \ (backlog' \cup answered)
    BY <1>1 DEF Placed
  <2>6. \A i \in DOMAIN jobs' : i \in DOMAIN jobs \/ i = Len(jobs) + 1
    BY <2>2
  <2>7. backlog' \subseteq made' /\ answered' \subseteq made' \ backlog'
    BY <1>1 DEF Placed
  <2>8. \A i \in DOMAIN jobs' : jobs'[i] \in made' \ (backlog' \cup answered')
    BY <1>1, <2>2, <2>5, <2>6 DEF Placed
  <2>9. \A i, j \in DOMAIN jobs' : i # j => jobs'[i] # jobs'[j]
    BY <2>2, <2>3, <2>6 DEF Placed
  <2>10. \A w \in Workers : Serves(w) => \A i \in DOMAIN jobs' : jobs'[i] # conn[w]
    BY <2>2, <2>4, <2>6 DEF Placed
  <2> QED BY <1>1, <2>1, <2>7, <2>8, <2>9, <2>10 DEF Placed
<1> QED BY <1>5, <1>6, <1>7

LEMMA TakeJobInv ==
  ASSUME PoolInv, NEW w \in Workers, TakeJob(w), UNCHANGED <<main, threads, shutdown, made, backlog>>
  PROVE  PoolInv'
<1> USE DEF PoolInv, PoolTypes
<1>1. /\ worker[w] = "check" /\ jobs # <<>> /\ jobs' = Tail(jobs)
      /\ conn' = [conn EXCEPT ![w] = Head(jobs)]
      /\ worker' = [worker EXCEPT ![w] = "serve"] /\ answered' = answered
  BY DEF TakeJob
<1>2. /\ Len(jobs) \in Nat /\ Len(jobs) >= 1 /\ DOMAIN jobs = 1 .. Len(jobs)
      /\ jobs' \in Seq(Conns) /\ Head(jobs) = jobs[1] /\ jobs[1] \in Conns /\ 1 \in DOMAIN jobs
      /\ DOMAIN jobs' = 1 .. (Len(jobs) - 1)
      /\ \A i \in DOMAIN jobs' : i + 1 \in DOMAIN jobs /\ jobs'[i] = jobs[i + 1]
  BY <1>1
<1>3. PoolTypes'
  BY <1>1, <1>2
<1>4. \A v \in Workers : /\ worker'[v] = IF v = w THEN "serve" ELSE worker[v]
                         /\ conn'[v] = IF v = w THEN jobs[1] ELSE conn[v]
  BY <1>1, <1>2
<1>5. Awake'
  <2>4. EnoughAwake'
    <3>1. Cardinality(Checking') = Cardinality(Checking) - 1
      BY <1>1, <1>4, CheckingLoses
    <3>2. Len(jobs') = Len(jobs) - 1 /\ Len(jobs) \in Nat
      BY <1>1
    <3>3. ASSUME \E v \in Workers : worker'[v] = "sleep"
          PROVE  Len(jobs) <= Cardinality(Checking)
      <4>1. \E v \in Workers : worker[v] = "sleep"
        BY <1>4, <3>3
      <4> QED BY <4>1 DEF Awake, NoJobForgotten
    <3> QED BY <3>1, <3>2, <3>3, CheckingIsCounted DEF EnoughAwake
  <2>1. NoJobForgotten'
    BY <1>4, <2>4 DEF NoJobForgotten, EnoughAwake
  <2>2. \A v \in Workers : worker[v] # "done"
    BY <1>1 DEF Awake
  <2>3. main \notin Quiet /\ main \notin Over
    BY <1>1 DEF Awake
  <2>5. \A v \in Workers : worker'[v] # "done" /\ (worker'[v] = "sleep" => worker[v] = "sleep")
                           /\ (worker'[v] = "none" => worker[v] = "none")
    BY <1>4, <2>2
  <2>6. 1 \in Workers
    BY WebServerAssumption DEF Workers
  <2> QED BY <2>1, <2>2, <2>3, <2>5, <2>6 DEF Awake
<1>6. Placed'
  <2>1. \A v \in Workers : Serves(v)' <=> (v = w \/ Serves(v))
    BY <1>4 DEF Serves
  <2>2. \A i \in DOMAIN jobs' : jobs'[i] # jobs[1]
    BY <1>2 DEF Placed
  <2>3. \A v \in Workers : Serves(v) => conn[v] # jobs[1]
    BY <1>2 DEF Placed
  <2>4. ~Serves(w)
    BY <1>1 DEF Serves
  <2>5. \A i \in DOMAIN jobs' : jobs'[i] \in made \ (backlog \cup answered)
    BY <1>2 DEF Placed
  <2>6. \A i, j \in DOMAIN jobs' : i # j => jobs'[i] # jobs'[j]
    <3> TAKE i, j \in DOMAIN jobs'
    <3>1. i + 1 \in DOMAIN jobs /\ j + 1 \in DOMAIN jobs /\ i \in Nat /\ j \in Nat
      BY <1>2
    <3> QED BY <1>2, <3>1 DEF Placed
  <2>7. \A v \in Workers : Serves(v)' => conn'[v] \in made \ (backlog \cup answered) /\ conn'[v] \in Conns
    BY <1>2, <1>4, <2>1 DEF Placed
  <2>8. \A v \in Workers : Serves(v)' => \A i \in DOMAIN jobs' : jobs'[i] # conn'[v]
    BY <1>2, <1>4, <2>1, <2>2 DEF Placed
  <2>9. \A u, v \in Workers : Serves(u)' /\ Serves(v)' /\ u # v => conn'[u] # conn'[v]
    BY <1>4, <2>1, <2>3, <2>4 DEF Placed
  <2> QED BY <1>1, <2>5, <2>6, <2>7, <2>8, <2>9 DEF Placed
<1> QED BY <1>3, <1>5, <1>6

LEMMA EndJobInv ==
  ASSUME PoolInv, NEW w \in Workers, EndJob(w), UNCHANGED <<main, threads, shutdown, made, backlog>>
  PROVE  PoolInv'
<1> USE DEF PoolInv, PoolTypes
<1>1. /\ worker[w] = "serve" /\ jobs' = jobs /\ answered' = answered \cup {conn[w]}
      /\ conn' = [conn EXCEPT ![w] = NoConn] /\ worker' = [worker EXCEPT ![w] = "check"]
  BY DEF EndJob
<1>2. PoolTypes'
  BY <1>1
<1>3. \A v \in Workers : /\ worker'[v] = IF v = w THEN "check" ELSE worker[v]
                         /\ conn'[v] = IF v = w THEN NoConn ELSE conn[v]
  BY <1>1
<1>4. Awake'
  <2>3. EnoughAwake'
    <3>1. Cardinality(Checking') = Cardinality(Checking) + 1
      BY <1>1, <1>3, CheckingGains
    <3>2. ASSUME \E v \in Workers : worker'[v] = "sleep"
          PROVE  Len(jobs) <= Cardinality(Checking)
      <4>1. \E v \in Workers : worker[v] = "sleep"
        BY <1>3, <3>2
      <4> QED BY <4>1 DEF Awake, NoJobForgotten
    <3>3. Len(jobs) \in Nat /\ jobs' = jobs
      BY <1>1
    <3> QED BY <3>1, <3>2, <3>3, CheckingIsCounted DEF EnoughAwake
  <2>1. NoJobForgotten'
    BY <1>3, <2>3 DEF NoJobForgotten, EnoughAwake
  <2>2. main \notin Quiet /\ main \notin Over
    BY <1>1 DEF Awake
  <2> QED BY <1>1, <1>3, <2>1, <2>2 DEF Awake
<1>5. Placed'
  <2>1. \A v \in Workers : Serves(v)' <=> (v # w /\ Serves(v))
    BY <1>3 DEF Serves
  <2>2. Serves(w)
    BY <1>1 DEF Serves
  <2> QED BY <1>1, <1>3, <2>1, <2>2 DEF Placed
<1> QED BY <1>2, <1>4, <1>5

(* A thread of the pool wakes, goes to sleep or ends. *)
LEMMA TurnInv ==
  ASSUME PoolInv, NEW w \in Workers, StopWorker(w) \/ Wait(w) \/ WakeSpuriously(w),
         UNCHANGED <<main, threads, shutdown, made, backlog>>
  PROVE  PoolInv'
<1> USE DEF PoolInv, PoolTypes
<1>1. PICK s \in {"done", "sleep", "check"} :
        /\ worker' = [worker EXCEPT ![w] = s]
        /\ s = "done" => worker[w] = "check" /\ shutdown /\ jobs = <<>>
        /\ s = "sleep" => worker[w] = "check" /\ jobs = <<>> /\ ~shutdown
        /\ s = "check" => worker[w] = "sleep"
        /\ UNCHANGED <<jobs, conn, answered>>
  BY DEF StopWorker, CanStop, Wait, WakeSpuriously
<1>2. \A v \in Workers : worker'[v] = IF v = w THEN s ELSE worker[v]
  BY <1>1
<1>3. PoolTypes'
  BY <1>1
<1>4. Awake'
  <2>5. EnoughAwake'
    <3>1. CASE s \in {"done", "sleep"}
      <4>1. jobs' = <<>> /\ Len(<<>>) = 0
        BY <1>1, <3>1
      <4>2. Cardinality(Checking') = Cardinality(Checking) - 1 /\ Cardinality(Checking') \in Nat
        <5>1. Checking' \in SUBSET Workers
          BY DEF Checking
        <5> QED BY <1>1, <1>2, <3>1, <5>1, CheckingLoses, WorkersFinite
      <4> QED BY <4>1, <4>2 DEF EnoughAwake
    <3>2. CASE s = "check"
      <4>1. Cardinality(Checking') = Cardinality(Checking) + 1
        BY <1>1, <1>2, <3>2, CheckingGains
      <4>2. Len(jobs) <= Cardinality(Checking) /\ Len(jobs) \in Nat /\ jobs' = jobs
        BY <1>1, <3>2 DEF Awake, NoJobForgotten
      <4> QED BY <4>1, <4>2, CheckingIsCounted DEF EnoughAwake
    <3> QED BY <3>1, <3>2
  <2>1. NoJobForgotten'
    BY <1>1, <1>2, <2>5 DEF Awake, NoJobForgotten, EnoughAwake
  <2>2. main \notin Quiet /\ main \notin Over
    BY <1>1 DEF Awake
  <2>3. main \in {"notify", "join", "leave"} => shutdown
    BY DEF Awake
  <2>4. worker[w] # "none"
    BY <1>1
  <2> QED BY <1>1, <1>2, <2>1, <2>2, <2>3, <2>4 DEF Awake
<1>5. Placed'
  <2>1. \A v \in Workers : Serves(v)' <=> Serves(v)
    BY <1>1, <1>2 DEF Serves
  <2> QED BY <1>1, <2>1 DEF Placed
<1> QED BY <1>3, <1>4, <1>5

(* A job that never ends keeps its connection. *)
LEMMA StickInv ==
  ASSUME PoolInv, NEW w \in Workers, Stick(w)
  PROVE  PoolInv'
<1> USE DEF PoolInv, PoolTypes
<1>1. /\ worker[w] = "serve" /\ worker' = [worker EXCEPT ![w] = "stuck"]
      /\ UNCHANGED <<main, jobs, shutdown, conn, answered, made, backlog, threads>>
  BY DEF Stick, objectVars, clientVars
<1>2. \A v \in Workers : worker'[v] = IF v = w THEN "stuck" ELSE worker[v]
  BY <1>1
<1>3. PoolTypes'
  BY <1>1
<1>4. Awake'
  <2>1. Checking' = Checking
    BY <1>1, <1>2 DEF Checking
  <2>2. NoJobForgotten'
    BY <1>1, <1>2, <2>1 DEF Awake, NoJobForgotten
  <2>3. main \notin Quiet /\ main \notin Over
    BY <1>1 DEF Awake
  <2> QED BY <1>1, <1>2, <2>2, <2>3 DEF Awake
<1>5. Placed'
  <2>1. \A v \in Workers : Serves(v)' <=> Serves(v)
    BY <1>1, <1>2 DEF Serves
  <2> QED BY <1>1, <2>1 DEF Placed
<1> QED BY <1>3, <1>4, <1>5

(* A connection that is made is in the backlog, and nowhere else. *)
LEMMA ConnectInv ==
  ASSUME PoolInv, NEW c \in Conns, Connect(c)
  PROVE  PoolInv'
<1>1. /\ c \notin made /\ made' = made \cup {c} /\ backlog' = backlog \cup {c}
      /\ UNCHANGED <<main, jobs, shutdown, worker, conn, answered, threads>>
  BY DEF Connect, poolVars, objectVars
<1>2. PoolTypes' /\ Awake'
  BY <1>1 DEF PoolInv, PoolTypes, Awake, NoJobForgotten, Checking
<1>3. Placed'
  <2>1. \A w \in Workers : Serves(w)' <=> Serves(w)
    BY <1>1 DEF Serves
  <2>2. backlog' \subseteq made' /\ answered' \subseteq made' \ backlog'
    BY <1>1 DEF PoolInv, Placed
  <2>3. \A i \in DOMAIN jobs : jobs[i] \in made' \ (backlog' \cup answered')
    BY <1>1 DEF PoolInv, Placed
  <2>4. \A w \in Workers : Serves(w) => conn[w] \in made' \ (backlog' \cup answered')
    BY <1>1 DEF PoolInv, Placed
  <2> QED BY <1>1, <2>1, <2>2, <2>3, <2>4 DEF PoolInv, Placed
<1> QED BY <1>2, <1>3 DEF PoolInv

(* The threads start. *)
LEMMA AnnounceInv ==
  ASSUME PoolInv, StartInv, Announce, main' # main
  PROVE  PoolInv'
<1> USE DEF PoolInv, PoolTypes
<1>1. /\ main = "announce" /\ main' = "loop"
      /\ worker' = [w \in Workers |-> IF w <= threads THEN "check" ELSE "none"]
      /\ UNCHANGED <<threads, jobs, shutdown, conn, answered, made, backlog>>
  BY DEF Announce, GoTo, Ends, objectVars, clientVars
<1>2. jobs = <<>> /\ ~shutdown /\ \A w \in Workers : worker[w] = "none"
  BY <1>1 DEF Awake, Quiet
<1>3. threads >= 2 /\ 1 \in Workers
  BY <1>1, WebServerAssumption DEF StartInv, Bounded, Workers
<1>4. /\ worker' \in [Workers -> {"none", "check", "sleep", "serve", "stuck", "done"}]
      /\ \A w \in Workers : worker'[w] \in {"none", "check"}
      /\ worker'[1] = "check"
  BY <1>1, <1>3
<1>5. PoolTypes'
  BY <1>1, <1>4 DEF MainServes, Listening
<1>6. Awake'
  BY <1>1, <1>2, <1>4 DEF Awake, Quiet, Lively, Over, MainStarts, NoJobForgotten
<1>7. Placed'
  <2>1. \A w \in Workers : ~Serves(w)' /\ ~Serves(w)
    BY <1>2, <1>4 DEF Serves
  <2> QED BY <1>1, <2>1 DEF Placed
<1> QED BY <1>5, <1>6, <1>7

(* The threads that sleep are woken. *)
LEMMA NotifyAllInv ==
  ASSUME PoolInv, NotifyAll
  PROVE  PoolInv'
<1> USE DEF PoolInv, PoolTypes
<1>1. /\ main = "notify" /\ main' = "join"
      /\ worker' = [w \in Workers |-> IF worker[w] = "sleep" THEN "check" ELSE worker[w]]
      /\ UNCHANGED <<threads, jobs, shutdown, conn, answered, made, backlog>>
  BY DEF NotifyAll, GoTo, objectVars, clientVars
<1>2. /\ worker' \in [Workers -> {"none", "check", "sleep", "serve", "stuck", "done"}]
      /\ \A w \in Workers : /\ worker'[w] # "sleep"
                            /\ worker[w] # "sleep" => worker'[w] = worker[w]
                            /\ worker[w] = "sleep" => worker'[w] = "check"
                            /\ (worker'[w] \in {"serve", "stuck"}) <=> (worker[w] \in {"serve", "stuck"})
  BY <1>1
<1>3. PoolTypes'
  BY <1>1, <1>2 DEF MainServes, Listening
<1>4. 1 \in Workers
  BY WebServerAssumption DEF Workers
<1>5. Awake'
  BY <1>1, <1>2, <1>4 DEF Awake, Quiet, Lively, Over, MainStarts, NoJobForgotten
<1>6. Placed'
  <2>1. \A w \in Workers : Serves(w)' <=> Serves(w)
    BY <1>2 DEF Serves
  <2> QED BY <1>1, <2>1 DEF Placed
<1> QED BY <1>3, <1>5, <1>6

(* What a step of main before the background thread starts does to where   *)
(* the main thread is.                                                     *)
LEMMA StartingMoves ==
  ASSUME Starting
  PROVE  /\ UNCHANGED <<jobs, shutdown, worker, conn, answered, made, backlog>>
         /\ main \in MainStarts
         /\ main' \in MainStarts \cup {"register", "returned"}
<1> USE DEF GoTo, Ends, MainStarts
<1>1. UNCHANGED <<jobs, shutdown, worker, conn, answered, made, backlog>>
  BY DEF Starting, stepVars, poolVars, clientVars
<1>2. CASE EarlyInitialize \/ LoadConfigFile \/ ConfigThreads
  BY <1>1, <1>2 DEF EarlyInitialize, LoadConfigFile, ConfigThreads
<1>6. CASE ParseArguments
  <2>1. main = "options" /\ main' \in {"options", "config"}
    BY <1>6 DEF ParseArguments
  <2> QED BY <1>1, <2>1
<1>7. CASE ConfigKeys
  <2>1. main = "keys" /\ main' = "seteuid"
    BY <1>7 DEF ConfigKeys
  <2> QED BY <1>1, <2>1
<1>3. CASE MakeServer
  BY <1>1, <1>3 DEF MakeServer, InitializeWeb
<1>4. CASE SetEuid
  BY <1>1, <1>4 DEF SetEuid, BecomeUser
<1>5. CASE HandleGroup \/ WritePid \/ InitializeDatabase \/ StartBackground \/ Killed
  BY <1>1, <1>5 DEF HandleGroup, WritePid, InitializeDatabase, StartBackground, Killed
<1> QED BY <1>2, <1>3, <1>4, <1>5, <1>6, <1>7 DEF Starting, Step

LEMMA PoolServing ==
  ASSUME PoolInv, StartInv, StartInv', Serving
  PROVE  PoolInv'
<1>0. threads' \in Nat /\ main' \in MainStarts \cup MainServes
  BY DEF StartInv
<1>1. CASE MainServing
  <2> USE DEF GoTo, Ends, poolVars, clientVars
  <2>1. threads' = threads
    BY ServingKeeps
  <2>2. CASE RegisterHandlers \/ Bind \/ TestSocket \/ Select \/ AcceptFails
    <3>1. /\ UNCHANGED <<jobs, worker, conn, answered, made, backlog, shutdown>>
          /\ \/ main' = main
             \/ main \in Quiet /\ main' \in Quiet \cup {"returned"}
             \/ main \in Lively /\ main' \in Lively
      BY <2>2 DEF RegisterHandlers, Bind, TestSocket, Select, AcceptFails, Quiet, Lively
    <3>2. CASE main' = main
      BY <2>1, <3>1, <3>2, PoolSame DEF poolAndClients
    <3> QED BY <1>0, <3>1, <3>2, PoolMoves
  <2>3. CASE Announce
    <3>1. CASE main' = main
      <4>1. UNCHANGED <<jobs, worker, conn, answered, made, backlog, shutdown>>
        BY <2>3, <3>1 DEF Announce
      <4> QED BY <2>1, <3>1, <4>1, PoolSame DEF poolAndClients
    <3> QED BY <2>3, <3>1, AnnounceInv
  <2>4. CASE SetShutdown
    <3>1. /\ UNCHANGED <<jobs, worker, conn, answered, made, backlog>>
          /\ main = "shut" /\ main' = "notify" /\ shutdown' = TRUE
      BY <2>4 DEF SetShutdown
    <3> QED BY <1>0, <3>1, PoolMoves
  <2>5. CASE NotifyAll
    BY <2>5, NotifyAllInv
  <2>6. CASE Join \/ Leave \/ EndMain
    <3>1. UNCHANGED <<jobs, worker, conn, answered, made, backlog, shutdown>>
      BY <2>6 DEF Join, Leave, EndMain
    <3>2. \/ main = "join" /\ main' = "leave" /\ \A w \in Workers : worker[w] \in {"none", "done"}
          \/ main = "leave" /\ main' = "returned"
          \/ main = "returned" /\ main' = "ended"
      BY <2>6 DEF Join, Leave, EndMain
    <3> QED BY <1>0, <3>1, <3>2, PoolMoves
  <2>7. CASE \E c \in Conns : Accept(c)
    BY <2>7, AcceptInv
  <2> QED BY <1>1, <2>2, <2>3, <2>4, <2>5, <2>6, <2>7 DEF MainServing
<1>2. CASE BackgroundStep \/ SendTerm \/ UseDeleted
  <2>1. main' = main
    BY <1>2 DEF BackgroundStep, TakeTerm, StopServer, DeleteServer, ClearPointer, CloseDatabase,
       SendTerm, UseDeleted, Ends
  <2>2. UNCHANGED <<jobs, worker, conn, answered, made, backlog, shutdown>>
    BY <1>2 DEF BackgroundStep, SendTerm, UseDeleted, poolVars, clientVars
  <2>3. threads' = threads
    BY ServingKeeps
  <2> QED BY <2>1, <2>2, <2>3, PoolSame DEF poolAndClients
<1>3. ASSUME NEW w \in Workers, WorkerStep(w) \/ Spurious(w)
      PROVE  PoolInv'
  <2>1. UNCHANGED <<main, threads, shutdown, made, backlog>>
    BY <1>3 DEF WorkerStep, Spurious, objectVars, clientVars
  <2>2. TakeJob(w) \/ EndJob(w) \/ StopWorker(w) \/ Wait(w) \/ WakeSpuriously(w)
    BY <1>3 DEF WorkerStep, Spurious
  <2> QED BY <2>1, <2>2, TakeJobInv, EndJobInv, TurnInv
<1>4. ASSUME NEW c \in Conns, Connect(c)
      PROVE  PoolInv'
  BY <1>4, ConnectInv
<1>5. ASSUME NEW w \in Workers, Stick(w)
      PROVE  PoolInv'
  BY <1>5, StickInv
<1> QED BY <1>1, <1>2, <1>3, <1>4, <1>5 DEF Serving, ServerNext

LEMMA PoolNext ==
  StartInv /\ StartInv' /\ PoolInv /\ [Next]_vars => PoolInv'
<1> SUFFICES ASSUME StartInv, StartInv', PoolInv, [Next]_vars PROVE PoolInv'
  OBVIOUS
<1>1. CASE Starting
  <2>1. threads' \in Nat /\ main' \in MainStarts \cup MainServes
    BY DEF StartInv
  <2>2. main \in Quiet /\ main' \in Quiet \cup {"returned"}
    BY <1>1, StartingMoves DEF Quiet
  <2> QED BY <1>1, <2>1, <2>2, StartingMoves, PoolMoves
<1>2. CASE Serving
  BY <1>2, PoolServing
<1>3. CASE UNCHANGED vars
  BY <1>3, PoolSame DEF vars, serverVars, objectVars, poolVars, clientVars, poolAndClients
<1> QED BY <1>1, <1>2, <1>3 DEF Next

LEMMA PoolInvariant == Spec => [](StartInv /\ PoolInv)
<1>1. Init => StartInv /\ PoolInv
  BY StartInit, PoolInit
<1>2. (StartInv /\ PoolInv) /\ [Next]_vars => (StartInv /\ PoolInv)'
  BY StartNext, PoolNext
<1> QED BY <1>1, <1>2, PTL DEF Spec

(* With any number of threads, a connection in the queue has a thread of   *)
(* the pool that has not gone, and threads sleep only when those that are  *)
(* awake and free are enough for the queue.                                *)
THEOREM ProgramNoJobForgotten == Spec => []NoJobForgotten
<1>1. PoolInv => NoJobForgotten
  BY DEF PoolInv, Awake
<1> QED BY <1>1, PoolInvariant, PTL

(* When the main thread waits for the threads of the pool to end, all of   *)
(* them were woken after shutdown was set: none sleeps for ever.           *)
THEOREM ProgramNoneSleepsAtJoin == Spec => []NoneSleepsAtJoin
<1>1. PoolInv => NoneSleepsAtJoin
  BY DEF PoolInv, Awake, NoneSleepsAtJoin
<1> QED BY <1>1, PoolInvariant, PTL

-----------------------------------------------------------------------------
(* The types: those of the invariants above, and the rest.                 *)

ServerTypes ==
  /\ outcome \in Outcomes
  /\ server \in {"none", "alive", "deleted"}
  /\ pointer \in BOOLEAN /\ valid \in BOOLEAN /\ port \in Nat
  /\ sock \in {"invalid", "open", "closed"} /\ listening \in BOOLEAN
  /\ shutdown \in BOOLEAN
  /\ made \subseteq Conns
  /\ bg \in {"none", "loop", "stop", "delete", "null", "close", "ended"}
  /\ term \in {"none", "pending", "taken"}

ArgTypes == DOMAIN args = DOMAIN NoArgs /\ args.url.port \in Nat

LEMMA UrlPorts ==
  ASSUME setup \in Setups
  PROVE  setup.url.option.port \in Nat /\ setup.url.env.port \in Nat /\ setup.url.key.port \in Nat
BY ProgramAssumption

LEMMA PortOfNatural ==
  ASSUME NEW url, url.port \in Nat, NEW uid
  PROVE  PortOf(url, uid) \in Nat
BY DEF PortOf, DefaultPort

LEMMA InitializeWebTypes ==
  ASSUME ServerTypes, NEW url, url.port \in Nat, NEW root, NEW pair, InitializeWeb(url, root, pair)
  PROVE  /\ outcome' \in Outcomes /\ server' \in {"none", "alive", "deleted"}
         /\ pointer' \in BOOLEAN /\ valid' \in BOOLEAN /\ port' \in Nat
<1>1. CASE WebFatal(url, root, pair)
  BY <1>1 DEF InitializeWeb, ServerTypes, Outcomes, Ends
<1>2. CASE ~WebFatal(url, root, pair)
  <2>1. /\ server' = "alive" /\ pointer' = TRUE /\ UNCHANGED outcome
        /\ valid' = ServerValid(pair) /\ port' = PortOf(url, setup.uid)
    BY <1>2 DEF InitializeWeb, GoTo
  <2>2. ServerValid(pair) \in BOOLEAN
    BY DEF ServerValid
  <2> QED BY <2>1, <2>2, PortOfNatural DEF ServerTypes
<1> QED BY <1>1, <1>2

LEMMA StartingTypes ==
  ASSUME ServerTypes, ArgTypes, setup \in Setups, Starting
  PROVE  ServerTypes' /\ ArgTypes'
<1> USE DEF GoTo, Ends, Same, Outcomes
<1>0. UNCHANGED <<sock, listening, shutdown, made, term>>
  BY DEF Starting, stepVars, socketVars, poolVars, clientVars
<1>1. CASE EarlyInitialize \/ LoadConfigFile \/ ConfigThreads \/ SetEuid \/ HandleGroup
           \/ WritePid \/ InitializeDatabase \/ Killed
  <2>1. UNCHANGED <<server, pointer, valid, port, bg, args>>
    BY <1>1 DEF EarlyInitialize, LoadConfigFile, ConfigThreads, SetEuid, HandleGroup,
       WritePid, InitializeDatabase, Killed
  <2>2. outcome' \in {outcome, "fatal", "terminated", "killed"}
    <3>1. CASE SetEuid
      BY <3>1 DEF SetEuid, BecomeUser
    <3>2. CASE HandleGroup
      BY <3>2 DEF HandleGroup
    <3> QED BY <1>1, <3>1, <3>2 DEF EarlyInitialize, LoadConfigFile, ConfigThreads,
       WritePid, InitializeDatabase, Killed
  <2> QED BY <1>0, <2>1, <2>2 DEF ServerTypes, ArgTypes
<1>2. CASE ParseArguments
  <2>1. UNCHANGED <<server, pointer, valid, port, bg>> /\ outcome' \in {outcome, "fatal"}
    BY <1>2 DEF ParseArguments
  <2>2. ServerTypes'
    BY <1>0, <2>1 DEF ServerTypes
  <2>3. ArgTypes'
    BY <1>2, UrlPorts DEF ParseArguments, ArgTypes, NoArgs
  <2> QED BY <2>2, <2>3
<1>3. CASE MakeServer
  <2>1. UNCHANGED <<bg, args>>
    BY <1>3 DEF MakeServer
  <2>2. CASE args.url # NoUrl
    <3>1. InitializeWeb(args.url, args.root, args.pair)
      BY <1>3, <2>2 DEF MakeServer
    <3> QED BY <1>0, <2>1, <3>1, InitializeWebTypes DEF ServerTypes, ArgTypes
  <2>3. CASE args.url = NoUrl /\ setup.webGroup
    <3>1. InitializeWeb(setup.url.key, setup.root.key, setup.pair.key)
      BY <1>3, <2>3 DEF MakeServer
    <3> QED BY <1>0, <2>1, <3>1, InitializeWebTypes, UrlPorts DEF ServerTypes, ArgTypes
  <2>4. CASE args.url = NoUrl /\ ~setup.webGroup
    <3>1. UNCHANGED <<outcome, server, pointer, valid, port>>
      BY <1>3, <2>4 DEF MakeServer
    <3> QED BY <1>0, <2>1, <3>1 DEF ServerTypes, ArgTypes
  <2> QED BY <2>2, <2>3, <2>4
<1>4. CASE ConfigKeys
  <2>1. UNCHANGED <<server, pointer, valid, port, bg, outcome>>
    BY <1>4 DEF ConfigKeys
  <2>2. DOMAIN args' = DOMAIN args /\ args'.url = args.url
    BY <1>4 DEF ConfigKeys, ArgTypes, NoArgs
  <2> QED BY <1>0, <2>1, <2>2 DEF ServerTypes, ArgTypes
<1>5. CASE StartBackground
  <2>1. UNCHANGED <<server, pointer, valid, port, outcome, args>> /\ bg' = "loop"
    BY <1>5 DEF StartBackground
  <2> QED BY <1>0, <2>1 DEF ServerTypes, ArgTypes
<1> QED BY <1>1, <1>2, <1>3, <1>4, <1>5 DEF Starting, Step

LEMMA ServingTypes ==
  ASSUME ServerTypes, Serving
  PROVE  ServerTypes'
<1> USE DEF Serving, ServerNext, GoTo, Ends, Outcomes, objectVars, socketVars, poolVars, clientVars,
       bgVars
<1>1. CASE MainServing
  <2>1. UNCHANGED <<server, pointer, valid, port, made, bg, term>>
    BY <1>1 DEF MainServing, RegisterHandlers, Bind, Announce, TestSocket, Select, AcceptFails,
       SetShutdown, NotifyAll, Join, Leave, EndMain, Accept
  <2>2. /\ outcome' \in {outcome, "fatal", "crashed", "terminated", "exit"}
        /\ sock' \in {sock, "open", "closed"}
        /\ listening' \in {listening, TRUE, FALSE}
        /\ shutdown' \in {shutdown, TRUE}
    BY <1>1 DEF MainServing, RegisterHandlers, Bind, Announce, TestSocket, Select, AcceptFails,
       SetShutdown, NotifyAll, Join, Leave, EndMain, Accept
  <2>3. outcome' \in Outcomes /\ sock' \in {"invalid", "open", "closed"}
    BY <2>2 DEF ServerTypes
  <2>4. listening' \in BOOLEAN /\ shutdown' \in BOOLEAN
    BY <2>2 DEF ServerTypes
  <2> QED BY <2>1, <2>3, <2>4 DEF ServerTypes
<1>2. CASE BackgroundStep
  <2>1. UNCHANGED <<valid, port, made, listening, shutdown>>
    BY <1>2 DEF BackgroundStep, TakeTerm, StopServer, DeleteServer, ClearPointer, CloseDatabase
  <2>2. /\ outcome' \in {outcome, "fatal", "terminated"} /\ server' \in {server, "deleted"}
        /\ pointer' \in {pointer, FALSE} /\ sock' \in {sock, "invalid"}
        /\ bg' \in {bg, "stop", "delete", "null", "close", "ended"} /\ term' \in {term, "taken"}
    BY <1>2 DEF BackgroundStep, TakeTerm, StopServer, DeleteServer, ClearPointer, CloseDatabase
  <2>3. outcome' \in Outcomes /\ sock' \in {"invalid", "open", "closed"}
    BY <2>2 DEF ServerTypes
  <2>4. server' \in {"none", "alive", "deleted"} /\ pointer' \in BOOLEAN
    BY <2>2 DEF ServerTypes
  <2> QED BY <2>1, <2>2, <2>3, <2>4 DEF ServerTypes
<1>3. CASE SendTerm
  BY <1>3 DEF SendTerm, ServerTypes
<1>4. CASE UseDeleted
  BY <1>4 DEF UseDeleted, ServerTypes
<1>5. ASSUME NEW w \in Workers, WorkerStep(w) \/ Stick(w) \/ Spurious(w)
      PROVE  ServerTypes'
  BY <1>5 DEF WorkerStep, Stick, Spurious, ServerTypes
<1>6. ASSUME NEW c \in Conns, Connect(c)
      PROVE  ServerTypes'
  BY <1>6 DEF Connect, ServerTypes
<1> QED BY <1>1, <1>2, <1>3, <1>4, <1>5, <1>6

LEMMA TypesInit == Init => ServerTypes /\ ArgTypes
<1> SUFFICES ASSUME Init PROVE ServerTypes /\ ArgTypes
  OBVIOUS
<1>1. ArgTypes
  BY DEF Init, ArgTypes, NoArgs, NoUrl
<1>2. ServerTypes
  BY DEF Init, ServerInit, ServerTypes, Outcomes
<1> QED BY <1>1, <1>2

LEMMA TypesNext ==
  StartInv /\ ServerTypes /\ ArgTypes /\ [Next]_vars => (ServerTypes /\ ArgTypes)'
<1> SUFFICES ASSUME StartInv, ServerTypes, ArgTypes, [Next]_vars PROVE ServerTypes' /\ ArgTypes'
  OBVIOUS
<1>1. CASE Starting
  BY <1>1, StartingTypes DEF StartInv
<1>2. CASE Serving
  <2>1. UNCHANGED args
    BY <1>2, ServingKeeps
  <2> QED BY <1>2, <2>1, ServingTypes DEF ArgTypes
<1>3. CASE UNCHANGED vars
  BY <1>3 DEF vars, serverVars, startVars, objectVars, socketVars, poolVars, clientVars, bgVars,
     ServerTypes, ArgTypes
<1> QED BY <1>1, <1>2, <1>3 DEF Next

(* However it is started and whatever comes, every variable keeps its      *)
(* type; in particular connections are answered only after they were made. *)
THEOREM ProgramTypes == Spec => []TypeOK
<1> DEFINE Inv == StartInv /\ ServerTypes /\ ArgTypes
<1>1. Init => Inv
  BY StartInit, TypesInit
<1>2. Inv /\ [Next]_vars => Inv'
  BY StartNext, TypesNext
<1>3. Inv /\ PoolInv => TypeOK
  BY DEF StartInv, ServerTypes, ArgTypes, PoolInv, PoolTypes, Placed, TypeOK, ServerTypeOK
<1> QED BY <1>1, <1>2, <1>3, PoolInvariant, PTL DEF Spec

-----------------------------------------------------------------------------
(* The pool implements TaskQueue. *)

Busy == {conn[w] : w \in {v \in Workers : worker[v] \in {"serve", "stuck"}}}
Closed == main \in {"leave", "returned", "ended"} /\ shutdown

LEMMA BusyKept ==
  ASSUME conn' = conn, \A w \in Workers : (worker'[w] \in {"serve", "stuck"}) <=> (worker[w] \in {"serve", "stuck"})
  PROVE  Busy' = Busy
BY DEF Busy

PoolStep == [Pool!Next]_<<jobs, Busy, answered, Closed>>

LEMMA PoolStutters ==
  ASSUME UNCHANGED <<jobs, worker, conn, answered>>, Closed' = Closed
  PROVE  PoolStep
<1>1. Busy' = Busy
  BY BusyKept
<1> QED BY <1>1 DEF PoolStep

LEMMA AcceptStep ==
  ASSUME PoolInv, NEW c \in Conns, Accept(c)
  PROVE  PoolStep
<1>1. /\ main = "accept" /\ main' = "loop" /\ c \in backlog
      /\ jobs' = Append(jobs, c) /\ UNCHANGED <<shutdown, conn, answered>>
  BY DEF Accept, GoTo
<1>2. \A w \in Workers : (worker'[w] \in {"serve", "stuck"}) <=> (worker[w] \in {"serve", "stuck"})
  BY DEF Accept, NotifyOne, PoolInv, PoolTypes
<1>3. Busy' = Busy
  BY <1>1, <1>2, BusyKept
<1>4. ~Closed /\ ~Closed'
  BY <1>1 DEF Closed
<1>5. c \notin Busy /\ c \notin answered /\ c \notin Pool!Waiting
  BY <1>1 DEF PoolInv, Placed, Serves, Busy, Pool!Waiting
<1>6. Closed' = Closed
  BY <1>4 DEF Closed
<1>7. Pool!Accept(c)
  BY <1>1, <1>3, <1>4, <1>5, <1>6 DEF Pool!Accept, Busy, Closed
<1> QED BY <1>7 DEF PoolStep, Pool!Next

LEMMA TakeJobStep ==
  ASSUME PoolInv, NEW w \in Workers, TakeJob(w), UNCHANGED <<main, shutdown>>
  PROVE  PoolStep
<1>1. /\ jobs # <<>> /\ jobs' = Tail(jobs) /\ answered' = answered
      /\ conn' = [conn EXCEPT ![w] = Head(jobs)] /\ worker' = [worker EXCEPT ![w] = "serve"]
      /\ worker[w] = "check"
  BY DEF TakeJob
<1>2. \A v \in Workers : /\ (worker'[v] \in {"serve", "stuck"}) <=> (v = w \/ worker[v] \in {"serve", "stuck"})
                         /\ v # w => conn'[v] = conn[v]
  BY <1>1 DEF PoolInv, PoolTypes
<1>3. conn'[w] = Head(jobs)
  BY <1>1 DEF PoolInv, PoolTypes
<1>4. Busy' = Busy \cup {Head(jobs)}
  BY <1>1, <1>2, <1>3 DEF Busy
<1>5. Closed' = Closed
  BY DEF Closed
<1>6. Pool!Start
  BY <1>1, <1>4, <1>5 DEF Pool!Start, Busy, Closed
<1> QED BY <1>6 DEF PoolStep, Pool!Next

LEMMA EndJobStep ==
  ASSUME PoolInv, NEW w \in Workers, EndJob(w), UNCHANGED <<main, shutdown>>
  PROVE  PoolStep
<1>1. /\ worker[w] = "serve" /\ jobs' = jobs /\ answered' = answered \cup {conn[w]}
      /\ conn' = [conn EXCEPT ![w] = NoConn] /\ worker' = [worker EXCEPT ![w] = "check"]
  BY DEF EndJob
<1>2. \A v \in Workers : /\ (worker'[v] \in {"serve", "stuck"}) <=> (v # w /\ worker[v] \in {"serve", "stuck"})
                         /\ v # w => conn'[v] = conn[v]
  BY <1>1 DEF PoolInv, PoolTypes
<1>0. PICK c \in Conns : c = conn[w]
  BY <1>1 DEF PoolInv, Placed, Serves
<1>3. conn[w] \in Conns /\ conn[w] \in Busy
  BY <1>1 DEF PoolInv, Placed, Serves, Busy
<1>4. \A v \in Workers : v # w /\ worker[v] \in {"serve", "stuck"} => conn[v] # conn[w]
  BY <1>1 DEF PoolInv, Placed, Serves
<1>5. Busy' = Busy \ {conn[w]}
  BY <1>1, <1>2, <1>4 DEF Busy
<1>6. Closed' = Closed
  BY DEF Closed
<1>7. Pool!Finish(c)
  BY <1>0, <1>1, <1>3, <1>5, <1>6 DEF Pool!Finish, Busy, Closed
<1> QED BY <1>7 DEF PoolStep, Pool!Next

LEMMA JoinStep ==
  ASSUME PoolInv, Join
  PROVE  PoolStep
<1>1. /\ main = "join" /\ main' = "leave" /\ UNCHANGED <<jobs, worker, conn, answered, shutdown>>
      /\ \A w \in Workers : worker[w] \in {"none", "done"}
  BY DEF Join, GoTo, poolVars
<1>2. shutdown /\ worker[1] # "none" /\ 1 \in Workers
  BY <1>1, WebServerAssumption DEF PoolInv, Awake, Workers
<1>3. jobs = <<>>
  BY <1>1, <1>2 DEF PoolInv, Awake
<1>4. Busy = {} /\ Busy' = Busy
  BY <1>1, BusyKept DEF Busy
<1>5. Closed' = TRUE
  BY <1>1, <1>2 DEF Closed
<1>6. Pool!Close
  BY <1>1, <1>3, <1>4, <1>5 DEF Pool!Close, Busy, Closed
<1> QED BY <1>6 DEF PoolStep, Pool!Next

LEMMA MainPoolStep ==
  ASSUME PoolInv, MainServing
  PROVE  PoolStep
<1> USE DEF GoTo, Ends, poolVars
<1>1. CASE RegisterHandlers \/ Bind \/ TestSocket \/ Select \/ AcceptFails
  <2>1. /\ UNCHANGED <<jobs, worker, conn, answered, shutdown>>
        /\ \/ main' = main
           \/ main \in Quiet /\ main' \in Quiet \cup {"returned"}
           \/ main \in Lively /\ main' \in Lively
    BY <1>1 DEF RegisterHandlers, Bind, TestSocket, Select, AcceptFails, Quiet, Lively
  <2>2. main \in Quiet => ~shutdown
    BY DEF PoolInv, Awake
  <2>3. Closed' = Closed
    BY <2>1, <2>2 DEF Closed, Quiet, Lively, MainStarts
  <2> QED BY <2>1, <2>3, PoolStutters
<1>2. CASE Announce
  <2>1. /\ UNCHANGED <<jobs, conn, answered, shutdown>> /\ main = "announce" /\ main' \in {"announce", "loop"}
        /\ \A w \in Workers : worker[w] = "none"
    BY <1>2 DEF Announce, PoolInv, Awake, Quiet
  <2>2. \A w \in Workers : (worker'[w] \in {"serve", "stuck"}) <=> (worker[w] \in {"serve", "stuck"})
    BY <1>2, <2>1 DEF Announce
  <2>3. Busy' = Busy /\ Closed' = Closed
    BY <2>1, <2>2, BusyKept DEF Closed
  <2> QED BY <2>1, <2>3 DEF PoolStep
<1>3. CASE SetShutdown
  <2>1. UNCHANGED <<jobs, worker, conn, answered>> /\ main = "shut" /\ main' = "notify"
    BY <1>3 DEF SetShutdown
  <2>2. Closed' = Closed
    BY <2>1 DEF Closed
  <2> QED BY <2>1, <2>2, PoolStutters
<1>4. CASE NotifyAll
  <2>1. /\ UNCHANGED <<jobs, conn, answered>> /\ main = "notify" /\ main' = "join"
        /\ worker' = [w \in Workers |-> IF worker[w] = "sleep" THEN "check" ELSE worker[w]]
    BY <1>4 DEF NotifyAll
  <2>2. \A w \in Workers : (worker'[w] \in {"serve", "stuck"}) <=> (worker[w] \in {"serve", "stuck"})
    BY <2>1
  <2>3. Busy' = Busy /\ Closed' = Closed
    BY <2>1, <2>2, BusyKept DEF Closed
  <2> QED BY <2>1, <2>3 DEF PoolStep
<1>5. CASE Join
  BY <1>5, JoinStep
<1>6. CASE Leave \/ EndMain
  <2>1. /\ UNCHANGED <<jobs, worker, conn, answered, shutdown>>
        /\ main \in {"leave", "returned"} /\ main' \in {"returned", "ended"}
    BY <1>6 DEF Leave, EndMain
  <2>2. Closed' = Closed
    BY <2>1 DEF Closed
  <2> QED BY <2>1, <2>2, PoolStutters
<1>7. CASE \E c \in Conns : Accept(c)
  BY <1>7, AcceptStep
<1> QED BY <1>1, <1>2, <1>3, <1>4, <1>5, <1>6, <1>7 DEF MainServing

LEMMA ProgramPoolStep ==
  ASSUME PoolInv, [Next]_vars
  PROVE  PoolStep
<1>1. CASE Starting
  <2>1. UNCHANGED <<jobs, worker, conn, answered, shutdown>> /\ main \in Quiet
    BY <1>1, StartingMoves DEF Quiet
  <2>2. ~shutdown /\ ~shutdown'
    BY <2>1 DEF PoolInv, Awake
  <2>3. Closed' = Closed
    BY <2>2 DEF Closed
  <2> QED BY <2>1, <2>3, PoolStutters
<1>2. CASE MainServing
  BY <1>2, MainPoolStep
<1>3. CASE BackgroundStep \/ SendTerm \/ UseDeleted \/ \E c \in Conns : Connect(c)
  <2>1. UNCHANGED <<jobs, worker, conn, answered, main, shutdown>>
    BY <1>3 DEF BackgroundStep, TakeTerm, StopServer, DeleteServer, ClearPointer, CloseDatabase,
       SendTerm, UseDeleted, Ends, Connect, poolVars
  <2>2. Closed' = Closed
    BY <2>1 DEF Closed
  <2> QED BY <2>1, <2>2, PoolStutters
<1>4. ASSUME NEW w \in Workers, WorkerStep(w) \/ Spurious(w)
      PROVE  PoolStep
  <2>1. UNCHANGED <<main, shutdown>>
    BY <1>4 DEF WorkerStep, Spurious
  <2>2. CASE TakeJob(w)
    BY <2>1, <2>2, TakeJobStep
  <2>3. CASE EndJob(w)
    BY <2>1, <2>3, EndJobStep
  <2>4. CASE StopWorker(w) \/ Wait(w) \/ WakeSpuriously(w)
    <3>1. PICK s \in {"done", "sleep", "check"} :
            worker' = [worker EXCEPT ![w] = s] /\ worker[w] \notin {"serve", "stuck"} /\ UNCHANGED <<jobs, conn, answered>>
      BY <2>4 DEF StopWorker, Wait, WakeSpuriously
    <3>2. \A v \in Workers : (worker'[v] \in {"serve", "stuck"}) <=> (worker[v] \in {"serve", "stuck"})
      BY <3>1 DEF PoolInv, PoolTypes
    <3>3. Busy' = Busy /\ Closed' = Closed
      BY <2>1, <3>1, <3>2, BusyKept DEF Closed
    <3> QED BY <3>1, <3>3 DEF PoolStep
  <2> QED BY <1>4, <2>2, <2>3, <2>4 DEF WorkerStep, Spurious
<1>6. ASSUME NEW w \in Workers, Stick(w)
      PROVE  PoolStep
  <2>1. /\ worker[w] = "serve" /\ worker' = [worker EXCEPT ![w] = "stuck"]
        /\ UNCHANGED <<jobs, conn, answered, main, shutdown>>
    BY <1>6 DEF Stick
  <2>2. \A v \in Workers : (worker'[v] \in {"serve", "stuck"}) <=> (worker[v] \in {"serve", "stuck"})
    BY <2>1 DEF PoolInv, PoolTypes
  <2>3. Busy' = Busy /\ Closed' = Closed
    BY <2>1, <2>2, BusyKept DEF Closed
  <2> QED BY <2>1, <2>3 DEF PoolStep
<1>5. CASE UNCHANGED vars
  <2>1. Closed' = Closed
    BY <1>5 DEF Closed, vars, serverVars, poolVars
  <2> QED BY <1>5, <2>1, PoolStutters DEF vars, serverVars, poolVars
<1> QED BY <1>1, <1>2, <1>3, <1>4, <1>5, <1>6 DEF Next, Serving, ServerNext

(* With any number of threads and whatever wakes them, the pool is the     *)
(* queue of tasks that listen needs: each accepted connection is served    *)
(* once, in the order of acceptance, and shutdown returns when the queue   *)
(* is empty and every thread has ended.                                    *)
THEOREM ProgramImplementsPool == Spec => PoolSpec
<1>1. Init => Pool!Init
  <2> SUFFICES ASSUME Init PROVE Pool!Init
    OBVIOUS
  <2>1. jobs = <<>> /\ answered = {} /\ main = "early" /\ \A w \in Workers : worker[w] = "none"
    BY DEF Init, ServerInit
  <2> QED BY <2>1 DEF Pool!Init
<1>2. PoolInv /\ [Next]_vars => [Pool!Next]_Pool!taskVars
  BY ProgramPoolStep DEF PoolStep, Pool!taskVars, Busy, Closed
<1> QED BY <1>1, <1>2, PoolInvariant, PTL DEF Spec, PoolSpec, Pool!Spec
=============================================================================
