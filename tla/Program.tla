------------------------------- MODULE Program -------------------------------
(***************************************************************************)
(* The HelpCovid program (main in src/hcv_main.cc): it reads its options,  *)
(* environment and configuration, makes the web server, changes its        *)
(* effective user, runs the startup command, writes its pid, connects to   *)
(* the database, starts the background thread and listens.  HCV_FATALOUT   *)
(* aborts it, an exception nobody catches terminates it, SIGTERM kills it  *)
(* until the background thread takes its signals.                          *)
(***************************************************************************)
EXTENDS Options, WebServer

CONSTANT Setups      \* how the program may be started, records

(* Numbers of threads are given as an int, or not at all; a port is        *)
(* unsigned, 0 when the URL has none.                                      *)
Numbers == {<<n>> : n \in -MaxUnsigned .. MaxUnsigned} \cup {NotGiven}

ASSUME ProgramAssumption ==
  \A s \in Setups :
    /\ s.cores \in 0 .. MaxUnsigned
    /\ s.threads.option \in Numbers /\ s.threads.key \in Numbers
    /\ {s.url.option.port, s.url.env.port, s.url.key.port} \subseteq Nat

VARIABLES
  setup,      \* how it was started
  args,       \* hcv_progargs: root, pair, seteuid, pidfile, url
  confEuid    \* the key seteuid, a local of main

startVars == <<setup, args, confEuid>>
vars == <<serverVars, startVars>>

NoUrl == [scheme |-> "", port |-> 0]
NoArgs == [url |-> NoUrl, root |-> "", pair |-> "", seteuid |-> "", pidfile |-> ""]

MainStarts == {"early", "options", "config", "threads", "web", "keys", "seteuid", "group",
               "pidfile", "database", "background"}

Init ==
  /\ setup \in Setups
  /\ args = NoArgs
  /\ confEuid = ""
  /\ main = "early"
  /\ euid = setup.uid
  /\ threads = 8
  /\ ServerInit

-----------------------------------------------------------------------------
(* The steps of main, up to the start of the background thread.  stepVars  *)
(* are the variables these steps leave alone unless they say otherwise.    *)

stepVars == <<socketVars, poolVars, clientVars, term, setup>>
Same == UNCHANGED <<server, pointer, valid, port>> /\ UNCHANGED bg

EarlyInitialize ==
  /\ main = "early"
  /\ threads' = EarlyThreads(setup.cores)
  /\ GoTo("options")
  /\ Same /\ UNCHANGED <<euid, args, confEuid>>

(* hcv_parse_program_arguments.  --seteuid is declared but not handled by  *)
(* hcv_parse1opt: it is one of the bad options.                            *)
ParseArguments ==
  /\ main = "options"
  /\ IF setup.badOption
     THEN Ends("fatal") /\ UNCHANGED <<threads, args>>
     ELSE /\ GoTo("config")
          /\ threads' = GivenThreads(setup.threads.option, setup.cores, threads)
          /\ args' = [url     |-> IF setup.url.option = NoUrl THEN setup.url.env
                                                             ELSE setup.url.option,
                      root    |-> OptionElse(setup.root),
                      pair    |-> OptionElse(setup.pair),
                      seteuid |-> setup.seteuid.env,
                      pidfile |-> OptionElse(setup.pidfile)]
  /\ Same /\ UNCHANGED <<euid, confEuid>>

LoadConfigFile ==
  /\ main = "config"
  /\ IF setup.configFile = "good" THEN GoTo("threads") ELSE Ends("fatal")
  /\ Same /\ UNCHANGED <<threads, euid, args, confEuid>>

ConfigThreads ==
  /\ main = "threads"
  /\ threads' = IF setup.group THEN GivenThreads(setup.threads.key, setup.cores, threads)
                               ELSE threads
  /\ GoTo("web")
  /\ Same /\ UNCHANGED <<euid, args, confEuid>>

InitializeWeb(url, root, pair) ==
  IF WebFatal(url, root, pair)
  THEN Ends("fatal") /\ UNCHANGED <<server, pointer, valid, port>>
  ELSE /\ GoTo("keys")
       /\ server' = "alive" /\ pointer' = TRUE
       /\ valid' = ServerValid(pair)
       /\ port' = PortOf(url, setup.uid)

(* A URL of the arguments, else the group [web], else no server. *)
MakeServer ==
  /\ main = "web"
  /\ IF args.url # NoUrl THEN InitializeWeb(args.url, args.root, args.pair)
     ELSE IF setup.webGroup THEN InitializeWeb(setup.url.key, setup.root.key, setup.pair.key)
     ELSE GoTo("keys") /\ UNCHANGED <<server, pointer, valid, port>>
  /\ UNCHANGED <<bg, threads, euid, args, confEuid>>

ConfigKeys ==
  /\ main = "keys"
  /\ IF setup.group
     THEN /\ confEuid' = setup.seteuid.key
          /\ args' = [args EXCEPT !.pidfile = PidFile(@, setup.pidfile.key)]
     ELSE UNCHANGED <<confEuid, args>>
  /\ GoTo("seteuid")
  /\ Same /\ UNCHANGED <<threads, euid>>

(* hcv_set_euid: only root may become somebody else; an unknown user and   *)
(* a seteuid(2) that fails are fatal.                                      *)
BecomeUserIfAble(user) ==
  /\ GoTo("group")
  /\ euid' = IF user \in {"", "-", "unknown"} \/ euid # "root" THEN euid ELSE user
BecomeUser(user) ==
  IF user \in NoAccount THEN GoTo("group") /\ UNCHANGED euid
  ELSE IF user # "unknown" /\ euid \in {"root", user} THEN GoTo("group") /\ euid' = user
  ELSE Ends("fatal") /\ UNCHANGED euid

SetEuid ==
  /\ main = "seteuid"
  /\ BecomeUser(IF args.seteuid # "" THEN args.seteuid ELSE confEuid)
  /\ Same /\ UNCHANGED <<threads, args, confEuid>>

(* hcv_config_handle_helpcovid_config_group: the startup command, then the *)
(* other keys; get_string throws for a key that is missing, the first of   *)
(* which is the command itself.                                            *)
HandleGroup ==
  /\ main = "group"
  /\ IF setup.group /\ setup.keys = "no command" THEN Ends("terminated")
     ELSE IF setup.group /\ CommandFatal(setup.command) THEN Ends("fatal")
     ELSE IF setup.group /\ setup.keys = "missing" THEN Ends("terminated")
     ELSE IF setup.group /\ setup.keys = "bad path" THEN Ends("fatal")
     ELSE GoTo("pidfile")
  /\ Same /\ UNCHANGED <<threads, euid, args, confEuid>>

(* A pid file that was asked for must be written; the builtin one is tried *)
(* when there is none, or "-".                                             *)
WritePid ==
  /\ main = "pidfile"
  /\ IF args.pidfile = "unwritable" THEN Ends("fatal") ELSE GoTo("database")
  /\ Same /\ UNCHANGED <<threads, euid, args, confEuid>>

(* hcv_initialize_database: no database is only a warning, one that does   *)
(* not answer is an exception (see Instances for what is done in it).      *)
(* Then hcv_initialize_templates (see Pages) and hcv_initialize_curlpp.    *)
InitializeDatabase ==
  /\ main = "database"
  /\ IF setup.database = "down" THEN Ends("terminated") ELSE GoTo("background")
  /\ Same /\ UNCHANGED <<threads, euid, args, confEuid>>

(* SIGTERM is blocked, the signalfd and the thread are made. *)
StartBackground ==
  /\ main = "background"
  /\ bg' = "loop"
  /\ GoTo(IF setup.cleanup THEN "returned" ELSE "register")
  /\ UNCHANGED <<server, pointer, valid, port, threads, euid, args, confEuid>>

(* Nobody has blocked SIGTERM yet. *)
Killed ==
  /\ main \in MainStarts
  /\ Ends("killed")
  /\ Same /\ UNCHANGED <<threads, euid, args, confEuid>>

Step ==
  \/ EarlyInitialize \/ ParseArguments \/ LoadConfigFile \/ ConfigThreads \/ MakeServer
  \/ ConfigKeys \/ SetEuid \/ HandleGroup \/ WritePid \/ InitializeDatabase
  \/ StartBackground

Starting == (Step \/ Killed) /\ outcome = "run" /\ UNCHANGED stepVars
Serving == ServerNext /\ UNCHANGED startVars

Next == Starting \/ Serving

Spec == Init /\ [][Next]_vars

(* The scheduler runs every thread that can run; a job that is not stuck   *)
(* ends, since httplib bounds the requests of a connection and the time it *)
(* waits for each read.                                                    *)
MainStep == outcome = "run" /\ MainServing /\ UNCHANGED startVars
BackgroundRuns == outcome = "run" /\ BackgroundStep /\ UNCHANGED startVars
WorkerRuns(w) == outcome = "run" /\ WorkerStep(w) /\ UNCHANGED startVars

FairSpec ==
  /\ Spec
  /\ WF_vars(MainStep)
  /\ WF_vars(BackgroundRuns)
  /\ \A w \in Workers : WF_vars(WorkerRuns(w))

-----------------------------------------------------------------------------
(* Properties *)

TypeOK ==
  /\ ServerTypeOK
  /\ main \in MainStarts \cup MainServes
  /\ setup \in Setups
  /\ DOMAIN args = DOMAIN NoArgs

(* The pool never gets an absurd number of threads, whatever number the    *)
(* option and the configuration ask for, negative ones included: at least  *)
(* two, and at most the larger of four and one less than the cores.        *)
ThreadsBounded ==
  setup.cores > 0 /\ main \notin {"early", "options"} =>
    /\ threads >= 2
    /\ threads <= 4 \/ threads <= setup.cores - 1

(* The account that the environment, or else the configuration, asks for.  *)
Account ==
  IF setup.seteuid.env # "" THEN setup.seteuid.env
  ELSE IF setup.group THEN setup.seteuid.key ELSE ""

(* From the startup command on, the pid file, the database, the port and   *)
(* the requests are the business of the account that was asked for: the    *)
(* program never goes on as somebody else.                                 *)
RunsAsRequested ==
  /\ main \in {"group", "pidfile", "database", "background"} \cup MainServes
  /\ Account \notin NoAccount
  => euid = Account

(* A program that was given a port when root can bind it when it listens.  *)
PortIsBindable ==
  main = "bind" /\ setup.uid = "root" => MayBind
==============================================================================
