------------------------------- MODULE Options -------------------------------
(***************************************************************************)
(* How the program options, the environment and the configuration file     *)
(* give HelpCovid its parameters (src/hcv_main.cc, and the parsing of the  *)
(* URL in src/hcv_web.cc).  Unsigned numbers wrap below zero, to           *)
(* MaxUnsigned.  "" is a parameter that is not given.                      *)
(***************************************************************************)
EXTENDS Integers

CONSTANT MaxUnsigned        \* UINT_MAX

ASSUME OptionsAssumption == MaxUnsigned \in Nat /\ MaxUnsigned > 8

NotGiven == <<>>            \* a number is <<n>>, or this when nothing gives it

Unsigned(n) == IF n < 0 THEN MaxUnsigned + 1 + n ELSE n

(* hcv_early_initialize: 8 threads, less on a small machine.  The variable *)
(* it looks for in the environment has a $ in its name, so nobody sets it. *)
EarlyThreads(cores) ==
  LET fewer == IF 8 >= cores THEN Unsigned(cores - 1) ELSE 8
  IN IF fewer < 2 THEN 2 ELSE fewer

(* The same code for --threads and for the key threads. *)
ClampThreadsLoose(asked, cores) == IF Unsigned(asked) < 2 THEN 2 ELSE Unsigned(asked)
ClampThreads(asked, cores) ==
  LET n == Unsigned(asked) IN
  IF n < 2 THEN 2
  ELSE IF n > 4 /\ n > Unsigned(cores - 1) THEN (IF cores > 8 THEN cores - 1 ELSE 4)
  ELSE n

GivenThreads(asked, cores, otherwise) ==
  IF asked = NotGiven THEN otherwise ELSE ClampThreads(asked[1], cores)

(* The environment is looked at only for what no option gives. *)
OptionElse(given) == IF given.option = "" THEN given.env ELSE given.option

(* The key pid_file is taken over both when its path is absolute. *)
PidFile(args, key) == IF key = "absolute" THEN key ELSE args

(* hcv_set_euid: "" and "-" ask for nothing; otherwise a user is named. *)
NoAccount == {"", "-"}

(* The port of a URL, 0 for what is not one: the default port depends on   *)
(* getuid, the real user.                                                  *)
DefaultPort(uid) == IF uid = "root" THEN 80 ELSE 8080
PortOf(url, uid) ==
  IF url.scheme \notin {"http", "https"} THEN 0
  ELSE IF url.port > 0 THEN url.port ELSE DefaultPort(uid)

(* hcv_initialize_web: what it accepts, and whether it builds an           *)
(* SSLServer.  pair is the state of the certificate and the key: "" when   *)
(* one of them is not given, "missing", "exposed" (readable by others),    *)
(* "unloadable" or "good".                                                 *)
WebFatal(url, root, pair) ==
  \/ url.scheme = ""
  \/ root \in {"", "noslash"}
  \/ pair \in {"missing", "exposed"}

(* Server::is_valid: a Server always is, an SSLServer when its             *)
(* certificate and key were loaded.                                        *)
ServerValid(pair) == pair \in {"", "good"}

(* The startup command: five seconds, a thousand lines, exit code zero. *)
CommandFatal(command) ==
  command.seconds >= 5 \/ command.lines >= 1000 \/ command.code # 0
==============================================================================
