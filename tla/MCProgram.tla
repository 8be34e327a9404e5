------------------------------ MODULE MCProgram ------------------------------
(* Program instantiated for TLC: a plain start, and starts that differ     *)
(* from it in one or two parameters.                                       *)
EXTENDS Program, TLC

Url(scheme, number) == [scheme |-> scheme, port |-> number]
Given(option, env, key) == [option |-> option, env |-> env, key |-> key]
Command(seconds, lines, code) == [seconds |-> seconds, lines |-> lines, code |-> code]

Plain ==
  [ cores |-> 3, uid |-> "root", badOption |-> FALSE, configFile |-> "good",
    threads |-> [option |-> NotGiven, key |-> NotGiven],
    url |-> Given(Url("http", 8089), NoUrl, NoUrl), root |-> Given("slash", "", ""),
    pair |-> Given("", "", ""), webGroup |-> FALSE, group |-> TRUE,
    seteuid |-> [env |-> "", key |-> ""], pidfile |-> Given("", "", ""),
    command |-> Command(0, 0, 0), keys |-> "all", database |-> "good", cleanup |-> FALSE ]

GivenNumbers == {NotGiven, <<-1>>, <<0>>, <<3>>, <<6>>, <<12>>, <<500>>}
ThreadSetups ==
  { [Plain EXCEPT !.cores = n, !.threads = [option |-> a, key |-> b], !.url.option = NoUrl] :
      n \in {0, 1, 2, 6, 9, 16}, a \in GivenNumbers, b \in GivenNumbers }

WebSetups ==
  { [Plain EXCEPT !.url = u, !.root = r, !.pair = p, !.webGroup = g, !.cleanup = TRUE] :
      u \in {Given(NoUrl, Url("https", 0), NoUrl), Given(NoUrl, NoUrl, Url("http", 80)),
             Given(NoUrl, NoUrl, NoUrl), Given(Url("ftp", 0), NoUrl, NoUrl)},
      r \in {Given("", "slash", "slash"), Given("noslash", "", "")},
      p \in {Given("", "missing", "good"), Given("unloadable", "", "exposed"), Given("", "", "")},
      g \in BOOLEAN }

UserSetups ==
  { [Plain EXCEPT !.uid = u, !.seteuid = [env |-> e, key |-> k], !.group = g, !.cleanup = TRUE] :
      u \in {"root", "ann"}, e \in {"", "-", "ann", "bob"}, k \in {"", "bob", "unknown"},
      g \in BOOLEAN }

OtherSetups ==
  { [Plain EXCEPT !.badOption = TRUE], [Plain EXCEPT !.configFile = "world"],
    [Plain EXCEPT !.command = Command(6, 0, 0)], [Plain EXCEPT !.command = Command(0, 1000, 0)],
    [Plain EXCEPT !.command = Command(1, 3, 1)], [Plain EXCEPT !.keys = "missing"],
    [Plain EXCEPT !.keys = "no command"], [Plain EXCEPT !.keys = "bad path"],
    [Plain EXCEPT !.pidfile = Given("unwritable", "", "")],
    [Plain EXCEPT !.pidfile = Given("unwritable", "", "absolute"), !.cleanup = TRUE],
    [Plain EXCEPT !.pidfile = Given("", "-", "relative"), !.cleanup = TRUE],
    [Plain EXCEPT !.database = "down"], [Plain EXCEPT !.database = "none", !.cleanup = TRUE] }

(* The starts that reach a pool: two and three threads, a port root binds, *)
(* one only root could (also after root gave its rights away), a bad URL,  *)
(* a certificate that does not load, and more threads than there are.      *)
ServingSetups ==
  { Plain, [Plain EXCEPT !.threads.option = <<3>>],
    [Plain EXCEPT !.uid = "ann", !.url.option = Url("http", 80)],
    [Plain EXCEPT !.url.option = Url("ftp", 80)],
    [Plain EXCEPT !.url.option = Url("http", 80), !.seteuid.key = "ann"],
    [Plain EXCEPT !.pair.option = "unloadable"],
    [Plain EXCEPT !.cores = 12, !.threads.key = <<9>>] }

MCSetups == ThreadSetups \cup WebSetups \cup UserSetups \cup OtherSetups \cup ServingSetups
==============================================================================
