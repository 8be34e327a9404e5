----------------------------- MODULE MCRequests -----------------------------
(* Two workers, connections of at most two requests, and one message of    *)
(* each kind the code tells apart.                                         *)
EXTENDS Requests

Good == [line |-> "good", method |-> "GET", path |-> "/login", version |-> "1.1",
         connection |-> "", range |-> "none", body |-> "complete"]

MCMessages ==
  { [Good EXCEPT !.line = "none"],
    [Good EXCEPT !.line = "long"],
    [Good EXCEPT !.line = "cut", !.connection = "close"],
    [Good EXCEPT !.connection = "close"],
    [Good EXCEPT !.path = "/", !.range = "within"],
    [Good EXCEPT !.path = "/images/logo.svg", !.range = "within"],
    [Good EXCEPT !.path = "/status.json", !.version = "1.0"],
    [Good EXCEPT !.path = "/plugin", !.range = "beyond"],
    [Good EXCEPT !.range = "overflow"],
    [Good EXCEPT !.method = "HEAD"],
    [Good EXCEPT !.path = "/ajax/"],
    [Good EXCEPT !.method = "TRACE"],
    [Good EXCEPT !.method = "POST", !.path = "/ajax/login", !.body = "form"],
    [Good EXCEPT !.method = "POST", !.path = "/register", !.body = "gzip"],
    [Good EXCEPT !.method = "PUT", !.body = "cut form"] }

MCFiles == {"/images/logo.svg"}
MCPluginRoutes == << "/plugin" >>
=============================================================================
