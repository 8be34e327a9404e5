----------------------------- MODULE MCPlugins -----------------------------
EXTENDS Plugins

MCThreads == {Main, Background} \cup Workers

(* The background thread runs jobs and closes the database; a worker       *)
(* expands templates, uses the database, postpones and shows its status.   *)
MCStarts ==
  [t \in MCThreads |->
    IF t = Background THEN {"do-event", "use-database"}
    ELSE {"expand-instruction", "use-database", "postpone", "loaded-plugins"}]

(* Jobs, closures and initialisers that keep the order. *)
MCJobCalls == {"postpone", "expand-instruction", "use-database"}
MCClosureCalls == {"config-do", "use-database"}
MCInitializerCalls == {"register-closure", "postpone", "register-statement"}

(* Two plugins, one of which has a database initialiser; one given twice;   *)
(* one that has no file.                                                   *)
MCOptionLists == {<< "gallery", "echo" >>, << "echo", "echo" >>, << "gallery", "lost" >>}
MCLoadable == {"gallery", "echo"}
MCWithDatabase == {"echo"}
=============================================================================
