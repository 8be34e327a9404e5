------------------------------ MODULE Instances ------------------------------
(***************************************************************************)
(* The registry of running HelpCovid processes, tb_helpcovidinstance       *)
(* (src/hcv_database.cc), shared by the processes connected to the same    *)
(* PostGreSQL database: each creates the table when it is missing, inserts *)
(* a row, remembers its SERIAL number in hcv_database_serial, and deletes  *)
(* the row of that number on SIGTERM.  A process may be started with       *)
(* --clear-database, and may die anywhere.                                 *)
(*                                                                         *)
(* A step is an SQL statement or a commit.  An uncommitted row, deletion   *)
(* or table is seen by its transaction only, and DROP waits for the        *)
(* transactions that use the table.                                        *)
(***************************************************************************)
EXTENDS Naturals, FiniteSets

CONSTANTS
  Processes,        \* where a HelpCovid process may run
  MaxStarts         \* bound on the number of processes started

ASSUME InstancesAssumption == MaxStarts \in Nat

VARIABLES
  exists,           \* is the table there (committed)?
  creator,          \* processes whose transaction has created it, uncommitted
  rows,             \* committed rows: hcvinst_id -> the process started
  nextval,          \* next value of the SERIAL column hcvinst_id
  pc,               \* where each process is
  start,            \* which start each process is of, 0 before the first
  serial,           \* hcv_database_serial
  victims,          \* rows deleted by an uncommitted transaction
  starts,           \* number of processes started so far
  crashed,          \* history: the starts that ended without unregistering
  dispossessed      \* history: the starts that lost their row while serving,
                    \* to --clear-database or to a start that had lost its own

table == <<exists, creator, rows, nextval>>
vars  == <<table, pc, start, serial, victims, starts, crashed, dispossessed>>

Locations ==
  {"down", "clearing", "connected", "created", "inserted", "serving", "deleted"}

Numbers == 1 .. MaxStarts

Init ==
  /\ exists = FALSE
  /\ creator = {}
  /\ rows = <<>>
  /\ nextval = 1
  /\ pc = [p \in Processes |-> "down"]
  /\ start = [p \in Processes |-> 0]
  /\ serial = [p \in Processes |-> 0]
  /\ victims = [p \in Processes |-> {}]
  /\ starts = 0
  /\ crashed = {}
  /\ dispossessed = {}

GoTo(p, loc) == pc' = [pc EXCEPT ![p] = loc]

-----------------------------------------------------------------------------
(* hcv_initialize_database *)

(* The connection is made; the program option says whether to clear. *)
Connect(p) ==
  /\ pc[p] = "down"
  /\ starts < MaxStarts
  /\ starts' = starts + 1
  /\ start' = [start EXCEPT ![p] = starts + 1]
  /\ serial' = [serial EXCEPT ![p] = 0]
  /\ \E loc \in {"clearing", "connected"} : GoTo(p, loc)
  /\ UNCHANGED <<table, victims, crashed, dispossessed>>

(* DROP OWNED BY CURRENT_USER CASCADE, outside any transaction, whoever    *)
(* serves from that database.  A table another transaction is creating is  *)
(* not visible yet, and not dropped.                                       *)
ClearAtZero(p) ==
  /\ pc[p] = "clearing"
  /\ \A q \in Processes : pc[q] \in {"created", "inserted", "deleted"} => q \in creator
  /\ exists' = FALSE
  /\ rows' = <<>>
  /\ nextval' = IF creator = {} THEN 0 ELSE nextval
  /\ dispossessed' = dispossessed \cup {start[q] : q \in {r \in Processes : pc[r] = "serving"}}
  /\ GoTo(p, "connected")
  /\ UNCHANGED <<creator, start, serial, victims, starts, crashed>>

Clear(p) ==
  /\ pc[p] = "clearing"
  /\ \A q \in Processes : pc[q] \in {"created", "inserted", "deleted"} => q \in creator
  /\ exists' = FALSE
  /\ rows' = <<>>
  /\ nextval' = IF creator = {} THEN 1 ELSE nextval
  /\ dispossessed' = dispossessed \cup {start[q] : q \in {r \in Processes : pc[r] = "serving"}}
  /\ GoTo(p, "connected")
  /\ UNCHANGED <<creator, start, serial, victims, starts, crashed>>

(* In the transaction of the sql_ functions: CREATE TABLE IF NOT EXISTS,   *)
(* which waits for another transaction creating it, and the indexes.       *)
CreateTable(p) ==
  /\ pc[p] = "connected"
  /\ \/ exists /\ UNCHANGED creator
     \/ ~exists /\ creator = {} /\ creator' = {p}
  /\ GoTo(p, "created")
  /\ UNCHANGED <<exists, rows, nextval, start, serial, victims, starts, crashed, dispossessed>>

(* INSERT, then LASTVAL() into hcv_database_serial. *)
InsertCounting(p) ==
  /\ pc[p] = "created"
  /\ exists \/ p \in creator
  /\ nextval' = nextval + 1
  /\ serial' = [serial EXCEPT ![p] = Cardinality(DOMAIN rows) + 1]
  /\ GoTo(p, "inserted")
  /\ UNCHANGED <<exists, creator, rows, start, victims, starts, crashed, dispossessed>>

Insert(p) ==
  /\ pc[p] = "created"
  /\ exists \/ p \in creator
  /\ nextval' = nextval + 1
  /\ serial' = [serial EXCEPT ![p] = nextval]
  /\ GoTo(p, "inserted")
  /\ UNCHANGED <<exists, creator, rows, start, victims, starts, crashed, dispossessed>>

CommitInsert(p) ==
  /\ pc[p] = "inserted"
  /\ exists' = TRUE
  /\ creator' = creator \ {p}
  /\ rows' = [i \in DOMAIN rows \cup {serial[p]} |->
                IF i = serial[p] THEN start[p] ELSE rows[i]]
  /\ GoTo(p, "serving")
  /\ UNCHANGED <<nextval, start, serial, victims, starts, crashed, dispossessed>>

-----------------------------------------------------------------------------
(* hcv_close_database *)

(* sql_unregister_helpcovid_instance: the serial is forgotten, then DELETE *)
(* WHERE hcvinst_id = serial, which waits for another transaction that     *)
(* deleted the row.                                                        *)
UnregisterEverything(p) ==
  /\ pc[p] = "serving"
  /\ exists
  /\ \A q \in Processes : victims[q] = {}
  /\ serial' = [serial EXCEPT ![p] = 0]
  /\ victims' = [victims EXCEPT ![p] = DOMAIN rows]
  /\ GoTo(p, "deleted")
  /\ UNCHANGED <<table, start, starts, crashed, dispossessed>>

Unregister(p) ==
  /\ pc[p] = "serving"
  /\ exists
  /\ \A q \in Processes : serial[p] \notin victims[q]
  /\ serial' = [serial EXCEPT ![p] = 0]
  /\ victims' = [victims EXCEPT ![p] = {serial[p]} \cap DOMAIN rows]
  /\ GoTo(p, "deleted")
  /\ UNCHANGED <<table, start, starts, crashed, dispossessed>>

CommitNothing(p) ==
  /\ pc[p] = "deleted"
  /\ victims' = [victims EXCEPT ![p] = {}]
  /\ GoTo(p, "down")
  /\ UNCHANGED <<table, start, serial, starts, crashed, dispossessed>>

CommitUnregister(p) ==
  /\ pc[p] = "deleted"
  /\ rows' = [i \in DOMAIN rows \ victims[p] |-> rows[i]]
  /\ victims' = [victims EXCEPT ![p] = {}]
  /\ dispossessed' =
       dispossessed \cup IF start[p] \in dispossessed THEN {rows[i] : i \in victims[p]} ELSE {}
  /\ GoTo(p, "down")
  /\ UNCHANGED <<exists, creator, nextval, start, serial, starts, crashed>>

-----------------------------------------------------------------------------
(* The process dies: abort() or an uncaught exception anywhere, SIGHUP and *)
(* SIGXCPU while serving (hcv_process_SIGHUP_signal only aborts), a signal *)
(* before they are blocked, kill -9.  The server rolls back.               *)
Crash(p) ==
  /\ pc[p] # "down"
  /\ crashed' = crashed \cup {start[p]}
  /\ creator' = creator \ {p}
  /\ nextval' = IF p \in creator THEN 1 ELSE nextval
  /\ victims' = [victims EXCEPT ![p] = {}]
  /\ serial' = [serial EXCEPT ![p] = 0]
  /\ GoTo(p, "down")
  /\ UNCHANGED <<exists, rows, start, starts, dispossessed>>

-----------------------------------------------------------------------------
Next ==
  \E p \in Processes :
    \/ Connect(p) \/ Clear(p) \/ CreateTable(p) \/ Insert(p) \/ CommitInsert(p)
    \/ Unregister(p) \/ CommitUnregister(p)
    \/ Crash(p)

Spec == Init /\ [][Next]_vars

-----------------------------------------------------------------------------
(* The types of the variables. *)
TypeOK ==
  /\ exists \in BOOLEAN
  /\ creator \subseteq Processes
  /\ DOMAIN rows \subseteq Nat \ {0}
  /\ rows \in [DOMAIN rows -> Numbers]
  /\ nextval \in Nat \ {0}
  /\ pc \in [Processes -> Locations]
  /\ start \in [Processes -> 0 .. MaxStarts]
  /\ serial \in [Processes -> Nat]
  /\ victims \in [Processes -> SUBSET (Nat \ {0})]
  /\ starts \in 0 .. MaxStarts
  /\ crashed \subseteq Numbers
  /\ dispossessed \subseteq Numbers

Lost(p) == start[p] \in dispossessed

(* While a process serves, its serial number is that of its own row,       *)
(* whatever processes register, unregister or die at the same time, unless *)
(* the row was lost to a --clear-database: to the clearing itself, or to a *)
(* process that had lost its row to one and kept the number of it.         *)
ServingIsRegistered ==
  \A p \in Processes : pc[p] = "serving" =>
    \/ Lost(p)
    \/ serial[p] \in DOMAIN rows /\ rows[serial[p]] = start[p]

(* A row that outlives its process tells of a crash: an orderly end leaves *)
(* none, even when others start, clear, end or die between its DELETE and  *)
(* its commit.                                                             *)
StaleRowsAreOfCrashes ==
  \A i \in DOMAIN rows :
    \/ rows[i] \in crashed
    \/ \E p \in Processes : start[p] = rows[i] /\ pc[p] \in {"serving", "deleted"}

(* A process takes no row away but its own, unless it lost that one to a   *)
(* --clear-database: its number may have been given again since.           *)
DeletesOnlyOwnRow ==
  [][\A p \in Processes : CommitUnregister(p) /\ ~Lost(p) =>
       \A i \in DOMAIN rows \ DOMAIN rows' : rows[i] = start[p]]_vars

-----------------------------------------------------------------------------
(* What makes them inductive. *)

(* The processes that hold a number of the present sequence. *)
Numbered(p) == pc[p] \in {"inserted", "serving"} /\ ~Lost(p)

(* A number is drawn once from a sequence: those in use are below nextval, *)
(* and distinct.                                                           *)
SerialsDistinct ==
  /\ \A i \in DOMAIN rows : i < nextval
  /\ \A p \in Processes : Numbered(p) => serial[p] \in Nat \ {0} /\ serial[p] < nextval
  /\ \A p, q \in Processes : p # q /\ Numbered(p) /\ Numbered(q) => serial[p] # serial[q]
  /\ \A p \in Processes : pc[p] = "inserted" => serial[p] \notin DOMAIN rows

StartsDistinct ==
  /\ \A p \in Processes : pc[p] # "down" => start[p] \in 1 .. starts
  /\ \A p, q \in Processes : p # q /\ start[p] # 0 => start[p] # start[q]
  /\ \A p \in Processes : start[p] <= starts
  /\ \A s \in dispossessed : s <= starts

Early == {"clearing", "connected", "created", "inserted"}

(* A process has at most one row, and none before it commits it. *)
RegisteredOnce ==
  /\ \A i \in DOMAIN rows : rows[i] <= starts
  /\ \A i, j \in DOMAIN rows : i # j => rows[i] # rows[j]
  /\ \A p \in Processes : pc[p] \in Early => \A i \in DOMAIN rows : rows[i] # start[p]

(* Who lost a row had one, and does not get another. *)
LostForGood ==
  /\ \A p \in Processes : pc[p] \in Early => ~Lost(p)
  /\ \A i \in DOMAIN rows : rows[i] \notin dispossessed

(* Two uncommitted DELETEs are of different rows; the one of a process     *)
(* that did not lose its row is of that row, and of all of it.             *)
VictimIsOwn ==
  /\ \A p \in Processes : pc[p] # "deleted" => victims[p] = {}
  /\ \A p \in Processes : victims[p] \subseteq DOMAIN rows
  /\ \A p, q \in Processes : p # q => victims[p] \cap victims[q] = {}
  /\ \A p \in Processes : ~Lost(p) => \A i \in victims[p] : rows[i] = start[p]
  /\ \A p \in Processes : pc[p] = "deleted" =>
       \A i \in DOMAIN rows : rows[i] = start[p] => i \in victims[p]

(* There is one creating transaction, and then no table but its own. *)
CreatorAlone ==
  /\ \A p \in creator : creator = {p} /\ ~exists /\ pc[p] \in {"created", "inserted"}
  /\ ~exists => rows = <<>>
  /\ ~exists => \A p \in Processes : pc[p] = "inserted" => p \in creator
  /\ ~exists => \A p \in Processes : pc[p] # "deleted" /\ (pc[p] = "serving" => Lost(p))

InstancesInv ==
  /\ TypeOK
  /\ SerialsDistinct
  /\ StartsDistinct
  /\ RegisteredOnce
  /\ LostForGood
  /\ VictimIsOwn
  /\ CreatorAlone
  /\ ServingIsRegistered
  /\ StaleRowsAreOfCrashes

-----------------------------------------------------------------------------
(* What the documentation says, and the code does not do. *)

(* DATABASE.md:145: the table should contain one row per active instance   *)
(* and running process.  Here: a row for each process that serves.         *)
EachServingProcessHasARow ==
  \A p \in Processes : pc[p] = "serving" => \E i \in DOMAIN rows : rows[i] = start[p]
==============================================================================
