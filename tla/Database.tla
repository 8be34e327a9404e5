------------------------------ MODULE Database -------------------------------
(***************************************************************************)
(* The one PostGreSQL connection of a HelpCovid process, hcv_dbconn, as    *)
(* the web workers and the background thread share it: the mutex hcv_dbmtx,*)
(* the active pqxx::work, and the operations of hcv_database.cc that open  *)
(* one (a fresh web cookie, a prepared statement of the user model, the    *)
(* lookup of an e-mail offered to plugins, the closing on SIGTERM).        *)
(*                                                                         *)
(* One step is one call into libpqxx, or one lock or unlock: other threads *)
(* run in between.  A connection has at most one active transaction and    *)
(* the constructor of a second one throws pqxx::usage_error.               *)
(***************************************************************************)
EXTENDS Naturals, FiniteSets

CONSTANTS
  Workers,          \* threads of the web server's pool
  Closer,           \* the background thread, which processes SIGTERM
  None,             \* no thread
  MaxRequests,      \* bound on the number of requests
  OtherSerial,      \* a value drawn from the sequence of another table
  StatementKnown,   \* is the statement the user model names prepared?
  DbFails           \* may an SQL statement or a commit fail?

ASSUME DatabaseAssumption ==
  /\ Closer \notin Workers
  /\ None \notin Workers \cup {Closer}
  /\ MaxRequests \in Nat
  /\ OtherSerial \in Nat \ {0}
  /\ StatementKnown \in BOOLEAN
  /\ DbFails \in BOOLEAN

VARIABLES
  process,          \* "running", or how the process died
  conn,             \* hcv_dbconn: "open", or "null"
  mutex,            \* the thread that holds hcv_dbmtx
  txn,              \* the thread whose pqxx::work is active
  rows,             \* tb_web_cookie, committed: wcookie_id -> request
  inserted,         \* wcookie_id the active transaction inserted, 0 if none
  nextval,          \* next value of the SERIAL column wcookie_id
  lastval,          \* LASTVAL() of the session
  serial,           \* hcv_database_serial
  instance,         \* is this process's row in tb_helpcovidinstance?
  deleted,          \* did the active transaction delete that row?
  pc,               \* where each thread is
  request,          \* the request number each worker is serving, 0 if none
  id,               \* variable id of hcv_database_get_id_of_added_web_cookie
  count,            \* requests received so far
  sent              \* Set-Cookie headers: request -> wcookie_id in the cookie

tables    == <<rows, inserted, nextval, lastval, instance, deleted>>
shared    == <<conn, mutex, txn, serial>>
local     == <<request, id, count, sent>>
vars      == <<process, tables, shared, pc, local>>

Threads == Workers \cup {Closer}

WorkerLocations ==
  {"idle", "cookieLock", "cookieBegin", "cookieInsert", "cookieLastval",
   "cookieCommit", "cookieUnlock", "cookieMake",
   "statementLock", "statementBegin", "statementUnlock",
   "lookupLock", "lookupBegin", "query", "commit"}

CloserLocations ==
  {"serving", "closeLock", "closeBegin", "closeDelete", "closeCommit",
   "closeReset", "closeUnlock", "closed"}

Deaths == {"aborted", "segfault", "terminated"}

Running == process = "running"

Die(how) == process' = how

-----------------------------------------------------------------------------
(* After hcv_initialize_database: connected, this process registered by an *)
(* INSERT of the same session, tb_web_cookie still empty; or no connection *)
(* at all, when configured with "-" or without a [postgresql] group.       *)
Init ==
  /\ process = "running"
  /\ \/ conn = "open" /\ serial = OtherSerial /\ instance = TRUE
     \/ conn = "null" /\ serial = 0 /\ instance = FALSE
  /\ mutex = None
  /\ txn = None
  /\ rows = <<>>
  /\ inserted = 0
  /\ nextval = 1
  /\ lastval = OtherSerial
  /\ deleted = FALSE
  /\ pc = [t \in Threads |-> IF t = Closer THEN "serving" ELSE "idle"]
  /\ request = [w \in Workers |-> 0]
  /\ id = [w \in Workers |-> 0]
  /\ count = 0
  /\ sent = <<>>

-----------------------------------------------------------------------------
(* Steps on the connection, common to its users *)

GoTo(t, loc) == pc' = [pc EXCEPT ![t] = loc]

Acquire(t, loc) ==
  /\ mutex = None
  /\ mutex' = t
  /\ GoTo(t, loc)
  /\ UNCHANGED <<process, tables, conn, txn, serial, local>>

(* The constructor of pqxx::work dereferences a null pointer when          *)
(* there is no connection; throws when another transaction is active.      *)
BeginCrashes(t) ==
  /\ conn = "null"
  /\ Die("segfault")
  /\ UNCHANGED <<tables, shared, pc, local>>

Begin(t) ==
  /\ conn = "open"
  /\ txn = None
  /\ txn' = t

BeginThrows(t) == conn = "open" /\ txn # None

(* An INSERT draws from the sequence, which no rollback undoes. *)
Draw   == nextval' = nextval + 1 /\ lastval' = nextval
NoDraw == UNCHANGED <<nextval, lastval>>

(* The destructor of an uncommitted pqxx::work. *)
Rollback ==
  /\ txn' = None
  /\ inserted' = 0
  /\ deleted' = FALSE
  /\ UNCHANGED <<rows, instance>>

CommittedRowsAlways(r) ==
  [i \in DOMAIN rows \cup {inserted} |-> IF i = inserted THEN r ELSE rows[i]]

CommittedRows(r) ==
  IF inserted = 0 THEN rows
  ELSE [i \in DOMAIN rows \cup {inserted} |-> IF i = inserted THEN r ELSE rows[i]]

Commit(r) ==
  /\ txn' = None
  /\ inserted' = 0
  /\ deleted' = FALSE
  /\ rows' = CommittedRows(r)
  /\ instance' = (instance /\ ~deleted)

(* commit() throws: nothing was committed, or, with the connection lost    *)
(* meanwhile (pqxx::in_doubt_error), all of it.                            *)
CommitThrows(r) == DbFails /\ (Rollback \/ Commit(r))

(* The lock_guard of t, if it has one, goes out of scope. *)
StillLocked(t) == mutex

Unlocked(t) == IF mutex = t THEN None ELSE mutex

-----------------------------------------------------------------------------
(* A worker gets a request: GET /register wants a cookie, POST /login runs a     *)
(* prepared statement, a plugin's handler may look an e-mail up.           *)
Receive(w) ==
  /\ pc[w] = "idle"
  /\ count < MaxRequests
  /\ count' = count + 1
  /\ request' = [request EXCEPT ![w] = count + 1]
  /\ \E loc \in {"cookieLock", "statementLock", "lookupLock"} : GoTo(w, loc)
  /\ UNCHANGED <<process, tables, shared, id, sent>>

Answer(w) ==
  /\ GoTo(w, "idle")
  /\ request' = [request EXCEPT ![w] = 0]

-----------------------------------------------------------------------------
(* hcv_database_get_id_of_added_web_cookie *)

(* The catch clause; then the lock_guard goes out of scope. *)
CatchKeepingId(w) == GoTo(w, "cookieUnlock") /\ UNCHANGED id

Catch(w) == GoTo(w, "cookieUnlock") /\ id' = [id EXCEPT ![w] = 0]

CookieBegin(w) ==
  /\ pc[w] = "cookieBegin"
  /\ \/ BeginCrashes(w)
     \/ /\ Begin(w)
        /\ GoTo(w, "cookieInsert")
        /\ UNCHANGED <<process, tables, conn, mutex, serial, local>>
     \/ /\ BeginThrows(w)
        /\ Catch(w)
        /\ UNCHANGED <<process, tables, shared, request, count, sent>>

(* INSERT INTO tb_web_cookie; had LASTVAL() been asked for first, it would *)
(* be the value of an earlier INSERT.                                      *)
CookieInsertAfterLastval(w) ==
  /\ pc[w] = "cookieInsert"
  /\ id' = [id EXCEPT ![w] = lastval]
  /\ inserted' = nextval
  /\ Draw
  /\ GoTo(w, "cookieCommit")
  /\ UNCHANGED <<process, shared, rows, instance, deleted, request, count, sent>>

CookieInsert(w) ==
  /\ pc[w] = "cookieInsert"
  /\ \/ /\ inserted' = nextval
        /\ Draw
        /\ GoTo(w, "cookieLastval")
        /\ UNCHANGED <<txn, rows, instance, deleted, id>>
     \/ /\ DbFails
        /\ Rollback
        /\ Draw \/ NoDraw
        /\ Catch(w)
  /\ UNCHANGED <<process, conn, mutex, serial, request, count, sent>>

CookieLastval(w) ==
  /\ pc[w] = "cookieLastval"
  /\ \/ /\ id' = [id EXCEPT ![w] = lastval]
        /\ GoTo(w, "cookieCommit")
        /\ UNCHANGED <<txn, rows, inserted, instance, deleted>>
     \/ /\ DbFails
        /\ Rollback
        /\ Catch(w)
  /\ NoDraw
  /\ UNCHANGED <<process, conn, mutex, serial, request, count, sent>>

CookieCommit(w) ==
  /\ pc[w] = "cookieCommit"
  /\ \/ /\ Commit(request[w])
        /\ GoTo(w, "cookieUnlock")
        /\ UNCHANGED id
     \/ /\ CommitThrows(request[w])
        /\ Catch(w)
  /\ NoDraw
  /\ UNCHANGED <<process, conn, mutex, serial, request, count, sent>>

CookieUnlock(w) ==
  /\ pc[w] = "cookieUnlock"
  /\ mutex' = Unlocked(w)
  /\ GoTo(w, "cookieMake")
  /\ UNCHANGED <<process, tables, conn, txn, serial, local>>

(* hcv_web_make_cookie_string asserts id > 0; then Set-Cookie. *)
CookieMake(w) ==
  /\ pc[w] = "cookieMake"
  /\ \/ /\ id[w] > 0
        /\ sent' = [r \in DOMAIN sent \cup {request[w]} |->
                      IF r = request[w] THEN id[w] ELSE sent[r]]
        /\ id' = [id EXCEPT ![w] = 0]
        /\ Answer(w)
        /\ UNCHANGED process
     \/ /\ id[w] = 0
        /\ Die("aborted")
        /\ UNCHANGED <<pc, request, id, sent>>
  /\ UNCHANGED <<tables, shared, count>>

Cookie(w) ==
  \/ pc[w] = "cookieLock" /\ Acquire(w, "cookieBegin")
  \/ CookieBegin(w) \/ CookieInsert(w) \/ CookieLastval(w) \/ CookieCommit(w)
  \/ CookieUnlock(w) \/ CookieMake(w)

-----------------------------------------------------------------------------
(* Hcv_PreparedStatement, used by hcv_user_model_authenticate and          *)
(* hcv_user_model_create, and hcv_database_with_known_email.  An exception *)
(* ends the request with status 500 (httplib).                             *)

(* The constructor begins under the mutex, and releases it on return. *)
StatementBegin(w) ==
  /\ pc[w] = "statementBegin"
  /\ \/ BeginCrashes(w)
     \/ /\ Begin(w)
        /\ GoTo(w, "statementUnlock")
        /\ UNCHANGED <<process, tables, conn, mutex, serial, local>>
     \/ /\ BeginThrows(w)
        /\ mutex' = Unlocked(w)
        /\ Answer(w)
        /\ UNCHANGED <<process, tables, conn, txn, serial, id, count, sent>>

StatementUnlock(w) ==
  /\ pc[w] = "statementUnlock"
  /\ mutex' = Unlocked(w)
  /\ GoTo(w, "query")
  /\ UNCHANGED <<process, tables, conn, txn, serial, local>>

(* hcv_database_with_known_email keeps the mutex until it returns. *)
LookupBegin(w) ==
  /\ pc[w] = "lookupBegin"
  /\ \/ BeginCrashes(w)
     \/ /\ Begin(w)
        /\ GoTo(w, "query")
        /\ UNCHANGED <<process, tables, conn, mutex, serial, local>>
     \/ /\ BeginThrows(w)
        /\ mutex' = Unlocked(w)
        /\ Answer(w)
        /\ UNCHANGED <<process, tables, conn, txn, serial, id, count, sent>>

(* "find_user_by_email_pstm" is prepared by the program; the two names of  *)
(* hcv_models.cc only if somebody else did.                                *)
KnownStatement(w) == mutex = w \/ StatementKnown

(* user_create inserts into tb_user, which has a SERIAL of its own. *)
Query(w) ==
  /\ pc[w] = "query"
  /\ \/ /\ KnownStatement(w)
        /\ lastval' \in {lastval, OtherSerial}
        /\ GoTo(w, "commit")
        /\ UNCHANGED <<mutex, txn, rows, inserted, nextval, instance, deleted, request>>
     \/ /\ DbFails \/ ~KnownStatement(w)
        /\ Rollback
        /\ NoDraw
        /\ mutex' = Unlocked(w)
        /\ Answer(w)
  /\ UNCHANGED <<process, conn, serial, id, count, sent>>

CommitQuery(w) ==
  /\ pc[w] = "commit"
  /\ Commit(request[w]) \/ CommitThrows(request[w])
  /\ NoDraw
  /\ mutex' = Unlocked(w)
  /\ Answer(w)
  /\ UNCHANGED <<process, conn, serial, id, count, sent>>

Statement(w) ==
  \/ pc[w] = "statementLock" /\ Acquire(w, "statementBegin")
  \/ StatementBegin(w) \/ StatementUnlock(w)
  \/ pc[w] = "lookupLock" /\ Acquire(w, "lookupBegin")
  \/ LookupBegin(w)
  \/ Query(w) \/ CommitQuery(w)

-----------------------------------------------------------------------------
(* hcv_process_SIGTERM_signal: hcv_stop_web, then hcv_close_database.  The *)
(* workers go on with the requests they have.                              *)

StopWeb ==
  /\ pc[Closer] = "serving"
  /\ GoTo(Closer, "closeLock")
  /\ UNCHANGED <<process, tables, shared, local>>

(* The background thread catches nothing: std::terminate. *)
CloseBeginCatching ==
  /\ pc[Closer] = "closeBegin"
  /\ \/ conn = "null" /\ Die("aborted") /\ UNCHANGED <<txn, pc>>
     \/ BeginThrows(Closer) /\ GoTo(Closer, "closeReset") /\ UNCHANGED <<txn, process>>
     \/ Begin(Closer) /\ GoTo(Closer, "closeDelete") /\ UNCHANGED process
  /\ UNCHANGED <<tables, conn, mutex, serial, local>>

CloseBegin ==
  /\ pc[Closer] = "closeBegin"
  /\ \/ conn = "null" /\ Die("aborted") /\ UNCHANGED <<txn, pc>>
     \/ BeginThrows(Closer) /\ Die("terminated") /\ UNCHANGED <<txn, pc>>
     \/ Begin(Closer) /\ GoTo(Closer, "closeDelete") /\ UNCHANGED process
  /\ UNCHANGED <<tables, conn, mutex, serial, local>>

(* sql_unregister_helpcovid_instance: the serial is forgotten first. *)
CloseDelete ==
  /\ pc[Closer] = "closeDelete"
  /\ serial' = 0
  /\ \/ /\ deleted' = (serial > 0)
        /\ GoTo(Closer, "closeCommit")
        /\ UNCHANGED process
     \/ /\ DbFails
        /\ Die("terminated")
        /\ UNCHANGED <<deleted, pc>>
  /\ UNCHANGED <<conn, mutex, txn, rows, inserted, nextval, lastval, instance, local>>

CloseCommitForgotten ==
  /\ pc[Closer] = "closeCommit"
  /\ Rollback
  /\ GoTo(Closer, "closeReset")
  /\ NoDraw
  /\ UNCHANGED <<process, conn, mutex, serial, local>>

CloseCommit ==
  /\ pc[Closer] = "closeCommit"
  /\ \/ Commit(0) /\ GoTo(Closer, "closeReset") /\ UNCHANGED process
     \/ CommitThrows(0) /\ Die("terminated") /\ UNCHANGED pc
  /\ NoDraw
  /\ UNCHANGED <<conn, mutex, serial, local>>

CloseReset ==
  /\ pc[Closer] = "closeReset"
  /\ conn' = "null"
  /\ GoTo(Closer, "closeUnlock")
  /\ UNCHANGED <<process, tables, mutex, txn, serial, local>>

CloseUnlock ==
  /\ pc[Closer] = "closeUnlock"
  /\ mutex' = Unlocked(Closer)
  /\ GoTo(Closer, "closed")
  /\ UNCHANGED <<process, tables, conn, txn, serial, local>>

Close ==
  \/ pc[Closer] = "closeLock" /\ Acquire(Closer, "closeBegin")
  \/ CloseBegin \/ CloseDelete \/ CloseCommit \/ CloseReset \/ CloseUnlock

-----------------------------------------------------------------------------
WorkerStep(w) == Running /\ (Cookie(w) \/ Statement(w))

CloserStep == Running /\ Close

Arrive == Running /\ (StopWeb \/ \E w \in Workers : Receive(w))

Next == Arrive \/ CloserStep \/ \E w \in Workers : WorkerStep(w)

Spec == Init /\ [][Next]_vars

(* A thread that is not blocked runs; a thread blocked on the mutex gets   *)
(* it when it stays free.                                                  *)
Fairness == WF_vars(CloserStep) /\ \A w \in Workers : WF_vars(WorkerStep(w))

FairSpec == Spec /\ Fairness

-----------------------------------------------------------------------------
(* The types of the variables. *)
TypeOK ==
  /\ process \in Deaths \cup {"running"}
  /\ conn \in {"open", "null"}
  /\ mutex \in Threads \cup {None}
  /\ txn \in Threads \cup {None}
  /\ DOMAIN rows \subseteq Nat \ {0}
  /\ rows \in [DOMAIN rows -> 1 .. MaxRequests]
  /\ inserted \in Nat
  /\ nextval \in Nat \ {0}
  /\ lastval \in Nat \ {0}
  /\ serial \in Nat
  /\ instance \in BOOLEAN
  /\ deleted \in BOOLEAN
  /\ pc \in [Threads -> WorkerLocations \cup CloserLocations]
  /\ \A t \in Threads : pc[t] \in IF t = Closer THEN CloserLocations ELSE WorkerLocations
  /\ request \in [Workers -> 0 .. MaxRequests]
  /\ id \in [Workers -> Nat]
  /\ count \in 0 .. MaxRequests
  /\ DOMAIN sent \subseteq 1 .. MaxRequests
  /\ sent \in [DOMAIN sent -> Nat \ {0}]

(* The cookie a browser is given names the committed row that its own      *)
(* request inserted, whatever the other threads and the statements that    *)
(* fail do meanwhile (LASTVAL() belongs to the session all threads share,  *)
(* and a commit that throws must leave no identifier behind).              *)
CookieIsOwnRow ==
  \A r \in DOMAIN sent : sent[r] \in DOMAIN rows /\ rows[sent[r]] = r

(* The connection is never reset under a transaction: a statement runs     *)
(* without the mutex, and only the final transaction of hcv_close_database *)
(* makes sure that none is left.                                           *)
ConnectionOutlivesTransactions == conn = "null" => txn = None

(* A process is registered in tb_helpcovidinstance for as long as it can   *)
(* use the database, and no longer, whatever else it commits.              *)
RegisteredUntilClosed ==
  Running => instance = (conn = "open" /\ pc[Closer] # "closeReset")

(* What makes the three of them inductive. *)

Holding == {"cookieBegin", "cookieInsert", "cookieLastval", "cookieCommit",
            "cookieUnlock", "statementBegin", "statementUnlock", "lookupBegin",
            "closeBegin", "closeDelete", "closeCommit", "closeReset", "closeUnlock"}

InTransaction == {"cookieInsert", "cookieLastval", "cookieCommit",
                  "statementUnlock", "query", "commit", "closeDelete", "closeCommit"}

(* The mutex and the transaction belong to the threads that think so. *)
Exclusion ==
  \A t \in Threads :
    /\ pc[t] \in Holding => mutex = t
    /\ txn = t => pc[t] \in InTransaction
    /\ (Running /\ pc[t] \in InTransaction) => txn = t

(* The numbers of the requests being served are distinct and in use. *)
RequestsDistinct ==
  /\ \A w \in Workers : pc[w] # "idle" <=> request[w] # 0
  /\ \A w \in Workers : request[w] <= count
  /\ \A v, w \in Workers : v # w /\ request[v] # 0 => request[v] # request[w]
  /\ \A i \in DOMAIN rows : rows[i] <= count
  /\ \A r \in DOMAIN sent : r <= count

(* A request is recorded and given its cookie at most once. *)
NotYetRecorded ==
  \A w \in Workers :
    /\ request[w] \notin DOMAIN sent
    /\ pc[w] \in {"cookieLock", "cookieBegin", "cookieInsert", "cookieLastval", "cookieCommit"}
         => \A i \in DOMAIN rows : rows[i] # request[w]

(* The row of the active transaction, and the identifier read for it. *)
OwnIdentifier ==
  /\ inserted < nextval
  /\ \A i \in DOMAIN rows : i < nextval /\ i # inserted
  /\ inserted # 0 =>
       \E w \in Workers : txn = w /\ pc[w] \in {"cookieLastval", "cookieCommit"}
  /\ \A w \in Workers :
       /\ pc[w] = "cookieLastval" => inserted # 0 /\ lastval = inserted
       /\ pc[w] = "cookieCommit" => inserted # 0 /\ id[w] = inserted
       /\ pc[w] \in {"cookieUnlock", "cookieMake"} /\ id[w] # 0 =>
            id[w] \in DOMAIN rows /\ rows[id[w]] = request[w]

(* The course of hcv_close_database. *)
ClosingSteps ==
  /\ pc[Closer] \in {"closeDelete", "closeCommit", "closeReset"} => conn = "open"
  /\ pc[Closer] = "closeReset" => txn = None
  /\ deleted => pc[Closer] = "closeCommit"
  /\ Running /\ pc[Closer] = "closeCommit" => deleted
  /\ conn = "open" /\ pc[Closer] \in {"serving", "closeLock", "closeBegin", "closeDelete"}
       => serial > 0 \/ ~Running
  /\ pc[Closer] \in {"closeUnlock", "closed"} => conn = "null"

DatabaseInv ==
  /\ TypeOK
  /\ Exclusion
  /\ RequestsDistinct
  /\ NotYetRecorded
  /\ OwnIdentifier
  /\ ClosingSteps
  /\ CookieIsOwnRow
  /\ ConnectionOutlivesTransactions
  /\ RegisteredUntilClosed

(* Every request is answered, or the process dies: no thread keeps the     *)
(* mutex or the transaction on any path, exceptions included.              *)
EveryRequestEnds ==
  \A w \in Workers : request[w] # 0 ~> (request[w] = 0 \/ ~Running)

(* So is hcv_close_database, called when SIGTERM is taken. *)
CloseEnds == pc[Closer] = "closeLock" ~> (pc[Closer] = "closed" \/ ~Running)

EveryCallEnds == EveryRequestEnds /\ CloseEnds

-----------------------------------------------------------------------------
(* Cookies are issued as the abstract ledger says. *)
Ledger == INSTANCE CookieLedger WITH
  Requests <- 1 .. MaxRequests,
  ledger <- rows,
  given <- sent

LedgerSpec == Ledger!Spec

-----------------------------------------------------------------------------
(* What the documentation and the code's own checks say, and the code does *)
(* not do.                                                                 *)

(* DATABASE.md:63-65: access to the connection should be serialized and    *)
(* protected with the hcv_dbmtx mutex.                                     *)
TransactionsSerialized == (Running /\ txn # None) => mutex = txn

(* hcv_web.cc:263, HCV_ASSERT(id>0): a cookie always has an identifier.    *)
CookieIdPositive == \A w \in Workers : pc[w] = "cookieMake" => id[w] > 0
==============================================================================
