--------------------------- MODULE DatabaseProofs ----------------------------
(* Proofs about Database, for every set of workers and number of requests. *)
EXTENDS Database, TLAPS

(* The steps by which a worker gets the mutex. *)
Acquiring(w) ==
  \/ pc[w] = "cookieLock" /\ Acquire(w, "cookieBegin")
  \/ pc[w] = "statementLock" /\ Acquire(w, "statementBegin")
  \/ pc[w] = "lookupLock" /\ Acquire(w, "lookupBegin")

(* What a rollback and a commit must leave well typed. *)
TransactionTypes ==
  /\ txn \in Threads \cup {None}
  /\ inserted \in Nat
  /\ deleted \in BOOLEAN
  /\ instance \in BOOLEAN
  /\ DOMAIN rows \subseteq Nat \ {0}
  /\ rows \in [DOMAIN rows -> 1 .. MaxRequests]

-----------------------------------------------------------------------------
(* Types *)

LEMMA RollbackType ==
  ASSUME TypeOK, Rollback
  PROVE  TransactionTypes'
BY DEF Rollback, TypeOK, TransactionTypes

(* A row is committed for a request, if one was inserted. *)
LEMMA CommitType ==
  ASSUME TypeOK, NEW r \in Nat, Commit(r), inserted # 0 => r \in 1 .. MaxRequests
  PROVE  TransactionTypes'
<1>1. deleted' \in BOOLEAN /\ txn' \in Threads \cup {None} /\ inserted' \in Nat
  BY DEF Commit
<1>2. instance' \in BOOLEAN
  BY Zenon DEF Commit, TypeOK
<1>3. DOMAIN rows' \subseteq Nat \ {0} /\ rows' \in [DOMAIN rows' -> 1 .. MaxRequests]
  BY DEF Commit, CommittedRows, TypeOK
<1> QED
  BY <1>1, <1>2, <1>3 DEF TransactionTypes

(* A thread moves to a location of its own kind. *)
LEMMA GoToType ==
  ASSUME TypeOK, NEW t \in Threads, NEW loc, GoTo(t, loc),
         loc \in IF t = Closer THEN CloserLocations ELSE WorkerLocations
  PROVE  /\ pc' \in [Threads -> WorkerLocations \cup CloserLocations]
         /\ \A u \in Threads : pc'[u] \in IF u = Closer THEN CloserLocations ELSE WorkerLocations
BY DEF GoTo, TypeOK

LEMMA CookieInsertType ==
  ASSUME TypeOK, NEW w \in Workers, CookieInsert(w)
  PROVE  TypeOK'
<1> USE DatabaseAssumption DEF Threads, WorkerLocations
<1>1. nextval' \in Nat \ {0} /\ lastval' \in Nat \ {0}
  BY DEF CookieInsert, Draw, NoDraw, TypeOK
<1>2. CASE Rollback /\ Catch(w)
  BY <1>1, <1>2, RollbackType, GoToType DEF CookieInsert, Catch, TypeOK, TransactionTypes
<1>3. CASE /\ UNCHANGED <<txn, rows, instance, deleted, id>>
           /\ inserted' = nextval
           /\ GoTo(w, "cookieLastval")
  BY <1>1, <1>3, GoToType DEF CookieInsert, TypeOK
<1> QED
  BY <1>2, <1>3 DEF CookieInsert

LEMMA CookieLastvalType ==
  ASSUME TypeOK, NEW w \in Workers, CookieLastval(w)
  PROVE  TypeOK'
<1> USE DatabaseAssumption DEF Threads, WorkerLocations
<1>1. CASE Rollback /\ Catch(w)
  BY <1>1, RollbackType, GoToType DEF CookieLastval, NoDraw, Catch, TypeOK, TransactionTypes
<1>2. CASE /\ id' = [id EXCEPT ![w] = lastval]
           /\ GoTo(w, "cookieCommit")
           /\ UNCHANGED <<txn, rows, inserted, instance, deleted>>
  BY <1>2, GoToType DEF CookieLastval, NoDraw, TypeOK
<1> QED
  BY <1>1, <1>2 DEF CookieLastval

LEMMA CookieCommitType ==
  ASSUME TypeOK, RequestsDistinct, NEW w \in Workers, CookieCommit(w)
  PROVE  TypeOK'
<1> USE DatabaseAssumption DEF Threads, WorkerLocations
<1>1. request[w] \in 1 .. MaxRequests
  BY DEF CookieCommit, RequestsDistinct, TypeOK
<1>2. TransactionTypes'
  BY <1>1, RollbackType, CommitType DEF CookieCommit, CommitThrows
<1>3. GoTo(w, "cookieUnlock") /\ id' \in [Workers -> Nat]
  BY DEF CookieCommit, Catch, TypeOK
<1>4. UNCHANGED <<process, conn, mutex, serial, request, count, sent, nextval, lastval>>
  BY DEF CookieCommit, NoDraw
<1> QED
  BY <1>2, <1>3, <1>4, GoToType DEF TypeOK, TransactionTypes

LEMMA QueryType ==
  ASSUME TypeOK, NEW w \in Workers, Query(w)
  PROVE  TypeOK'
<1> USE DatabaseAssumption DEF Threads, WorkerLocations
<1>1. CASE /\ lastval' \in {lastval, OtherSerial}
           /\ GoTo(w, "commit")
           /\ UNCHANGED <<mutex, txn, rows, inserted, nextval, instance, deleted, request>>
  BY <1>1, GoToType DEF Query, TypeOK
<1>2. CASE Rollback /\ NoDraw /\ mutex' = Unlocked(w) /\ Answer(w)
  BY <1>2, RollbackType, GoToType
     DEF Query, NoDraw, Unlocked, Answer, TypeOK, TransactionTypes
<1> QED
  BY <1>1, <1>2 DEF Query

LEMMA CommitQueryType ==
  ASSUME TypeOK, RequestsDistinct, NEW w \in Workers, CommitQuery(w)
  PROVE  TypeOK'
<1> USE DatabaseAssumption DEF Threads, WorkerLocations
<1>1. request[w] \in 1 .. MaxRequests
  BY DEF CommitQuery, RequestsDistinct, TypeOK
<1>2. TransactionTypes'
  BY <1>1, RollbackType, CommitType DEF CommitQuery, CommitThrows
<1>3. mutex' \in Threads \cup {None} /\ request' \in [Workers -> 0 .. MaxRequests]
  BY DEF CommitQuery, Unlocked, Answer, TypeOK
<1>4. GoTo(w, "idle") /\ UNCHANGED <<process, conn, serial, id, count, sent, nextval, lastval>>
  BY DEF CommitQuery, Answer, NoDraw
<1> QED
  BY <1>2, <1>3, <1>4, GoToType DEF TypeOK, TransactionTypes

LEMMA CloseDeleteType ==
  ASSUME TypeOK, CloseDelete
  PROVE  TypeOK'
<1>1. deleted' \in BOOLEAN
  <2>1. CASE deleted' = (serial > 0)
    <3>1. (serial > 0) \in BOOLEAN
      OBVIOUS
    <3> QED
      BY <2>1, <3>1, Zenon
  <2>2. CASE UNCHANGED deleted
    BY <2>2 DEF TypeOK
  <2> QED
    BY <2>1, <2>2, Zenon DEF CloseDelete
<1>2. /\ process' \in Deaths \cup {"running"}
      /\ serial' \in Nat
      /\ pc' \in [Threads -> WorkerLocations \cup CloserLocations]
      /\ \A t \in Threads : pc'[t] \in IF t = Closer THEN CloserLocations ELSE WorkerLocations
  <2>1. CASE GoTo(Closer, "closeCommit") /\ UNCHANGED process
    BY <2>1, GoToType DEF CloseDelete, TypeOK, Threads, CloserLocations
  <2>2. CASE Die("terminated") /\ UNCHANGED <<deleted, pc>>
    BY <2>2 DEF CloseDelete, Die, TypeOK, Deaths
  <2> QED
    BY <2>1, <2>2, Zenon DEF CloseDelete
<1>3. UNCHANGED <<conn, mutex, txn, rows, inserted, nextval, lastval, instance, local>>
  BY Zenon DEF CloseDelete
<1> QED
  BY <1>1, <1>2, <1>3 DEF TypeOK, local

LEMMA CloseCommitType ==
  ASSUME TypeOK, Exclusion, OwnIdentifier, Running, CloseCommit
  PROVE  TypeOK'
<1> USE DatabaseAssumption DEF Threads, CloserLocations
<1>1. inserted = 0
  BY DEF CloseCommit, Exclusion, OwnIdentifier, InTransaction
<1>2. TransactionTypes'
  BY <1>1, RollbackType, CommitType DEF CloseCommit, CommitThrows
<1>3. UNCHANGED <<conn, mutex, serial, local, nextval, lastval>>
  BY DEF CloseCommit, NoDraw
<1>4. CASE GoTo(Closer, "closeReset") /\ UNCHANGED process
  BY <1>2, <1>3, <1>4, GoToType DEF TypeOK, TransactionTypes, local
<1>5. CASE Die("terminated") /\ UNCHANGED pc
  BY <1>2, <1>3, <1>5 DEF Die, Deaths, TypeOK, TransactionTypes, local
<1> QED
  BY <1>4, <1>5 DEF CloseCommit

(* The serial number is forgotten, and the row deleted with it. *)
LEMMA CloseDeleteClosing ==
  ASSUME TypeOK, ClosingSteps, Running, CloseDelete
  PROVE  ClosingSteps'
<1>1. UNCHANGED <<conn, txn>>
  BY DEF CloseDelete
<1>2. CASE Die("terminated") /\ UNCHANGED <<deleted, pc>>
  BY <1>1, <1>2 DEF Die, Running, ClosingSteps
<1>3. CASE deleted' = (serial > 0) /\ GoTo(Closer, "closeCommit")
  <2>1. pc[Closer] = "closeDelete" /\ conn = "open" /\ serial > 0
    BY Zenon DEF CloseDelete, ClosingSteps, Running
  <2>2. deleted'
    BY <1>3, <2>1, Zenon
  <2>3. pc'[Closer] = "closeCommit"
    BY <1>3 DEF GoTo, TypeOK, Threads
  <2> QED
    BY <1>1, <2>1, <2>2, <2>3 DEF Running, ClosingSteps
<1> QED
  BY <1>2, <1>3 DEF CloseDelete

-----------------------------------------------------------------------------
(* The invariant, part by part *)

(* Every step keeps the types. *)
LEMMA TypeOKStep ==
  ASSUME TypeOK, Exclusion, RequestsDistinct, OwnIdentifier, [Next]_vars
  PROVE  TypeOK'
<1> USE DatabaseAssumption DEF vars, tables, shared, local, Threads, Running, WorkerLocations, CloserLocations,
      Deaths, TypeOK, RequestsDistinct, OwnIdentifier
<1>1. ASSUME Running, NEW w \in Workers, Receive(w)
      PROVE  TypeOK'
  BY <1>1 DEF Receive, GoTo
<1>2. ASSUME Running, NEW w \in Workers, Acquiring(w)
      PROVE  TypeOK'
  BY <1>2 DEF Acquiring, Acquire, GoTo
<1>3. ASSUME Running, NEW w \in Workers, CookieBegin(w)
      PROVE  TypeOK'
  BY <1>3 DEF CookieBegin, BeginCrashes, Begin, BeginThrows, Die, Catch, GoTo
<1>4. ASSUME Running, NEW w \in Workers, CookieInsert(w)
      PROVE  TypeOK'
  BY <1>4, CookieInsertType
<1>5. ASSUME Running, NEW w \in Workers, CookieLastval(w)
      PROVE  TypeOK'
  BY <1>5, CookieLastvalType
<1>6. ASSUME Running, NEW w \in Workers, CookieCommit(w)
      PROVE  TypeOK'
  BY <1>6, CookieCommitType
<1>7. ASSUME Running, NEW w \in Workers, CookieUnlock(w)
      PROVE  TypeOK'
  BY <1>7 DEF CookieUnlock, Unlocked, GoTo
<1>8. ASSUME Running, NEW w \in Workers, CookieMake(w)
      PROVE  TypeOK'
  BY <1>8 DEF CookieMake, Answer, Die, GoTo
<1>9. ASSUME Running, NEW w \in Workers, StatementBegin(w)
      PROVE  TypeOK'
  BY <1>9 DEF StatementBegin, BeginCrashes, Begin, BeginThrows, Die,
         Unlocked, Answer, GoTo
<1>10. ASSUME Running, NEW w \in Workers, StatementUnlock(w)
      PROVE  TypeOK'
  BY <1>10 DEF StatementUnlock, Unlocked, GoTo
<1>11. ASSUME Running, NEW w \in Workers, LookupBegin(w)
      PROVE  TypeOK'
  BY <1>11 DEF LookupBegin, BeginCrashes, Begin, BeginThrows, Die,
         Unlocked, Answer, GoTo
<1>12. ASSUME Running, NEW w \in Workers, Query(w)
      PROVE  TypeOK'
  BY <1>12, QueryType
<1>13. ASSUME Running, NEW w \in Workers, CommitQuery(w)
      PROVE  TypeOK'
  BY <1>13, CommitQueryType
<1>14. ASSUME Running, StopWeb
      PROVE  TypeOK'
  BY <1>14 DEF StopWeb, GoTo
<1>15. ASSUME Running, pc[Closer] = "closeLock", Acquire(Closer, "closeBegin")
      PROVE  TypeOK'
  BY <1>15 DEF Acquire, GoTo
<1>16. ASSUME Running, CloseBegin
      PROVE  TypeOK'
  BY <1>16 DEF CloseBegin, Begin, BeginThrows, Die, GoTo
<1>17. ASSUME Running, CloseDelete
      PROVE  TypeOK'
  BY <1>17, CloseDeleteType
<1>18. ASSUME Running, CloseCommit
      PROVE  TypeOK'
  BY <1>18, CloseCommitType
<1>19. ASSUME Running, CloseReset
      PROVE  TypeOK'
  BY <1>19 DEF CloseReset, GoTo
<1>20. ASSUME Running, CloseUnlock
      PROVE  TypeOK'
  BY <1>20 DEF CloseUnlock, Unlocked, GoTo
<1>21. CASE UNCHANGED vars
  BY <1>21
<1> HIDE DEF Running, TypeOK, RequestsDistinct, OwnIdentifier
<1>22. ASSUME NEW w \in Workers, WorkerStep(w)
      PROVE  TypeOK'
  BY <1>2, <1>3, <1>4, <1>5, <1>6, <1>7, <1>8, <1>9, <1>10, <1>11, <1>12, <1>13, <1>22
     DEF WorkerStep, Cookie, Statement, Acquiring
<1>23. CASE CloserStep
  BY <1>15, <1>16, <1>17, <1>18, <1>19, <1>20, <1>23 DEF CloserStep, Close
<1>24. CASE Arrive
  BY <1>1, <1>14, <1>24 DEF Arrive
<1> QED
  BY <1>21, <1>22, <1>23, <1>24 DEF Next

(* Every step leaves the mutex and the transaction with the threads that think
   they have them. *)
LEMMA ExclusionStep ==
  ASSUME TypeOK, Exclusion, [Next]_vars
  PROVE  Exclusion'
<1> USE DatabaseAssumption DEF vars, tables, shared, local, Threads, Running, Holding, InTransaction, TypeOK, Exclusion
<1>1. ASSUME Running, NEW w \in Workers, Receive(w)
      PROVE  Exclusion'
  BY <1>1 DEF Receive, GoTo
<1>2. ASSUME Running, NEW w \in Workers, Acquiring(w)
      PROVE  Exclusion'
  BY <1>2 DEF Acquiring, Acquire, GoTo
<1>3. ASSUME Running, NEW w \in Workers, CookieBegin(w)
      PROVE  Exclusion'
  BY <1>3 DEF CookieBegin, BeginCrashes, Begin, BeginThrows, Die, Catch, GoTo
<1>4. ASSUME Running, NEW w \in Workers, CookieInsert(w)
      PROVE  Exclusion'
  BY <1>4 DEF CookieInsert, Draw, NoDraw, Rollback, Catch, GoTo
<1>5. ASSUME Running, NEW w \in Workers, CookieLastval(w)
      PROVE  Exclusion'
  BY <1>5 DEF CookieLastval, NoDraw, Rollback, Catch, GoTo
<1>6. ASSUME Running, NEW w \in Workers, CookieCommit(w)
      PROVE  Exclusion'
  BY <1>6 DEF CookieCommit, NoDraw, Commit, CommitThrows, CommittedRows,
         Rollback, Catch, GoTo
<1>7. ASSUME Running, NEW w \in Workers, CookieUnlock(w)
      PROVE  Exclusion'
  BY <1>7 DEF CookieUnlock, Unlocked, GoTo
<1>8. ASSUME Running, NEW w \in Workers, CookieMake(w)
      PROVE  Exclusion'
  BY <1>8 DEF CookieMake, Answer, Die, GoTo
<1>9. ASSUME Running, NEW w \in Workers, StatementBegin(w)
      PROVE  Exclusion'
  BY <1>9 DEF StatementBegin, BeginCrashes, Begin, BeginThrows, Die,
         Unlocked, Answer, GoTo
<1>10. ASSUME Running, NEW w \in Workers, StatementUnlock(w)
      PROVE  Exclusion'
  BY <1>10 DEF StatementUnlock, Unlocked, GoTo
<1>11. ASSUME Running, NEW w \in Workers, LookupBegin(w)
      PROVE  Exclusion'
  BY <1>11 DEF LookupBegin, BeginCrashes, Begin, BeginThrows, Die,
         Unlocked, Answer, GoTo
<1>12. ASSUME Running, NEW w \in Workers, Query(w)
      PROVE  Exclusion'
  BY <1>12 DEF Query, NoDraw, Rollback, Unlocked, Answer, GoTo
<1>13. ASSUME Running, NEW w \in Workers, CommitQuery(w)
      PROVE  Exclusion'
  BY <1>13 DEF CommitQuery, NoDraw, Commit, CommitThrows, CommittedRows,
         Rollback, Unlocked, Answer, GoTo
<1>14. ASSUME Running, StopWeb
      PROVE  Exclusion'
  BY <1>14 DEF StopWeb, GoTo
<1>15. ASSUME Running, pc[Closer] = "closeLock", Acquire(Closer, "closeBegin")
      PROVE  Exclusion'
  BY <1>15 DEF Acquire, GoTo
<1>16. ASSUME Running, CloseBegin
      PROVE  Exclusion'
  BY <1>16 DEF CloseBegin, Begin, BeginThrows, Die, GoTo
<1>17. ASSUME Running, CloseDelete
      PROVE  Exclusion'
  BY <1>17 DEF CloseDelete, Die, GoTo
<1>18. ASSUME Running, CloseCommit
      PROVE  Exclusion'
  BY <1>18 DEF CloseCommit, NoDraw, Commit, CommitThrows, CommittedRows,
         Rollback, Die, GoTo
<1>19. ASSUME Running, CloseReset
      PROVE  Exclusion'
  BY <1>19 DEF CloseReset, GoTo
<1>20. ASSUME Running, CloseUnlock
      PROVE  Exclusion'
  BY <1>20 DEF CloseUnlock, Unlocked, GoTo
<1>21. CASE UNCHANGED vars
  BY <1>21
<1> HIDE DEF Running, TypeOK, Exclusion
<1>22. ASSUME NEW w \in Workers, WorkerStep(w)
      PROVE  Exclusion'
  BY <1>2, <1>3, <1>4, <1>5, <1>6, <1>7, <1>8, <1>9, <1>10, <1>11, <1>12, <1>13, <1>22
     DEF WorkerStep, Cookie, Statement, Acquiring
<1>23. CASE CloserStep
  BY <1>15, <1>16, <1>17, <1>18, <1>19, <1>20, <1>23 DEF CloserStep, Close
<1>24. CASE Arrive
  BY <1>1, <1>14, <1>24 DEF Arrive
<1> QED
  BY <1>21, <1>22, <1>23, <1>24 DEF Next

(* Every step keeps the requests distinct. *)
LEMMA RequestsDistinctStep ==
  ASSUME TypeOK, Exclusion, RequestsDistinct, OwnIdentifier, [Next]_vars
  PROVE  RequestsDistinct'
<1> USE DatabaseAssumption DEF vars, tables, shared, local, Threads, Running, InTransaction, TypeOK, RequestsDistinct, OwnIdentifier, Exclusion
<1>1. ASSUME Running, NEW w \in Workers, Receive(w)
      PROVE  RequestsDistinct'
  BY <1>1 DEF Receive, GoTo
<1>2. ASSUME Running, NEW w \in Workers, Acquiring(w)
      PROVE  RequestsDistinct'
  BY <1>2 DEF Acquiring, Acquire, GoTo
<1>3. ASSUME Running, NEW w \in Workers, CookieBegin(w)
      PROVE  RequestsDistinct'
  BY <1>3 DEF CookieBegin, BeginCrashes, Begin, BeginThrows, Die, Catch, GoTo
<1>4. ASSUME Running, NEW w \in Workers, CookieInsert(w)
      PROVE  RequestsDistinct'
  BY <1>4 DEF CookieInsert, Draw, NoDraw, Rollback, Catch, GoTo
<1>5. ASSUME Running, NEW w \in Workers, CookieLastval(w)
      PROVE  RequestsDistinct'
  BY <1>5 DEF CookieLastval, NoDraw, Rollback, Catch, GoTo
<1>6. ASSUME Running, NEW w \in Workers, CookieCommit(w)
      PROVE  RequestsDistinct'
  BY <1>6 DEF CookieCommit, NoDraw, Commit, CommitThrows, CommittedRows,
         Rollback, Catch, GoTo
<1>7. ASSUME Running, NEW w \in Workers, CookieUnlock(w)
      PROVE  RequestsDistinct'
  BY <1>7 DEF CookieUnlock, Unlocked, GoTo
<1>8. ASSUME Running, NEW w \in Workers, CookieMake(w)
      PROVE  RequestsDistinct'
  BY <1>8 DEF CookieMake, Answer, Die, GoTo
<1>9. ASSUME Running, NEW w \in Workers, StatementBegin(w)
      PROVE  RequestsDistinct'
  BY <1>9 DEF StatementBegin, BeginCrashes, Begin, BeginThrows, Die,
         Unlocked, Answer, GoTo
<1>10. ASSUME Running, NEW w \in Workers, StatementUnlock(w)
      PROVE  RequestsDistinct'
  BY <1>10 DEF StatementUnlock, Unlocked, GoTo
<1>11. ASSUME Running, NEW w \in Workers, LookupBegin(w)
      PROVE  RequestsDistinct'
  BY <1>11 DEF LookupBegin, BeginCrashes, Begin, BeginThrows, Die,
         Unlocked, Answer, GoTo
<1>12. ASSUME Running, NEW w \in Workers, Query(w)
      PROVE  RequestsDistinct'
  BY <1>12 DEF Query, NoDraw, Rollback, Unlocked, Answer, GoTo
<1>13. ASSUME Running, NEW w \in Workers, CommitQuery(w)
      PROVE  RequestsDistinct'
  BY <1>13 DEF CommitQuery, NoDraw, Commit, CommitThrows, CommittedRows,
         Rollback, Unlocked, Answer, GoTo
<1>14. ASSUME Running, StopWeb
      PROVE  RequestsDistinct'
  BY <1>14 DEF StopWeb, GoTo
<1>15. ASSUME Running, pc[Closer] = "closeLock", Acquire(Closer, "closeBegin")
      PROVE  RequestsDistinct'
  BY <1>15 DEF Acquire, GoTo
<1>16. ASSUME Running, CloseBegin
      PROVE  RequestsDistinct'
  BY <1>16 DEF CloseBegin, Begin, BeginThrows, Die, GoTo
<1>17. ASSUME Running, CloseDelete
      PROVE  RequestsDistinct'
  BY <1>17 DEF CloseDelete, Die, GoTo
<1>18. ASSUME Running, CloseCommit
      PROVE  RequestsDistinct'
  BY <1>18 DEF CloseCommit, NoDraw, Commit, CommitThrows, CommittedRows,
         Rollback, Die, GoTo
<1>19. ASSUME Running, CloseReset
      PROVE  RequestsDistinct'
  BY <1>19 DEF CloseReset, GoTo
<1>20. ASSUME Running, CloseUnlock
      PROVE  RequestsDistinct'
  BY <1>20 DEF CloseUnlock, Unlocked, GoTo
<1>21. CASE UNCHANGED vars
  BY <1>21
<1> HIDE DEF Running, TypeOK, RequestsDistinct, OwnIdentifier, Exclusion
<1>22. ASSUME NEW w \in Workers, WorkerStep(w)
      PROVE  RequestsDistinct'
  BY <1>2, <1>3, <1>4, <1>5, <1>6, <1>7, <1>8, <1>9, <1>10, <1>11, <1>12, <1>13, <1>22
     DEF WorkerStep, Cookie, Statement, Acquiring
<1>23. CASE CloserStep
  BY <1>15, <1>16, <1>17, <1>18, <1>19, <1>20, <1>23 DEF CloserStep, Close
<1>24. CASE Arrive
  BY <1>1, <1>14, <1>24 DEF Arrive
<1> QED
  BY <1>21, <1>22, <1>23, <1>24 DEF Next

(* No request is recorded twice. *)
LEMMA NotYetRecordedStep ==
  ASSUME TypeOK, Exclusion, RequestsDistinct, NotYetRecorded, OwnIdentifier, [Next]_vars
  PROVE  NotYetRecorded'
<1> USE DatabaseAssumption DEF vars, tables, shared, local, Threads, Running, InTransaction, TypeOK, Exclusion, RequestsDistinct, NotYetRecorded, OwnIdentifier
<1>1. ASSUME Running, NEW w \in Workers, Receive(w)
      PROVE  NotYetRecorded'
  BY <1>1 DEF Receive, GoTo
<1>2. ASSUME Running, NEW w \in Workers, Acquiring(w)
      PROVE  NotYetRecorded'
  BY <1>2 DEF Acquiring, Acquire, GoTo
<1>3. ASSUME Running, NEW w \in Workers, CookieBegin(w)
      PROVE  NotYetRecorded'
  BY <1>3 DEF CookieBegin, BeginCrashes, Begin, BeginThrows, Die, Catch, GoTo
<1>4. ASSUME Running, NEW w \in Workers, CookieInsert(w)
      PROVE  NotYetRecorded'
  BY <1>4 DEF CookieInsert, Draw, NoDraw, Rollback, Catch, GoTo
<1>5. ASSUME Running, NEW w \in Workers, CookieLastval(w)
      PROVE  NotYetRecorded'
  BY <1>5 DEF CookieLastval, NoDraw, Rollback, Catch, GoTo
<1>6. ASSUME Running, NEW w \in Workers, CookieCommit(w)
      PROVE  NotYetRecorded'
  BY <1>6 DEF CookieCommit, NoDraw, Commit, CommitThrows, CommittedRows,
         Rollback, Catch, GoTo
<1>7. ASSUME Running, NEW w \in Workers, CookieUnlock(w)
      PROVE  NotYetRecorded'
  BY <1>7 DEF CookieUnlock, Unlocked, GoTo
<1>8. ASSUME Running, NEW w \in Workers, CookieMake(w)
      PROVE  NotYetRecorded'
  BY <1>8 DEF CookieMake, Answer, Die, GoTo
<1>9. ASSUME Running, NEW w \in Workers, StatementBegin(w)
      PROVE  NotYetRecorded'
  BY <1>9 DEF StatementBegin, BeginCrashes, Begin, BeginThrows, Die,
         Unlocked, Answer, GoTo
<1>10. ASSUME Running, NEW w \in Workers, StatementUnlock(w)
      PROVE  NotYetRecorded'
  BY <1>10 DEF StatementUnlock, Unlocked, GoTo
<1>11. ASSUME Running, NEW w \in Workers, LookupBegin(w)
      PROVE  NotYetRecorded'
  BY <1>11 DEF LookupBegin, BeginCrashes, Begin, BeginThrows, Die,
         Unlocked, Answer, GoTo
<1>12. ASSUME Running, NEW w \in Workers, Query(w)
      PROVE  NotYetRecorded'
  BY <1>12 DEF Query, NoDraw, Rollback, Unlocked, Answer, GoTo
<1>13. ASSUME Running, NEW w \in Workers, CommitQuery(w)
      PROVE  NotYetRecorded'
  BY <1>13 DEF CommitQuery, NoDraw, Commit, CommitThrows, CommittedRows,
         Rollback, Unlocked, Answer, GoTo
<1>14. ASSUME Running, StopWeb
      PROVE  NotYetRecorded'
  BY <1>14 DEF StopWeb, GoTo
<1>15. ASSUME Running, pc[Closer] = "closeLock", Acquire(Closer, "closeBegin")
      PROVE  NotYetRecorded'
  BY <1>15 DEF Acquire, GoTo
<1>16. ASSUME Running, CloseBegin
      PROVE  NotYetRecorded'
  BY <1>16 DEF CloseBegin, Begin, BeginThrows, Die, GoTo
<1>17. ASSUME Running, CloseDelete
      PROVE  NotYetRecorded'
  BY <1>17 DEF CloseDelete, Die, GoTo
<1>18. ASSUME Running, CloseCommit
      PROVE  NotYetRecorded'
  BY <1>18 DEF CloseCommit, NoDraw, Commit, CommitThrows, CommittedRows,
         Rollback, Die, GoTo
<1>19. ASSUME Running, CloseReset
      PROVE  NotYetRecorded'
  BY <1>19 DEF CloseReset, GoTo
<1>20. ASSUME Running, CloseUnlock
      PROVE  NotYetRecorded'
  BY <1>20 DEF CloseUnlock, Unlocked, GoTo
<1>21. CASE UNCHANGED vars
  BY <1>21
<1> HIDE DEF Running, TypeOK, RequestsDistinct, OwnIdentifier, Exclusion, NotYetRecorded
<1>22. ASSUME NEW w \in Workers, WorkerStep(w)
      PROVE  NotYetRecorded'
  BY <1>2, <1>3, <1>4, <1>5, <1>6, <1>7, <1>8, <1>9, <1>10, <1>11, <1>12, <1>13, <1>22
     DEF WorkerStep, Cookie, Statement, Acquiring
<1>23. CASE CloserStep
  BY <1>15, <1>16, <1>17, <1>18, <1>19, <1>20, <1>23 DEF CloserStep, Close
<1>24. CASE Arrive
  BY <1>1, <1>14, <1>24 DEF Arrive
<1> QED
  BY <1>21, <1>22, <1>23, <1>24 DEF Next

(* A worker's identifier is that of the row it inserts: between the INSERT and
   LASTVAL() it owns the transaction, and no other thread can insert. *)
LEMMA OwnIdentifierStep ==
  ASSUME TypeOK, Exclusion, RequestsDistinct, OwnIdentifier, [Next]_vars
  PROVE  OwnIdentifier'
<1> USE DatabaseAssumption DEF vars, tables, shared, local, Threads, Running, InTransaction, TypeOK, Exclusion, RequestsDistinct, OwnIdentifier
<1>1. ASSUME Running, NEW w \in Workers, Receive(w)
      PROVE  OwnIdentifier'
  BY <1>1 DEF Receive, GoTo
<1>2. ASSUME Running, NEW w \in Workers, Acquiring(w)
      PROVE  OwnIdentifier'
  BY <1>2 DEF Acquiring, Acquire, GoTo
<1>3. ASSUME Running, NEW w \in Workers, CookieBegin(w)
      PROVE  OwnIdentifier'
  BY <1>3 DEF CookieBegin, BeginCrashes, Begin, BeginThrows, Die, Catch, GoTo
<1>4. ASSUME Running, NEW w \in Workers, CookieInsert(w)
      PROVE  OwnIdentifier'
  BY <1>4 DEF CookieInsert, Draw, NoDraw, Rollback, Catch, GoTo
<1>5. ASSUME Running, NEW w \in Workers, CookieLastval(w)
      PROVE  OwnIdentifier'
  BY <1>5 DEF CookieLastval, NoDraw, Rollback, Catch, GoTo
<1>6. ASSUME Running, NEW w \in Workers, CookieCommit(w)
      PROVE  OwnIdentifier'
  BY <1>6 DEF CookieCommit, NoDraw, Commit, CommitThrows, CommittedRows,
         Rollback, Catch, GoTo
<1>7. ASSUME Running, NEW w \in Workers, CookieUnlock(w)
      PROVE  OwnIdentifier'
  BY <1>7 DEF CookieUnlock, Unlocked, GoTo
<1>8. ASSUME Running, NEW w \in Workers, CookieMake(w)
      PROVE  OwnIdentifier'
  BY <1>8 DEF CookieMake, Answer, Die, GoTo
<1>9. ASSUME Running, NEW w \in Workers, StatementBegin(w)
      PROVE  OwnIdentifier'
  BY <1>9 DEF StatementBegin, BeginCrashes, Begin, BeginThrows, Die,
         Unlocked, Answer, GoTo
<1>10. ASSUME Running, NEW w \in Workers, StatementUnlock(w)
      PROVE  OwnIdentifier'
  BY <1>10 DEF StatementUnlock, Unlocked, GoTo
<1>11. ASSUME Running, NEW w \in Workers, LookupBegin(w)
      PROVE  OwnIdentifier'
  BY <1>11 DEF LookupBegin, BeginCrashes, Begin, BeginThrows, Die,
         Unlocked, Answer, GoTo
<1>12. ASSUME Running, NEW w \in Workers, Query(w)
      PROVE  OwnIdentifier'
  BY <1>12 DEF Query, NoDraw, Rollback, Unlocked, Answer, GoTo
<1>13. ASSUME Running, NEW w \in Workers, CommitQuery(w)
      PROVE  OwnIdentifier'
  BY <1>13 DEF CommitQuery, NoDraw, Commit, CommitThrows, CommittedRows,
         Rollback, Unlocked, Answer, GoTo
<1>14. ASSUME Running, StopWeb
      PROVE  OwnIdentifier'
  BY <1>14 DEF StopWeb, GoTo
<1>15. ASSUME Running, pc[Closer] = "closeLock", Acquire(Closer, "closeBegin")
      PROVE  OwnIdentifier'
  BY <1>15 DEF Acquire, GoTo
<1>16. ASSUME Running, CloseBegin
      PROVE  OwnIdentifier'
  BY <1>16 DEF CloseBegin, Begin, BeginThrows, Die, GoTo
<1>17. ASSUME Running, CloseDelete
      PROVE  OwnIdentifier'
  BY <1>17 DEF CloseDelete, Die, GoTo
<1>18. ASSUME Running, CloseCommit
      PROVE  OwnIdentifier'
  BY <1>18 DEF CloseCommit, NoDraw, Commit, CommitThrows, CommittedRows,
         Rollback, Die, GoTo
<1>19. ASSUME Running, CloseReset
      PROVE  OwnIdentifier'
  BY <1>19 DEF CloseReset, GoTo
<1>20. ASSUME Running, CloseUnlock
      PROVE  OwnIdentifier'
  BY <1>20 DEF CloseUnlock, Unlocked, GoTo
<1>21. CASE UNCHANGED vars
  BY <1>21
<1> HIDE DEF Running, TypeOK, RequestsDistinct, OwnIdentifier, Exclusion
<1>22. ASSUME NEW w \in Workers, WorkerStep(w)
      PROVE  OwnIdentifier'
  BY <1>2, <1>3, <1>4, <1>5, <1>6, <1>7, <1>8, <1>9, <1>10, <1>11, <1>12, <1>13, <1>22
     DEF WorkerStep, Cookie, Statement, Acquiring
<1>23. CASE CloserStep
  BY <1>15, <1>16, <1>17, <1>18, <1>19, <1>20, <1>23 DEF CloserStep, Close
<1>24. CASE Arrive
  BY <1>1, <1>14, <1>24 DEF Arrive
<1> QED
  BY <1>21, <1>22, <1>23, <1>24 DEF Next

(* hcv_close_database runs its course, whatever the workers do. *)
LEMMA ClosingStepsStep ==
  ASSUME TypeOK, Exclusion, ClosingSteps, [Next]_vars
  PROVE  ClosingSteps'
<1> USE DatabaseAssumption DEF vars, tables, shared, local, Threads, Running, Holding, InTransaction, WorkerLocations, TypeOK, Exclusion, ClosingSteps
<1>1. ASSUME Running, NEW w \in Workers, Receive(w)
      PROVE  ClosingSteps'
  BY <1>1 DEF Receive, GoTo
<1>2. ASSUME Running, NEW w \in Workers, Acquiring(w)
      PROVE  ClosingSteps'
  BY <1>2 DEF Acquiring, Acquire, GoTo
<1>3. ASSUME Running, NEW w \in Workers, CookieBegin(w)
      PROVE  ClosingSteps'
  BY <1>3 DEF CookieBegin, BeginCrashes, Begin, BeginThrows, Die, Catch, GoTo
<1>4. ASSUME Running, NEW w \in Workers, CookieInsert(w)
      PROVE  ClosingSteps'
  BY <1>4 DEF CookieInsert, Draw, NoDraw, Rollback, Catch, GoTo
<1>5. ASSUME Running, NEW w \in Workers, CookieLastval(w)
      PROVE  ClosingSteps'
  BY <1>5 DEF CookieLastval, NoDraw, Rollback, Catch, GoTo
<1>6. ASSUME Running, NEW w \in Workers, CookieCommit(w)
      PROVE  ClosingSteps'
  BY <1>6 DEF CookieCommit, NoDraw, Commit, CommitThrows, CommittedRows,
         Rollback, Catch, GoTo
<1>7. ASSUME Running, NEW w \in Workers, CookieUnlock(w)
      PROVE  ClosingSteps'
  BY <1>7 DEF CookieUnlock, Unlocked, GoTo
<1>8. ASSUME Running, NEW w \in Workers, CookieMake(w)
      PROVE  ClosingSteps'
  BY <1>8 DEF CookieMake, Answer, Die, GoTo
<1>9. ASSUME Running, NEW w \in Workers, StatementBegin(w)
      PROVE  ClosingSteps'
  BY <1>9 DEF StatementBegin, BeginCrashes, Begin, BeginThrows, Die,
         Unlocked, Answer, GoTo
<1>10. ASSUME Running, NEW w \in Workers, StatementUnlock(w)
      PROVE  ClosingSteps'
  BY <1>10 DEF StatementUnlock, Unlocked, GoTo
<1>11. ASSUME Running, NEW w \in Workers, LookupBegin(w)
      PROVE  ClosingSteps'
  BY <1>11 DEF LookupBegin, BeginCrashes, Begin, BeginThrows, Die,
         Unlocked, Answer, GoTo
<1>12. ASSUME Running, NEW w \in Workers, Query(w)
      PROVE  ClosingSteps'
  BY <1>12 DEF Query, NoDraw, Rollback, Unlocked, Answer, GoTo
<1>13. ASSUME Running, NEW w \in Workers, CommitQuery(w)
      PROVE  ClosingSteps'
  BY <1>13 DEF CommitQuery, NoDraw, Commit, CommitThrows, CommittedRows,
         Rollback, Unlocked, Answer, GoTo
<1>14. ASSUME Running, StopWeb
      PROVE  ClosingSteps'
  BY <1>14 DEF StopWeb, GoTo
<1>15. ASSUME Running, pc[Closer] = "closeLock", Acquire(Closer, "closeBegin")
      PROVE  ClosingSteps'
  BY <1>15 DEF Acquire, GoTo
<1>16. ASSUME Running, CloseBegin
      PROVE  ClosingSteps'
  BY <1>16 DEF CloseBegin, Begin, BeginThrows, Die, GoTo
<1>17. ASSUME Running, CloseDelete
      PROVE  ClosingSteps'
  BY <1>17, CloseDeleteClosing
<1>18. ASSUME Running, CloseCommit
      PROVE  ClosingSteps'
  BY <1>18 DEF CloseCommit, NoDraw, Commit, CommitThrows, CommittedRows,
         Rollback, Die, GoTo
<1>19. ASSUME Running, CloseReset
      PROVE  ClosingSteps'
  BY <1>19 DEF CloseReset, GoTo
<1>20. ASSUME Running, CloseUnlock
      PROVE  ClosingSteps'
  BY <1>20 DEF CloseUnlock, Unlocked, GoTo
<1>21. CASE UNCHANGED vars
  BY <1>21
<1> HIDE DEF Running, TypeOK, Exclusion, ClosingSteps
<1>22. ASSUME NEW w \in Workers, WorkerStep(w)
      PROVE  ClosingSteps'
  BY <1>2, <1>3, <1>4, <1>5, <1>6, <1>7, <1>8, <1>9, <1>10, <1>11, <1>12, <1>13, <1>22
     DEF WorkerStep, Cookie, Statement, Acquiring
<1>23. CASE CloserStep
  BY <1>15, <1>16, <1>17, <1>18, <1>19, <1>20, <1>23 DEF CloserStep, Close
<1>24. CASE Arrive
  BY <1>1, <1>14, <1>24 DEF Arrive
<1> QED
  BY <1>21, <1>22, <1>23, <1>24 DEF Next

(* A committed row is never overwritten: an identifier is drawn once. *)
LEMMA CookieIsOwnRowStep ==
  ASSUME TypeOK, Exclusion, RequestsDistinct, OwnIdentifier, CookieIsOwnRow, [Next]_vars
  PROVE  CookieIsOwnRow'
<1> USE DatabaseAssumption DEF vars, tables, shared, local, Running, InTransaction, Threads, TypeOK, Exclusion, RequestsDistinct, OwnIdentifier, CookieIsOwnRow
<1>1. ASSUME Running, NEW w \in Workers, Receive(w)
      PROVE  CookieIsOwnRow'
  BY <1>1 DEF Receive, GoTo
<1>2. ASSUME Running, NEW w \in Workers, Acquiring(w)
      PROVE  CookieIsOwnRow'
  BY <1>2 DEF Acquiring, Acquire, GoTo
<1>3. ASSUME Running, NEW w \in Workers, CookieBegin(w)
      PROVE  CookieIsOwnRow'
  BY <1>3 DEF CookieBegin, BeginCrashes, Begin, BeginThrows, Die, Catch, GoTo
<1>4. ASSUME Running, NEW w \in Workers, CookieInsert(w)
      PROVE  CookieIsOwnRow'
  BY <1>4 DEF CookieInsert, Draw, NoDraw, Rollback, Catch, GoTo
<1>5. ASSUME Running, NEW w \in Workers, CookieLastval(w)
      PROVE  CookieIsOwnRow'
  BY <1>5 DEF CookieLastval, NoDraw, Rollback, Catch, GoTo
<1>6. ASSUME Running, NEW w \in Workers, CookieCommit(w)
      PROVE  CookieIsOwnRow'
  BY <1>6 DEF CookieCommit, NoDraw, Commit, CommitThrows, CommittedRows,
         Rollback, Catch, GoTo
<1>7. ASSUME Running, NEW w \in Workers, CookieUnlock(w)
      PROVE  CookieIsOwnRow'
  BY <1>7 DEF CookieUnlock, Unlocked, GoTo
<1>8. ASSUME Running, NEW w \in Workers, CookieMake(w)
      PROVE  CookieIsOwnRow'
  BY <1>8 DEF CookieMake, Answer, Die, GoTo
<1>9. ASSUME Running, NEW w \in Workers, StatementBegin(w)
      PROVE  CookieIsOwnRow'
  BY <1>9 DEF StatementBegin, BeginCrashes, Begin, BeginThrows, Die,
         Unlocked, Answer, GoTo
<1>10. ASSUME Running, NEW w \in Workers, StatementUnlock(w)
      PROVE  CookieIsOwnRow'
  BY <1>10 DEF StatementUnlock, Unlocked, GoTo
<1>11. ASSUME Running, NEW w \in Workers, LookupBegin(w)
      PROVE  CookieIsOwnRow'
  BY <1>11 DEF LookupBegin, BeginCrashes, Begin, BeginThrows, Die,
         Unlocked, Answer, GoTo
<1>12. ASSUME Running, NEW w \in Workers, Query(w)
      PROVE  CookieIsOwnRow'
  BY <1>12 DEF Query, NoDraw, Rollback, Unlocked, Answer, GoTo
<1>13. ASSUME Running, NEW w \in Workers, CommitQuery(w)
      PROVE  CookieIsOwnRow'
  BY <1>13 DEF CommitQuery, NoDraw, Commit, CommitThrows, CommittedRows,
         Rollback, Unlocked, Answer, GoTo
<1>14. ASSUME Running, StopWeb
      PROVE  CookieIsOwnRow'
  BY <1>14 DEF StopWeb, GoTo
<1>15. ASSUME Running, pc[Closer] = "closeLock", Acquire(Closer, "closeBegin")
      PROVE  CookieIsOwnRow'
  BY <1>15 DEF Acquire, GoTo
<1>16. ASSUME Running, CloseBegin
      PROVE  CookieIsOwnRow'
  BY <1>16 DEF CloseBegin, Begin, BeginThrows, Die, GoTo
<1>17. ASSUME Running, CloseDelete
      PROVE  CookieIsOwnRow'
  BY <1>17 DEF CloseDelete, Die, GoTo
<1>18. ASSUME Running, CloseCommit
      PROVE  CookieIsOwnRow'
  BY <1>18 DEF CloseCommit, NoDraw, Commit, CommitThrows, CommittedRows,
         Rollback, Die, GoTo
<1>19. ASSUME Running, CloseReset
      PROVE  CookieIsOwnRow'
  BY <1>19 DEF CloseReset, GoTo
<1>20. ASSUME Running, CloseUnlock
      PROVE  CookieIsOwnRow'
  BY <1>20 DEF CloseUnlock, Unlocked, GoTo
<1>21. CASE UNCHANGED vars
  BY <1>21
<1> HIDE DEF Running, TypeOK, RequestsDistinct, OwnIdentifier, Exclusion, CookieIsOwnRow
<1>22. ASSUME NEW w \in Workers, WorkerStep(w)
      PROVE  CookieIsOwnRow'
  BY <1>2, <1>3, <1>4, <1>5, <1>6, <1>7, <1>8, <1>9, <1>10, <1>11, <1>12, <1>13, <1>22
     DEF WorkerStep, Cookie, Statement, Acquiring
<1>23. CASE CloserStep
  BY <1>15, <1>16, <1>17, <1>18, <1>19, <1>20, <1>23 DEF CloserStep, Close
<1>24. CASE Arrive
  BY <1>1, <1>14, <1>24 DEF Arrive
<1> QED
  BY <1>21, <1>22, <1>23, <1>24 DEF Next

(* Nothing begins between the final commit and the reset of the connection. *)
LEMMA ConnectionOutlivesTransactionsStep ==
  ASSUME TypeOK, Exclusion, ClosingSteps, ConnectionOutlivesTransactions, [Next]_vars
  PROVE  ConnectionOutlivesTransactions'
<1> USE DatabaseAssumption DEF vars, tables, shared, local, Threads, Running, TypeOK, Exclusion, ClosingSteps, ConnectionOutlivesTransactions
<1>1. ASSUME Running, NEW w \in Workers, Receive(w)
      PROVE  ConnectionOutlivesTransactions'
  BY <1>1 DEF Receive, GoTo
<1>2. ASSUME Running, NEW w \in Workers, Acquiring(w)
      PROVE  ConnectionOutlivesTransactions'
  BY <1>2 DEF Acquiring, Acquire, GoTo
<1>3. ASSUME Running, NEW w \in Workers, CookieBegin(w)
      PROVE  ConnectionOutlivesTransactions'
  BY <1>3 DEF CookieBegin, BeginCrashes, Begin, BeginThrows, Die, Catch, GoTo
<1>4. ASSUME Running, NEW w \in Workers, CookieInsert(w)
      PROVE  ConnectionOutlivesTransactions'
  BY <1>4 DEF CookieInsert, Draw, NoDraw, Rollback, Catch, GoTo
<1>5. ASSUME Running, NEW w \in Workers, CookieLastval(w)
      PROVE  ConnectionOutlivesTransactions'
  BY <1>5 DEF CookieLastval, NoDraw, Rollback, Catch, GoTo
<1>6. ASSUME Running, NEW w \in Workers, CookieCommit(w)
      PROVE  ConnectionOutlivesTransactions'
  BY <1>6 DEF CookieCommit, NoDraw, Commit, CommitThrows, CommittedRows,
         Rollback, Catch, GoTo
<1>7. ASSUME Running, NEW w \in Workers, CookieUnlock(w)
      PROVE  ConnectionOutlivesTransactions'
  BY <1>7 DEF CookieUnlock, Unlocked, GoTo
<1>8. ASSUME Running, NEW w \in Workers, CookieMake(w)
      PROVE  ConnectionOutlivesTransactions'
  BY <1>8 DEF CookieMake, Answer, Die, GoTo
<1>9. ASSUME Running, NEW w \in Workers, StatementBegin(w)
      PROVE  ConnectionOutlivesTransactions'
  BY <1>9 DEF StatementBegin, BeginCrashes, Begin, BeginThrows, Die,
         Unlocked, Answer, GoTo
<1>10. ASSUME Running, NEW w \in Workers, StatementUnlock(w)
      PROVE  ConnectionOutlivesTransactions'
  BY <1>10 DEF StatementUnlock, Unlocked, GoTo
<1>11. ASSUME Running, NEW w \in Workers, LookupBegin(w)
      PROVE  ConnectionOutlivesTransactions'
  BY <1>11 DEF LookupBegin, BeginCrashes, Begin, BeginThrows, Die,
         Unlocked, Answer, GoTo
<1>12. ASSUME Running, NEW w \in Workers, Query(w)
      PROVE  ConnectionOutlivesTransactions'
  BY <1>12 DEF Query, NoDraw, Rollback, Unlocked, Answer, GoTo
<1>13. ASSUME Running, NEW w \in Workers, CommitQuery(w)
      PROVE  ConnectionOutlivesTransactions'
  BY <1>13 DEF CommitQuery, NoDraw, Commit, CommitThrows, CommittedRows,
         Rollback, Unlocked, Answer, GoTo
<1>14. ASSUME Running, StopWeb
      PROVE  ConnectionOutlivesTransactions'
  BY <1>14 DEF StopWeb, GoTo
<1>15. ASSUME Running, pc[Closer] = "closeLock", Acquire(Closer, "closeBegin")
      PROVE  ConnectionOutlivesTransactions'
  BY <1>15 DEF Acquire, GoTo
<1>16. ASSUME Running, CloseBegin
      PROVE  ConnectionOutlivesTransactions'
  BY <1>16 DEF CloseBegin, Begin, BeginThrows, Die, GoTo
<1>17. ASSUME Running, CloseDelete
      PROVE  ConnectionOutlivesTransactions'
  BY <1>17 DEF CloseDelete, Die, GoTo
<1>18. ASSUME Running, CloseCommit
      PROVE  ConnectionOutlivesTransactions'
  BY <1>18 DEF CloseCommit, NoDraw, Commit, CommitThrows, CommittedRows,
         Rollback, Die, GoTo
<1>19. ASSUME Running, CloseReset
      PROVE  ConnectionOutlivesTransactions'
  BY <1>19 DEF CloseReset, GoTo
<1>20. ASSUME Running, CloseUnlock
      PROVE  ConnectionOutlivesTransactions'
  BY <1>20 DEF CloseUnlock, Unlocked, GoTo
<1>21. CASE UNCHANGED vars
  BY <1>21
<1> HIDE DEF Running, TypeOK, Exclusion, ClosingSteps, ConnectionOutlivesTransactions
<1>22. ASSUME NEW w \in Workers, WorkerStep(w)
      PROVE  ConnectionOutlivesTransactions'
  BY <1>2, <1>3, <1>4, <1>5, <1>6, <1>7, <1>8, <1>9, <1>10, <1>11, <1>12, <1>13, <1>22
     DEF WorkerStep, Cookie, Statement, Acquiring
<1>23. CASE CloserStep
  BY <1>15, <1>16, <1>17, <1>18, <1>19, <1>20, <1>23 DEF CloserStep, Close
<1>24. CASE Arrive
  BY <1>1, <1>14, <1>24 DEF Arrive
<1> QED
  BY <1>21, <1>22, <1>23, <1>24 DEF Next

(* Only the final transaction deletes the instance's row. *)
LEMMA RegisteredUntilClosedStep ==
  ASSUME TypeOK, Exclusion, ClosingSteps, RegisteredUntilClosed, [Next]_vars
  PROVE  RegisteredUntilClosed'
<1> USE DatabaseAssumption DEF vars, tables, shared, local, Threads, Running, InTransaction, WorkerLocations, TypeOK, Exclusion, ClosingSteps, RegisteredUntilClosed
<1>1. ASSUME Running, NEW w \in Workers, Receive(w)
      PROVE  RegisteredUntilClosed'
  BY <1>1 DEF Receive, GoTo
<1>2. ASSUME Running, NEW w \in Workers, Acquiring(w)
      PROVE  RegisteredUntilClosed'
  BY <1>2 DEF Acquiring, Acquire, GoTo
<1>3. ASSUME Running, NEW w \in Workers, CookieBegin(w)
      PROVE  RegisteredUntilClosed'
  BY <1>3 DEF CookieBegin, BeginCrashes, Begin, BeginThrows, Die, Catch, GoTo
<1>4. ASSUME Running, NEW w \in Workers, CookieInsert(w)
      PROVE  RegisteredUntilClosed'
  BY <1>4 DEF CookieInsert, Draw, NoDraw, Rollback, Catch, GoTo
<1>5. ASSUME Running, NEW w \in Workers, CookieLastval(w)
      PROVE  RegisteredUntilClosed'
  BY <1>5 DEF CookieLastval, NoDraw, Rollback, Catch, GoTo
<1>6. ASSUME Running, NEW w \in Workers, CookieCommit(w)
      PROVE  RegisteredUntilClosed'
  BY <1>6 DEF CookieCommit, NoDraw, Commit, CommitThrows, CommittedRows,
         Rollback, Catch, GoTo
<1>7. ASSUME Running, NEW w \in Workers, CookieUnlock(w)
      PROVE  RegisteredUntilClosed'
  BY <1>7 DEF CookieUnlock, Unlocked, GoTo
<1>8. ASSUME Running, NEW w \in Workers, CookieMake(w)
      PROVE  RegisteredUntilClosed'
  BY <1>8 DEF CookieMake, Answer, Die, GoTo
<1>9. ASSUME Running, NEW w \in Workers, StatementBegin(w)
      PROVE  RegisteredUntilClosed'
  BY <1>9 DEF StatementBegin, BeginCrashes, Begin, BeginThrows, Die,
         Unlocked, Answer, GoTo
<1>10. ASSUME Running, NEW w \in Workers, StatementUnlock(w)
      PROVE  RegisteredUntilClosed'
  BY <1>10 DEF StatementUnlock, Unlocked, GoTo
<1>11. ASSUME Running, NEW w \in Workers, LookupBegin(w)
      PROVE  RegisteredUntilClosed'
  BY <1>11 DEF LookupBegin, BeginCrashes, Begin, BeginThrows, Die,
         Unlocked, Answer, GoTo
<1>12. ASSUME Running, NEW w \in Workers, Query(w)
      PROVE  RegisteredUntilClosed'
  BY <1>12 DEF Query, NoDraw, Rollback, Unlocked, Answer, GoTo
<1>13. ASSUME Running, NEW w \in Workers, CommitQuery(w)
      PROVE  RegisteredUntilClosed'
  BY <1>13 DEF CommitQuery, NoDraw, Commit, CommitThrows, CommittedRows,
         Rollback, Unlocked, Answer, GoTo
<1>14. ASSUME Running, StopWeb
      PROVE  RegisteredUntilClosed'
  BY <1>14 DEF StopWeb, GoTo
<1>15. ASSUME Running, pc[Closer] = "closeLock", Acquire(Closer, "closeBegin")
      PROVE  RegisteredUntilClosed'
  BY <1>15 DEF Acquire, GoTo
<1>16. ASSUME Running, CloseBegin
      PROVE  RegisteredUntilClosed'
  BY <1>16 DEF CloseBegin, Begin, BeginThrows, Die, GoTo
<1>17. ASSUME Running, CloseDelete
      PROVE  RegisteredUntilClosed'
  BY <1>17 DEF CloseDelete, Die, GoTo
<1>18. ASSUME Running, CloseCommit
      PROVE  RegisteredUntilClosed'
  BY <1>18 DEF CloseCommit, NoDraw, Commit, CommitThrows, CommittedRows,
         Rollback, Die, GoTo
<1>19. ASSUME Running, CloseReset
      PROVE  RegisteredUntilClosed'
  BY <1>19 DEF CloseReset, GoTo
<1>20. ASSUME Running, CloseUnlock
      PROVE  RegisteredUntilClosed'
  BY <1>20 DEF CloseUnlock, Unlocked, GoTo
<1>21. CASE UNCHANGED vars
  BY <1>21
<1> HIDE DEF Running, TypeOK, Exclusion, ClosingSteps, RegisteredUntilClosed
<1>22. ASSUME NEW w \in Workers, WorkerStep(w)
      PROVE  RegisteredUntilClosed'
  BY <1>2, <1>3, <1>4, <1>5, <1>6, <1>7, <1>8, <1>9, <1>10, <1>11, <1>12, <1>13, <1>22
     DEF WorkerStep, Cookie, Statement, Acquiring
<1>23. CASE CloserStep
  BY <1>15, <1>16, <1>17, <1>18, <1>19, <1>20, <1>23 DEF CloserStep, Close
<1>24. CASE Arrive
  BY <1>1, <1>14, <1>24 DEF Arrive
<1> QED
  BY <1>21, <1>22, <1>23, <1>24 DEF Next

-----------------------------------------------------------------------------
LEMMA DatabaseInvInit ==
  ASSUME Init
  PROVE  DatabaseInv
<1> USE DatabaseAssumption DEF Init
<1>1. TypeOK
  <2>1. /\ rows \in [DOMAIN rows -> 1 .. MaxRequests] /\ DOMAIN rows \subseteq Nat \ {0}
        /\ sent \in [DOMAIN sent -> Nat \ {0}] /\ DOMAIN sent \subseteq 1 .. MaxRequests
    OBVIOUS
  <2>2. /\ pc \in [Threads -> WorkerLocations \cup CloserLocations]
        /\ \A t \in Threads : pc[t] \in IF t = Closer THEN CloserLocations ELSE WorkerLocations
    BY DEF Threads, WorkerLocations, CloserLocations
  <2>3. /\ request \in [Workers -> 0 .. MaxRequests]
        /\ id \in [Workers -> Nat]
        /\ count \in 0 .. MaxRequests
    OBVIOUS
  <2>4. instance \in BOOLEAN /\ deleted \in BOOLEAN
    BY Zenon
  <2>5. serial \in Nat
    BY Zenon, OtherSerial \in Nat, 0 \in Nat
  <2> QED
    BY <2>1, <2>2, <2>3, <2>4, <2>5 DEF TypeOK
<1>2. Exclusion /\ RequestsDistinct /\ NotYetRecorded /\ OwnIdentifier
  BY DEF Threads, Exclusion, Holding, InTransaction, RequestsDistinct, NotYetRecorded,
         OwnIdentifier
<1>3. ClosingSteps /\ CookieIsOwnRow /\ ConnectionOutlivesTransactions
  BY DEF Threads, ClosingSteps, CookieIsOwnRow, ConnectionOutlivesTransactions
<1>4. RegisteredUntilClosed
  BY DEF Threads, RegisteredUntilClosed
<1> QED
  BY <1>1, <1>2, <1>3, <1>4 DEF DatabaseInv

LEMMA DatabaseInvStep ==
  ASSUME DatabaseInv, [Next]_vars
  PROVE  DatabaseInv'
BY TypeOKStep, ExclusionStep, RequestsDistinctStep, NotYetRecordedStep, OwnIdentifierStep,
   ClosingStepsStep, CookieIsOwnRowStep, ConnectionOutlivesTransactionsStep,
   RegisteredUntilClosedStep, Zenon
   DEF DatabaseInv

(* The inductive invariant: the mutex, the transaction and the identifiers *)
(* of hcv_database.cc, in every interleaving of its callers.               *)
THEOREM DatabaseInvariant == Spec => []DatabaseInv
BY DatabaseInvInit, DatabaseInvStep, PTL DEF Spec

(* The variables keep their types. *)
THEOREM DatabaseTypeCorrect == Spec => []TypeOK
BY DatabaseInvariant, PTL DEF DatabaseInv

(* hcv_database_get_id_of_added_web_cookie: the cookie a browser is given  *)
(* names the committed row of its own request.                             *)
THEOREM CookiesOwnTheirRows == Spec => []CookieIsOwnRow
BY DatabaseInvariant, PTL DEF DatabaseInv

(* hcv_close_database never resets the connection under a transaction.     *)
THEOREM ConnectionIsSafe == Spec => []ConnectionOutlivesTransactions
BY DatabaseInvariant, PTL DEF DatabaseInv

(* sql_unregister_helpcovid_instance: the row of this process is there     *)
(* until the final commit, and gone after it.                              *)
THEOREM RegistrationFollowsConnection == Spec => []RegisteredUntilClosed
BY DatabaseInvariant, PTL DEF DatabaseInv

-----------------------------------------------------------------------------
(* The ledger *)

(* Committing the row inserted for r records r, once. *)
LEMMA CommitRecords ==
  ASSUME TypeOK, OwnIdentifier, NEW r \in 1 .. MaxRequests, Commit(r), inserted # 0,
         \A i \in DOMAIN rows : rows[i] # r, UNCHANGED sent
  PROVE  Ledger!Record(r)
<1>1. r \notin Ledger!Recorded
  BY DEF Ledger!Recorded
<1>2. inserted \in DOMAIN rows' /\ inserted \notin DOMAIN rows
  BY DEF Commit, CommittedRows, OwnIdentifier
<1>3. rows' = [i \in DOMAIN rows \cup {inserted} |-> IF i = inserted THEN r ELSE rows[i]]
  BY DEF Commit, CommittedRows
<1> QED
  BY <1>1, <1>2, <1>3 DEF Ledger!Record

(* Each step of the code is a step of the ledger, or none. *)
LEMMA LedgerStep ==
  ASSUME DatabaseInv, [Next]_vars
  PROVE  [Ledger!Next]_<<rows, sent>>
<1> USE DEF tables, shared, local
<1>1. ASSUME NEW w \in Workers, Running, CookieCommit(w)
      PROVE  [Ledger!Next]_<<rows, sent>>
  <2>1. request[w] \in 1 .. MaxRequests /\ \A i \in DOMAIN rows : rows[i] # request[w]
    BY <1>1 DEF CookieCommit, DatabaseInv, RequestsDistinct, NotYetRecorded, TypeOK
  <2>2. inserted # 0
    BY <1>1 DEF CookieCommit, DatabaseInv, OwnIdentifier
  <2>3. UNCHANGED sent /\ (Commit(request[w]) \/ UNCHANGED rows)
    BY <1>1 DEF CookieCommit, CommitThrows, Rollback
  <2> QED
    BY <2>1, <2>2, <2>3, CommitRecords DEF Ledger!Next, DatabaseInv
<1>2. ASSUME NEW w \in Workers, Running, CookieMake(w)
      PROVE  [Ledger!Next]_<<rows, sent>>
  <2>1. request[w] \in 1 .. MaxRequests /\ request[w] \notin DOMAIN sent
    BY <1>2 DEF CookieMake, DatabaseInv, RequestsDistinct, NotYetRecorded, TypeOK
  <2>2. CASE id[w] > 0
    <3>1. id[w] \in DOMAIN rows /\ rows[id[w]] = request[w]
      BY <1>2, <2>2 DEF CookieMake, DatabaseInv, OwnIdentifier
    <3>2. Ledger!Give(request[w], id[w])
      BY <1>2, <2>1, <2>2, <3>1 DEF CookieMake, Ledger!Give, DatabaseInv, TypeOK
    <3> QED
      BY <2>1, <3>1, <3>2 DEF Ledger!Next
  <2>3. CASE id[w] = 0
    BY <1>2, <2>3 DEF CookieMake
  <2> QED
    BY <1>2, <2>2, <2>3 DEF CookieMake
<1>3. ASSUME NEW w \in Workers, Running, Query(w) \/ CommitQuery(w)
      PROVE  UNCHANGED <<rows, sent>>
  <2>1. inserted = 0
    BY <1>3, DatabaseAssumption
       DEF Query, CommitQuery, DatabaseInv, OwnIdentifier, Exclusion, InTransaction, Threads
  <2> QED
    BY <1>3, <2>1 DEF Query, CommitQuery, Commit, CommitThrows, CommittedRows, Rollback
<1>4. ASSUME Running, CloseCommit
      PROVE  UNCHANGED <<rows, sent>>
  <2>1. inserted = 0
    BY <1>4, DatabaseAssumption
       DEF CloseCommit, DatabaseInv, OwnIdentifier, Exclusion, InTransaction, Threads
  <2> QED
    BY <1>4, <2>1 DEF CloseCommit, Commit, CommitThrows, CommittedRows, Rollback
<1>5. ASSUME NEW w \in Workers, Running,
             \/ Receive(w) \/ Acquiring(w) \/ CookieBegin(w) \/ CookieInsert(w)
             \/ CookieLastval(w) \/ CookieUnlock(w) \/ StatementBegin(w)
             \/ StatementUnlock(w) \/ LookupBegin(w)
      PROVE  UNCHANGED <<rows, sent>>
  BY <1>5 DEF Receive, Acquiring, Acquire, CookieBegin, BeginCrashes, CookieInsert,
              CookieLastval, Rollback, CookieUnlock, StatementBegin, StatementUnlock,
              LookupBegin
<1>6. ASSUME \/ StopWeb \/ Acquire(Closer, "closeBegin") \/ CloseBegin
             \/ CloseDelete \/ CloseReset \/ CloseUnlock
      PROVE  UNCHANGED <<rows, sent>>
  BY <1>6 DEF StopWeb, Acquire, CloseBegin, CloseDelete, CloseReset, CloseUnlock
<1>7. CASE UNCHANGED vars
  BY <1>7 DEF vars
<1>8. ASSUME NEW w \in Workers, WorkerStep(w)
      PROVE  [Ledger!Next]_<<rows, sent>>
  BY <1>1, <1>2, <1>3, <1>5, <1>8 DEF WorkerStep, Cookie, Statement, Acquiring
<1>9. CASE CloserStep
  BY <1>4, <1>6, <1>9 DEF CloserStep, Close
<1>10. CASE Arrive
  BY <1>5, <1>6, <1>10 DEF Arrive
<1> QED
  BY <1>7, <1>8, <1>9, <1>10 DEF Next

(* The code implements the ledger: each request is recorded under an       *)
(* identifier of its own, at most once, and its cookie names that record.  *)
THEOREM ImplementsLedger == Spec => LedgerSpec
<1>1. Init => Ledger!Init
  BY DEF Init, Ledger!Init
<1>2. DatabaseInv /\ [Next]_vars => [Ledger!Next]_Ledger!ledgerVars
  BY LedgerStep DEF Ledger!ledgerVars
<1> QED
  BY <1>1, <1>2, DatabaseInvariant, PTL DEF Spec, LedgerSpec, Ledger!Spec
==============================================================================
