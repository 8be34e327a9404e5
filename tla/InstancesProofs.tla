--------------------------- MODULE InstancesProofs ---------------------------
(* Proofs about Instances, for every set of processes and number of starts, *)
(* whenever databases are cleared.                                          *)
EXTENDS Instances, TLAPS

(* Every step keeps the types. *)
LEMMA TypeOKStep ==
  ASSUME TypeOK, SerialsDistinct, StartsDistinct, LostForGood, VictimIsOwn, [Next]_vars
  PROVE  TypeOK'
<1> USE InstancesAssumption DEF vars, table, Numbers, Locations, Lost, Numbered, Early, TypeOK, SerialsDistinct, StartsDistinct, LostForGood, VictimIsOwn
<1>1. ASSUME NEW p \in Processes, Connect(p)
      PROVE  TypeOK'
  BY <1>1 DEF Connect, GoTo
<1>2. ASSUME NEW p \in Processes, Clear(p)
      PROVE  TypeOK'
  <2>1. DOMAIN rows' \subseteq Nat \ {0} /\ rows' \in [DOMAIN rows' -> Numbers]
    BY <1>2 DEF Clear
  <2>2. exists' \in BOOLEAN
    BY <1>2, Zenon DEF Clear
  <2>3. nextval' \in Nat \ {0}
    <3>1. nextval' = 1 \/ nextval' = nextval
      BY <1>2, Zenon DEF Clear
    <3> QED
      BY <3>1
  <2>4. pc' \in [Processes -> Locations]
    BY <1>2 DEF Clear, GoTo
  <2> QED
    BY <1>2, <2>1, <2>2, <2>3, <2>4 DEF Clear
<1>3. ASSUME NEW p \in Processes, CreateTable(p)
      PROVE  TypeOK'
  BY <1>3 DEF CreateTable, GoTo
<1>4. ASSUME NEW p \in Processes, Insert(p)
      PROVE  TypeOK'
  BY <1>4 DEF Insert, GoTo
<1>5. ASSUME NEW p \in Processes, CommitInsert(p)
      PROVE  TypeOK'
  BY <1>5 DEF CommitInsert, GoTo
<1>6. ASSUME NEW p \in Processes, Unregister(p)
      PROVE  TypeOK'
  BY <1>6 DEF Unregister, GoTo
<1>7. ASSUME NEW p \in Processes, CommitUnregister(p)
      PROVE  TypeOK'
  BY <1>7 DEF CommitUnregister, GoTo
<1>8. ASSUME NEW p \in Processes, Crash(p)
      PROVE  TypeOK'
  BY <1>8 DEF Crash, GoTo
<1>9. CASE UNCHANGED vars
  BY <1>9
<1> HIDE DEF TypeOK, SerialsDistinct, StartsDistinct, LostForGood, VictimIsOwn
<1> QED
  BY <1>1, <1>2, <1>3, <1>4, <1>5, <1>6, <1>7, <1>8, <1>9 DEF Next

(* A number is drawn once, as long as the sequence is not dropped under anybody. *)
LEMMA SerialsDistinctStep ==
  ASSUME TypeOK, SerialsDistinct, StartsDistinct, RegisteredOnce, LostForGood, VictimIsOwn, CreatorAlone, ServingIsRegistered, [Next]_vars
  PROVE  SerialsDistinct'
<1> USE InstancesAssumption DEF vars, table, Numbers, Locations, Lost, Numbered, Early, TypeOK, SerialsDistinct, StartsDistinct, RegisteredOnce, LostForGood, VictimIsOwn, CreatorAlone, ServingIsRegistered
<1>1. ASSUME NEW p \in Processes, Connect(p)
      PROVE  SerialsDistinct'
  BY <1>1 DEF Connect, GoTo
<1>2. ASSUME NEW p \in Processes, Clear(p)
      PROVE  SerialsDistinct'
  BY <1>2 DEF Clear, GoTo
<1>3. ASSUME NEW p \in Processes, CreateTable(p)
      PROVE  SerialsDistinct'
  BY <1>3 DEF CreateTable, GoTo
<1>4. ASSUME NEW p \in Processes, Insert(p)
      PROVE  SerialsDistinct'
  BY <1>4 DEF Insert, GoTo
<1>5. ASSUME NEW p \in Processes, CommitInsert(p)
      PROVE  SerialsDistinct'
  BY <1>5 DEF CommitInsert, GoTo
<1>6. ASSUME NEW p \in Processes, Unregister(p)
      PROVE  SerialsDistinct'
  BY <1>6 DEF Unregister, GoTo
<1>7. ASSUME NEW p \in Processes, CommitUnregister(p)
      PROVE  SerialsDistinct'
  BY <1>7 DEF CommitUnregister, GoTo
<1>8. ASSUME NEW p \in Processes, Crash(p)
      PROVE  SerialsDistinct'
  BY <1>8 DEF Crash, GoTo
<1>9. CASE UNCHANGED vars
  BY <1>9
<1> HIDE DEF TypeOK, SerialsDistinct, StartsDistinct, RegisteredOnce, LostForGood, VictimIsOwn, CreatorAlone, ServingIsRegistered
<1> QED
  BY <1>1, <1>2, <1>3, <1>4, <1>5, <1>6, <1>7, <1>8, <1>9 DEF Next

(* Two processes are never the same start. *)
LEMMA StartsDistinctStep ==
  ASSUME TypeOK, StartsDistinct, RegisteredOnce, VictimIsOwn, [Next]_vars
  PROVE  StartsDistinct'
<1> USE InstancesAssumption DEF vars, table, Numbers, Locations, Lost, Numbered, Early, TypeOK, StartsDistinct, RegisteredOnce, VictimIsOwn
<1>1. ASSUME NEW p \in Processes, Connect(p)
      PROVE  StartsDistinct'
  BY <1>1 DEF Connect, GoTo
<1>2. ASSUME NEW p \in Processes, Clear(p)
      PROVE  StartsDistinct'
  BY <1>2 DEF Clear, GoTo
<1>3. ASSUME NEW p \in Processes, CreateTable(p)
      PROVE  StartsDistinct'
  BY <1>3 DEF CreateTable, GoTo
<1>4. ASSUME NEW p \in Processes, Insert(p)
      PROVE  StartsDistinct'
  BY <1>4 DEF Insert, GoTo
<1>5. ASSUME NEW p \in Processes, CommitInsert(p)
      PROVE  StartsDistinct'
  BY <1>5 DEF CommitInsert, GoTo
<1>6. ASSUME NEW p \in Processes, Unregister(p)
      PROVE  StartsDistinct'
  BY <1>6 DEF Unregister, GoTo
<1>7. ASSUME NEW p \in Processes, CommitUnregister(p)
      PROVE  StartsDistinct'
  BY <1>7 DEF CommitUnregister, GoTo
<1>8. ASSUME NEW p \in Processes, Crash(p)
      PROVE  StartsDistinct'
  BY <1>8 DEF Crash, GoTo
<1>9. CASE UNCHANGED vars
  BY <1>9
<1> HIDE DEF TypeOK, StartsDistinct, RegisteredOnce, VictimIsOwn
<1> QED
  BY <1>1, <1>2, <1>3, <1>4, <1>5, <1>6, <1>7, <1>8, <1>9 DEF Next

(* A process gets one row at most. *)
LEMMA RegisteredOnceStep ==
  ASSUME TypeOK, StartsDistinct, RegisteredOnce, [Next]_vars
  PROVE  RegisteredOnce'
<1> USE InstancesAssumption DEF vars, table, Numbers, Locations, Lost, Numbered, Early, TypeOK, StartsDistinct, RegisteredOnce
<1>1. ASSUME NEW p \in Processes, Connect(p)
      PROVE  RegisteredOnce'
  BY <1>1 DEF Connect, GoTo
<1>2. ASSUME NEW p \in Processes, Clear(p)
      PROVE  RegisteredOnce'
  BY <1>2 DEF Clear, GoTo
<1>3. ASSUME NEW p \in Processes, CreateTable(p)
      PROVE  RegisteredOnce'
  BY <1>3 DEF CreateTable, GoTo
<1>4. ASSUME NEW p \in Processes, Insert(p)
      PROVE  RegisteredOnce'
  BY <1>4 DEF Insert, GoTo
<1>5. ASSUME NEW p \in Processes, CommitInsert(p)
      PROVE  RegisteredOnce'
  BY <1>5 DEF CommitInsert, GoTo
<1>6. ASSUME NEW p \in Processes, Unregister(p)
      PROVE  RegisteredOnce'
  BY <1>6 DEF Unregister, GoTo
<1>7. ASSUME NEW p \in Processes, CommitUnregister(p)
      PROVE  RegisteredOnce'
  BY <1>7 DEF CommitUnregister, GoTo
<1>8. ASSUME NEW p \in Processes, Crash(p)
      PROVE  RegisteredOnce'
  BY <1>8 DEF Crash, GoTo
<1>9. CASE UNCHANGED vars
  BY <1>9
<1> HIDE DEF TypeOK, StartsDistinct, RegisteredOnce
<1> QED
  BY <1>1, <1>2, <1>3, <1>4, <1>5, <1>6, <1>7, <1>8, <1>9 DEF Next

(* Who lost a row does not get another. *)
LEMMA LostForGoodStep ==
  ASSUME TypeOK, StartsDistinct, RegisteredOnce, LostForGood, VictimIsOwn, CreatorAlone, [Next]_vars
  PROVE  LostForGood'
<1> USE InstancesAssumption DEF vars, table, Numbers, Locations, Lost, Numbered, Early, TypeOK, StartsDistinct, RegisteredOnce, LostForGood, VictimIsOwn, CreatorAlone
<1>1. ASSUME NEW p \in Processes, Connect(p)
      PROVE  LostForGood'
  BY <1>1 DEF Connect, GoTo
<1>2. ASSUME NEW p \in Processes, Clear(p)
      PROVE  LostForGood'
  BY <1>2 DEF Clear, GoTo
<1>3. ASSUME NEW p \in Processes, CreateTable(p)
      PROVE  LostForGood'
  BY <1>3 DEF CreateTable, GoTo
<1>4. ASSUME NEW p \in Processes, Insert(p)
      PROVE  LostForGood'
  BY <1>4 DEF Insert, GoTo
<1>5. ASSUME NEW p \in Processes, CommitInsert(p)
      PROVE  LostForGood'
  BY <1>5 DEF CommitInsert, GoTo
<1>6. ASSUME NEW p \in Processes, Unregister(p)
      PROVE  LostForGood'
  BY <1>6 DEF Unregister, GoTo
<1>7. ASSUME NEW p \in Processes, CommitUnregister(p)
      PROVE  LostForGood'
  BY <1>7 DEF CommitUnregister, GoTo
<1>8. ASSUME NEW p \in Processes, Crash(p)
      PROVE  LostForGood'
  BY <1>8 DEF Crash, GoTo
<1>9. CASE UNCHANGED vars
  BY <1>9
<1> HIDE DEF TypeOK, StartsDistinct, RegisteredOnce, LostForGood, VictimIsOwn, CreatorAlone
<1> QED
  BY <1>1, <1>2, <1>3, <1>4, <1>5, <1>6, <1>7, <1>8, <1>9 DEF Next

(* A process deletes its own row, and nothing else. *)
LEMMA VictimIsOwnStep ==
  ASSUME TypeOK, SerialsDistinct, StartsDistinct, RegisteredOnce, LostForGood, VictimIsOwn, CreatorAlone, ServingIsRegistered, [Next]_vars
  PROVE  VictimIsOwn'
<1> USE InstancesAssumption DEF vars, table, Numbers, Locations, Lost, Numbered, Early, TypeOK, StartsDistinct, RegisteredOnce, LostForGood, VictimIsOwn, CreatorAlone, ServingIsRegistered
<1>1. ASSUME NEW p \in Processes, Connect(p)
      PROVE  VictimIsOwn'
  BY <1>1 DEF Connect, GoTo
<1>2. ASSUME NEW p \in Processes, Clear(p)
      PROVE  VictimIsOwn'
  BY <1>2 DEF Clear, GoTo
<1>3. ASSUME NEW p \in Processes, CreateTable(p)
      PROVE  VictimIsOwn'
  BY <1>3 DEF CreateTable, GoTo
<1>4. ASSUME NEW p \in Processes, Insert(p)
      PROVE  VictimIsOwn'
  BY <1>4 DEF Insert, GoTo
<1>5. ASSUME NEW p \in Processes, CommitInsert(p)
      PROVE  VictimIsOwn'
  <2>1. /\ UNCHANGED <<start, dispossessed, victims>>
        /\ \A q \in Processes : pc'[q] = "deleted" => pc[q] = "deleted" /\ q # p
        /\ \A q \in Processes : pc'[q] # "deleted" => pc[q] # "deleted"
    BY <1>5 DEF CommitInsert, GoTo
  <2>2. /\ DOMAIN rows' = DOMAIN rows \cup {serial[p]}
        /\ rows'[serial[p]] = start[p]
        /\ \A i \in DOMAIN rows \ {serial[p]} : rows'[i] = rows[i]
    BY <1>5 DEF CommitInsert
  <2>3. ASSUME NEW q \in Processes, pc[q] = "deleted"
        PROVE  start[q] # start[p]
    <3>1. q # p
      BY <1>5, <2>3 DEF CommitInsert
    <3>2. start[p] \in 1 .. starts
      BY <1>5 DEF CommitInsert
    <3> QED
      BY <3>1, <3>2
  <2>4. serial[p] \notin DOMAIN rows
    BY <1>5 DEF CommitInsert, SerialsDistinct
  <2> QED
    BY <2>1, <2>2, <2>3, <2>4
<1>6. ASSUME NEW p \in Processes, Unregister(p)
      PROVE  VictimIsOwn'
  <2>1. /\ UNCHANGED <<rows, start, dispossessed>>
        /\ \A q \in Processes \ {p} : victims'[q] = victims[q] /\ pc'[q] = pc[q]
        /\ pc[p] = "serving" /\ pc'[p] = "deleted"
        /\ victims'[p] = {serial[p]} \cap DOMAIN rows
        /\ \A q \in Processes : serial[p] \notin victims[q]
    BY <1>6 DEF Unregister, GoTo
  <2>2. \A q, r \in Processes : q # r => victims'[q] \cap victims'[r] = {}
    BY <2>1
  <2>3. \A q \in Processes : ~Lost(q) => \A i \in victims'[q] : rows[i] = start[q]
    BY <2>1
  <2>4. \A i \in DOMAIN rows : rows[i] = start[p] => i \in victims'[p]
    BY <2>1
  <2> QED
    BY <2>1, <2>2, <2>3, <2>4
<1>7. ASSUME NEW p \in Processes, CommitUnregister(p)
      PROVE  VictimIsOwn'
  BY <1>7 DEF CommitUnregister, GoTo
<1>8. ASSUME NEW p \in Processes, Crash(p)
      PROVE  VictimIsOwn'
  BY <1>8 DEF Crash, GoTo
<1>9. CASE UNCHANGED vars
  BY <1>9
<1> HIDE DEF TypeOK, StartsDistinct, RegisteredOnce, LostForGood, VictimIsOwn, CreatorAlone, ServingIsRegistered
<1> QED
  BY <1>1, <1>2, <1>3, <1>4, <1>5, <1>6, <1>7, <1>8, <1>9 DEF Next

(* One transaction at a time creates the table. *)
LEMMA CreatorAloneStep ==
  ASSUME TypeOK, LostForGood, VictimIsOwn, CreatorAlone, [Next]_vars
  PROVE  CreatorAlone'
<1> USE InstancesAssumption DEF vars, table, Numbers, Locations, Lost, Numbered, Early, TypeOK, LostForGood, VictimIsOwn, CreatorAlone
<1>1. ASSUME NEW p \in Processes, Connect(p)
      PROVE  CreatorAlone'
  BY <1>1 DEF Connect, GoTo
<1>2. ASSUME NEW p \in Processes, Clear(p)
      PROVE  CreatorAlone'
  BY <1>2 DEF Clear, GoTo
<1>3. ASSUME NEW p \in Processes, CreateTable(p)
      PROVE  CreatorAlone'
  BY <1>3 DEF CreateTable, GoTo
<1>4. ASSUME NEW p \in Processes, Insert(p)
      PROVE  CreatorAlone'
  BY <1>4 DEF Insert, GoTo
<1>5. ASSUME NEW p \in Processes, CommitInsert(p)
      PROVE  CreatorAlone'
  BY <1>5 DEF CommitInsert, GoTo
<1>6. ASSUME NEW p \in Processes, Unregister(p)
      PROVE  CreatorAlone'
  BY <1>6 DEF Unregister, GoTo
<1>7. ASSUME NEW p \in Processes, CommitUnregister(p)
      PROVE  CreatorAlone'
  BY <1>7 DEF CommitUnregister, GoTo
<1>8. ASSUME NEW p \in Processes, Crash(p)
      PROVE  CreatorAlone'
  BY <1>8 DEF Crash, GoTo
<1>9. CASE UNCHANGED vars
  BY <1>9
<1> HIDE DEF TypeOK, LostForGood, VictimIsOwn, CreatorAlone
<1> QED
  BY <1>1, <1>2, <1>3, <1>4, <1>5, <1>6, <1>7, <1>8, <1>9 DEF Next

(* A process that serves keeps its row, and the number of it. *)
LEMMA ServingIsRegisteredStep ==
  ASSUME TypeOK, SerialsDistinct, StartsDistinct, RegisteredOnce, LostForGood, VictimIsOwn, CreatorAlone, ServingIsRegistered, [Next]_vars
  PROVE  ServingIsRegistered'
<1> USE InstancesAssumption DEF vars, table, Numbers, Locations, Lost, Numbered, Early, TypeOK, SerialsDistinct, StartsDistinct, RegisteredOnce, LostForGood, VictimIsOwn, CreatorAlone, ServingIsRegistered
<1>1. ASSUME NEW p \in Processes, Connect(p)
      PROVE  ServingIsRegistered'
  BY <1>1 DEF Connect, GoTo
<1>2. ASSUME NEW p \in Processes, Clear(p)
      PROVE  ServingIsRegistered'
  BY <1>2 DEF Clear, GoTo
<1>3. ASSUME NEW p \in Processes, CreateTable(p)
      PROVE  ServingIsRegistered'
  BY <1>3 DEF CreateTable, GoTo
<1>4. ASSUME NEW p \in Processes, Insert(p)
      PROVE  ServingIsRegistered'
  BY <1>4 DEF Insert, GoTo
<1>5. ASSUME NEW p \in Processes, CommitInsert(p)
      PROVE  ServingIsRegistered'
  BY <1>5 DEF CommitInsert, GoTo
<1>6. ASSUME NEW p \in Processes, Unregister(p)
      PROVE  ServingIsRegistered'
  BY <1>6 DEF Unregister, GoTo
<1>7. ASSUME NEW p \in Processes, CommitUnregister(p)
      PROVE  ServingIsRegistered'
  BY <1>7 DEF CommitUnregister, GoTo
<1>8. ASSUME NEW p \in Processes, Crash(p)
      PROVE  ServingIsRegistered'
  BY <1>8 DEF Crash, GoTo
<1>9. CASE UNCHANGED vars
  BY <1>9
<1> HIDE DEF TypeOK, SerialsDistinct, StartsDistinct, RegisteredOnce, LostForGood, VictimIsOwn, CreatorAlone, ServingIsRegistered
<1> QED
  BY <1>1, <1>2, <1>3, <1>4, <1>5, <1>6, <1>7, <1>8, <1>9 DEF Next

(* An orderly end leaves no row. *)
LEMMA StaleRowsAreOfCrashesStep ==
  ASSUME TypeOK, StartsDistinct, VictimIsOwn, CreatorAlone, StaleRowsAreOfCrashes, [Next]_vars
  PROVE  StaleRowsAreOfCrashes'
<1> USE InstancesAssumption DEF vars, table, Numbers, Locations, Lost, Numbered, Early, TypeOK, StartsDistinct, VictimIsOwn, CreatorAlone, StaleRowsAreOfCrashes
<1>1. ASSUME NEW p \in Processes, Connect(p)
      PROVE  StaleRowsAreOfCrashes'
  <2>1. UNCHANGED <<rows, crashed>>
    BY <1>1 DEF Connect
  <2>2. ASSUME NEW q \in Processes, pc[q] \in {"serving", "deleted"}
        PROVE  start'[q] = start[q] /\ pc'[q] = pc[q]
    <3>1. q # p
      BY <1>1, <2>2 DEF Connect
    <3> QED
      BY <1>1, <3>1 DEF Connect, GoTo
  <2>3. ASSUME NEW i \in DOMAIN rows, rows[i] \notin crashed
        PROVE  \E q \in Processes : start'[q] = rows[i] /\ pc'[q] \in {"serving", "deleted"}
    <3>1. PICK q \in Processes : start[q] = rows[i] /\ pc[q] \in {"serving", "deleted"}
      BY <2>3
    <3> QED
      BY <2>2, <3>1
  <2> QED
    BY <2>1, <2>3
<1>2. ASSUME NEW p \in Processes, Clear(p)
      PROVE  StaleRowsAreOfCrashes'
  BY <1>2 DEF Clear, GoTo
<1>3. ASSUME NEW p \in Processes, CreateTable(p)
      PROVE  StaleRowsAreOfCrashes'
  <2>1. /\ UNCHANGED <<rows, start, crashed>>
        /\ \A q \in Processes : pc[q] \in {"serving", "deleted"} => pc'[q] = pc[q]
    BY <1>3 DEF CreateTable, GoTo
  <2> QED
    BY <2>1
<1>4. ASSUME NEW p \in Processes, Insert(p)
      PROVE  StaleRowsAreOfCrashes'
  <2>1. /\ UNCHANGED <<rows, start, crashed>>
        /\ \A q \in Processes : pc[q] \in {"serving", "deleted"} => pc'[q] = pc[q]
    BY <1>4 DEF Insert, GoTo
  <2> QED
    BY <2>1
<1>5. ASSUME NEW p \in Processes, CommitInsert(p)
      PROVE  StaleRowsAreOfCrashes'
  BY <1>5 DEF CommitInsert, GoTo
<1>6. ASSUME NEW p \in Processes, Unregister(p)
      PROVE  StaleRowsAreOfCrashes'
  BY <1>6 DEF Unregister, GoTo
<1>7. ASSUME NEW p \in Processes, CommitUnregister(p)
      PROVE  StaleRowsAreOfCrashes'
  BY <1>7 DEF CommitUnregister, GoTo
<1>8. ASSUME NEW p \in Processes, Crash(p)
      PROVE  StaleRowsAreOfCrashes'
  BY <1>8 DEF Crash, GoTo
<1>9. CASE UNCHANGED vars
  BY <1>9
<1> HIDE DEF TypeOK, StartsDistinct, VictimIsOwn, CreatorAlone, StaleRowsAreOfCrashes
<1> QED
  BY <1>1, <1>2, <1>3, <1>4, <1>5, <1>6, <1>7, <1>8, <1>9 DEF Next

LEMMA InstancesInvInit ==
  ASSUME Init
  PROVE  InstancesInv
<1> USE InstancesAssumption DEF Init
<1>1. TypeOK
  <2>1. DOMAIN rows \subseteq Nat \ {0} /\ rows \in [DOMAIN rows -> Numbers]
    OBVIOUS
  <2>2. exists \in BOOLEAN
    OBVIOUS
  <2> QED
    BY <2>1, <2>2 DEF TypeOK, Locations
<1>2. SerialsDistinct /\ StartsDistinct /\ RegisteredOnce /\ LostForGood /\ VictimIsOwn
  BY DEF SerialsDistinct, StartsDistinct, RegisteredOnce, LostForGood, VictimIsOwn, Numbered, Lost
<1>3. CreatorAlone /\ ServingIsRegistered /\ StaleRowsAreOfCrashes
  BY DEF CreatorAlone, ServingIsRegistered, StaleRowsAreOfCrashes
<1> QED
  BY <1>1, <1>2, <1>3 DEF InstancesInv

LEMMA InstancesInvStep ==
  ASSUME InstancesInv, [Next]_vars
  PROVE  InstancesInv'
BY TypeOKStep, SerialsDistinctStep, StartsDistinctStep, RegisteredOnceStep, LostForGoodStep, VictimIsOwnStep,
   CreatorAloneStep, ServingIsRegisteredStep, StaleRowsAreOfCrashesStep, Zenon
   DEF InstancesInv

(* The inductive invariant of the registry. *)
THEOREM InstancesInvariant ==
  Spec => []InstancesInv
<1>1. InstancesInv /\ [Next]_vars => InstancesInv'
  BY InstancesInvStep
<1> QED
  BY <1>1, InstancesInvInit, PTL DEF Spec

(* The variables keep their types. *)
THEOREM InstancesTypeCorrect ==
  Spec => []TypeOK
BY InstancesInvariant, PTL DEF InstancesInv

(* sql_register_helpcovid_instance: hcv_database_serial is the number of   *)
(* the process's own row, for as long as it serves.                        *)
THEOREM ServingStaysRegistered ==
  Spec => []ServingIsRegistered
BY InstancesInvariant, PTL DEF InstancesInv

(* sql_unregister_helpcovid_instance: only crashes leave rows behind.      *)
THEOREM OnlyCrashesLeaveRows ==
  Spec => []StaleRowsAreOfCrashes
BY InstancesInvariant, PTL DEF InstancesInv

(* sql_unregister_helpcovid_instance: nobody deletes another one's row.    *)
THEOREM NobodyDeletesOthers ==
  Spec => DeletesOnlyOwnRow
<1>1. ASSUME InstancesInv, NEW p \in Processes, CommitUnregister(p), ~Lost(p),
             NEW i \in DOMAIN rows \ DOMAIN rows'
      PROVE  rows[i] = start[p]
  BY <1>1 DEF CommitUnregister, InstancesInv, VictimIsOwn
<1>2. InstancesInv /\ [Next]_vars =>
        [\A p \in Processes : CommitUnregister(p) /\ ~Lost(p) =>
           \A i \in DOMAIN rows \ DOMAIN rows' : rows[i] = start[p]]_vars
  BY <1>1
<1> QED
  BY <1>2, InstancesInvariant, PTL DEF Spec, DeletesOnlyOwnRow
==============================================================================
