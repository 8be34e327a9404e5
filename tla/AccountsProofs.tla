--------------------------- MODULE AccountsProofs ---------------------------
(* Proofs about Accounts, for any users, sessions and dormancy.            *)
EXTENDS Accounts, TLAPS

(* A row that is being inserted has an identifier no row has, and the row  *)
(* of its user cannot go before it is committed.                           *)
Fresh == \A s \in Sessions : opening[s] # NoRow => sessions[s] = NoRow

AccountsInv == TypeOK /\ NoOrphanSession /\ Fresh

LEMMA RowTypes ==
  ASSUME TypeOK, NEW s \in Sessions
  PROVE  /\ sessions[s] # NoRow => sessions[s].user \in Users /\ sessions[s].expiry \in 0..(MaxTime + 1)
         /\ opening[s] # NoRow => opening[s].user \in Users /\ opening[s].expiry \in 0..(MaxTime + 1)
BY DEF TypeOK, SessionRows

LEMMA NowTypes == TypeOK => now \in Nat /\ now <= MaxTime /\ MaxTime \in Nat
<1>1. TypeOK => now \in 0..MaxTime
  BY DEF TypeOK
<1> QED BY <1>1, AccountsAssumption

LEMMA AccountsInitInv == Init => AccountsInv
<1> SUFFICES ASSUME Init PROVE AccountsInv
  OBVIOUS
<1>1. TypeOK
  BY AccountsAssumption DEF Init, TypeOK
<1> QED BY <1>1 DEF Init, AccountsInv, NoOrphanSession, Fresh, Rows

-----------------------------------------------------------------------------
(* One lemma per step. *)

LEMMA TickInv == AccountsInv /\ Tick => AccountsInv'
<1> SUFFICES ASSUME AccountsInv, Tick PROVE AccountsInv'
  OBVIOUS
<1>1. now' \in 0..MaxTime
  BY NowTypes DEF AccountsInv, Tick
<1>2. TypeOK'
  BY <1>1 DEF AccountsInv, Tick, TypeOK
<1> QED BY <1>2 DEF AccountsInv, Tick, NoOrphanSession, Fresh, Rows

LEMMA RaiseInv ==
  ASSUME AccountsInv, NEW what, Raise(what),
         what \in {"error", "invalid form", "user not found", "session not found"}
  PROVE  AccountsInv'
<1>1. TypeOK'
  BY DEF AccountsInv, Raise, TypeOK
<1> QED BY <1>1 DEF AccountsInv, Raise, NoOrphanSession, Fresh, Rows

LEMMA InsertUserInv ==
  ASSUME AccountsInv, NEW u \in Users, InsertUser(u)
  PROVE  AccountsInv'
<1>1. TypeOK'
  BY DEF AccountsInv, InsertUser, TypeOK
<1> QED BY <1>1 DEF AccountsInv, InsertUser, NoOrphanSession, Fresh, Rows

LEMMA OpenSessionInv ==
  ASSUME AccountsInv, NEW s \in Sessions, NEW u \in Users, OpenSession(s, u)
  PROVE  AccountsInv'
<1>1. CASE Raise("user not found")
  BY <1>1, RaiseInv
<1>2. CASE /\ u \in users
           /\ opening' = [opening EXCEPT ![s] = Row(u, NewExpiry)]
           /\ UNCHANGED <<now, users, passwords, sessions, doomed, reply>>
  <2> DEFINE row == Row(u, NewExpiry)
  <2>1. row \in SessionRows /\ row.user = u
    BY NowTypes DEF AccountsInv, Row, NewExpiry, SessionRows
  <2> HIDE DEF row
  <2>2. sessions[s] = NoRow
    BY DEF OpenSession
  <2>3. opening' = [opening EXCEPT ![s] = row]
    BY <1>2 DEF row
  <2>4. TypeOK'
    BY <1>2, <2>1, <2>3 DEF AccountsInv, TypeOK
  <2>5. \A t \in Sessions : opening'[t] = IF t = s THEN row ELSE opening[t]
    BY <2>3 DEF AccountsInv, TypeOK
  <2>6. NoOrphanSession'
    BY <1>2, <2>1, <2>5 DEF AccountsInv, NoOrphanSession, Rows
  <2>7. Fresh'
    BY <1>2, <2>2, <2>5 DEF AccountsInv, Fresh
  <2> QED BY <2>4, <2>6, <2>7 DEF AccountsInv
<1> QED BY <1>1, <1>2 DEF OpenSession

LEMMA CommitSessionInv ==
  ASSUME AccountsInv, NEW s \in Sessions, CommitSession(s)
  PROVE  AccountsInv'
<1>1. TypeOK'
  BY DEF AccountsInv, CommitSession, TypeOK
<1>2. \A t \in Sessions : /\ sessions'[t] = IF t = s THEN opening[s] ELSE sessions[t]
                          /\ opening'[t] = IF t = s THEN NoRow ELSE opening[t]
  BY DEF AccountsInv, CommitSession, TypeOK
<1>3. NoOrphanSession'
  BY <1>2 DEF AccountsInv, CommitSession, NoOrphanSession, Rows
<1>4. Fresh'
  BY <1>2 DEF AccountsInv, Fresh
<1> QED BY <1>1, <1>3, <1>4 DEF AccountsInv

LEMMA LoseSessionInv ==
  ASSUME AccountsInv, NEW s \in Sessions, LoseSession(s)
  PROVE  AccountsInv'
<1>1. TypeOK'
  BY DEF AccountsInv, LoseSession, TypeOK
<1>2. \A t \in Sessions : opening'[t] = IF t = s THEN NoRow ELSE opening[t]
  BY DEF AccountsInv, LoseSession, TypeOK
<1> QED BY <1>1, <1>2 DEF AccountsInv, LoseSession, NoOrphanSession, Fresh, Rows

LEMMA CloseSessionInv ==
  ASSUME AccountsInv, NEW s \in Sessions, CloseSession(s)
  PROVE  AccountsInv'
<1>1. CASE sessions[s] = NoRow
  BY <1>1, RaiseInv DEF CloseSession
<1>2. CASE sessions[s] # NoRow
  <2> DEFINE row == [sessions[s] EXCEPT !.expiry = now]
  <2>0. sessions[s] \in SessionRows /\ now \in 0..(MaxTime + 1)
    <3>1. sessions[s] \in SessionRows
      BY <1>2 DEF AccountsInv, TypeOK
    <3> QED BY <3>1, NowTypes DEF AccountsInv
  <2>1. row \in SessionRows /\ row.user = sessions[s].user
    BY <2>0 DEF SessionRows
  <2>2. sessions' = [sessions EXCEPT ![s] = row]
    BY <1>2 DEF CloseSession, Update
  <2> HIDE DEF row
  <2>3. \A t \in Sessions : sessions'[t] = IF t = s THEN row ELSE sessions[t]
    BY <2>2 DEF AccountsInv, TypeOK
  <2>4. TypeOK'
    BY <1>2, <2>1, <2>2 DEF AccountsInv, TypeOK, CloseSession, Update
  <2>5. NoOrphanSession'
    BY <1>2, <2>1, <2>3 DEF AccountsInv, CloseSession, Update, NoOrphanSession, Rows
  <2>6. Fresh'
    BY <1>2, <2>3 DEF AccountsInv, CloseSession, Update, Fresh
  <2> QED BY <2>4, <2>5, <2>6 DEF AccountsInv
<1> QED BY <1>1, <1>2

LEMMA FindDormantInv == AccountsInv /\ FindDormant => AccountsInv'
<1> SUFFICES ASSUME AccountsInv, FindDormant PROVE AccountsInv'
  OBVIOUS
<1>1. doomed' \subseteq users
  BY DEF FindDormant
<1>2. TypeOK'
  BY <1>1 DEF AccountsInv, FindDormant, TypeOK
<1> QED BY <1>2 DEF AccountsInv, FindDormant, NoOrphanSession, Fresh, Rows

LEMMA DeleteDormantInv == AccountsInv /\ DeleteDormant => AccountsInv'
<1> SUFFICES ASSUME AccountsInv, DeleteDormant PROVE AccountsInv'
  OBVIOUS
<1>1. \A t \in Sessions :
        sessions'[t] = IF sessions[t] # NoRow /\ sessions[t].user \in doomed
                       THEN NoRow ELSE sessions[t]
  BY DEF DeleteDormant, Without, Rows
<1>2. sessions' \in [Sessions -> SessionRows \cup {NoRow}]
  <2>1. sessions' = [t \in Sessions |-> sessions'[t]]
    BY DEF DeleteDormant, Without
  <2>2. \A t \in Sessions : sessions'[t] \in SessionRows \cup {NoRow}
    BY <1>1 DEF AccountsInv, TypeOK
  <2> QED BY <2>1, <2>2
<1>3. TypeOK'
  BY <1>2 DEF AccountsInv, DeleteDormant, TypeOK
<1>4. NoOrphanSession'
  <2>1. \A t \in Sessions : sessions'[t] # NoRow =>
          sessions[t] # NoRow /\ sessions'[t].user = sessions[t].user /\ sessions[t].user \notin doomed
    BY <1>1
  <2>2. \A t \in Sessions : opening[t] # NoRow => opening[t].user \notin doomed
    BY DEF DeleteDormant, Rows
  <2> QED BY <2>1, <2>2 DEF AccountsInv, DeleteDormant, NoOrphanSession, Rows
<1>5. Fresh'
  BY <1>1 DEF AccountsInv, DeleteDormant, Fresh
<1> QED BY <1>3, <1>4, <1>5 DEF AccountsInv

LEMMA AccountsNextInv == AccountsInv /\ [Next]_vars => AccountsInv'
<1> SUFFICES ASSUME AccountsInv, [Next]_vars PROVE AccountsInv'
  OBVIOUS
<1>1. CASE CallBroken \/ Authenticate
  BY <1>1, RaiseInv DEF CallBroken, Authenticate
<1>2. ASSUME NEW filled, NEW matches, CreateUser(filled, matches) PROVE AccountsInv'
  BY <1>2, RaiseInv DEF CreateUser
<1>3. ASSUME NEW s \in Sessions, Ping(s) PROVE AccountsInv'
  BY <1>3, RaiseInv DEF Ping
<1>4. CASE UNCHANGED vars
  BY <1>4 DEF vars, AccountsInv, TypeOK, NoOrphanSession, Fresh, Rows
<1> QED BY <1>1, <1>2, <1>3, <1>4, TickInv, InsertUserInv, OpenSessionInv, CommitSessionInv,
           LoseSessionInv, CloseSessionInv, FindDormantInv, DeleteDormantInv DEF Next

-----------------------------------------------------------------------------
LEMMA AccountsInvariant == Spec => []AccountsInv
BY AccountsInitInv, AccountsNextInv, PTL DEF Spec

(* The tables keep their types.                                            *)
THEOREM AccountTypes == Spec => []TypeOK
<1>1. AccountsInv => TypeOK
  BY DEF AccountsInv
<1> QED BY <1>1, AccountsInvariant, PTL

(* No session outlives its user, however many users sign in while dormant  *)
(* ones are deleted.                                                       *)
THEOREM SessionsHaveUsers == Spec => []NoOrphanSession
<1>1. AccountsInv => NoOrphanSession
  BY DEF AccountsInv
<1> QED BY <1>1, AccountsInvariant, PTL

(* A session that is over stays so.                                        *)
THEOREM SessionsStayOver == Spec => OverForGood
<1>1. ASSUME AccountsInv, Next, NEW s \in Sessions, Over(s)
      PROVE  \/ sessions'[s] = NoRow
             \/ sessions'[s].user = sessions[s].user /\ sessions'[s].expiry <= now'
  <2> DEFINE Stays == \/ sessions'[s] = NoRow
                      \/ sessions'[s].user = sessions[s].user /\ sessions'[s].expiry <= now'
  <2>1. sessions[s] # NoRow /\ sessions[s].expiry <= now /\ now \in Nat
        /\ sessions[s].expiry \in Nat
    <3>1. sessions[s] # NoRow /\ sessions[s].expiry <= now
      BY <1>1 DEF Over
    <3>2. sessions[s].expiry \in 0..(MaxTime + 1)
      BY <1>1, <3>1, RowTypes DEF AccountsInv
    <3> QED BY <1>1, <3>1, <3>2, NowTypes DEF AccountsInv
  <2>2. ASSUME sessions'[s] = sessions[s], now' \in {now, now + 1} PROVE Stays
    BY <2>1, <2>2
  <2>3. ASSUME NEW t \in Sessions, CommitSession(t) PROVE Stays
    <3>1. t # s
      BY <1>1, <2>1, <2>3 DEF CommitSession, AccountsInv, Fresh
    <3> QED BY <1>1, <2>2, <2>3, <3>1 DEF CommitSession, AccountsInv, TypeOK
  <2>4. ASSUME NEW t \in Sessions, CloseSession(t) PROVE Stays
    <3>1. CASE sessions[t] = NoRow
      BY <2>2, <2>4, <3>1 DEF CloseSession, Raise
    <3>2. CASE t # s /\ sessions[t] # NoRow
      BY <1>1, <2>2, <2>4, <3>2 DEF CloseSession, Update, AccountsInv, TypeOK
    <3>3. CASE t = s
      <4> DEFINE row == [sessions[s] EXCEPT !.expiry = now]
      <4>1. sessions'[s] = row /\ now' = now
        BY <1>1, <2>1, <2>4, <3>3 DEF CloseSession, Update, AccountsInv, TypeOK
      <4>2. row.user = sessions[s].user /\ row.expiry = now
        BY <1>1, <2>1 DEF AccountsInv, TypeOK, SessionRows
      <4> HIDE DEF row
      <4> QED BY <2>1, <4>1, <4>2
    <3> QED BY <3>1, <3>2, <3>3
  <2>5. ASSUME DeleteDormant PROVE Stays
    <3>1. sessions'[s] \in {NoRow, sessions[s]} /\ now' = now
      BY <2>5 DEF DeleteDormant, Without
    <3> QED BY <2>2, <3>1
  <2>6. ASSUME Tick \/ FindDormant \/ CallBroken \/ Authenticate PROVE Stays
    BY <2>2, <2>6 DEF Tick, FindDormant, CallBroken, Authenticate, Raise
  <2>7. ASSUME NEW filled, NEW matches, CreateUser(filled, matches) PROVE Stays
    BY <2>2, <2>7 DEF CreateUser, Raise
  <2>8. ASSUME NEW t \in Sessions, Ping(t) \/ LoseSession(t) PROVE Stays
    BY <2>2, <2>8 DEF Ping, Raise, LoseSession
  <2>9. ASSUME NEW u \in Users, InsertUser(u) PROVE Stays
    BY <2>2, <2>9 DEF InsertUser
  <2>10. ASSUME NEW u \in Users, NEW t \in Sessions, OpenSession(t, u) PROVE Stays
    BY <2>2, <2>10 DEF OpenSession, Raise
  <2> HIDE DEF Stays
  <2>11. Stays
    <3>1. CASE \E t \in Sessions :
                 \/ CommitSession(t) \/ LoseSession(t) \/ CloseSession(t) \/ Ping(t)
                 \/ \E u \in Users : OpenSession(t, u)
      BY <3>1, <2>3, <2>4, <2>8, <2>10
    <3>2. CASE \E u \in Users : InsertUser(u)
      BY <3>2, <2>9
    <3>3. CASE \E filled \in SUBSET FormFields, matches \in BOOLEAN : CreateUser(filled, matches)
      BY <3>3, <2>7
    <3>4. CASE Tick \/ CallBroken \/ Authenticate \/ FindDormant \/ DeleteDormant
      BY <3>4, <2>5, <2>6
    <3> QED BY <1>1, <3>1, <3>2, <3>3, <3>4, Zenon DEF Next
  <2> QED BY <2>11 DEF Stays
<1>2. AccountsInv /\ [Next]_vars =>
        [\A s \in Sessions :
           Over(s) => sessions'[s] = NoRow
                      \/ (sessions'[s].user = sessions[s].user /\ sessions'[s].expiry <= now')]_vars
  BY <1>1
<1> QED BY <1>2, AccountsInvariant, PTL DEF Spec, OverForGood
=============================================================================
