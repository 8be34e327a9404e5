------------------------------ MODULE Accounts ------------------------------
(* Users and their sessions: the tables tb_user, tb_session, tb_password   *)
(* and tb_email_confirmation, the stored functions and procedures that     *)
(* hcv_initialize_database creates over them, and the models of            *)
(* hcv_models.cc.  Several processes share the database; each call is a    *)
(* transaction of its own.  Time passes in units of one session length.    *)
EXTENDS Integers, FiniteSets

CONSTANTS
  Users,
  Sessions,         \* identifiers gen_random_uuid() may give
  Dormancy,         \* three months, in session lengths
  MaxTime,          \* bound on the clock
  NoRow             \* not a row

ASSUME AccountsAssumption ==
  /\ Dormancy \in Nat
  /\ MaxTime \in Nat

VARIABLES
  now,
  users,            \* rows of tb_user
  passwords,        \* the users that have rows in tb_password
  sessions,         \* rows of tb_session that are committed, by id
  opening,          \* rows of sessions whose open_session is not committed
  doomed,           \* what delete_dormant_users found, {} when it does not run
  reply             \* of the last call

vars == <<now, users, passwords, sessions, opening, doomed, reply>>

Row(user, expiry) == [user |-> user, expiry |-> expiry]
Rows(table) == {s \in Sessions : table[s] # NoRow}

Init ==
  /\ now = 0
  /\ users = {}
  /\ passwords = {}
  /\ sessions = [s \in Sessions |-> NoRow]
  /\ opening = [s \in Sessions |-> NoRow]
  /\ doomed = {}
  /\ reply = "none"

(* An exception rolls back what the call did. *)
Raise(what) == reply' = what /\ UNCHANGED <<now, users, passwords, sessions, opening, doomed>>
-----------------------------------------------------------------------------
(* What happens outside of the program. *)

Tick ==
  /\ now < MaxTime
  /\ now' = now + 1
  /\ UNCHANGED <<users, passwords, sessions, opening, doomed, reply>>

(* An administrator inserts a user: no statement of the program does. *)
InsertUser(u) ==
  /\ u \notin users
  /\ users' = users \cup {u}
  /\ passwords' = passwords \cup {u}
  /\ UNCHANGED <<now, sessions, opening, doomed, reply>>

-----------------------------------------------------------------------------
(* Models.  A form says which fields are filled and how the address reads. *)

FormFields == {"first name", "family name", "e-mail address", "gender"}

(* hcv_user_model_validate: the address is checked only when no field is   *)
(* missing, and a form that misses one is accepted.                        *)
Validate(filled, emailMatches) == FormFields \subseteq filled => emailMatches

(* hcv_user_model_create: the statement "user_create" is prepared under    *)
(* another name, with a text that does not parse.                          *)
CreateUser(filled, emailMatches) ==
  Raise(IF Validate(filled, emailMatches) THEN "error" ELSE "invalid form")

(* hcv_user_model_authenticate: prepared under another name, too. *)
Authenticate == Raise("error")

-----------------------------------------------------------------------------
(* Stored functions that fail on every call: create_new_user (there is no  *)
(* _email), verify_email_token and get_email_verification_token (nor these *)
(* columns), is_session_valid (its SELECT has no destination).  What       *)
(* create_new_user inserted is rolled back.                                *)
CallBroken == Raise("error")

(* The DEFAULT of the expiry of a new row: one hour. *)
TwoHours == now + 2
NewExpiry == now + 1

(* open_session: the key of the user must be there.  An INSERT locks the   *)
(* row of the user until the commit.                                       *)
OpenSession(s, u) ==
  /\ sessions[s] = NoRow /\ opening[s] = NoRow
  /\ \/ /\ u \in users
        /\ opening' = [opening EXCEPT ![s] = Row(u, NewExpiry)]
        /\ UNCHANGED <<now, users, passwords, sessions, doomed, reply>>
     \/ u \notin users /\ Raise("user not found")

CommitSession(s) ==
  /\ opening[s] # NoRow
  /\ sessions' = [sessions EXCEPT ![s] = opening[s]]
  /\ opening' = [opening EXCEPT ![s] = NoRow]
  /\ reply' = "opened"
  /\ UNCHANGED <<now, users, passwords, doomed>>

(* The connection of the caller is lost before the commit. *)
LoseSession(s) ==
  /\ opening[s] # NoRow
  /\ opening' = [opening EXCEPT ![s] = NoRow]
  /\ UNCHANGED <<now, users, passwords, sessions, doomed, reply>>

Update(s, expiry, answer) ==
  /\ sessions' = [sessions EXCEPT ![s].expiry = expiry]
  /\ reply' = answer
  /\ UNCHANGED <<now, users, passwords, opening, doomed>>

CloseSession(s) ==
  IF sessions[s] # NoRow THEN Update(s, now, "closed") ELSE Raise("session not found")

(* ping_session: an assignment does not set FOUND, which is false when a   *)
(* function starts, so that no session is ever found.  The first form is   *)
(* what its comment says it is for, had it lost its check of the expiry.   *)
PingUnchecked(s) ==
  IF sessions[s] # NoRow THEN Update(s, now + 1, "pinged") ELSE Raise("session not found")
Ping(s) == Raise("session not found")

(* delete_dormant_users finds the users whose latest session expired more  *)
(* than three months ago in the rows committed when it starts; it deletes  *)
(* them when no open_session holds their rows any more, and the sessions   *)
(* they have by then go with them.                                         *)
Latest(u) ==
  CHOOSE e \in {sessions[s].expiry : s \in {t \in Rows(sessions) : sessions[t].user = u}} :
    \A s \in Rows(sessions) : sessions[s].user = u => sessions[s].expiry <= e

Dormant(u) ==
  /\ \E s \in Rows(sessions) : sessions[s].user = u
  /\ Latest(u) < now - Dormancy

FindDormant ==
  /\ doomed = {}
  /\ \E u \in users : Dormant(u)
  /\ doomed' = {u \in users : Dormant(u)}
  /\ UNCHANGED <<now, users, passwords, sessions, opening, reply>>

Without(dead) ==
  [s \in Sessions |->
    IF s \in Rows(sessions) /\ sessions[s].user \in dead THEN NoRow ELSE sessions[s]]

(* tb_password does not refer to tb_user: its rows stay. *)
DeleteDormantAtOnce ==
  /\ doomed # {}
  /\ users' = users \ doomed
  /\ sessions' = Without(doomed)
  /\ doomed' = {}
  /\ UNCHANGED <<now, passwords, opening, reply>>
DeleteDormant ==
  /\ doomed # {}
  /\ \A s \in Rows(opening) : opening[s].user \notin doomed
  /\ users' = users \ doomed
  /\ sessions' = Without(doomed)
  /\ doomed' = {}
  /\ UNCHANGED <<now, passwords, opening, reply>>

-----------------------------------------------------------------------------
Next ==
  \/ Tick \/ CallBroken \/ Authenticate \/ FindDormant \/ DeleteDormant
  \/ \E u \in Users : InsertUser(u)
  \/ \E filled \in SUBSET FormFields, matches \in BOOLEAN : CreateUser(filled, matches)
  \/ \E s \in Sessions :
       \/ CommitSession(s) \/ LoseSession(s) \/ CloseSession(s) \/ Ping(s)
       \/ \E u \in Users : OpenSession(s, u)

Spec == Init /\ [][Next]_vars

-----------------------------------------------------------------------------
SessionRows == [user : Users, expiry : 0..(MaxTime + 1)]

TypeOK ==
  /\ now \in 0..MaxTime
  /\ users \subseteq Users
  /\ passwords \subseteq Users
  /\ sessions \in [Sessions -> SessionRows \cup {NoRow}]
  /\ opening \in [Sessions -> SessionRows \cup {NoRow}]
  /\ doomed \subseteq users
  /\ reply \in {"none", "error", "invalid form", "user not found", "session not found",
                "opened", "closed", "pinged"}

(* No session outlives its user, in whatever order a deletion of dormant   *)
(* users and a sign-in start, wait and commit (hcv_database.cc:368, 388).  *)
NoOrphanSession ==
  /\ \A s \in Rows(sessions) : sessions[s].user \in users
  /\ \A s \in Rows(opening) : opening[s].user \in users

(* A session that was closed or expired is over for good: its expiry never *)
(* comes after the present again, and its identifier goes to nobody else   *)
(* before the row is deleted (hcv_database.cc:426, "session already        *)
(* closed").                                                               *)
Over(s) == sessions[s] # NoRow /\ sessions[s].expiry <= now
OverForGood ==
  [][\A s \in Sessions :
       Over(s) => sessions'[s] = NoRow
                  \/ (sessions'[s].user = sessions[s].user /\ sessions'[s].expiry <= now')]_vars
==============================================================================
