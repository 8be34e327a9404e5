---------------------------- MODULE CookieLedger -----------------------------
(***************************************************************************)
(* What hcv_web_register_fresh_cookie promises to a browser, without       *)
(* threads, transactions or failures: a request is recorded under an       *)
(* identifier of its own, once, and the cookie it is then given names that *)
(* record.  A request may also be recorded and get no cookie.              *)
(***************************************************************************)
CONSTANT Requests       \* request numbers

VARIABLES
  ledger,               \* identifier -> request recorded under it
  given                 \* request -> identifier in the cookie it was given

ledgerVars == <<ledger, given>>

Init ==
  /\ ledger = <<>>
  /\ given = <<>>

Recorded == {ledger[i] : i \in DOMAIN ledger}

(* The identifier is any one not in use.  It is taken from the new ledger, *)
(* so that no set of all identifiers has to be enumerated.                 *)
Record(r) ==
  /\ r \notin Recorded
  /\ \E i \in DOMAIN ledger' :
       /\ i \notin DOMAIN ledger
       /\ ledger' = [k \in DOMAIN ledger \cup {i} |-> IF k = i THEN r ELSE ledger[k]]
  /\ UNCHANGED given

Give(r, i) ==
  /\ i \in DOMAIN ledger
  /\ ledger[i] = r
  /\ r \notin DOMAIN given
  /\ given' = [q \in DOMAIN given \cup {r} |-> IF q = r THEN i ELSE given[q]]
  /\ UNCHANGED ledger

Next == \E r \in Requests : Record(r) \/ \E i \in DOMAIN ledger : Give(r, i)

Spec == Init /\ [][Next]_ledgerVars
==============================================================================
