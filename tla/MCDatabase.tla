----------------------------- MODULE MCDatabase ------------------------------
(* Database instantiated for TLC. *)
EXTENDS Database
==============================================================================
