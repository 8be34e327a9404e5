---------------------------- MODULE MCBackground ----------------------------
(* Background instantiated for TLC. *)
EXTENDS Background

(* SIGXCPU is handled as SIGHUP is. *)
MCSignals == {"HUP", "PIPE", "TERM"}
==============================================================================
