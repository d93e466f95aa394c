---------------------------- MODULE MCEnforcement ----------------------------
(* One account for TLC. *)
EXTENDS Enforcement

CONSTANT parent
=============================================================================
