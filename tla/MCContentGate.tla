---------------------------- MODULE MCContentGate ----------------------------
(* A small instance of ContentGate for TLC: an analyst and two approvers. *)
EXTENDS ContentGate
=============================================================================
