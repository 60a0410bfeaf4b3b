----------------------------- MODULE MCNodeAgent -----------------------------
(* Small instances of NodeAgent for TLC. *)
EXTENDS NodeAgent
=============================================================================
