------------------------------ MODULE MCEdgeHold ------------------------------
(* Small instances of EdgeHold for TLC. *)
EXTENDS EdgeHold, TLC

(* Requests are alike; used by the safety runs only. *)
Symmetry == Permutations(Reqs)
=============================================================================
