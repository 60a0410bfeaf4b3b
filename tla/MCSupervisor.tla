----------------------------- MODULE MCSupervisor -----------------------------
(* Small instances of Supervisor for TLC. *)
EXTENDS Supervisor, TLC

(* Clients are alike; used by the safety runs only. *)
Symmetry == Permutations(Clients)
=============================================================================
