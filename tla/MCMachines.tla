----------------------------- MODULE MCMachines -----------------------------
(* Small instances of Machines for TLC. *)
EXTENDS Machines, TLC

(* Apps, hostnames and ports are alike; Machines are restored in the order   *)
(* of their names.                                                           *)
Symmetry == Permutations(Apps) \cup Permutations(Hosts) \cup Permutations(Ports)
=============================================================================
