------------------------------- MODULE VmSlot -------------------------------
(* What vm.rs promises the agent about one VM address: the host objects in   *)
(* its name are made and removed by whoever holds it, are never removed      *)
(* under a live VMM, and are all gone when it is given back, but for those   *)
(* whose removal failed.                                                     *)
CONSTANT Things   \* the host objects an address may have

VARIABLES
  phase,   \* "free", "held" by a start, a supervisor or a clean-up, or "lost"
  live,    \* whether its VMM runs
  things,  \* the objects that are there
  stuck    \* of those, the ones whose removal failed

slot_vars == <<phase, live, things, stuck>>

Init == phase = "free" /\ live = FALSE /\ things = {} /\ stuck = {}

Take == phase = "free" /\ phase' = "held" /\ UNCHANGED <<live, things, stuck>>

Make ==
  /\ phase = "held"
  /\ \E t \in SUBSET Things : things' = things \cup t
  /\ live => live'
  /\ UNCHANGED <<phase, stuck>>

VmmEnds == live /\ live' = FALSE /\ UNCHANGED <<phase, things, stuck>>

Unmake ==
  /\ phase = "held" /\ ~live
  /\ \E t \in SUBSET Things :
       \/ things' = things \ t /\ stuck' = stuck \ t
       \/ stuck' = stuck \cup (things \cap t) /\ UNCHANGED things
  /\ UNCHANGED <<phase, live>>

GiveBack ==
  /\ phase = "held" /\ ~live /\ things \subseteq stuck
  /\ phase' = "free"
  /\ UNCHANGED <<live, things, stuck>>

(* The agent is gone, and a VMM goes on without it, or not. *)
Lose == phase' = "lost" /\ (live' => live) /\ UNCHANGED <<things, stuck>>

(* The next one takes the address back, with its VMM or without. *)
Find ==
  /\ phase = "lost" /\ phase' \in {"held", "free"}
  /\ live' => live
  /\ phase' = "free" => ~live' /\ things = {}
  /\ UNCHANGED <<things, stuck>>

Next == Take \/ Make \/ VmmEnds \/ Unmake \/ GiveBack \/ Lose \/ Find

Spec == Init /\ [][Next]_slot_vars
=============================================================================
