------------------------------- MODULE VmHost -------------------------------
(* The host side of one VM address (cirro-node/src/vm.rs): a start or wake   *)
(* makes a namespace, a jail, a cgroup and a link step by step and registers *)
(* how each is undone, jailer makes some of them at a time of its own, and   *)
(* any step may fail; a supervisor ends the VM; the agent may die at any     *)
(* moment, and the next one takes the VM back or cleans up after it.         *)
EXTENDS Naturals, Sequences

VARIABLES
  pc,        \* what the agent does with the address
  wake,      \* whether the VM comes from a snapshot
  undo,      \* Vm::undo: the first `undo` of Steps
  objs,      \* the host objects that exist
  stuck,     \* history: of those, the ones whose undo failed
  vmm,       \* "none", "jailer" (not in its cgroup yet), "up" or "dead"
  recorded   \* whether the VM is Running on record

host_vars == <<pc, wake, undo, objs, stuck, vmm, recorded>>

(* undo_steps, and the order in which host_steps pushes them. *)
Steps == <<"netns", "jail", "cgroup", "link">>

Things == {"netns", "jail", "cgroup", "link"}

StartPcs == {"netns", "spawn", "links", "socket", "devices", "config", "grace", "load", "started"}
Held     == StartPcs \cup {"up", "kill", "undo"}
Lost     == {"down", "boot"}
Live     == vmm \in {"jailer", "up"}

Covered == {Steps[i] : i \in 1 .. undo}

TypeOK ==
  /\ pc \in Held \cup Lost \cup {"idle", "end"}
  /\ wake \in BOOLEAN
  /\ undo \in 0 .. 4
  /\ objs \subseteq Things
  /\ stuck \subseteq objs
  /\ vmm \in {"none", "jailer", "up", "dead"}
  /\ recorded \in BOOLEAN

HostInit ==
  /\ pc = "idle" /\ wake = FALSE /\ undo = 0
  /\ objs = {} /\ stuck = {} /\ vmm = "none" /\ recorded = FALSE
-----------------------------------------------------------------------------
(* Vm::start and Vm::wake. *)
Begin(w) ==
  /\ pc = "idle"
  /\ pc' = "netns" /\ wake' = w /\ vmm' = "none"
  /\ UNCHANGED <<undo, objs, stuck, recorded>>

To(to) == pc' = to /\ UNCHANGED <<wake, undo, objs, stuck, vmm, recorded>>

(* A start that fails tears down what it has registered. *)
Fails(from) == pc = from /\ To("kill")

(* host_steps, 1: a namespace that is there already fails it. *)
AddNetns ==
  /\ pc = "netns" /\ "netns" \notin objs
  /\ objs' = objs \cup {"netns"}
  /\ undo' = 1
  /\ pc' = "spawn"
  /\ UNCHANGED <<wake, stuck, vmm, recorded>>

(* 2: the undo of what jailer will make, then jailer. *)
Spawn ==
  /\ pc = "spawn"
  /\ undo' = 3
  /\ \/ vmm' = "jailer" /\ pc' = "links"
     \/ vmm' \in {"none", "dead"} /\ pc' = "kill"
  /\ UNCHANGED <<wake, objs, stuck, recorded>>

(* A link's undo is registered when both batches have succeeded. *)
BugAddLinks ==
  /\ pc = "links"
  /\ \/ /\ "link" \notin objs /\ objs' = objs \cup {"link"}
        /\ \/ undo' = 4 /\ pc' = "socket"
           \/ UNCHANGED undo /\ pc' = "kill"
     \/ UNCHANGED <<objs, undo>> /\ pc' = "kill"
  /\ UNCHANGED <<wake, stuck, vmm, recorded>>

(* 3: the link's undo goes first, since a batch may fail after its first     *)
(* command.                                                                  *)
AddLinks ==
  /\ pc = "links"
  /\ undo' = 4
  /\ \/ "link" \notin objs /\ objs' = objs \cup {"link"} /\ pc' \in {"socket", "kill"}
     \/ UNCHANGED objs /\ pc' = "kill"
  /\ UNCHANGED <<wake, stuck, vmm, recorded>>

(* 4: Firecracker's API socket. *)
SeeSocket ==
  /\ pc = "socket" /\ vmm = "up"
  /\ To(IF wake THEN "load" ELSE "devices")

(* start_steps, 5 and 6. *)
Boot      == pc = "devices" /\ vmm = "up" /\ To("config")
Deliver   == pc = "config" /\ vmm = "up" /\ To("grace")
GraceOver == pc = "grace" /\ vmm # "dead" /\ To("started")

(* wake_steps, 5 and 6. *)
Load == pc = "load" /\ vmm = "up" /\ To("started")

(* Any of them fails, the grace period when the VM ends in it. *)
StartFails ==
  \/ \E from \in {"netns", "socket", "devices", "config", "load"} : Fails(from)
  \/ vmm = "dead" /\ Fails("grace")

(* insert_running, or Vm::destroy if that fails. *)
Record ==
  /\ pc = "started"
  /\ \/ pc' = "up" /\ recorded' = TRUE
     \/ pc' = "kill" /\ UNCHANGED recorded
  /\ UNCHANGED <<wake, undo, objs, stuck, vmm>>
-----------------------------------------------------------------------------
(* jailer and Firecracker, in a process of their own.  A jail or cgroup that *)
(* an earlier VM left is used again, or ends them.                           *)
JailerMakes(o) ==
  /\ vmm = "jailer" /\ o \notin objs
  /\ objs' = objs \cup {o}
  /\ UNCHANGED <<pc, wake, undo, stuck, vmm, recorded>>

FirecrackerRuns ==
  /\ vmm = "jailer" /\ {"jail", "cgroup"} \subseteq objs
  /\ vmm' = "up"
  /\ UNCHANGED <<pc, wake, undo, objs, stuck, recorded>>

VmmEnds ==
  /\ Live
  /\ vmm' = "dead"
  /\ UNCHANGED <<pc, wake, undo, objs, stuck, recorded>>
-----------------------------------------------------------------------------
(* Vm::supervise: the VM has ended, is stopped or parked. *)
EndVm == Fails("up")

(* The undo starts before the VMM is gone. *)
BugKill ==
  /\ pc = "kill"
  /\ To("undo")

(* Vm::teardown: the VMM is killed and waited for... *)
Kill ==
  /\ pc = "kill"
  /\ vmm' = IF Live THEN "dead" ELSE vmm
  /\ pc' = "undo"
  /\ UNCHANGED <<wake, undo, objs, stuck, recorded>>

(* ... then the steps are undone from the last, each of which only logs a    *)
(* failure and counts an object that is gone as undone.  A link goes with    *)
(* the namespace that has its other end.                                     *)
Goes(o) == {o} \cup (IF o = "netns" THEN {"link"} ELSE {})

UndoStep ==
  LET o == Steps[undo] IN
  /\ pc = "undo" /\ undo > 0
  /\ undo' = undo - 1
  /\ \/ objs' = objs \ Goes(o) /\ stuck' = stuck \ Goes(o)
     \/ stuck' = stuck \cup (objs \cap {o}) /\ UNCHANGED objs
  /\ UNCHANGED <<pc, wake, vmm, recorded>>

Undone == pc = "undo" /\ undo = 0 /\ To(IF recorded THEN "end" ELSE "idle")

(* The end is put on record after the teardown. *)
RecordEnd ==
  /\ pc = "end"
  /\ recorded' = FALSE
  /\ pc' = "idle"
  /\ UNCHANGED <<wake, undo, objs, stuck, vmm>>
-----------------------------------------------------------------------------
(* The agent dies.  A VMM in its own cgroup outlives it; a jailer that isn't *)
(* in one yet is killed with the agent's unit.                               *)
Crash ==
  /\ pc # "down"
  /\ pc' = "down" /\ undo' = 0
  /\ vmm' = IF vmm = "jailer" THEN "dead" ELSE vmm
  /\ UNCHANGED <<wake, objs, stuck, recorded>>

Restart == pc = "down" /\ To("boot")

(* reconcile: Vm::adopt for a recorded VM that runs. *)
Adopt ==
  /\ pc = "boot" /\ recorded /\ vmm = "up"
  /\ pc' = "up" /\ undo' = 4
  /\ UNCHANGED <<wake, objs, stuck, vmm, recorded>>

ReconcileDead ==
  /\ pc = "boot" /\ recorded /\ vmm # "up"
  /\ recorded' = FALSE
  /\ UNCHANGED <<pc, wake, undo, objs, stuck, vmm>>

(* clean_up: what runs in the cgroup is killed, then every step undone, if   *)
(* host_state_owners finds any object of the address.                        *)
Sweep ==
  /\ pc = "boot" /\ ~recorded
  /\ IF objs = {} THEN pc' = "idle" /\ UNCHANGED <<undo, vmm>>
     ELSE /\ pc' = "undo" /\ undo' = 4
          /\ vmm' = IF vmm = "up" /\ "cgroup" \in objs THEN "dead" ELSE vmm
  /\ UNCHANGED <<wake, objs, stuck, recorded>>

HostStep ==
  \/ \E w \in BOOLEAN : Begin(w)
  \/ AddNetns \/ Spawn \/ AddLinks \/ SeeSocket \/ Boot \/ Deliver \/ GraceOver \/ Load
  \/ StartFails \/ Record \/ EndVm \/ Kill \/ UndoStep \/ Undone \/ RecordEnd
  \/ Crash \/ Restart \/ Adopt \/ ReconcileDead \/ Sweep

VmmStep == FirecrackerRuns \/ VmmEnds \/ \E o \in {"jail", "cgroup"} : JailerMakes(o)

HostNext == HostStep \/ VmmStep

HostSpec == HostInit /\ [][HostNext]_host_vars
-----------------------------------------------------------------------------
(* At an address that no start, supervisor or clean-up holds no VMM runs,    *)
(* and no object is left but one whose removal failed; and whoever holds it  *)
(* has the undo of every other.  Starts may fail at any step, jailer may be  *)
(* late, the agent may die at any moment (Vm::start, teardown, clean_up).    *)
NothingLeaks ==
  /\ pc \in {"idle", "end"} => ~Live /\ objs \subseteq stuck
  /\ pc \in Held => objs \subseteq Covered \cup stuck

Phase == IF pc \in Lost THEN "lost" ELSE IF pc \in Held THEN "held" ELSE "free"

Slot == INSTANCE VmSlot WITH phase <- Phase, live <- Live, things <- objs

(* The address keeps VmSlot's promise: above all, no object is removed under *)
(* a live VMM (Vm's comment on teardown).                                    *)
KeepsSlot == Slot!Spec
=============================================================================
