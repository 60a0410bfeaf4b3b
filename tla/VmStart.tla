------------------------------ MODULE VmStart -------------------------------
(* A VM on both sides: VmHost's start, supervision, teardown and recovery,   *)
(* and GuestInit in the guest it boots.  They meet where Firecracker takes   *)
(* an API call, passes on a connection or a key press, and ends.             *)
EXTENDS VmHost, GuestInit

CONSTANT MaxConns   \* bound on the connections of try_deliver_config

VARIABLE saved      \* the guest in a snapshot, Off if there is none

vars == <<host_vars, guest, saved>>

Init == HostInit /\ guest = Off /\ saved = Off

BeginStart == Begin(FALSE) /\ UNCHANGED <<guest, saved>>
BeginWake  == saved # Off /\ Begin(TRUE) /\ UNCHANGED <<guest, saved>>

BootGuest == Boot /\ PowerOn /\ UNCHANGED saved

(* deliver_config: a try that finds nobody listening changes nothing, and    *)
(* one that is given up after it connected leaves its connection behind.     *)
DeliverConfig == Deliver /\ Connect("whole") /\ UNCHANGED saved

GiveUpTry ==
  /\ pc = "config" /\ Len(guest.conns) < MaxConns
  /\ Connect("cut")
  /\ UNCHANGED <<host_vars, saved>>

(* wake: load_snapshot uses the snapshot up. *)
LoadGuest == Load /\ guest' = saved /\ saved' = Off

(* A stop is acted on while the VM still starts. *)
BugCtrlAltDel ==
  /\ pc \in {"config", "up"} /\ vmm = "up" /\ guest.pc # "off"
  /\ guest' = Press
  /\ UNCHANGED <<host_vars, saved>>

(* graceful_stop: SendCtrlAltDel, then the VM's end or a timeout (EndVm). *)
CtrlAltDel ==
  /\ pc = "up" /\ vmm = "up" /\ guest.pc # "off"
  /\ guest' = Press
  /\ UNCHANGED <<host_vars, saved>>

(* park: the guest goes on in its snapshot, and its VMM is killed. *)
Park ==
  /\ EndVm /\ vmm = "up" /\ guest.pc \in MainPcs /\ saved = Off
  /\ saved' = guest /\ guest' = Off

GuestEnds == VmmEnds /\ guest' = Off /\ UNCHANGED saved

KillGuest  == Kill /\ guest' = Off /\ UNCHANGED saved
SweepGuest == Sweep /\ guest' = (IF vmm' = "dead" THEN Off ELSE guest) /\ UNCHANGED saved

CrashAgent ==
  /\ Crash /\ UNCHANGED saved
  /\ \/ UNCHANGED guest
     \/ pc = "config" /\ Len(guest.conns) < MaxConns /\ Connect("cut")

HostAlone ==
  /\ \/ AddNetns \/ Spawn \/ AddLinks \/ SeeSocket \/ GraceOver \/ StartFails \/ Record
     \/ EndVm \/ UndoStep \/ Undone \/ RecordEnd \/ Restart \/ Adopt \/ ReconcileDead
     \/ FirecrackerRuns \/ \E o \in {"jail", "cgroup"} : JailerMakes(o)
  /\ UNCHANGED <<guest, saved>>

InGuest == GuestStep /\ UNCHANGED <<host_vars, saved>>

Next ==
  \/ BeginStart \/ BeginWake \/ HostAlone \/ BootGuest \/ DeliverConfig \/ GiveUpTry \/ LoadGuest
  \/ CtrlAltDel \/ Park \/ GuestEnds \/ KillGuest \/ SweepGuest \/ CrashAgent \/ InGuest

(* main goes on and a SIGINT is delivered while the guest runs, and          *)
(* Firecracker ends when its guest has.  Nothing is assumed of the app or of *)
(* the agent.                                                                *)
Fairness ==
  /\ WF_vars(MainStep /\ UNCHANGED <<host_vars, saved>>)
  /\ WF_vars(HandleSigint /\ UNCHANGED <<host_vars, saved>>)
  /\ WF_vars(GuestOver /\ GuestEnds)

Spec == Init /\ [][Next]_vars

FairSpec == Spec /\ Fairness
=============================================================================
