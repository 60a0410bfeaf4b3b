---------------------------- MODULE VmStartProofs ---------------------------
(* The proofs about VmHost and VmStart.  Nothing of a VM leaks, and its      *)
(* address keeps VmSlot's promise; with a guest in it the host side is still *)
(* VmHost, and guest-init is never interrupted while it waits for its        *)
(* config.                                                                   *)
(*                                                                           *)
(* NothingLeaks is not inductive by itself: that a free address has no VMM   *)
(* rests on where a VMM may run at all, that a clean-up kills it on its      *)
(* cgroup being there, and that an undo covers what jailer has yet to make   *)
(* on how far the undo was registered before jailer started.                 *)
EXTENDS VmStart, TLAPS, SequenceTheorems

RunPcs == {"links", "socket", "devices", "config", "grace", "load", "started", "up", "kill"}

(* A VMM runs from its spawn to its kill, and beyond only without an agent.  *)
VmmPlace ==
  /\ Live => pc \in RunPcs \cup Lost
  /\ vmm = "jailer" => pc \notin Lost
  /\ vmm = "up" => {"jail", "cgroup"} \subseteq objs

(* How much of Steps is registered at each step of a start. *)
UndoDepth ==
  /\ pc \in {"idle", "end", "netns"} \cup Lost => undo = 0
  /\ pc = "spawn" => undo = 1
  /\ pc = "links" => undo = 3
  /\ pc \in RunPcs \ {"links", "kill"} => undo = 4
  /\ pc = "kill" /\ Live => undo = 4

IInv == TypeOK /\ VmmPlace /\ UndoDepth /\ NothingLeaks

(* TypeOK in two parts, which different provers handle. *)
Flags == wake \in BOOLEAN /\ recorded \in BOOLEAN

Shape ==
  /\ pc \in Held \cup Lost \cup {"idle", "end"}
  /\ undo \in 0 .. 4
  /\ objs \subseteq Things
  /\ stuck \subseteq objs
  /\ vmm \in {"none", "jailer", "up", "dead"}

Body == Shape /\ VmmPlace /\ UndoDepth /\ NothingLeaks

(* The objects the first steps undo, spelled out, before a step and after. *)
LEMMA CoveredIs ==
  /\ undo = 0 => Covered = {}
  /\ undo = 1 => Covered = {"netns"}
  /\ undo = 2 => Covered = {"netns", "jail"}
  /\ undo = 3 => Covered = {"netns", "jail", "cgroup"}
  /\ undo = 4 => Covered = Things
  /\ undo' = 0 => Covered' = {}
  /\ undo' = 1 => Covered' = {"netns"}
  /\ undo' = 2 => Covered' = {"netns", "jail"}
  /\ undo' = 3 => Covered' = {"netns", "jail", "cgroup"}
  /\ undo' = 4 => Covered' = Things
BY DEF Covered, Steps, Things

(* The parts make up the invariant, before a step and after it. *)
LEMMA Parts == (IInv <=> Flags /\ Body) /\ (IInv' <=> Flags' /\ Body')
BY ZenonT(60) DEF IInv, TypeOK, Flags, Shape, Body

(* Every step of the agent, of jailer and of Firecracker keeps it. *)
LEMMA HostNextInv == IInv /\ [HostNext]_host_vars => IInv'
<1> SUFFICES ASSUME IInv, [HostNext]_host_vars PROVE Flags' /\ Body'
  BY Parts
<1> USE DEF Body, Shape, VmmPlace, UndoDepth, NothingLeaks, Live, Held, Lost, StartPcs, RunPcs,
            Things
<1>0. Flags /\ Body
  BY Parts
<1>1. CASE \E w \in BOOLEAN : Begin(w)
  <2>1. Flags'
    BY <1>0, <1>1, Zenon DEF Flags, Begin
  <2>2. Body'
    BY <1>0, <1>1, CoveredIs DEF Begin
  <2> QED BY <2>1, <2>2
<1>2. CASE AddNetns
  <2>1. Flags'
    BY <1>0, <1>2, Zenon DEF Flags, AddNetns
  <2>2. Body'
    BY <1>0, <1>2, CoveredIs DEF AddNetns
  <2> QED BY <2>1, <2>2
<1>3. CASE Spawn
  <2>1. Flags'
    BY <1>0, <1>3, Zenon DEF Flags, Spawn
  <2>2. Body'
    BY <1>0, <1>3, CoveredIs DEF Spawn
  <2> QED BY <2>1, <2>2
<1>4. CASE AddLinks
  <2>1. Flags'
    BY <1>0, <1>4, Zenon DEF Flags, AddLinks
  <2>2. Body'
    <3>a. Shape'
      <4>1. objs' \subseteq Things /\ stuck' \subseteq objs'
        BY <1>0, <1>4, Zenon DEF AddLinks
      <4> QED BY <4>1, <1>0, <1>4 DEF AddLinks
    <3>b. VmmPlace'
      BY <1>0, <1>4 DEF AddLinks
    <3>c. UndoDepth'
      BY <1>0, <1>4 DEF AddLinks
    <3>1. Shape' /\ VmmPlace' /\ UndoDepth'
      BY <3>a, <3>b, <3>c
    <3>2. NothingLeaks'
      BY <1>0, <1>4, <3>1, CoveredIs DEF AddLinks
    <3> QED BY <3>1, <3>2
  <2> QED BY <2>1, <2>2
<1>5. CASE SeeSocket
  <2>1. Flags'
    BY <1>0, <1>5, Zenon DEF Flags, SeeSocket, To
  <2>2. Body'
    BY <1>0, <1>5, CoveredIs DEF SeeSocket, To
  <2> QED BY <2>1, <2>2
<1>6. CASE Boot \/ Deliver \/ GraceOver \/ Load
  <2>1. Flags'
    BY <1>0, <1>6, Zenon DEF Flags, Boot, Deliver, GraceOver, Load, To
  <2>2. Body'
    BY <1>0, <1>6, CoveredIs, ZenonT(60) DEF Boot, Deliver, GraceOver, Load, To
  <2> QED BY <2>1, <2>2
<1>7. CASE StartFails \/ EndVm
  <2>1. Flags'
    BY <1>0, <1>7, Zenon DEF Flags, StartFails, EndVm, Fails, To
  <2>2. Body'
    BY <1>0, <1>7, CoveredIs, ZenonT(60) DEF StartFails, EndVm, Fails, To
  <2> QED BY <2>1, <2>2
<1>8. CASE Record
  <2>1. Flags'
    BY <1>0, <1>8, Zenon DEF Flags, Record
  <2>2. Body'
    BY <1>0, <1>8, CoveredIs DEF Record
  <2> QED BY <2>1, <2>2
<1>9. CASE Kill
  <2>1. Flags'
    BY <1>0, <1>9, Zenon DEF Flags, Kill
  <2>2. Body'
    BY <1>0, <1>9, CoveredIs DEF Kill
  <2> QED BY <2>1, <2>2
<1>10. CASE UndoStep
  <2>1. Flags'
    BY <1>0, <1>10, Zenon DEF Flags, UndoStep, Goes, Steps
  <2>2. Body'
    <3>a. Shape'
      <4>1. objs' \subseteq Things /\ stuck' \subseteq objs'
        BY <1>0, <1>10, Zenon DEF UndoStep
      <4>2. undo' \in 0 .. 4
        BY <1>0, <1>10 DEF UndoStep
      <4> QED BY <4>1, <4>2, <1>0, <1>10 DEF UndoStep
    <3>b. VmmPlace'
      BY <1>0, <1>10 DEF UndoStep
    <3>c. UndoDepth'
      BY <1>0, <1>10 DEF UndoStep
    <3>1. Shape' /\ VmmPlace' /\ UndoDepth'
      BY <3>a, <3>b, <3>c
    <3>2. undo \in {1, 2, 3, 4}
      BY <1>0, <1>10 DEF UndoStep
    <3>3. Covered = Covered' \cup {Steps[undo]}
      BY <3>2, <1>10, CoveredIs DEF UndoStep, Steps
    <3>4. NothingLeaks'
      BY <1>0, <1>10, <3>3, Zenon DEF UndoStep, Goes
    <3> QED BY <3>1, <3>4
  <2> QED BY <2>1, <2>2
<1>11. CASE Undone
  <2>1. Flags'
    BY <1>0, <1>11, Zenon DEF Flags, Undone, To
  <2>2. Body'
    BY <1>0, <1>11, CoveredIs DEF Undone, To
  <2> QED BY <2>1, <2>2
<1>12. CASE RecordEnd
  <2>1. Flags'
    BY <1>0, <1>12, Zenon DEF Flags, RecordEnd
  <2>2. Body'
    BY <1>0, <1>12, CoveredIs DEF RecordEnd
  <2> QED BY <2>1, <2>2
<1>13. CASE Crash
  <2>1. Flags'
    BY <1>0, <1>13, Zenon DEF Flags, Crash
  <2>2. Body'
    BY <1>0, <1>13, CoveredIs DEF Crash
  <2> QED BY <2>1, <2>2
<1>14. CASE Restart
  <2>1. Flags'
    BY <1>0, <1>14, Zenon DEF Flags, Restart, To
  <2>2. Body'
    BY <1>0, <1>14, CoveredIs DEF Restart, To
  <2> QED BY <2>1, <2>2
<1>15. CASE Adopt
  <2>1. Flags'
    BY <1>0, <1>15, Zenon DEF Flags, Adopt
  <2>2. Body'
    BY <1>0, <1>15, CoveredIs DEF Adopt
  <2> QED BY <2>1, <2>2
<1>16. CASE ReconcileDead
  <2>1. Flags'
    BY <1>0, <1>16, Zenon DEF Flags, ReconcileDead
  <2>2. Body'
    BY <1>0, <1>16, CoveredIs DEF ReconcileDead
  <2> QED BY <2>1, <2>2
<1>17. CASE Sweep
  <2>1. Flags'
    BY <1>0, <1>17, Zenon DEF Flags, Sweep
  <2>2. Body'
    <3>a. Shape'
      BY <1>0, <1>17 DEF Sweep
    <3>b. VmmPlace'
      BY <1>0, <1>17 DEF Sweep
    <3>c. UndoDepth'
      BY <1>0, <1>17 DEF Sweep
    <3>1. Shape' /\ VmmPlace' /\ UndoDepth'
      BY <3>a, <3>b, <3>c
    <3>2. NothingLeaks'
      BY <1>0, <1>17, <3>1, CoveredIs DEF Sweep
    <3> QED BY <3>1, <3>2
  <2> QED BY <2>1, <2>2
<1>18. CASE FirecrackerRuns \/ VmmEnds
  <2>1. Flags'
    BY <1>0, <1>18, Zenon DEF Flags, FirecrackerRuns, VmmEnds
  <2>2. Body'
    <3>1. CASE FirecrackerRuns
      BY <1>0, <3>1, CoveredIs DEF FirecrackerRuns
    <3>2. CASE VmmEnds
      BY <1>0, <3>2, CoveredIs DEF VmmEnds
    <3> QED BY <1>18, <3>1, <3>2
  <2> QED BY <2>1, <2>2
<1>19. CASE \E o \in {"jail", "cgroup"} : JailerMakes(o)
  <2>1. Flags'
    BY <1>0, <1>19, Zenon DEF Flags, JailerMakes
  <2>2. Body'
    BY <1>0, <1>19, CoveredIs DEF JailerMakes
  <2> QED BY <2>1, <2>2
<1>20. CASE UNCHANGED host_vars
  BY <1>0, <1>20 DEF Flags, host_vars, Covered
<1> QED
  BY <1>1, <1>2, <1>3, <1>4, <1>5, <1>6, <1>7, <1>8, <1>9, <1>10, <1>11, <1>12, <1>13, <1>14,
     <1>15, <1>16, <1>17, <1>18, <1>19, <1>20, Zenon DEF HostNext, HostStep, VmmStep

(* VmHost's invariant (Vm::start, teardown, adopt, clean_up). *)
THEOREM Inductive == HostSpec => []IInv
<1>1. HostInit => IInv
  <2> SUFFICES ASSUME HostInit PROVE IInv
    OBVIOUS
  <2>1. Flags
    BY Zenon DEF HostInit, Flags
  <2>2. Shape
    BY DEF HostInit, Shape, Things
  <2>3. VmmPlace /\ UndoDepth
    BY DEF HostInit, VmmPlace, UndoDepth, Live, RunPcs
  <2>4. NothingLeaks
    BY DEF HostInit, NothingLeaks, Live, Held, StartPcs
  <2> QED BY <2>1, <2>2, <2>3, <2>4, Parts DEF Body
<1>2. IInv /\ [HostNext]_host_vars => IInv'
  BY HostNextInv
<1> QED BY <1>1, <1>2, PTL DEF HostSpec

(* An address that nobody holds has no VMM and no object but one whose       *)
(* removal failed, and whoever holds it can undo every other.                *)
THEOREM NoLeak == HostSpec => []NothingLeaks
<1>1. IInv => NothingLeaks
  BY DEF IInv
<1> QED BY <1>1, Inductive, PTL
(* Every step of VmHost is one of VmSlot's or leaves what VmSlot sees alone. *)
LEMMA StepSimulation ==
  IInv /\ [HostNext]_host_vars => [Slot!Next]_(Slot!slot_vars)
<1> SUFFICES ASSUME IInv, [HostNext]_host_vars
             PROVE  Slot!Next \/ UNCHANGED Slot!slot_vars
  OBVIOUS
<1> USE DEF Slot!slot_vars, Phase, Live, Held, Lost, StartPcs
<1>0. Body
  BY Parts
<1>1. CASE \E w \in BOOLEAN : Begin(w)
  <2>1. Slot!Take
    BY <1>0, <1>1 DEF Body, Shape, Things, NothingLeaks, Begin, Slot!Take
  <2> QED BY <2>1 DEF Slot!Next
<1>2. CASE AddNetns
  <2>1. Slot!Make
    BY <1>0, <1>2 DEF Body, Shape, Things, AddNetns, Slot!Make
  <2> QED BY <2>1 DEF Slot!Next
<1>3. CASE Spawn
  <2>1. Slot!Make
    BY <1>0, <1>3 DEF Body, Shape, Things, VmmPlace, RunPcs, Spawn, Slot!Make
  <2> QED BY <2>1 DEF Slot!Next
<1>4. CASE AddLinks
  <2>1. Slot!Make
    BY <1>0, <1>4 DEF Body, Shape, Things, AddLinks, Slot!Make
  <2> QED BY <2>1 DEF Slot!Next
<1>5. CASE SeeSocket
  <2>1. UNCHANGED Slot!slot_vars
    BY <1>0, <1>5 DEF Body, Shape, Things, SeeSocket, To
  <2> QED BY <2>1 DEF Slot!Next
<1>6. CASE Boot \/ Deliver \/ GraceOver \/ Load \/ StartFails \/ EndVm
  <2>1. UNCHANGED Slot!slot_vars
    BY <1>0, <1>6 DEF Body, Shape, Things, Boot, Deliver, GraceOver, Load, StartFails,
                         EndVm, Fails, To
  <2> QED BY <2>1 DEF Slot!Next
<1>7. CASE Record
  <2>1. UNCHANGED Slot!slot_vars
    BY <1>0, <1>7 DEF Body, Shape, Things, Record
  <2> QED BY <2>1 DEF Slot!Next
<1>8. CASE Kill
  <2>1. Slot!VmmEnds \/ UNCHANGED Slot!slot_vars
    BY <1>0, <1>8 DEF Body, Shape, Things, Kill, Slot!VmmEnds
  <2> QED BY <2>1 DEF Slot!Next
<1>9. CASE UndoStep
  <2>1. Slot!Unmake
    BY <1>0, <1>9, Zenon DEF Body, Shape, Things, VmmPlace, RunPcs, UndoStep, Goes, Slot!Unmake
  <2> QED BY <2>1 DEF Slot!Next
<1>10. CASE Undone
  <2>1. Slot!GiveBack
    BY <1>0, <1>10, CoveredIs DEF Body, Shape, Things, NothingLeaks, VmmPlace, RunPcs,
                                     Undone, To, Slot!GiveBack
  <2> QED BY <2>1 DEF Slot!Next
<1>11. CASE RecordEnd
  <2>1. UNCHANGED Slot!slot_vars
    BY <1>0, <1>11 DEF Body, Shape, Things, RecordEnd
  <2> QED BY <2>1 DEF Slot!Next
<1>12. CASE Crash
  <2>1. Slot!Lose
    BY <1>0, <1>12 DEF Body, Shape, Things, Crash, Slot!Lose
  <2> QED BY <2>1 DEF Slot!Next
<1>13. CASE Restart \/ ReconcileDead
  <2>1. UNCHANGED Slot!slot_vars
    BY <1>0, <1>13 DEF Body, Shape, Things, Restart, ReconcileDead, To
  <2> QED BY <2>1 DEF Slot!Next
<1>14. CASE Adopt
  <2>1. Slot!Find
    BY <1>0, <1>14 DEF Body, Shape, Things, Adopt, Slot!Find
  <2> QED BY <2>1 DEF Slot!Next
<1>15. CASE Sweep
  <2>1. Slot!Find
    BY <1>0, <1>15 DEF Body, Shape, Things, VmmPlace, Sweep, Slot!Find
  <2> QED BY <2>1 DEF Slot!Next
<1>16. CASE FirecrackerRuns
  <2>1. UNCHANGED Slot!slot_vars
    BY <1>0, <1>16 DEF Body, Shape, Things, FirecrackerRuns
  <2> QED BY <2>1 DEF Slot!Next
<1>17. CASE VmmEnds
  <2>1. Slot!VmmEnds
    BY <1>0, <1>17 DEF Body, Shape, Things, VmmEnds, Slot!VmmEnds
  <2> QED BY <2>1 DEF Slot!Next
<1>18. CASE \E o \in {"jail", "cgroup"} : JailerMakes(o)
  <2>1. Slot!Make
    BY <1>0, <1>18 DEF Body, Shape, Things, VmmPlace, RunPcs, JailerMakes, Slot!Make
  <2> QED BY <2>1 DEF Slot!Next
<1>19. CASE UNCHANGED host_vars
  BY <1>19 DEF host_vars
<1> QED
  BY <1>1, <1>2, <1>3, <1>4, <1>5, <1>6, <1>7, <1>8, <1>9, <1>10, <1>11, <1>12, <1>13, <1>14,
     <1>15, <1>16, <1>17, <1>18, <1>19 DEF HostNext, HostStep, VmmStep

(* The host side of a VM keeps VmSlot's promise in every behaviour: objects  *)
(* are never removed under a live VMM, and an address is given back empty.   *)
THEOREM Refines == HostSpec => KeepsSlot
<1>1. HostInit => Slot!Init
  BY DEF HostInit, Slot!Init, Phase, Live, Held, Lost, StartPcs
<1>2. IInv /\ [HostNext]_host_vars => [Slot!Next]_(Slot!slot_vars)
  BY StepSimulation
<1> QED BY <1>1, <1>2, Inductive, PTL DEF HostSpec, KeepsSlot, Slot!Spec
-----------------------------------------------------------------------------
(* The whole of a start, guest included.                                     *)

(* VmStart implements VmHost: a step of the whole is a step of VmHost or     *)
(* leaves its state alone.                                                   *)
THEOREM ImplementsHost == Spec => HostSpec
<1>1. Init => HostInit
  BY DEF Init
<1>2. [Next]_vars => [HostNext]_host_vars
  <2> SUFFICES ASSUME [Next]_vars PROVE HostNext \/ UNCHANGED host_vars
    OBVIOUS
  <2> USE DEF HostNext, HostStep, VmmStep
  <2>1. CASE BeginStart \/ BeginWake
    BY <2>1, Zenon DEF BeginStart, BeginWake
  <2>2. CASE HostAlone
    BY <2>2 DEF HostAlone
  <2>3. CASE BootGuest \/ DeliverConfig \/ LoadGuest \/ Park \/ GuestEnds \/ KillGuest
    BY <2>3 DEF BootGuest, DeliverConfig, LoadGuest, Park, GuestEnds, KillGuest
  <2>4. CASE SweepGuest \/ CrashAgent
    BY <2>4 DEF SweepGuest, CrashAgent
  <2>5. CASE GiveUpTry \/ CtrlAltDel \/ InGuest
    BY <2>5 DEF GiveUpTry, CtrlAltDel, InGuest
  <2>6. CASE UNCHANGED vars
    BY <2>6 DEF vars
  <2> QED BY <2>1, <2>2, <2>3, <2>4, <2>5, <2>6 DEF Next
<1> QED BY <1>1, <1>2, PTL DEF Spec, HostSpec

(* With a guest in it, too, an address leaks nothing, however many tries the *)
(* config takes.                                                             *)
THEOREM StartLeaksNothing == Spec => []NothingLeaks
BY ImplementsHost, NoLeak, PTL

(* ... and it keeps VmSlot's promise. *)
THEOREM StartKeepsSlot == Spec => KeepsSlot
BY ImplementsHost, Refines, PTL
-----------------------------------------------------------------------------
(* Why accept is never interrupted: a guest that a key press may reach has   *)
(* its config, or a connection it need not wait for.                         *)
Ready(g) ==
  /\ g.pc \notin {"mount", "handler", "listen", "panic"}
  /\ g.pc = "accept" => g.conns # <<>>

(* The start has delivered the config. *)
Settled == pc \in {"grace", "started", "up"}

GuestInv ==
  /\ guest \in Guest /\ saved \in Guest
  /\ guest.pc # "panic"
  /\ guest.sigint = TRUE => Ready(guest)
  /\ Ready(saved)
  /\ Settled => Ready(guest)
  /\ recorded = TRUE => Ready(guest)
  /\ pc \in StartPcs \cup {"idle"} => recorded = FALSE

(* What a guest does by itself keeps it. *)
LEMMA GuestStepInv == GuestInv /\ InGuest => GuestInv'
<1> SUFFICES ASSUME GuestInv, InGuest PROVE GuestInv'
  OBVIOUS
<1>0. guest \in Guest
  BY DEF GuestInv
<1>1. UNCHANGED <<pc, recorded, saved>>
  BY DEF InGuest, host_vars
<1>2. CASE Mount \/ Handler \/ Listen
  <2>1. guest' \in Guest
    <3>1. CASE Mount
      BY <1>0, <3>1 DEF Guest, MainPcs, At, Mount
    <3>2. CASE Handler
      BY <1>0, <3>2 DEF Guest, MainPcs, At, Handler
    <3>3. CASE Listen
      BY <1>0, <3>3 DEF Guest, MainPcs, At, Listen
    <3> QED BY <1>2, <3>1, <3>2, <3>3
  <2>2. /\ guest.pc \in {"mount", "handler", "listen"}
        /\ guest'.pc \in {"handler", "listen", "accept"}
        /\ guest'.sigint = guest.sigint
    BY <1>0, <1>2 DEF Guest, MainPcs, At, Mount, Handler, Listen
  <2> QED BY <1>0, <1>1, <2>1, <2>2 DEF GuestInv, Ready, Settled
<1>3. CASE ReadConfig
  <2>1. guest' \in Guest
    <3>1. guest.conns \in Seq({"whole", "cut"}) /\ guest.conns # <<>>
      BY <1>0, <1>3 DEF Guest, ReadConfig
    <3>2. Tail(guest.conns) \in Seq({"whole", "cut"})
      BY <3>1
    <3> QED BY <1>0, <1>3, <3>2, Zenon DEF Guest, MainPcs, At, ReadConfig
  <2>2. guest'.pc \in {"fork", "bad"}
    BY <1>0, <1>3 DEF Guest, MainPcs, At, ReadConfig
  <2> QED BY <1>0, <1>1, <2>1, <2>2 DEF GuestInv, Ready, Settled
<1>4. CASE SpawnApp \/ StorePid
  <2>1. guest' \in Guest
    <3>1. CASE SpawnApp
      BY <1>0, <3>1, Zenon DEF Guest, MainPcs, At, SpawnApp
    <3>2. CASE StorePid
      BY <1>0, <3>2, Zenon DEF Guest, MainPcs, At, StorePid
    <3> QED BY <1>4, <3>1, <3>2
  <2>2. guest'.pc \in {"setpid", "check"}
    BY <1>0, <1>4, Zenon DEF Guest, MainPcs, At, SpawnApp, StorePid
  <2> QED BY <1>0, <1>1, <2>1, <2>2 DEF GuestInv, Ready, Settled
<1>5. CASE CheckPending
  <2>1. guest' \in Guest
    BY <1>0, <1>5 DEF Guest, MainPcs, At, CheckPending, Forwarded
  <2>2. guest'.pc = "reap"
    BY <1>0, <1>5 DEF Guest, MainPcs, At, CheckPending, Forwarded
  <2> QED BY <1>0, <1>1, <2>1, <2>2 DEF GuestInv, Ready, Settled
<1>6. CASE ReapApp \/ ClearPid \/ NoChildren
  <2>1. guest' \in Guest
    <3>1. CASE ReapApp
      BY <1>0, <3>1, Zenon DEF Guest, MainPcs, At, ReapApp
    <3>2. CASE ClearPid
      BY <1>0, <3>2, Zenon DEF Guest, MainPcs, At, ClearPid
    <3>3. CASE NoChildren
      BY <1>0, <3>3 DEF Guest, MainPcs, At, NoChildren
    <3> QED BY <1>6, <3>1, <3>2, <3>3
  <2>2. guest'.pc \in {"clear", "reap", "shutdown"}
    BY <1>0, <1>6, Zenon DEF Guest, MainPcs, At, ReapApp, ClearPid, NoChildren
  <2> QED BY <1>0, <1>1, <2>1, <2>2 DEF GuestInv, Ready, Settled
<1>7. CASE HandleSigint
  <2>0. guest.sigint = TRUE /\ Ready(guest)
    BY <1>0, <1>7 DEF HandleSigint, GuestInv, Guest
  <2>1. guest' \in Guest
    BY <1>0, <1>7, <2>0, ZenonT(60) DEF Guest, MainPcs, HandleSigint, Forwarded, Ready
  <2>2. guest'.pc = guest.pc /\ guest'.conns = guest.conns
    BY <1>0, <1>7, <2>0 DEF Guest, HandleSigint, Forwarded, Ready
  <2> QED BY <1>0, <1>1, <2>0, <2>1, <2>2 DEF GuestInv, Ready, Settled
<1>8. CASE AppEnds \/ OrphansEnd
  <2>1. guest' \in Guest
    <3>1. CASE AppEnds
      BY <1>0, <3>1, Zenon DEF Guest, MainPcs, At, AppEnds
    <3>2. CASE OrphansEnd
      BY <1>0, <3>2, Zenon DEF Guest, MainPcs, At, OrphansEnd
    <3> QED BY <1>8, <3>1, <3>2
  <2>2. /\ guest'.pc = guest.pc /\ guest'.conns = guest.conns
        /\ guest'.sigint = guest.sigint
    BY <1>0, <1>8, Zenon DEF Guest, MainPcs, At, AppEnds, OrphansEnd
  <2> QED BY <1>0, <1>1, <2>1, <2>2 DEF GuestInv, Ready, Settled
<1> QED
  BY <1>2, <1>3, <1>4, <1>5, <1>6, <1>7, <1>8 DEF InGuest, GuestStep, MainStep

(* Every step keeps it. *)
LEMMA GuestNextInv == IInv /\ GuestInv /\ [Next]_vars => GuestInv'
<1> SUFFICES ASSUME IInv, GuestInv, [Next]_vars PROVE GuestInv'
  OBVIOUS
<1>0. guest \in Guest /\ saved \in Guest
  BY DEF GuestInv
<1>a. ASSUME NEW c \in {"whole", "cut"}, Connect(c)
      PROVE  /\ guest' \in Guest /\ guest'.pc = "accept" /\ guest'.conns # <<>>
             /\ Ready(guest') /\ guest.pc = "accept" /\ guest'.sigint = guest.sigint
  <2>1. guest.conns \in Seq({"whole", "cut"}) /\ guest.pc = "accept"
    BY <1>0, <1>a DEF Guest, Connect, Listening, At
  <2>2. /\ Append(guest.conns, c) \in Seq({"whole", "cut"})
        /\ Append(guest.conns, c) # <<>>
    BY <1>a, <2>1, AppendProperties
  <2>3. guest' \in Guest
    BY <1>0, <1>a, <2>2, Zenon DEF Guest, Connect, MainPcs
  <2>4. guest'.pc = "accept" /\ guest'.conns # <<>> /\ guest'.sigint = guest.sigint
    BY <1>0, <1>a, <2>1, <2>2 DEF Guest, Connect
  <2> QED BY <2>1, <2>3, <2>4 DEF Ready
<1>b. Off \in Guest /\ Ready(Off) /\ Off.pc # "panic"
  BY DEF Off, Guest, MainPcs, Ready
<1>1. CASE BeginStart \/ BeginWake
  BY <1>1 DEF GuestInv, BeginStart, BeginWake, Begin, StartPcs, Settled
<1>2. CASE HostAlone
  <2>0. UNCHANGED <<guest, saved>>
    BY <1>2 DEF HostAlone
  <2>1. /\ Settled' => Settled \/ recorded = TRUE
        /\ recorded' = TRUE => recorded = TRUE \/ pc = "started"
        /\ pc' \in StartPcs \cup {"idle"} => recorded' = FALSE
    <3> USE DEF GuestInv, Settled, StartPcs, IInv, TypeOK, To
    <3>1. CASE AddNetns \/ Spawn \/ AddLinks
      BY <3>1 DEF AddNetns, Spawn, AddLinks
    <3>2. CASE SeeSocket \/ GraceOver
      BY <3>2 DEF SeeSocket, GraceOver
    <3>3. CASE StartFails \/ EndVm
      BY <3>3 DEF StartFails, EndVm, Fails
    <3>4. CASE Record
      BY <3>4 DEF Record
    <3>5. CASE UndoStep \/ RecordEnd
      BY <3>5 DEF UndoStep, RecordEnd
    <3>6. CASE Undone
      BY <3>6 DEF Undone
    <3>7. CASE Restart \/ Adopt \/ ReconcileDead
      BY <3>7 DEF Restart, Adopt, ReconcileDead
    <3>8. CASE FirecrackerRuns \/ \E o \in {"jail", "cgroup"} : JailerMakes(o)
      BY <3>8 DEF FirecrackerRuns, JailerMakes
    <3> QED BY <1>2, <3>1, <3>2, <3>3, <3>4, <3>5, <3>6, <3>7, <3>8, Zenon DEF HostAlone
  <2> QED BY <2>0, <2>1 DEF GuestInv, Settled
<1>3. CASE BootGuest
  <2>1. guest' = [Off EXCEPT !.pc = "mount"]
    BY <1>3 DEF BootGuest, PowerOn
  <2>2. guest' \in Guest
    BY <2>1, <1>b DEF Guest, MainPcs
  <2>3. guest'.sigint = FALSE /\ guest'.pc = "mount"
    BY <2>1 DEF Off
  <2> QED BY <1>3, <2>2, <2>3 DEF GuestInv, BootGuest, Boot, To, StartPcs, Settled
<1>4. CASE DeliverConfig
  BY <1>4, <1>0, <1>a DEF GuestInv, DeliverConfig, Deliver, To, StartPcs, Settled
<1>5. CASE GiveUpTry
  BY <1>5, <1>0, <1>a DEF GuestInv, GiveUpTry, Settled, host_vars
<1>6. CASE LoadGuest
  BY <1>6, <1>0, <1>b DEF GuestInv, LoadGuest, Load, To, StartPcs, Settled, Ready
<1>7. CASE CtrlAltDel
  <2>1. Ready(guest) /\ UNCHANGED <<pc, recorded, saved>>
    BY <1>7 DEF GuestInv, CtrlAltDel, Settled, host_vars
  <2>2. guest' \in Guest /\ guest'.pc = guest.pc /\ guest'.conns = guest.conns
    BY <1>7, <1>0, <2>1, Zenon DEF CtrlAltDel, Press, Ready, Guest, MainPcs
  <2> QED BY <2>1, <2>2 DEF GuestInv, Ready, Settled
<1>8. CASE Park
  BY <1>8, <1>0, <1>b DEF GuestInv, Park, EndVm, Fails, To, StartPcs, Settled
<1>9. CASE GuestEnds \/ KillGuest \/ SweepGuest
  <2>1. (guest' = Off \/ guest' = guest) /\ UNCHANGED saved
    BY <1>9 DEF GuestEnds, KillGuest, SweepGuest
  <2>2. /\ UNCHANGED recorded
        /\ Settled' => pc' = pc
        /\ pc' \in StartPcs \cup {"idle"} => recorded' = FALSE
    BY <1>9 DEF GuestEnds, KillGuest, SweepGuest, VmmEnds, Kill, Sweep, GuestInv, StartPcs,
                Settled, IInv, TypeOK
  <2>3. guest' \in Guest /\ (guest'.sigint = TRUE => Ready(guest')) /\ guest'.pc # "panic"
    BY <2>1, <1>b DEF GuestInv
  <2>4. Ready(guest) => Ready(guest')
    BY <2>1, <1>b
  <2> QED BY <2>1, <2>2, <2>3, <2>4 DEF GuestInv, Settled
<1>10. CASE CrashAgent
  <2>1. pc' = "down" /\ UNCHANGED <<recorded, saved>>
    BY <1>10 DEF CrashAgent, Crash
  <2>2. CASE UNCHANGED guest
    BY <2>1, <2>2 DEF GuestInv, StartPcs, Settled
  <2>3. CASE Connect("cut")
    BY <2>1, <2>3, <1>0, <1>a DEF GuestInv, StartPcs, Settled
  <2> QED BY <1>10, <2>2, <2>3 DEF CrashAgent
<1>11. CASE InGuest
  BY <1>11, GuestStepInv
<1>12. CASE UNCHANGED vars
  BY <1>12 DEF GuestInv, Settled, vars, host_vars
<1> QED
  BY <1>1, <1>2, <1>3, <1>4, <1>5, <1>6, <1>7, <1>8, <1>9, <1>10, <1>11, <1>12 DEF Next

(* PID 1 never panics but over a config that was cut short, whatever the     *)
(* host does and whenever a shutdown request comes (read_config_from_vsock,  *)
(* handle_sigint).                                                           *)
THEOREM InitLives == Spec => []InitSurvives
<1>1. Init => GuestInv
  BY DEF Init, HostInit, GuestInv, Ready, Settled, Guest, Off, MainPcs, StartPcs
<1>2. IInv /\ GuestInv /\ [Next]_vars => GuestInv'
  BY GuestNextInv
<1>3. Spec => []IInv
  BY ImplementsHost, Inductive, PTL
<1>4. GuestInv => InitSurvives
  BY DEF GuestInv, InitSurvives
<1> QED BY <1>1, <1>2, <1>3, <1>4, PTL DEF Spec
=============================================================================
