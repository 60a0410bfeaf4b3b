--------------------------- MODULE NodeAgentProofs --------------------------
(* The safety of NodeAgent that needs more than its first inductive          *)
(* invariants: the sweep, then hostnames, then snapshots.                    *)
EXTENDS NodeAgentInvariant

(* A VMM is at the address of the record or the start that has its process,  *)
(* and a supervisor gets to its teardown once its VMM is dead.               *)
Placed ==
  \A a \in Addrs, n \in Names :
    /\ host[a].pid = store[n].pid /\ store[n].pid # NoPid => store[n].addr = a
    /\ host[a].pid = task[n].pid /\ task[n].pid # NoPid => vms[n].addr = a

Stopped ==
  \A n \in Names :
    sup[n].pc \in {"moveout", "teardown"} => host[vms[n].addr].vmm \notin {"live", "paused"}

-----------------------------------------------------------------------------
(* What keeps a VMM at the address of the record or start that has its       *)
(* process: processes only come with HostUp.                                 *)
LEMMA PlacedFrame ==
  ASSUME Placed,
         \A a \in Addrs : host'[a].pid \in {host[a].pid, NoPid},
         \A n \in Names :
           \/ store'[n].pid = NoPid
           \/ store'[n].pid = store[n].pid /\ store'[n].addr = store[n].addr
           \/ store'[n].pid = task[n].pid /\ store'[n].addr = vms[n].addr,
         \A n \in Names :
           task'[n].pid = NoPid \/ (task'[n].pid = task[n].pid /\ vms'[n].addr = vms[n].addr)
  PROVE  Placed'
<1> SUFFICES ASSUME NEW a \in Addrs, NEW n \in Names
             PROVE  /\ host'[a].pid = store'[n].pid /\ store'[n].pid # NoPid => store'[n].addr = a
                    /\ host'[a].pid = task'[n].pid /\ task'[n].pid # NoPid => vms'[n].addr = a
  BY Zenon DEF Placed
<1>1. /\ host[a].pid = store[n].pid /\ store[n].pid # NoPid => store[n].addr = a
      /\ host[a].pid = task[n].pid /\ task[n].pid # NoPid => vms[n].addr = a
  BY Zenon DEF Placed
<1> QED
  BY <1>1, Zenon

DeadSoon == {"moveout", "teardown"}
Alive    == {"live", "paused"}

(* The teardown's promise: a VMM that is dead stays so, and a supervisor     *)
(* comes to its teardown with a dead one.                                    *)
LEMMA StoppedKept ==
  ASSUME IInv, Stopped,
         \A b \in Addrs : host'[b].vmm = host[b].vmm \/ host'[b].vmm \notin Alive,
         \A m \in Names : sup'[m].pc \in DeadSoon =>
           /\ vms'[m].addr = vms[m].addr
           /\ sup[m].pc \in DeadSoon \/ host'[vms[m].addr].vmm \notin Alive
  PROVE  Stopped'
<1> SUFFICES ASSUME NEW m \in Names, sup'[m].pc \in DeadSoon
             PROVE  host'[vms'[m].addr].vmm \notin Alive
  BY Zenon DEF Stopped, DeadSoon, Alive
<1>1. CASE host'[vms[m].addr].vmm \notin Alive
  BY <1>1, Zenon
<1>2. CASE sup[m].pc \in DeadSoon
  <2>1. vms[m].st = "running"
    BY <1>2, Zenon DEF IInv, SInv, Owners, DeadSoon
  <2>2. vms[m].addr \in Addrs
    BY <2>1 DEF IInv, SInv, Shapes, AddrShape
  <2>3. host[vms[m].addr].vmm \notin Alive
    BY <1>2, Zenon DEF Stopped, DeadSoon, Alive
  <2> QED
    BY <2>2, <2>3, Zenon
<1> QED
  BY <1>1, <1>2, Zenon

(* A VMM comes to life at the address that one VM holds: no other's. *)
LEMMA StoppedApart ==
  ASSUME IInv, IInv', Stopped, NEW n \in Names,
         \A m \in Names \ {n} : vms'[m] = vms[m] /\ sup'[m] = sup[m],
         \A b \in Addrs \ {vms'[n].addr} : host'[b] = host[b],
         vms'[n].st \in {"starting", "running"}, sup'[n].pc \notin DeadSoon
  PROVE  Stopped'
<1> SUFFICES ASSUME NEW m \in Names, sup'[m].pc \in DeadSoon
             PROVE  host'[vms'[m].addr].vmm \notin Alive
  BY Zenon DEF Stopped, DeadSoon, Alive
<1>1. m # n /\ sup[m].pc \in DeadSoon /\ vms'[m] = vms[m]
  BY Zenon
<1>2. vms[m].st = "running"
  BY <1>1, Zenon DEF IInv, SInv, Owners, DeadSoon
<1>3. vms[m].addr \in Addrs
  BY <1>2 DEF IInv, SInv, Shapes, AddrShape
<1>4. vms'[m].addr # vms'[n].addr
  BY <1>1, <1>2, Zenon DEF IInv, SInv, AddressHeldOnce, Holds
<1>5. host[vms[m].addr].vmm \notin Alive
  BY <1>1, Zenon DEF Stopped, DeadSoon, Alive
<1> QED
  BY <1>1, <1>3, <1>4, <1>5, Zenon

VmmInv == Placed /\ Stopped

(* Each address keeps its VMM as it is, or is left without one. *)
Tame == \A b \in Addrs : \/ host'[b].pid = host[b].pid /\ host'[b].vmm = host[b].vmm
                         \/ host'[b] \in Nothing

(* What is left without a VMM, and the updates the actions make of an address. *)
LEMMA TameFacts ==
  ASSUME TypeOK
  PROVE  /\ Tame => \A b \in Addrs : /\ host'[b].pid \in {host[b].pid, NoPid}
                                     /\ host'[b].vmm = host[b].vmm \/ host'[b].vmm \notin Alive
         /\ UNCHANGED host => Tame
         /\ \A a \in Addrs : Teardown(a) \/ SetHost(a, NoHost) => Tame
         /\ \A a \in Addrs, f \in BOOLEAN, r \in BOOLEAN :
              /\ SetHost(a, [host[a] EXCEPT !.files = f]) => Tame
              /\ SetHost(a, [host[a] EXCEPT !.ran = r]) => Tame
              /\ SetHost(a, [host[a] EXCEPT !.files = f, !.ran = r]) => Tame
<1>1. \A h \in Nothing : h.pid = NoPid /\ h.vmm \notin Alive
  BY DEF Nothing, NoHost, Remains, Alive
<1>2. Tame => \A b \in Addrs : /\ host'[b].pid \in {host[b].pid, NoPid}
                               /\ host'[b].vmm = host[b].vmm \/ host'[b].vmm \notin Alive
  BY <1>1, Zenon DEF Tame
<1>3. UNCHANGED host => Tame
  BY Zenon DEF Tame
<1>4. host \in [Addrs -> HostState]
  BY Zenon DEF TypeOK
<1>5. ASSUME NEW a \in Addrs, NEW h, SetHost(a, h),
             h \in Nothing \/ (h.pid = host[a].pid /\ h.vmm = host[a].vmm)
      PROVE  Tame
  BY <1>4, <1>5 DEF SetHost, Tame
<1>6. ASSUME NEW a \in Addrs, Teardown(a) \/ SetHost(a, NoHost) PROVE Tame
  BY <1>5, <1>6, Zenon DEF Teardown, Nothing
<1>7. ASSUME NEW a \in Addrs, NEW f \in BOOLEAN, NEW r \in BOOLEAN,
             \/ SetHost(a, [host[a] EXCEPT !.files = f])
             \/ SetHost(a, [host[a] EXCEPT !.ran = r])
             \/ SetHost(a, [host[a] EXCEPT !.files = f, !.ran = r])
      PROVE  Tame
  <2>1. host[a] \in HostState
    BY <1>4
  <2>2. \A h \in {[host[a] EXCEPT !.files = f], [host[a] EXCEPT !.ran = r],
                  [host[a] EXCEPT !.files = f, !.ran = r]} :
          h.pid = host[a].pid /\ h.vmm = host[a].vmm
    BY <2>1, Zenon DEF HostState
  <2> QED
    BY <1>5, <1>7, <2>2, Zenon
<1> QED
  BY <1>2, <1>3, <1>6, <1>7, Zenon

(* A start or wake goes on with the VMM it has, records it or gives it up. *)
LEMMA VmmTask ==
  ASSUME IInv, VmmInv, Tame, UNCHANGED <<vms, sup>>, NEW n \in Names,
         NEW pc \in StartPcs \cup WakePcs, SetPc(n, pc),
         store' = store \/ store' = [store EXCEPT ![n] = Running(vms[n], task[n].pid)]
  PROVE  VmmInv'
<1>1. TypeOK
  BY Zenon DEF IInv
<1>2. /\ \A b \in Addrs : host'[b].pid \in {host[b].pid, NoPid}
      /\ \A b \in Addrs : host'[b].vmm = host[b].vmm \/ host'[b].vmm \notin Alive
  BY <1>1, TameFacts, Zenon
<1>3. \A m \in Names : task'[m].pid = task[m].pid
  BY <1>1, SetPcEffect, Zenon
<1>4. \A m \in Names : \/ store'[m] = store[m]
                       \/ store'[m].pid = task[m].pid /\ store'[m].addr = vms[m].addr
  <2>1. store \in [Names -> Entry] /\ vms[n] \in Entry
    BY <1>1 DEF TypeOK
  <2>2. /\ Running(vms[n], task[n].pid).pid = task[n].pid
        /\ Running(vms[n], task[n].pid).addr = vms[n].addr
    BY <2>1 DEF Running, Entry
  <2> QED
    BY <2>1, <2>2, Zenon
<1>5. Placed'
  BY <1>2, <1>3, <1>4, PlacedFrame, Zenon DEF VmmInv
<1>6. Stopped'
  BY <1>2, StoppedKept, Zenon DEF VmmInv
<1> QED
  BY <1>5, <1>6, Zenon DEF VmmInv

(* The steps of a start or wake that only go on, or record it. *)
LEMMA VmmGoesOn ==
  ASSUME IInv, VmmInv, NEW n \in Names,
         \/ Booted(n) \/ StartFails(n) \/ StartUnwind(n) \/ WakeHostFails(n) \/ WakeMove(n)
         \/ WakeLoad(n) \/ WakeLoadFails(n) \/ WakePutBack(n) \/ WakeUnwind(n)
         \/ RecordStart(n) \/ RecordWake(n)
  PROVE  VmmInv'
<1>1. /\ UNCHANGED <<vms, sup>>
      /\ store' = store \/ store' = [store EXCEPT ![n] = Running(vms[n], task[n].pid)]
  BY Zenon DEF Booted, StartFails, StartUnwind, WakeHostFails, WakeMove, WakeLoad,
               WakeLoadFails, WakePutBack, WakeUnwind, RecordStart, RecordWake, durable
<1>2. \E pc \in StartPcs \cup WakePcs : SetPc(n, pc)
  <2>1. \E pc \in {"booted", "unwind", "failed", "recorded", "wfailed", "load", "back", "woken",
                   "wunwind", "wrecorded", "wlost"} : SetPc(n, pc)
    BY Zenon DEF Booted, StartFails, StartUnwind, WakeHostFails, WakeMove, WakeLoad,
                 WakeLoadFails, WakePutBack, WakeUnwind, RecordStart, RecordWake
  <2>2. {"booted", "unwind", "failed", "recorded", "wfailed", "load", "back", "woken",
         "wunwind", "wrecorded", "wlost"} \subseteq StartPcs \cup WakePcs
    BY DEF StartPcs, WakePcs
  <2> QED
    BY <2>1, <2>2, Zenon
<1>3. task[n].pc # "idle"
  BY Zenon DEF Booted, StartFails, StartUnwind, WakeHostFails, WakeMove, WakeLoad,
               WakeLoadFails, WakePutBack, WakeUnwind, RecordStart, RecordWake
<1>4. TypeOK /\ vms[n].addr \in Addrs
  <2>1. vms[n].st = "starting"
    BY <1>3, Zenon DEF IInv, SInv, Owners
  <2> QED
    BY <2>1 DEF IInv, SInv, Shapes, AddrShape
<1>5. Tame
  <2>1. \/ UNCHANGED host \/ Teardown(vms[n].addr)
        \/ \E f \in BOOLEAN, r \in BOOLEAN : LET a == vms[n].addr IN
             \/ SetHost(a, [host[a] EXCEPT !.files = f])
             \/ SetHost(a, [host[a] EXCEPT !.ran = r])
             \/ SetHost(a, [host[a] EXCEPT !.files = f, !.ran = r])
    <3>1. (dir[n] = "stale") \in BOOLEAN
      OBVIOUS
    <3> QED
      BY <3>1, Zenon
         DEF Booted, StartFails, StartUnwind, WakeHostFails, WakeMove, WakeLoad,
             WakeLoadFails, WakePutBack, WakeUnwind, RecordStart, RecordWake, durable
  <2> QED
    BY <1>4, <2>1, TameFacts, Zenon
<1> QED
  BY <1>1, <1>2, <1>5, VmmTask, Zenon

(* A step that leaves the host alone: a start or wake begins or is over, a   *)
(* VM is recorded as ended, removed or looked at, or the agent changes phase *)
(* or dies.                                                                  *)
LEMMA VmmStill ==
  ASSUME IInv, VmmInv, UNCHANGED host,
         \A m \in Names : store'[m].pid = NoPid \/ store'[m] = store[m],
         \A m \in Names : task'[m].pid = NoPid \/ (task'[m] = task[m] /\ vms'[m] = vms[m]),
         \A m \in Names : sup'[m].pc \in DeadSoon => sup'[m] = sup[m] /\ vms'[m] = vms[m]
  PROVE  VmmInv'
<1>1. Placed'
  BY PlacedFrame, Zenon DEF VmmInv
<1>2. Stopped'
  BY StoppedKept, Zenon DEF VmmInv
<1> QED
  BY <1>1, <1>2, Zenon DEF VmmInv

(* The same of one name. *)
LEMMA VmmOneStill ==
  ASSUME IInv, IInv', VmmInv, UNCHANGED host, NEW n \in Names,
         \A m \in Names \ {n} : task'[m] = task[m] /\ vms'[m] = vms[m] /\ sup'[m] = sup[m],
         store' = store \/ \E e : e.pid = NoPid /\ store' = [store EXCEPT ![n] = e],
         task'[n].pid = NoPid, sup'[n].pc \notin DeadSoon
  PROVE  VmmInv'
<1>1. store \in [Names -> Entry]
  BY Zenon DEF IInv, TypeOK
<1>2. \A m \in Names : store'[m].pid = NoPid \/ store'[m] = store[m]
  BY <1>1, Zenon
<1> QED
  BY <1>2, VmmStill, Zenon

(* A start or wake begins or is over, and a VM ends, is removed or looked at. *)
LEMMA VmmSettled ==
  ASSUME IInv, IInv', LogInv, VmmInv, NEW n \in Names, UNCHANGED host,
         \/ \E h \in Hosts \cup {NoRoute}, a \in Addrs : RunVm(n, h, a)
         \/ \E a \in Addrs : WakeVm(n, a)
         \/ ForgetStart(n) \/ StartSupervising(n) \/ PutBack(n) \/ WakeLost(n) \/ WakeSupervising(n)
         \/ RecordEnd(n) \/ Remove(n) \/ ReconcileEnded(n) \/ Adopt(n)
         \/ ReconcileDead(n) /\ node' # "down"
  PROVE  VmmInv'
<1>0. /\ vms \in [Names -> Entry] /\ task \in [Names -> Task] /\ sup \in [Names -> Sup]
      /\ store[n] \in Entry
  BY DEF IInv, TypeOK
<1>1. /\ NoPid = Idle.pid /\ NoPid = Absent.pid
      /\ \A e \in Entry : \A why : Ended(e, why).pid = NoPid
      /\ NoSup.pc \notin DeadSoon /\ Watch.pc \notin DeadSoon
      /\ \A old : [Idle EXCEPT !.pc = "start", !.old = old].pid = NoPid
      /\ \A old : [Idle EXCEPT !.pc = "wake", !.old = old].pid = NoPid
  BY DEF Idle, Absent, Ended, Entry, NoSup, Watch, DeadSoon
<1>2. store' = store \/ \E e : e.pid = NoPid /\ store' = [store EXCEPT ![n] = e]
  BY <1>0, <1>1, Zenon
     DEF RunVm, WakeVm, ForgetStart, StartSupervising, PutBack, WakeLost, WakeSupervising,
         RecordEnd, Remove, ReconcileEnded, Adopt, ReconcileDead, Die, durable
<1>3. /\ \/ \E t : t.pid = NoPid /\ task' = [task EXCEPT ![n] = t]
         \/ UNCHANGED task /\ vms[n].st # "starting"
      /\ \E e : vms' = [vms EXCEPT ![n] = e] \/ vms' = vms
      /\ \/ UNCHANGED sup /\ vms[n].st # "running"
         \/ sup' = [sup EXCEPT ![n] = Watch] \/ sup' = [sup EXCEPT ![n] = NoSup]
  <2>1. CASE \/ \E h \in Hosts \cup {NoRoute}, a \in Addrs : RunVm(n, h, a)
             \/ \E a \in Addrs : WakeVm(n, a)
    BY <1>1, <2>1, Zenon DEF RunVm, WakeVm, IsParked
  <2>2. CASE ForgetStart(n) \/ PutBack(n) \/ WakeLost(n)
    <3>1. vms[n].st = "starting"
      BY <2>2, Zenon DEF ForgetStart, PutBack, WakeLost, IInv, SInv, Owners
    <3> QED
      BY <1>1, <2>2, <3>1, Zenon DEF ForgetStart, PutBack, WakeLost
  <2>3. CASE StartSupervising(n) \/ WakeSupervising(n)
    BY <1>1, <2>3, Zenon DEF StartSupervising, WakeSupervising
  <2>4. CASE RecordEnd(n)
    <3>1. vms[n].st = "running"
      BY <2>4, Zenon DEF RecordEnd, IInv, SInv, Owners
    <3> QED
      BY <2>4, <3>1, Zenon DEF RecordEnd
  <2>5. CASE Remove(n)
    BY <2>5, Zenon DEF Remove
  <2>6. CASE ReconcileEnded(n) \/ Adopt(n) \/ (ReconcileDead(n) /\ node' # "down")
    <3>1. n \in todo
      BY <2>6, Zenon DEF ReconcileEnded, Adopt, ReconcileDead
    <3>2. vms[n].st = "absent"
      BY <3>1, Zenon DEF IInv, SInv, Boots
    <3> QED
      BY <2>6, <3>2, Zenon DEF ReconcileEnded, Adopt, ReconcileDead, Die
  <2> QED
    BY <2>1, <2>2, <2>3, <2>4, <2>5, <2>6, Zenon
<1>4. vms[n].st # "starting" => task[n].pc = "idle"
  BY Zenon DEF IInv, SInv, Owners
<1>5. vms[n].st # "running" => sup[n].pc = "none"
  BY Zenon DEF IInv, SInv, Owners
<1>6. task'[n].pid = NoPid /\ \A m \in Names \ {n} : task'[m] = task[m]
  BY <1>0, <1>1, <1>3, <1>4, Zenon DEF LogInv, OnRecord
<1>7. \A m \in Names \ {n} : vms'[m] = vms[m] /\ sup'[m] = sup[m]
  BY <1>0, <1>3, Zenon
<1>8. sup'[n].pc \notin DeadSoon
  BY <1>0, <1>1, <1>3, <1>5, Zenon DEF DeadSoon
<1> QED
  BY <1>2, <1>6, <1>7, <1>8, VmmOneStill, Zenon

(* A VMM is spawned: nothing has had its process before, and no other VM     *)
(* holds the address.                                                        *)
LEMMA VmmSpawns ==
  ASSUME IInv, IInv', VmmInv, NEW n \in Names, NEW p \in Pids, StartHost(n, p) \/ WakeHost(n, p)
  PROVE  VmmInv'
<1> DEFINE a == vms[n].addr
<1>0. /\ task \in [Names -> Task] /\ host \in [Addrs -> HostState]
  BY DEF IInv, TypeOK
<1>1. /\ UNCHANGED <<vms, sup, store>> /\ FreshPid(p) /\ task[n].pc # "idle"
      /\ SetHost(a, [pid |-> p, vmm |-> "live", files |-> FALSE, ran |-> FALSE])
  BY Zenon DEF StartHost, WakeHost, HostUp
<1>2. task'[n].pid = p /\ \A m \in Names \ {n} : task'[m] = task[m]
  BY <1>0 DEF StartHost, WakeHost, HostUp, Task
<1>3. vms[n].st = "starting"
  BY <1>1, Zenon DEF IInv, SInv, Owners
<1>4. a \in Addrs
  BY <1>3 DEF IInv, SInv, Shapes, AddrShape
<1>5. host'[a].pid = p /\ \A b \in Addrs \ {a} : host'[b] = host[b]
  BY <1>0, <1>1, <1>4 DEF SetHost
<1>6. /\ \A b \in Addrs : host[b].pid # p
      /\ \A m \in Names : store[m].pid # p /\ task[m].pid # p
  BY <1>1, Zenon DEF FreshPid
<1>7. sup[n].pc = "none"
  BY <1>3, Zenon DEF IInv, SInv, Owners
<1> HIDE DEF a
<1>8. Placed'
  <2> SUFFICES ASSUME NEW b \in Addrs, NEW m \in Names
               PROVE  /\ host'[b].pid = store[m].pid /\ store[m].pid # NoPid => store[m].addr = b
                      /\ host'[b].pid = task'[m].pid /\ task'[m].pid # NoPid => vms[m].addr = b
    BY <1>1, Zenon DEF Placed
  <2>1. /\ host[b].pid = store[m].pid /\ store[m].pid # NoPid => store[m].addr = b
        /\ host[b].pid = task[m].pid /\ task[m].pid # NoPid => vms[m].addr = b
    BY Zenon DEF VmmInv, Placed
  <2>2. a = vms[n].addr
    BY DEF a
  <2>3. CASE b = a
    BY <1>2, <1>5, <1>6, <2>2, <2>3, Zenon
  <2>4. CASE b # a
    BY <1>2, <1>5, <1>6, <2>1, <2>4, Zenon
  <2> QED
    BY <2>3, <2>4, Zenon
<1>9. Stopped'
  <2>1. a = vms'[n].addr
    BY <1>1, Zenon DEF a
  <2>2. sup'[n].pc \notin DeadSoon
    BY <1>1, <1>7, Zenon DEF DeadSoon
  <2> QED
    BY <1>1, <1>3, <1>5, <2>1, <2>2, StoppedApart, Zenon DEF VmmInv
<1> QED
  BY <1>8, <1>9, Zenon DEF VmmInv

(* Changes of the host that move no process: a supervisor's, an adoption's,  *)
(* a guest's.                                                                *)
LEMMA PlacedStays ==
  ASSUME IInv, VmmInv, NEW a \in Addrs, NEW h, SetHost(a, h), h.pid = host[a].pid,
         UNCHANGED <<store, task>>,
         \A m \in Names : vms'[m] = vms[m] \/ task[m].pid = NoPid
  PROVE  Placed' /\ host'[a] = h /\ \A b \in Addrs \ {a} : host'[b] = host[b]
<1>1. host'[a] = h /\ \A b \in Addrs \ {a} : host'[b] = host[b]
  BY DEF SetHost, IInv, TypeOK
<1>2. \A b \in Addrs : host'[b].pid = host[b].pid
  BY <1>1, Zenon
<1>3. Placed'
  BY <1>2, PlacedFrame, Zenon DEF VmmInv
<1> QED
  BY <1>1, <1>3, Zenon

(* A supervisor's steps that change the VMM: it is paused or resumed while   *)
(* the VM runs on, and dead before the teardown.                             *)
LEMMA VmmSupervised ==
  ASSUME IInv, IInv', VmmInv, NEW n \in Names, SupStep(n), ~RecordEnd(n)
  PROVE  VmmInv'
<1> DEFINE a == vms[n].addr
<1>0. TypeOK /\ sup \in [Names -> Sup] /\ host \in [Addrs -> HostState]
  BY Zenon DEF IInv, TypeOK
<1>1. UNCHANGED <<vms, task, store>> /\ sup[n].pc # "none"
  BY Zenon DEF SupStep, SupNaturalEnd, SupStop, SupPark, SupSnapshot, SupSnapshotFails,
               SupKill, SupMoveOut, SupTeardown, durable
<1>2. vms[n].st = "running"
  BY <1>1, Zenon DEF IInv, SInv, Owners
<1>3. a \in Addrs
  BY <1>2 DEF IInv, SInv, Shapes, AddrShape
<1>4. host[a] \in HostState
  BY <1>0, <1>3, Zenon
<1>5. /\ \A v : [host[a] EXCEPT !.vmm = v].pid = host[a].pid /\ [host[a] EXCEPT !.vmm = v].vmm = v
      /\ [host[a] EXCEPT !.files = TRUE, !.ran = FALSE].pid = host[a].pid
      /\ [host[a] EXCEPT !.files = FALSE].pid = host[a].pid
      /\ [host[a] EXCEPT !.files = FALSE].vmm = host[a].vmm
  BY <1>4 DEF HostState
<1>6. ASSUME NEW pc, SetSup(n, pc)
      PROVE  sup'[n].pc = pc /\ \A m \in Names \ {n} : sup'[m] = sup[m]
  BY <1>0, <1>6 DEF SetSup, Sup
<1>7. ASSUME NEW why, EndSup(n, why) PROVE \A m \in Names \ {n} : sup'[m] = sup[m]
  BY <1>0, <1>7, Zenon DEF EndSup
(* The VM runs on, or is not yet dead. *)
<1>8. ASSUME NEW pc \in {"snapshot", "kill", "watch"}, SetSup(n, pc), NEW h, SetHost(a, h),
             h.pid = host[a].pid
      PROVE  VmmInv'
  <2>1. Placed' /\ \A b \in Addrs \ {a} : host'[b] = host[b]
    BY <1>1, <1>3, <1>8, PlacedStays, Zenon
  <2>2. sup'[n].pc \notin DeadSoon /\ \A m \in Names \ {n} : sup'[m] = sup[m]
    BY <1>6, <1>8 DEF DeadSoon
  <2>3. Stopped'
    BY <1>1, <1>2, <2>1, <2>2, StoppedApart, Zenon DEF VmmInv
  <2> QED
    BY <2>1, <2>3, Zenon DEF VmmInv
(* It is dead. *)
<1>9. ASSUME \A m \in Names \ {n} : sup'[m] = sup[m], NEW h, SetHost(a, h),
             h.pid = host[a].pid, h.vmm \notin Alive
      PROVE  VmmInv'
  <2>1. Placed' /\ host'[a] = h /\ \A b \in Addrs \ {a} : host'[b] = host[b]
    BY <1>1, <1>3, <1>9, PlacedStays, Zenon
  <2>2. \A b \in Addrs : host'[b].vmm = host[b].vmm \/ host'[b].vmm \notin Alive
    BY <1>9, <2>1, Zenon
  <2>3. Stopped'
    BY <1>1, <1>9, <2>1, <2>2, StoppedKept, Zenon DEF VmmInv
  <2> QED
    BY <2>1, <2>3, Zenon DEF VmmInv
<1>10. host[a].vmm = "dead" => host[a].vmm \notin Alive
  BY DEF Alive
<1>11. UNCHANGED host => SetHost(a, host[a])
  BY <1>0, <1>3, HostKept, Zenon
<1>12. "dead" \notin Alive
  BY DEF Alive
<1> HIDE DEF a
<1>13. CASE SupNaturalEnd(n)
  BY <1>7, <1>9, <1>10, <1>11, <1>13, Zenon DEF SupNaturalEnd, durable, a
<1>14. CASE SupStop(n)
  BY <1>5, <1>7, <1>9, <1>12, <1>14, Zenon DEF SupStop, a
<1>15. CASE SupPark(n)
  <2>1. CASE SetHost(a, [host[a] EXCEPT !.vmm = "paused"]) /\ SetSup(n, "snapshot")
    BY <1>5, <1>8, <2>1, Zenon
  <2>2. CASE UNCHANGED <<host, sup>>
    BY <1>1, <2>2, VmmStill, Zenon
  <2> QED
    BY <1>15, <2>1, <2>2, Zenon DEF SupPark, a
<1>16. CASE SupSnapshot(n)
  BY <1>5, <1>8, <1>16, Zenon DEF SupSnapshot, a
<1>17. CASE SupSnapshotFails(n)
  <2>1. CASE SetHost(a, [host[a] EXCEPT !.vmm = "live"]) /\ SetSup(n, "watch")
    BY <1>5, <1>8, <2>1, Zenon
  <2>2. CASE SetHost(a, [host[a] EXCEPT !.vmm = "dead"]) /\ EndSup(n, "forced")
    BY <1>5, <1>7, <1>9, <1>12, <2>2, Zenon
  <2> QED
    BY <1>17, <2>1, <2>2, Zenon DEF SupSnapshotFails, a
<1>18. CASE SupKill(n)
  <2>1. SetHost(a, [host[a] EXCEPT !.vmm = "dead"]) /\ SetSup(n, "moveout")
    BY <1>18, Zenon DEF SupKill, a
  <2>2. \A m \in Names \ {n} : sup'[m] = sup[m]
    BY <1>6, <2>1, Zenon
  <2> QED
    BY <1>5, <1>9, <1>12, <2>1, <2>2, Zenon
<1>19. CASE SupMoveOut(n)
  <2>1. host[a].vmm \notin Alive
    BY <1>19, Zenon DEF SupMoveOut, VmmInv, Stopped, a, Alive
  <2> QED
    BY <1>5, <1>7, <1>9, <1>19, <2>1, Zenon DEF SupMoveOut, a
<1>20. CASE SupTeardown(n)
  <2>1. Teardown(a) /\ SetSup(n, "end")
    BY <1>20, Zenon DEF SupTeardown, a
  <2>2. /\ \A b \in Addrs : host'[b].pid \in {host[b].pid, NoPid}
        /\ \A b \in Addrs : host'[b].vmm = host[b].vmm \/ host'[b].vmm \notin Alive
    BY <1>0, <1>3, <2>1, TameFacts, Zenon
  <2>3. sup'[n].pc \notin DeadSoon /\ \A m \in Names \ {n} : sup'[m] = sup[m]
    BY <1>6, <2>1 DEF DeadSoon
  <2>4. Placed'
    BY <1>1, <2>2, PlacedFrame, Zenon DEF VmmInv
  <2>5. Stopped'
    BY <1>1, <2>2, <2>3, StoppedKept, Zenon DEF VmmInv
  <2> QED
    BY <2>4, <2>5, Zenon DEF VmmInv
<1> QED
  BY <1>13, <1>14, <1>15, <1>16, <1>17, <1>18, <1>19, <1>20, Zenon DEF SupStep

(* A guest dies, the sweep clears an address, or a VM is adopted with its    *)
(* process: reconciliation has no start under way.                           *)
LEMMA VmmHost ==
  ASSUME IInv, IInv', LogInv, VmmInv,
         \/ \E a \in Addrs : GuestEnds(a) \/ Sweep(a)
         \/ \E n \in Names : Adopt(n)
  PROVE  VmmInv'
<1>0. TypeOK /\ vms \in [Names -> Entry] /\ sup \in [Names -> Sup]
      /\ \A a \in Addrs : host[a] \in HostState
  BY DEF IInv, TypeOK
<1>1. ASSUME NEW a \in Addrs, GuestEnds(a) PROVE VmmInv'
  <2> DEFINE h == [host[a] EXCEPT !.vmm = "dead"]
  <2>1. UNCHANGED <<vms, sup, task, store>> /\ SetHost(a, h)
    BY <1>1, Zenon DEF GuestEnds, volatile
  <2>2. h.pid = host[a].pid /\ h.vmm \notin Alive
    BY <1>0 DEF HostState, Alive
  <2> HIDE DEF h
  <2>3. Placed' /\ host'[a] = h /\ \A b \in Addrs \ {a} : host'[b] = host[b]
    BY <2>1, <2>2, PlacedStays, Zenon
  <2>4. \A b \in Addrs : host'[b].vmm = host[b].vmm \/ host'[b].vmm \notin Alive
    BY <2>2, <2>3, Zenon
  <2>5. Stopped'
    BY <2>1, <2>4, StoppedKept, Zenon DEF VmmInv
  <2> QED
    BY <2>3, <2>5, Zenon DEF VmmInv
<1>2. ASSUME NEW a \in Addrs, Sweep(a) PROVE VmmInv'
  <2>1. UNCHANGED <<vms, sup, task, store>> /\ SetHost(a, NoHost)
    BY <1>2, Zenon DEF Sweep, volatile
  <2>2. /\ \A b \in Addrs : host'[b].pid \in {host[b].pid, NoPid}
        /\ \A b \in Addrs : host'[b].vmm = host[b].vmm \/ host'[b].vmm \notin Alive
    BY <1>0, <2>1, TameFacts, Zenon
  <2>3. Placed'
    BY <2>1, <2>2, PlacedFrame, Zenon DEF VmmInv
  <2>4. Stopped'
    BY <2>1, <2>2, StoppedKept, Zenon DEF VmmInv
  <2> QED
    BY <2>3, <2>4, Zenon DEF VmmInv
<1>3. ASSUME NEW n \in Names, Adopt(n) PROVE VmmInv'
  <2> DEFINE a == store[n].addr
             h == [host[a] EXCEPT !.vmm = "live", !.ran = TRUE]
  <2>1. CASE UNCHANGED host
    BY <1>3, <2>1, VmmSettled, Zenon
  <2>2. CASE SetHost(a, h)
    <3>1. /\ n \in todo /\ store[n].st = "running" /\ UNCHANGED <<task, store>>
          /\ vms' = [vms EXCEPT ![n] = store[n]] /\ sup' = [sup EXCEPT ![n] = Watch]
      BY <1>3, Zenon DEF Adopt, IsRunning
    <3>2. a \in Addrs
      BY <3>1 DEF IInv, SInv, Shapes, AddrShape
    <3>3. h.pid = host[a].pid
      BY <1>0, <3>2 DEF HostState
    <3>4. task[n].pc = "idle"
      BY <3>1, Zenon DEF IInv, SInv, Boots, Owners
    <3>5. task[n].pid = NoPid
      <4>1. task[n] = Idle
        BY <3>4, Zenon DEF LogInv, OnRecord
      <4>2. Idle.pid = NoPid
        BY DEF Idle
      <4> QED
        BY <4>1, <4>2, Zenon
    <3>6. /\ vms'[n] = store[n] /\ sup'[n] = Watch
          /\ \A m \in Names \ {n} : vms'[m] = vms[m] /\ sup'[m] = sup[m]
      BY <1>0, <3>1, Zenon
    <3>7. Watch.pc \notin DeadSoon
      BY DEF Watch, DeadSoon
    <3> HIDE DEF h
    <3>8. Placed' /\ \A b \in Addrs \ {a} : host'[b] = host[b]
      BY <2>2, <3>1, <3>2, <3>3, <3>5, <3>6, PlacedStays, Zenon
    <3>9. Stopped'
      BY <3>1, <3>6, <3>7, <3>8, StoppedApart, Zenon DEF VmmInv
    <3> QED
      BY <3>8, <3>9, Zenon DEF VmmInv
  <2> QED
    BY <1>3, <2>1, <2>2, Zenon DEF Adopt
<1> QED
  BY <1>1, <1>2, <1>3, Zenon

(* The agent dies: its starts and supervisors are gone, the VMMs are not. *)
LEMMA VmmDied ==
  ASSUME IInv, VmmInv, Die, UNCHANGED <<store, host>>
  PROVE  VmmInv'
<1>1. Idle.pid = NoPid /\ NoSup.pc \notin DeadSoon
  BY DEF Idle, NoSup, DeadSoon
<1>2. \A m \in Names : task'[m] = Idle /\ sup'[m] = NoSup
  BY Zenon DEF Die
<1> QED
  BY <1>1, <1>2, VmmStill, Zenon

(* Every step keeps the processes in place. *)
LEMMA VmmNext == ASSUME IInv, IInv', LogInv, VmmInv, [Next]_vars PROVE VmmInv'
<1>1. ASSUME NEW n \in Names, StartStep(n) \/ WakeStep(n) PROVE VmmInv'
  <2>1. ASSUME \/ \E h \in Hosts \cup {NoRoute}, a \in Addrs : RunVm(n, h, a)
               \/ \E a \in Addrs : WakeVm(n, a)
               \/ ForgetStart(n) \/ StartSupervising(n) \/ PutBack(n) \/ WakeLost(n)
               \/ WakeSupervising(n)
        PROVE  VmmInv'
    <3>1. UNCHANGED host
      BY <2>1, Zenon DEF RunVm, WakeVm, ForgetStart, StartSupervising, PutBack, WakeLost,
                         WakeSupervising, durable
    <3> QED
      BY <2>1, <3>1, VmmSettled, Zenon
  <2> QED
    BY <1>1, <2>1, VmmGoesOn, VmmSpawns, Zenon DEF StartStep, WakeStep
<1>2. ASSUME NEW n \in Names, SupStep(n) PROVE VmmInv'
  <2>1. RecordEnd(n) => UNCHANGED host
    BY Zenon DEF RecordEnd
  <2> QED
    BY <1>2, <2>1, VmmSettled, VmmSupervised, Zenon
<1>3. ASSUME NEW n \in Names, BootStep(n) \/ Remove(n) PROVE VmmInv'
  <2>1. CASE ReconcileDead(n) /\ Die
    <3>1. UNCHANGED <<store, host>>
      BY <2>1 DEF ReconcileDead, Die, durable
    <3> QED
      BY <2>1, <3>1, VmmDied, Zenon
  <2>2. CASE Adopt(n)
    BY <2>2, VmmHost, Zenon
  <2>3. CASE ReconcileEnded(n) \/ Remove(n) \/ (ReconcileDead(n) /\ ~Die)
    <3>1. UNCHANGED host /\ (ReconcileDead(n) => node' # "down")
      BY <2>3 DEF ReconcileEnded, Remove, ReconcileDead, durable
    <3> QED
      BY <2>3, <3>1, VmmSettled, Zenon
  <2> QED
    BY <1>3, <2>1, <2>2, <2>3, Zenon DEF BootStep
<1>4. CASE Exit \/ Crash \/ \E n \in Names : CrashInRemove(n)
  BY <1>4, VmmDied, Zenon DEF Exit, Crash, CrashInRemove, durable
<1>5. ASSUME NEW a \in Addrs, GuestEnds(a) \/ Sweep(a) PROVE VmmInv'
  BY <1>5, VmmHost, Zenon
<1>6. CASE Shutdown \/ Ready \/ Boot \/ UNCHANGED vars
  <2>1. UNCHANGED <<vms, task, sup, store, host>>
    BY <1>6, Zenon DEF Shutdown, Ready, Boot, vars, durable
  <2> QED
    BY <2>1, VmmStill, Zenon
<1> QED
  BY <1>1, <1>2, <1>3, <1>4, <1>5, <1>6, Zenon DEF Next

-----------------------------------------------------------------------------

(* The processes are where they belong in every behaviour of the agent.      *)
THEOREM VmmsInductive == Spec => []VmmInv
<1>1. Init => VmmInv
  <2> SUFFICES ASSUME Init PROVE VmmInv
    OBVIOUS
  <2>1. \A n \in Names : store[n] = Absent /\ task[n] = Idle /\ sup[n] = NoSup
    BY Zenon DEF Init
  <2>2. Absent.pid = NoPid /\ Idle.pid = NoPid /\ NoSup.pc \notin {"moveout", "teardown"}
    BY DEF Absent, Idle, NoSup
  <2> QED
    BY <2>1, <2>2, Zenon DEF VmmInv, Placed, Stopped
<1>2. IInv /\ IInv' /\ LogInv /\ VmmInv /\ [Next]_vars => VmmInv'
  BY VmmNext, Zenon
<1> QED
  BY <1>1, <1>2, LogsInductive, PTL DEF Spec

(* While the agent reconciles, an address loses a live VMM to the sweep      *)
(* alone: no start is under way, and a teardown comes after the death.       *)
LEMMA SweepOnly ==
  ASSUME IInv, VmmInv, [Next]_vars, node = "boot", NEW a \in Addrs,
         host[a].vmm \in Alive, host'[a] = NoHost
  PROVE  Sweep(a)
<1>0. /\ host \in [Addrs -> HostState] /\ \A b \in Addrs : host[b] \in HostState
  BY DEF IInv, TypeOK
<1>1. host'[a].pid # host[a].pid
  <2>1. NoHost.pid = NoPid /\ \A h \in Nothing : h.vmm \notin Alive
    BY DEF NoHost, Nothing, Remains, Alive
  <2> QED
    BY <2>1, Zenon DEF IInv, SInv, NoVmmNoState
<1>2. ~UNCHANGED host
  BY <1>1, Zenon
<1>3. ASSUME NEW b \in Addrs, NEW h, SetHost(b, h) PROVE b = a /\ h.pid # host[b].pid
  BY <1>0, <1>1, <1>3 DEF SetHost
<1>4. ASSUME NEW b \in Addrs, NEW v, NEW r, NEW f,
             \/ SetHost(b, [host[b] EXCEPT !.vmm = v])
             \/ SetHost(b, [host[b] EXCEPT !.vmm = v, !.ran = r])
             \/ SetHost(b, [host[b] EXCEPT !.files = f])
             \/ SetHost(b, [host[b] EXCEPT !.files = f, !.ran = r])
      PROVE  FALSE
  <2>1. /\ [host[b] EXCEPT !.vmm = v].pid = host[b].pid
        /\ [host[b] EXCEPT !.vmm = v, !.ran = r].pid = host[b].pid
        /\ [host[b] EXCEPT !.files = f].pid = host[b].pid
        /\ [host[b] EXCEPT !.files = f, !.ran = r].pid = host[b].pid
    BY <1>0 DEF HostState
  <2> QED
    BY <1>3, <1>4, <2>1, Zenon
<1>5. \A n \in Names : task[n].pc = "idle"
  BY Zenon DEF IInv, SInv, Boots, Owners
<1>6. ASSUME NEW n \in Names, StartStep(n) \/ WakeStep(n) PROVE FALSE
  <2>1. CASE \/ \E h \in Hosts \cup {NoRoute}, b \in Addrs : RunVm(n, h, b)
             \/ \E b \in Addrs : WakeVm(n, b)
    BY <1>2, <2>1, Zenon DEF RunVm, WakeVm
  <2> QED
    BY <1>5, <1>6, <2>1, Zenon
       DEF StartStep, WakeStep, HostUp, StartHost, Booted, StartFails, RecordStart, StartUnwind,
           ForgetStart, StartSupervising, WakeHost, WakeHostFails, WakeMove, WakeLoad,
           WakeLoadFails, WakePutBack, WakeUnwind, PutBack, RecordWake, WakeLost, WakeSupervising
<1>7. ASSUME NEW n \in Names, SupStep(n) PROVE FALSE
  <2>1. sup[n].pc # "none"
    BY <1>7, Zenon DEF SupStep, SupNaturalEnd, SupStop, SupPark, SupSnapshot, SupSnapshotFails,
                       SupKill, SupMoveOut, SupTeardown, RecordEnd
  <2>2. vms[n].st = "running"
    BY <2>1, Zenon DEF IInv, SInv, Owners
  <2>3. vms[n].addr \in Addrs
    BY <2>2 DEF IInv, SInv, Shapes, AddrShape
  <2>4. ~SupTeardown(n)
    <3> SUFFICES ASSUME SupTeardown(n) PROVE FALSE
      OBVIOUS
    <3>1. vms[n].addr = a
      BY <1>3, <2>3, Zenon DEF SupTeardown, Teardown
    <3> QED
      BY <3>1, Zenon DEF SupTeardown, VmmInv, Stopped, Alive
  <2>5. \/ UNCHANGED host
        \/ \E v : SetHost(vms[n].addr, [host[vms[n].addr] EXCEPT !.vmm = v])
        \/ \E f, r : SetHost(vms[n].addr, [host[vms[n].addr] EXCEPT !.files = f, !.ran = r])
        \/ \E f : SetHost(vms[n].addr, [host[vms[n].addr] EXCEPT !.files = f])
    BY <1>7, <2>4, Zenon
       DEF SupStep, SupNaturalEnd, SupStop, SupPark, SupSnapshot, SupSnapshotFails,
           SupKill, SupMoveOut, RecordEnd, durable
  <2> QED
    BY <1>2, <1>4, <2>3, <2>5, Zenon
<1>8. ASSUME NEW n \in Names, BootStep(n) PROVE FALSE
  <2>1. CASE Adopt(n)
    <3>1. store[n].st = "running"
      BY <2>1, Zenon DEF Adopt, IsRunning
    <3>2. store[n].addr \in Addrs
      BY <3>1 DEF IInv, SInv, Shapes, AddrShape
    <3> QED
      BY <1>2, <1>4, <2>1, <3>2, Zenon DEF Adopt
  <2>2. CASE ReconcileEnded(n) \/ ReconcileDead(n)
    BY <1>2, <2>2, Zenon DEF ReconcileEnded, ReconcileDead, durable
  <2> QED
    BY <1>8, <2>1, <2>2, Zenon DEF BootStep
<1>9. ASSUME NEW n \in Names, Remove(n) \/ CrashInRemove(n) PROVE FALSE
  BY <1>2, <1>9, Zenon DEF Remove, CrashInRemove
<1>10. ASSUME NEW b \in Addrs, GuestEnds(b) PROVE FALSE
  BY <1>4, <1>10, Zenon DEF GuestEnds
<1>11. ASSUME NEW b \in Addrs, Sweep(b) PROVE Sweep(a)
  BY <1>3, <1>11, Zenon DEF Sweep
<1>12. ~(Shutdown \/ Exit \/ Crash \/ Boot \/ Ready \/ UNCHANGED vars)
  BY <1>2, Zenon DEF Shutdown, Exit, Crash, Boot, Ready, durable, vars
<1> QED
  BY <1>6, <1>7, <1>8, <1>9, <1>10, <1>11, <1>12, Zenon DEF Next

(* The sweep of a starting agent spares every VMM that a record names: it    *)
(* clears an address no entry holds, and a recorded VMM's address is held by *)
(* the entry that reconcile made for it.                                     *)
THEOREM SweepSpares == Spec => SweepSparesRecorded
<1> DEFINE Spared == \A a \in Addrs :
             node = "boot" /\ host[a].vmm \in {"live", "paused"} /\ host'[a] = NoHost
               => \A n \in Names : store[n].st = "running" => store[n].pid # host[a].pid
<1>1. ASSUME IInv, VmmInv, [Next]_vars PROVE Spared
  <2> SUFFICES ASSUME NEW a \in Addrs, NEW n \in Names, node = "boot",
                      host[a].vmm \in {"live", "paused"}, host'[a] = NoHost,
                      store[n].st = "running", store[n].pid = host[a].pid
               PROVE  FALSE
    BY Zenon
  <2>1. todo = {} /\ ~Held(a)
    BY <1>1, SweepOnly, Zenon DEF Sweep, Alive
  <2>2. store[n].pid \in Pids /\ NoPid \notin Pids
    BY <1>1, PidsAssumption, Zenon DEF IInv, SInv, Shapes
  <2>3. store[n].addr = a
    BY <1>1, <2>2, Zenon DEF VmmInv, Placed
  <2>4. task[n].pc = "idle" /\ "idle" \notin RecordedPcs
    BY <1>1 DEF IInv, SInv, Boots, Owners, RecordedPcs
  <2>5. vms[n].st = "running"
    BY <1>1, <2>1, <2>3, <2>4 DEF IInv, SInv, RecordedVmmKnown
  <2>6. vms[n].addr = a
    BY <1>1, <2>3, <2>5, Zenon DEF IInv, SInv, RunningIsRecorded
  <2> QED
    BY <2>1, <2>6, Zenon DEF Held
<1>2. IInv /\ VmmInv /\ [Next]_vars => [Spared]_vars
  BY <1>1, Zenon
<1> QED
  BY <1>2, Inductive, VmmsInductive, PTL DEF Spec, SweepSparesRecorded

-----------------------------------------------------------------------------
(* The hostnames that a name may come to have, now or after a failed start   *)
(* or a crash, are no other name's; and while the agent is up and has looked *)
(* at a record, its hostname is one that the registry or a start knows of.   *)
Named(n) == {vms[n].host, store[n].host, task[n].old.host}

NamesApart ==
  \A n, m \in Names : \A h \in Hosts : n # m => ~(h \in Named(n) /\ h \in Named(m))

HostKnown(n) ==
  /\ task[n].pc = "idle" => store[n].host \in {vms[n].host, NoRoute}
  /\ task[n].pc \in StartPcs \ {"recorded"} => store[n].host \in {task[n].old.host, NoRoute}
  /\ task[n].pc \in WakePcs =>
       vms[n].host = task[n].old.host /\ store[n].host \in {vms[n].host, NoRoute}

HostnameInv ==
  /\ NamesApart
  /\ \A n \in Names : store[n].st = "absent" => store[n].host = NoRoute
  /\ \A n \in Names : node # "down" /\ n \notin todo => HostKnown(n)

(* What app_with_host does not see: a start takes a hostname that belongs to *)
(* the Ended App which another start under way has set aside.                *)
TakesSetAside ==
  \E n, m \in Names :
    /\ n # m /\ task[n].pc = "idle" /\ task'[n].pc = "start"
    /\ vms'[n].host # NoRoute
    /\ task[m].pc # "idle" /\ task[m].old.host = vms'[n].host

(* What the constructors do to a hostname. *)
LEMMA HostFields ==
  /\ Absent.host = NoRoute /\ Idle.old = Absent /\ Idle.pc = "idle" /\ NoRoute \notin Hosts
  /\ \A e \in Entry : \A q : Running(e, q).host = e.host /\ Running(e, q).st = "running"
  /\ \A e \in Entry : \A why : Ended(e, why).host = e.host /\ Ended(e, why).st = "ended"
<1>1. Absent.host = NoRoute /\ Idle.old = Absent /\ Idle.pc = "idle"
  BY DEF Absent, Idle
<1>2. \A e \in Entry : \A q : Running(e, q).host = e.host /\ Running(e, q).st = "running"
  BY DEF Running, Entry
<1>3. \A e \in Entry : \A why : Ended(e, why).host = e.host /\ Ended(e, why).st = "ended"
  BY DEF Ended, Entry
<1> QED BY <1>1, <1>2, <1>3, HostsAssumption, Zenon

(* One name's start, VM or record moves, and it gets no new hostname. *)
LEMMA HostFrame ==
  ASSUME HostnameInv, NEW n \in Names, node' = node, todo' = todo \/ todo' = todo \ {n},
         \A m \in Names \ {n} :
           vms'[m] = vms[m] /\ task'[m] = task[m] /\ store'[m] = store[m],
         \A h \in Hosts : h \in Named(n)' => h \in Named(n),
         store'[n].st = "absent" => store'[n].host = NoRoute,
         node # "down" => HostKnown(n)'
  PROVE  HostnameInv'
<1>1. \A m \in Names : \A h \in Hosts : h \in Named(m)' => h \in Named(m)
  BY Zenon DEF Named
<1>2. NamesApart'
  BY <1>1, Zenon DEF HostnameInv, NamesApart
<1>3. \A m \in Names : store'[m].st = "absent" => store'[m].host = NoRoute
  BY Zenon DEF HostnameInv
<1>4. ASSUME NEW m \in Names \ {n}, node' # "down", m \notin todo'
      PROVE  HostKnown(m)'
  <2>1. HostKnown(m)
    BY <1>4, Zenon DEF HostnameInv
  <2> QED BY <2>1, Zenon DEF HostKnown
<1> QED BY <1>2, <1>3, <1>4, Zenon DEF HostnameInv

(* Steps that have nothing to do with hostnames. *)
LEMMA HostStill ==
  ASSUME HostnameInv, UNCHANGED <<vms, task, store, todo>>, node = "down" => node' = "down"
  PROVE  HostnameInv'
BY Zenon DEF HostnameInv, NamesApart, Named, HostKnown

(* The agent ends: only the records have hostnames. *)
LEMMA HostDied ==
  ASSUME HostnameInv, Die, UNCHANGED store
  PROVE  HostnameInv'
<1>1. /\ node' = "down"
      /\ \A n \in Names : vms'[n].host = NoRoute /\ task'[n].old.host = NoRoute
  BY HostFields, Zenon DEF Die
<1>2. \A m \in Names : \A h \in Hosts : h \in Named(m)' => h \in Named(m)
  BY <1>1, HostsAssumption DEF Named
<1>3. NamesApart'
  BY <1>2, Zenon DEF HostnameInv, NamesApart
<1> QED BY <1>1, <1>3, Zenon DEF HostnameInv

(* The next start looks at every record there is. *)
LEMMA HostBoot ==
  ASSUME IInv, LogInv, HostnameInv, Boot
  PROVE  HostnameInv'
<1>1. node = "down" /\ UNCHANGED <<vms, task, store>>
      /\ todo' = {n \in Names : store[n].st # "absent"}
  BY Zenon DEF Boot
<1>2. NamesApart'
  BY <1>1, Zenon DEF HostnameInv, NamesApart, Named
<1>3. ASSUME NEW n \in Names, n \notin todo'
      PROVE  HostKnown(n)'
  <2>1. store[n].host = NoRoute
    BY <1>1, <1>3 DEF HostnameInv
  <2>2. task[n].pc = "idle"
    BY <1>1, Zenon DEF IInv, SInv, Boots, Owners
  <2>3. "idle" \notin StartPcs \cup WakePcs
    BY DEF StartPcs, WakePcs
  <2> QED BY <1>1, <2>1, <2>2, <2>3, Zenon DEF HostKnown
<1> QED BY <1>1, <1>2, <1>3, Zenon DEF HostnameInv

(* A start or wake goes on with what it has. *)
LEMMA HostGoesOn ==
  ASSUME HostnameInv, NEW n \in Names, UNCHANGED <<node, todo, vms, store>>,
         task'[n].old = task[n].old, \A m \in Names \ {n} : task'[m] = task[m],
         \/ task[n].pc \in StartPcs \ {"recorded"} /\ task'[n].pc \in StartPcs \ {"recorded"}
         \/ task[n].pc \in WakePcs /\ task'[n].pc \in WakePcs,
         n \notin todo
  PROVE  HostnameInv'
<1>1. \A h \in Hosts : h \in Named(n)' => h \in Named(n)
  BY Zenon DEF Named
<1>2. (StartPcs \cup {"idle"}) \cap WakePcs = {} /\ "idle" \notin StartPcs
  BY DEF StartPcs, WakePcs
<1>3. node # "down" => HostKnown(n)
  BY Zenon DEF HostnameInv
<1>4. node # "down" => HostKnown(n)'
  <2>1. CASE task[n].pc \in StartPcs \ {"recorded"} /\ task'[n].pc \in StartPcs \ {"recorded"}
    <3>1. task'[n].pc \notin WakePcs \cup {"idle"}
      BY <1>2, <2>1
    <3> QED BY <1>3, <2>1, <3>1, Zenon DEF HostKnown
  <2>2. CASE task[n].pc \in WakePcs /\ task'[n].pc \in WakePcs
    <3>1. task'[n].pc \notin StartPcs \cup {"idle"}
      BY <1>2, <2>2
    <3> QED BY <1>3, <2>2, <3>1, Zenon DEF HostKnown
  <2> QED BY <2>1, <2>2, Zenon
<1>5. store[n].st = "absent" => store[n].host = NoRoute
  BY Zenon DEF HostnameInv
<1> QED BY <1>1, <1>4, <1>5, HostFrame, Zenon

(* A start or wake is over, or there is none, and what the registry then has *)
(* is what is on record.                                                     *)
LEMMA HostSettles ==
  ASSUME HostnameInv, NEW n \in Names, node' = node, todo' = todo \/ todo' = todo \ {n},
         \A m \in Names \ {n} :
           vms'[m] = vms[m] /\ task'[m] = task[m] /\ store'[m] = store[m],
         task'[n] = Idle, vms'[n].host \in Named(n) \cup {NoRoute},
         store'[n].host \in Named(n) \cup {NoRoute}, store'[n].host \in {vms'[n].host, NoRoute},
         store'[n].st = "absent" => store'[n].host = NoRoute
  PROVE  HostnameInv'
<1>1. \A h \in Hosts : h \in Named(n)' => h \in Named(n)
  <2>1. Named(n)' \subseteq Named(n) \cup {NoRoute}
    BY HostFields DEF Named
  <2> QED BY <2>1, HostsAssumption
<1>2. HostKnown(n)'
  <2>1. "idle" \notin StartPcs \cup WakePcs
    BY DEF StartPcs, WakePcs
  <2> QED BY <2>1, HostFields, Zenon DEF HostKnown
<1> QED BY <1>1, <1>2, HostFrame, Zenon


(* run_vm: app_with_host finds whoever has the hostname, and what it may     *)
(* come to have, unless the App that has it is set aside by another start.   *)
LEMMA HostRunVm ==
  ASSUME IInv, LogInv, HostnameInv, NEW n \in Names, NEW h \in Hosts \cup {NoRoute},
         NEW a \in Addrs, RunVm(n, h, a), ~TakesSetAside
  PROVE  HostnameInv'
<1>1. /\ node = "ready" /\ UNCHANGED <<node, todo, store>>
      /\ vms' = [vms EXCEPT ![n] = [Absent EXCEPT !.st = "starting", !.addr = a,
                                                  !.log = nextLog, !.host = h]]
      /\ task' = [task EXCEPT ![n] = [Idle EXCEPT !.pc = "start", !.old = vms[n]]]
      /\ vms[n].st \in {"absent", "ended"}
      /\ h # NoRoute => \A m \in Names : AppWithHost(m, h) => m = n
  BY Zenon DEF RunVm, durable
<1>2. /\ vms'[n].host = h /\ task'[n].pc = "start" /\ task'[n].old = vms[n]
      /\ \A m \in Names \ {n} : vms'[m] = vms[m] /\ task'[m] = task[m]
  BY <1>1 DEF IInv, TypeOK, Absent, Idle
<1>3. task[n].pc = "idle" /\ \A m \in Names : m \notin todo
  BY <1>1 DEF IInv, SInv, Owners, Boots
<1>4. \A m \in Names : HostKnown(m)
  BY <1>1, <1>3 DEF HostnameInv
<1>5. HostKnown(n)'
  <2>1. "start" \in StartPcs \ {"recorded"} /\ "start" \notin WakePcs \cup {"idle"}
    BY DEF StartPcs, WakePcs
  <2> QED BY <1>1, <1>2, <1>3, <1>4, <2>1, Zenon DEF HostKnown
<1>6. ASSUME NEW m \in Names \ {n}, h \in Hosts PROVE h \notin Named(m)
  <2>1. h # NoRoute
    BY <1>6, HostsAssumption
  <2>2. vms[m].host # h
    <3>1. SUFFICES ASSUME vms[m].host = h PROVE FALSE
      OBVIOUS
    <3>2. \A k \in Names : vms[k].host = h => k = m
      BY <1>6, <3>1, Zenon DEF HostnameInv, NamesApart, Named
    <3>3. m <= m
      BY NamesAssumption
    <3>4. AppWithHost(m, h)
      BY <3>1, <3>2, <3>3, Zenon DEF AppWithHost
    <3> QED BY <1>1, <2>1, <3>4
  <2>3. task[m].old.host # h
    <3>1. CASE task[m].pc = "idle"
      BY <2>1, <3>1, HostFields, Zenon DEF LogInv, OnRecord
    <3>2. CASE task[m].pc # "idle"
      BY <1>2, <1>3, <2>1, <3>2 DEF TakesSetAside
    <3> QED BY <3>1, <3>2
  <2>4. store[m].host # h
    <3>1. CASE task[m].pc = "recorded"
      <4>1. store[m] = Running(vms[m], task[m].pid) /\ vms[m] \in Entry
        BY <3>1, Zenon DEF IInv, SInv, TaskRecorded, RecordedPcs, TypeOK
      <4> QED BY <2>2, <4>1 DEF Running, Entry
    <3>2. CASE task[m].pc # "recorded"
      <4>1. task[m].pc \in {"idle"} \cup (StartPcs \ {"recorded"}) \cup WakePcs
        BY <3>2 DEF IInv, TypeOK, Task
      <4>2. store[m].host \in {vms[m].host, task[m].old.host, NoRoute}
        BY <1>4, <4>1 DEF HostKnown
      <4> QED BY <2>1, <2>2, <2>3, <4>2, Zenon
    <3> QED BY <3>1, <3>2
  <2> QED BY <2>2, <2>3, <2>4, Zenon DEF Named
<1>7. /\ \A m \in Names \ {n} : Named(m)' = Named(m)
      /\ Named(n)' = {h, store[n].host, vms[n].host}
  BY <1>1, <1>2, Zenon DEF Named
<1>8. NamesApart'
  <2>1. ASSUME NEW m \in Names \ {n}, NEW x \in Hosts, x \in Named(n)'
        PROVE  x \notin Named(m)'
    <3>1. x = h \/ x \in Named(n)
      BY <1>7, <2>1, Zenon DEF Named
    <3> QED BY <1>6, <1>7, <3>1, Zenon DEF HostnameInv, NamesApart
  <2>2. ASSUME NEW k \in Names \ {n}, NEW m \in Names \ {n}, NEW x \in Hosts, k # m
        PROVE  ~(x \in Named(k)' /\ x \in Named(m)')
    <3>1. k \in Names /\ m \in Names /\ Named(k)' = Named(k) /\ Named(m)' = Named(m)
      BY <1>7, Zenon
    <3> QED BY <2>2, <3>1, Zenon DEF HostnameInv, NamesApart
  <2> QED BY <2>1, <2>2, Zenon DEF NamesApart
<1>9. ASSUME NEW m \in Names \ {n} PROVE HostKnown(m)'
  BY <1>1, <1>2, <1>4, Zenon DEF HostKnown
<1> QED BY <1>1, <1>5, <1>8, <1>9, Zenon DEF HostnameInv

(* A wake keeps the hostname of the parked App. *)
LEMMA HostWakeVm ==
  ASSUME IInv, HostnameInv, NEW n \in Names, NEW a \in Addrs, WakeVm(n, a)
  PROVE  HostnameInv'
<1>1. /\ node = "ready" /\ UNCHANGED <<node, todo, store>> /\ vms[n].st = "ended"
      /\ vms' = [vms EXCEPT ![n] = [vms[n] EXCEPT !.st = "starting", !.addr = a,
                                                  !.reason = "none"]]
      /\ task' = [task EXCEPT ![n] = [Idle EXCEPT !.pc = "wake", !.old = vms[n]]]
  BY Zenon DEF WakeVm, durable, IsParked
<1>2. /\ vms'[n].host = vms[n].host /\ task'[n].pc = "wake" /\ task'[n].old = vms[n]
      /\ \A m \in Names \ {n} : vms'[m] = vms[m] /\ task'[m] = task[m]
  BY <1>1 DEF IInv, TypeOK, Idle, Entry
<1>3. task[n].pc = "idle" /\ n \notin todo
  BY <1>1 DEF IInv, SInv, Owners, Boots
<1>4. HostKnown(n)'
  <2>1. "wake" \in WakePcs /\ "wake" \notin StartPcs \cup {"idle"}
    BY DEF StartPcs, WakePcs
  <2>2. HostKnown(n)
    BY <1>1, <1>3 DEF HostnameInv
  <2> QED BY <1>1, <1>2, <1>3, <2>1, <2>2, Zenon DEF HostKnown
<1>5. \A x \in Hosts : x \in Named(n)' => x \in Named(n)
  BY <1>1, <1>2, Zenon DEF Named
<1>6. store[n].st = "absent" => store[n].host = NoRoute
  BY Zenon DEF HostnameInv
<1> QED BY <1>1, <1>2, <1>4, <1>5, <1>6, HostFrame, Zenon

(* The steps between: a record gets the hostname of the entry. *)
LEMMA HostTask ==
  ASSUME IInv, HostnameInv, NEW n \in Names,
         \/ Booted(n) \/ StartFails(n) \/ StartUnwind(n) \/ WakeHostFails(n) \/ WakeMove(n)
         \/ WakeLoad(n) \/ WakeLoadFails(n) \/ WakePutBack(n) \/ WakeUnwind(n)
         \/ RecordStart(n) \/ RecordWake(n) \/ \E p \in Pids : StartHost(n, p) \/ WakeHost(n, p)
  PROVE  HostnameInv'
<1>1. task[n].pc # "idle" => n \notin todo
  BY Zenon DEF IInv, SInv, Owners, Boots
<1>2. CASE \/ Booted(n) \/ StartFails(n) \/ StartUnwind(n) \/ WakeHostFails(n) \/ WakeMove(n)
           \/ WakeLoad(n) \/ WakeLoadFails(n) \/ WakePutBack(n) \/ WakeUnwind(n)
  <2>1. /\ UNCHANGED <<node, todo, vms, store>>
        /\ \E pc \in (StartPcs \cup WakePcs) \ {"recorded"} :
             /\ SetPc(n, pc)
             /\ \/ pc \in StartPcs /\ task[n].pc \in StartPcs \ {"recorded"}
                \/ pc \in WakePcs /\ task[n].pc \in WakePcs
    BY <1>2, GoesOn DEF StartPcs, WakePcs
  <2>2. PICK pc \in (StartPcs \cup WakePcs) \ {"recorded"} :
             /\ SetPc(n, pc)
             /\ \/ pc \in StartPcs /\ task[n].pc \in StartPcs \ {"recorded"}
                \/ pc \in WakePcs /\ task[n].pc \in WakePcs
    BY <2>1, Zenon
  <2>3. /\ task'[n].pc = pc /\ task'[n].old = task[n].old
        /\ \A m \in Names \ {n} : task'[m] = task[m]
    BY <2>2, SetPcEffect, Zenon DEF IInv
  <2>4. "idle" \notin StartPcs \cup WakePcs
    BY Zenon DEF StartPcs, WakePcs
  <2> QED BY <1>1, <2>1, <2>2, <2>3, <2>4, HostGoesOn, Zenon
<1>3. CASE \E p \in Pids : StartHost(n, p) \/ WakeHost(n, p)
  <2>1. /\ UNCHANGED <<node, todo, vms, store>>
        /\ \/ task[n].pc = "start" /\ task'[n].pc = "boot"
           \/ task[n].pc = "wake" /\ task'[n].pc = "move"
        /\ task'[n].old = task[n].old
        /\ \A m \in Names \ {n} : task'[m] = task[m]
    BY <1>3, HostUpGoesOn, Zenon DEF IInv
  <2>2. /\ {"start", "boot"} \subseteq StartPcs \ {"recorded"}
        /\ {"wake", "move"} \subseteq WakePcs
    BY Zenon DEF StartPcs, WakePcs
  <2>3. n \notin todo
    BY <1>1, <2>1
  <2> QED BY <2>1, <2>2, <2>3, HostGoesOn
<1>4. CASE RecordStart(n) \/ RecordWake(n)
  <2>1. /\ UNCHANGED <<node, todo, vms>>
        /\ \/ store' = store /\ task[n].pc = "booted" /\ SetPc(n, "unwind")
           \/ store' = store /\ task[n].pc = "woken" /\ SetPc(n, "wlost")
           \/ /\ store' = [store EXCEPT ![n] = Running(vms[n], task[n].pid)]
              /\ \/ task[n].pc = "booted" /\ SetPc(n, "recorded")
                 \/ task[n].pc = "woken" /\ SetPc(n, "wrecorded")
    BY <1>4, Zenon DEF RecordStart, RecordWake
  <2>2. /\ {"booted", "unwind", "recorded"} \subseteq StartPcs
        /\ {"woken", "wlost", "wrecorded"} \subseteq WakePcs
    BY DEF StartPcs, WakePcs
  <2>3. ASSUME NEW pc \in StartPcs \cup WakePcs, SetPc(n, pc)
        PROVE  /\ task'[n].pc = pc /\ task'[n].old = task[n].old
               /\ \A m \in Names \ {n} : task'[m] = task[m]
    BY <2>3, SetPcEffect, Zenon DEF IInv
  <2>4. task'[n].old = task[n].old /\ \A m \in Names \ {n} : task'[m] = task[m]
    BY <2>1, <2>2, <2>3, Zenon
  <2>5. CASE \/ store' = store /\ task[n].pc = "booted" /\ SetPc(n, "unwind")
             \/ store' = store /\ task[n].pc = "woken" /\ SetPc(n, "wlost")
    <3>1. \/ task[n].pc = "booted" /\ task'[n].pc = "unwind"
          \/ task[n].pc = "woken" /\ task'[n].pc = "wlost"
      BY <2>2, <2>3, <2>5
    <3> QED BY <1>1, <2>1, <2>2, <2>4, <2>5, <3>1, HostGoesOn, Zenon
  <2>6. CASE /\ store' = [store EXCEPT ![n] = Running(vms[n], task[n].pid)]
             /\ \/ task[n].pc = "booted" /\ SetPc(n, "recorded")
                \/ task[n].pc = "woken" /\ SetPc(n, "wrecorded")
    <3>1. /\ store'[n] = Running(vms[n], task[n].pid) /\ vms[n] \in Entry
          /\ \A m \in Names \ {n} : store'[m] = store[m]
      BY <2>6, Zenon DEF IInv, TypeOK
    <3>2. store'[n].host = vms[n].host /\ store'[n].st = "running"
      BY <3>1 DEF Running, Entry
    <3>3. \A x \in Hosts : x \in Named(n)' => x \in Named(n)
      BY <2>1, <2>4, <3>2, Zenon DEF Named
    <3>4. \/ task[n].pc = "booted" /\ task'[n].pc = "recorded"
          \/ task[n].pc = "woken" /\ task'[n].pc = "wrecorded"
      BY <2>2, <2>3, <2>6, Zenon
    <3>5. node # "down" => HostKnown(n)
      BY <1>1, <3>4 DEF HostnameInv
    <3>6. task'[n].pc \notin {"idle"} \cup (StartPcs \ {"recorded"})
      BY <3>4 DEF StartPcs
    <3>7. task'[n].pc \in WakePcs => task[n].pc \in WakePcs
      BY <3>4 DEF WakePcs
    <3>8. node # "down" => HostKnown(n)'
      BY <2>1, <2>4, <3>2, <3>5, <3>6, <3>7, Zenon DEF HostKnown
    <3> QED BY <2>1, <2>4, <3>1, <3>2, <3>3, <3>8, HostFrame, Zenon
  <2> QED BY <2>1, <2>5, <2>6, Zenon
<1> QED BY <1>2, <1>3, <1>4, Zenon


(* A start or wake ends: with the VM it set aside, or the one on record. *)
LEMMA HostTaskEnds ==
  ASSUME IInv, HostnameInv, NEW n \in Names,
         \/ ForgetStart(n) \/ StartSupervising(n) \/ PutBack(n) \/ WakeLost(n) \/ WakeSupervising(n)
  PROVE  HostnameInv'
<1>1. /\ vms \in [Names -> Entry] /\ store \in [Names -> Entry] /\ task \in [Names -> Task]
      /\ vms[n] \in Entry /\ store[n] \in Entry /\ task[n].old \in Entry
  BY DEF IInv, TypeOK, Task
<1>2. UNCHANGED <<node, todo>> /\ task' = [task EXCEPT ![n] = Idle]
  BY Zenon DEF ForgetStart, StartSupervising, PutBack, WakeLost, WakeSupervising, durable
<1>3. task'[n] = Idle /\ \A m \in Names \ {n} : task'[m] = task[m]
  BY <1>1, <1>2, Zenon
<1>4. ASSUME NEW e, vms' = [vms EXCEPT ![n] = e]
      PROVE  vms'[n] = e /\ \A m \in Names \ {n} : vms'[m] = vms[m]
  BY <1>1, <1>4, Zenon
<1>5. task[n].pc \in {"failed", "recorded", "wfailed", "wlost", "wrecorded"}
  BY DEF ForgetStart, StartSupervising, PutBack, WakeLost, WakeSupervising
<1>6. HostKnown(n)
  <2>1. vms[n].st = "starting"
    BY <1>5 DEF IInv, SInv, Owners
  <2> QED BY <2>1 DEF IInv, SInv, Boots, HostnameInv
<1>7. store[n].st = "absent" => store[n].host = NoRoute
  BY Zenon DEF HostnameInv
<1>8. CASE StartSupervising(n) \/ WakeSupervising(n)
  <2>1. /\ task[n].pc \in RecordedPcs /\ store' = store
        /\ vms' = [vms EXCEPT ![n] = Running(vms[n], task[n].pid)]
    BY <1>8 DEF StartSupervising, WakeSupervising, RecordedPcs
  <2>2. vms'[n] = store[n] /\ \A m \in Names \ {n} : vms'[m] = vms[m]
    BY <1>4, <2>1, Zenon DEF IInv, SInv, TaskRecorded
  <2> QED BY <1>2, <1>3, <1>7, <2>1, <2>2, HostSettles, Zenon DEF Named
<1>9. CASE ForgetStart(n) \/ PutBack(n)
  <2>1. /\ task[n].pc \in {"failed", "wfailed"} /\ store' = store
        /\ vms' = [vms EXCEPT ![n] = task[n].old]
    BY <1>9 DEF ForgetStart, PutBack, durable
  <2>2. vms'[n] = task[n].old /\ \A m \in Names \ {n} : vms'[m] = vms[m]
    BY <1>4, <2>1, Zenon
  <2>3. store[n].host \in {task[n].old.host, NoRoute}
    BY <1>6, <2>1 DEF HostKnown, StartPcs, WakePcs
  <2> QED BY <1>2, <1>3, <1>7, <2>1, <2>2, <2>3, HostSettles, Zenon DEF Named
<1>10. CASE WakeLost(n)
  <2>1. /\ task[n].pc = "wlost" /\ vms' = [vms EXCEPT ![n] = Ended(task[n].old, "forced")]
        /\ store' = store \/ store' = [store EXCEPT ![n] = Ended(store[n], "forced")]
    BY <1>10 DEF WakeLost
  <2>2. vms'[n].host = task[n].old.host /\ \A m \in Names \ {n} : vms'[m] = vms[m]
    BY <1>1, <1>4, <2>1 DEF Ended, Entry
  <2>3. /\ store'[n] = store[n] \/ store'[n] = Ended(store[n], "forced")
        /\ \A m \in Names \ {n} : store'[m] = store[m]
    BY <1>1, <2>1, Zenon
  <2>4. store'[n].host = store[n].host /\ (store'[n].st = "absent" => store[n].st = "absent")
    BY <1>1, <2>3, Zenon DEF Ended, Entry
  <2>5. store[n].host \in {task[n].old.host, NoRoute}
    BY <1>6, <2>1 DEF HostKnown, WakePcs
  <2> QED BY <1>2, <1>3, <1>7, <2>2, <2>3, <2>4, <2>5, HostSettles, Zenon DEF Named
<1> QED BY <1>8, <1>9, <1>10, Zenon

(* The end of a VM keeps its hostname, rm gives it up, and the next start    *)
(* takes it from the record.                                                 *)
LEMMA HostVmEnds ==
  ASSUME IInv, LogInv, HostnameInv, NEW n \in Names, RecordEnd(n) \/ Remove(n) \/ BootStep(n)
  PROVE  HostnameInv'
<1>1. /\ vms \in [Names -> Entry] /\ store \in [Names -> Entry] /\ task \in [Names -> Task]
      /\ vms[n] \in Entry /\ store[n] \in Entry
  BY DEF IInv, TypeOK, Task
<1>2. store[n].st = "absent" => store[n].host = NoRoute
  BY Zenon DEF HostnameInv
<1>3. ASSUME NEW e, vms' = [vms EXCEPT ![n] = e]
      PROVE  vms'[n] = e /\ \A m \in Names \ {n} : vms'[m] = vms[m]
  BY <1>1, <1>3, Zenon
<1>4. ASSUME NEW e, store' = [store EXCEPT ![n] = e]
      PROVE  store'[n] = e /\ \A m \in Names \ {n} : store'[m] = store[m]
  BY <1>1, <1>4, Zenon
<1>5. vms[n].st # "starting" => task[n] = Idle
  BY Zenon DEF IInv, SInv, Owners, LogInv, OnRecord
<1>6. vms[n].st \in {"running", "ended"} => store[n].host \in {vms[n].host, NoRoute}
  <2>1. SUFFICES ASSUME vms[n].st \in {"running", "ended"}
                 PROVE  store[n].host \in {vms[n].host, NoRoute}
    OBVIOUS
  <2>2. node # "down" /\ n \notin todo /\ task[n].pc = "idle"
    BY <2>1 DEF IInv, SInv, Boots, Owners
  <2> QED BY <2>2, Zenon DEF HostnameInv, HostKnown
<1>7. CASE RecordEnd(n)
  <2>1. /\ vms[n].st = "running" /\ UNCHANGED <<node, todo, task>>
        /\ vms' = [vms EXCEPT ![n] = Ended(vms[n], sup[n].reason)]
        /\ store' = store \/ store' = [store EXCEPT ![n] = Ended(store[n], sup[n].reason)]
    BY <1>7 DEF RecordEnd, IInv, SInv, Owners
  <2>2. vms'[n].host = vms[n].host /\ \A m \in Names \ {n} : vms'[m] = vms[m]
    BY <1>1, <1>3, <2>1 DEF Ended, Entry
  <2>3. /\ store'[n] = store[n] \/ store'[n] = Ended(store[n], sup[n].reason)
        /\ \A m \in Names \ {n} : store'[m] = store[m]
    BY <1>4, <2>1, Zenon
  <2>4. store'[n].host = store[n].host /\ (store'[n].st = "absent" => store[n].st = "absent")
    BY <1>1, <2>3, Zenon DEF Ended, Entry
  <2>5. task'[n] = Idle /\ store[n].host \in {vms[n].host, NoRoute}
    BY <1>5, <1>6, <2>1
  <2> QED BY <1>2, <2>1, <2>2, <2>3, <2>4, <2>5, HostSettles, Zenon DEF Named
<1>8. CASE Remove(n)
  <2>1. /\ vms[n].st = "ended" /\ UNCHANGED <<node, todo, task>>
        /\ \/ UNCHANGED <<vms, store>>
           \/ vms' = [vms EXCEPT ![n] = Absent] /\ store' = [store EXCEPT ![n] = Absent]
    BY <1>8, Zenon DEF Remove
  <2>2. CASE UNCHANGED <<vms, store>>
    BY <2>1, <2>2, HostStill, Zenon
  <2>3. CASE vms' = [vms EXCEPT ![n] = Absent] /\ store' = [store EXCEPT ![n] = Absent]
    <3>1. /\ vms'[n] = Absent /\ store'[n] = Absent
          /\ \A m \in Names \ {n} : vms'[m] = vms[m] /\ store'[m] = store[m]
      BY <1>3, <1>4, <2>3, Zenon
    <3>2. task'[n] = Idle /\ Absent.host = NoRoute
      BY <1>5, <2>1, HostFields
    <3> QED BY <2>1, <3>1, <3>2, HostSettles, Zenon
  <2> QED BY <2>1, <2>2, <2>3, Zenon
<1>9. CASE BootStep(n)
  <2>1. task[n] = Idle
    <3>1. n \in todo
      BY <1>9, Zenon DEF BootStep, ReconcileEnded, Adopt, ReconcileDead
    <3>2. vms[n].st = "absent"
      BY <3>1, Zenon DEF IInv, SInv, Boots
    <3> QED BY <1>5, <3>2
  <2>2. CASE Die /\ UNCHANGED durable
    BY <2>2, HostDied, Zenon DEF durable
  <2>3. CASE ~(Die /\ UNCHANGED durable)
    <3>1. /\ UNCHANGED <<node, task>> /\ todo' = todo \ {n}
          /\ \/ store' = store /\ vms' = [vms EXCEPT ![n] = store[n]]
             \/ /\ store' = [store EXCEPT ![n] = Ended(store[n], "agent_down")]
                /\ vms' = [vms EXCEPT ![n] = Ended(store[n], "agent_down")]
      BY <1>9, <2>3, Zenon DEF BootStep, ReconcileEnded, Adopt, ReconcileDead, durable
    <3>2. /\ \/ store'[n] = store[n] /\ vms'[n] = store[n]
             \/ /\ store'[n] = Ended(store[n], "agent_down")
                /\ vms'[n] = Ended(store[n], "agent_down")
          /\ \A m \in Names \ {n} : vms'[m] = vms[m] /\ store'[m] = store[m]
      BY <1>3, <1>4, <3>1, Zenon
    <3>3. /\ store'[n].host = store[n].host /\ vms'[n].host = store[n].host
          /\ store'[n].st = "absent" => store[n].st = "absent"
      BY <1>1, <3>2, ZenonT(30) DEF Ended, Entry
    <3> QED BY <1>2, <2>1, <3>1, <3>2, <3>3, HostSettles, Zenon DEF Named
  <2> QED BY <2>2, <2>3
<1> QED BY <1>7, <1>8, <1>9, Zenon

(* Every step but a start with a hostname that is set aside. *)
LEMMA HostNext ==
  ASSUME IInv, LogInv, HostnameInv, [Next]_vars, [~TakesSetAside]_vars
  PROVE  HostnameInv'
<1>1. ASSUME NEW n \in Names, NEW h \in Hosts \cup {NoRoute}, NEW a \in Addrs, RunVm(n, h, a)
      PROVE  HostnameInv'
  <2>1. task' # task
    <3>1. /\ vms[n].st # "starting"
          /\ task' = [task EXCEPT ![n] = [Idle EXCEPT !.pc = "start", !.old = vms[n]]]
      BY <1>1 DEF RunVm
    <3>2. task[n].pc = "idle"
      BY <3>1, Zenon DEF IInv, SInv, Owners
    <3> QED BY <3>1, <3>2, Zenon DEF IInv, TypeOK, Idle
  <2>2. ~TakesSetAside
    BY <2>1, Zenon DEF vars
  <2> QED BY <1>1, <2>2, HostRunVm, Zenon
<1>2. ASSUME NEW n \in Names, StartStep(n) \/ WakeStep(n) PROVE HostnameInv'
  BY <1>1, <1>2, HostWakeVm, HostTask, HostTaskEnds, Zenon DEF StartStep, WakeStep
<1>3. ASSUME NEW n \in Names, SupStep(n), ~RecordEnd(n) PROVE HostnameInv'
  <2>1. UNCHANGED <<vms, task, store, todo, node>>
    BY <1>3, Zenon DEF SupStep, SupNaturalEnd, SupStop, SupPark, SupSnapshot,
                       SupSnapshotFails, SupKill, SupMoveOut, SupTeardown, durable
  <2> QED BY <2>1, HostStill, Zenon
<1>4. ASSUME NEW n \in Names, RecordEnd(n) \/ BootStep(n) \/ Remove(n) PROVE HostnameInv'
  BY <1>4, HostVmEnds, Zenon
<1>5. ASSUME NEW n \in Names, CrashInRemove(n) PROVE HostnameInv'
  BY <1>5, HostDied, Zenon DEF CrashInRemove
<1>6. ASSUME NEW a \in Addrs, GuestEnds(a) \/ Sweep(a) PROVE HostnameInv'
  BY <1>6, HostStill, Zenon DEF GuestEnds, Sweep, volatile
<1>7. CASE Shutdown \/ Ready
  BY <1>7, HostStill, Zenon DEF Shutdown, Ready, durable
<1>8. CASE Exit \/ Crash
  BY <1>8, HostDied, Zenon DEF Exit, Crash, durable
<1>9. CASE UNCHANGED vars
  BY <1>9, HostStill, Zenon DEF vars
<1> QED
  BY <1>2, <1>3, <1>4, <1>5, <1>6, <1>7, <1>8, <1>9, HostBoot, Zenon DEF Next

(* A new agent owns no hostname. *)
LEMMA HostInit == ASSUME Init PROVE HostnameInv
<1>1. \A n \in Names : vms[n] = Absent /\ store[n] = Absent /\ task[n] = Idle
  BY Zenon DEF Init
<1>2. "idle" \notin StartPcs \cup WakePcs
  BY DEF StartPcs, WakePcs
<1>3. Absent.host = NoRoute /\ Idle.old = Absent /\ Idle.pc = "idle" /\ NoRoute \notin Hosts
  BY HostFields, Zenon
<1>4. NamesApart
  BY <1>1, <1>3 DEF NamesApart, Named
<1>5. \A n \in Names : HostKnown(n)
  BY <1>1, <1>2, <1>3, Zenon DEF HostKnown
<1> QED BY <1>1, <1>3, <1>4, <1>5, Zenon DEF HostnameInv

(* A hostname belongs to at most one App of the Node, through parks, wakes,  *)
(* failed starts, refused database writes, crashes and adoption (run_vm's    *)
(* app_with_host), as long as no start takes the hostname of an Ended App    *)
(* that a start under way has set aside and may put back.                    *)
THEOREM HostnamesOwned == Spec /\ [][~TakesSetAside]_vars => []HostnameOwnedOnce
<1>1. HostnameInv /\ TypeOK => HostnameOwnedOnce
  <2>1. SUFFICES ASSUME HostnameInv, TypeOK, NEW n \in Names, NEW m \in Names,
                        vms[n].host # NoRoute, vms[n].host = vms[m].host
                 PROVE  n = m
    BY Zenon DEF HostnameOwnedOnce
  <2>2. vms[n].host \in Hosts
    BY <2>1 DEF TypeOK, Entry
  <2> QED BY <2>1, <2>2, Zenon DEF HostnameInv, NamesApart, Named
<1>2. Init => HostnameInv
  BY HostInit
<1>3. IInv /\ LogInv /\ HostnameInv /\ [Next]_vars /\ [~TakesSetAside]_vars => HostnameInv'
  BY HostNext, Zenon
<1>4. IInv => TypeOK
  BY DEF IInv
<1> QED BY <1>1, <1>2, <1>3, <1>4, LogsInductive, PTL DEF Spec

(* Only run_vm begins a start. *)
LEMMA OnlyRunVmStarts ==
  ASSUME IInv, [Next]_vars, NEW n \in Names, task[n].pc = "idle", task'[n].pc = "start"
  PROVE  \E h \in Hosts \cup {NoRoute}, a \in Addrs : RunVm(n, h, a)
<1>1. task' # task
  BY Zenon
<1>2. ~Die
  <2>1. SUFFICES ASSUME Die PROVE FALSE
    OBVIOUS
  <2> QED BY <2>1 DEF Die, Idle
<1>3. PICK k \in Names : StartStep(k) \/ WakeStep(k)
  <2>1. ~(Shutdown \/ Exit \/ Crash \/ Boot \/ Ready) /\ vars' # vars
    BY <1>1, <1>2, Zenon DEF Shutdown, Exit, Crash, Boot, Ready, vars
  <2>2. \A a \in Addrs : ~(GuestEnds(a) \/ Sweep(a))
    BY <1>1, Zenon DEF GuestEnds, Sweep, volatile
  <2>3. \A k \in Names : ~(BootStep(k) \/ Remove(k) \/ CrashInRemove(k))
    BY <1>1, <1>2, Zenon DEF BootStep, ReconcileEnded, Adopt, ReconcileDead, Remove, CrashInRemove
  <2>4. \A k \in Names : ~SupStep(k)
    BY <1>1, Zenon DEF SupStep, SupNaturalEnd, SupStop, SupPark, SupSnapshot, SupSnapshotFails,
                       SupKill, SupMoveOut, SupTeardown, RecordEnd
  <2> QED BY <2>1, <2>2, <2>3, <2>4, Zenon DEF Next
<1>4. CASE \E h \in Hosts \cup {NoRoute}, a \in Addrs : RunVm(k, h, a)
  <2>1. PICK h \in Hosts \cup {NoRoute}, a \in Addrs : RunVm(k, h, a)
    BY <1>4
  <2>2. k = n
    BY <2>1 DEF RunVm, IInv, TypeOK
  <2> QED BY <2>1, <2>2
<1>5. CASE \E a \in Addrs : WakeVm(k, a)
  <2>1. task' = [task EXCEPT ![k] = [Idle EXCEPT !.pc = "wake", !.old = vms[k]]]
    BY <1>5, Zenon DEF WakeVm
  <2> QED BY <2>1 DEF IInv, TypeOK, Idle
<1>6. CASE /\ ~\E h \in Hosts \cup {NoRoute}, a \in Addrs : RunVm(k, h, a)
           /\ ~\E a \in Addrs : WakeVm(k, a)
  <2>1. task[k].pc # "idle"
    BY <1>3, <1>6, Zenon DEF StartStep, WakeStep, StartHost, WakeHost, HostUp, Booted, StartFails,
       RecordStart, StartUnwind, ForgetStart, StartSupervising, WakeHostFails, WakeMove, WakeLoad,
       WakeLoadFails, WakePutBack, WakeUnwind, PutBack, RecordWake, WakeLost, WakeSupervising
  <2>2. \E e : task' = [task EXCEPT ![k] = e]
    BY <1>3, <1>6, Zenon DEF StartStep, WakeStep, StartHost, WakeHost, HostUp, Booted, StartFails,
       RecordStart, StartUnwind, ForgetStart, StartSupervising, WakeHostFails, WakeMove, WakeLoad,
       WakeLoadFails, WakePutBack, WakeUnwind, PutBack, RecordWake, WakeLost, WakeSupervising, SetPc
  <2> QED BY <2>1, <2>2 DEF IInv, TypeOK
<1> QED BY <1>4, <1>5, <1>6, Zenon

(* With one VM address no start is under way when another begins, and a      *)
(* hostname belongs to at most one App in every behaviour.                   *)
THEOREM HostnamesOwnedOneAddress ==
  ASSUME \A a, b \in Addrs : a = b
  PROVE  Spec => []HostnameOwnedOnce
<1>1. IInv /\ [Next]_vars => [~TakesSetAside]_vars
  <2>1. SUFFICES ASSUME IInv, [Next]_vars, NEW n \in Names, NEW m \in Names, n # m,
                        task[n].pc = "idle", task'[n].pc = "start", task[m].pc # "idle"
                 PROVE  FALSE
    BY Zenon DEF TakesSetAside
  <2>2. PICK h \in Hosts \cup {NoRoute}, a \in Addrs : RunVm(n, h, a)
    BY <2>1, OnlyRunVmStarts, Zenon
  <2>3. vms[m].addr # a
    BY <2>2, Zenon DEF RunVm, FreeAddr
  <2>4. vms[m].addr \in Addrs
    BY <2>1 DEF IInv, SInv, Owners, Shapes, AddrShape
  <2> QED BY <2>3, <2>4
<1> QED BY <1>1, Inductive, HostnamesOwned, PTL DEF Spec

-----------------------------------------------------------------------------
(* Where the snapshot of a parked VM is: in its directory, from the end of   *)
(* the park until a wake moves it; in the jail of the wake while it is being *)
(* loaded; and in the directory again when the wake has failed. A record     *)
(* that says parked goes with an entry that does or with a wake, or is still *)
(* to be looked at.                                                          *)
Whole == {"full", "stale"}

Snap(n) ==
  /\ IsParked(vms[n]) => dir[n] \in Whole
  /\ IsParked(store[n]) => IF node = "down" \/ n \in todo THEN dir[n] \in Whole
                           ELSE IsParked(vms[n]) \/ task[n].pc \in WakePcs
  /\ task[n].pc \in {"wake", "move", "wunwind", "wfailed"} => dir[n] \in Whole
  /\ task[n].pc \in {"load", "back"} => host[vms[n].addr].files = TRUE
  /\ task[n].pc # "wlost"
  /\ task[n].pc \in WakePcs => IsParked(task[n].old)
  /\ task[n].pc \in StartPcs => ~IsParked(task[n].old)
  /\ sup[n].pc \in {"teardown", "end"} /\ sup[n].reason = "parked" => dir[n] \in Whole

SnapInv == \A n \in Names : Snap(n)

(* The two places at which killing the agent loses a snapshot and leaves the *)
(* record that says parked: in a wake that has moved the files out of the    *)
(* directory, and in rm once it has removed them.                            *)
KilledHoldingSnapshot ==
  \/ Crash /\ \E n \in Names : task[n].pc \in {"load", "back", "woken"}
  \/ \E n \in Names : CrashInRemove(n)

(* One name's start, VM or snapshot moves, at its own address. *)
LEMMA SnapFrame ==
  ASSUME IInv, SnapInv, NEW n \in Names, node' = node, todo' = todo \/ todo' = todo \ {n},
         \A m \in Names \ {n} : /\ vms'[m] = vms[m] /\ task'[m] = task[m] /\ sup'[m] = sup[m]
                                /\ store'[m] = store[m] /\ dir'[m] = dir[m],
         \/ host' = host \/ node = "boot"
         \/ Holds(n) /\ \A b \in Addrs \ {vms[n].addr} : host'[b] = host[b],
         Snap(n)'
  PROVE  SnapInv'
<1>1. SUFFICES ASSUME NEW m \in Names \ {n} PROVE Snap(m)'
  BY Zenon DEF SnapInv
<1>2. Snap(m) /\ (m \in todo' <=> m \in todo)
  BY Zenon DEF SnapInv
<1>3. task[m].pc \in {"load", "back"} => host'[vms[m].addr] = host[vms[m].addr]
  <2>1. SUFFICES ASSUME task[m].pc \in {"load", "back"}
                 PROVE  host'[vms[m].addr] = host[vms[m].addr]
    OBVIOUS
  <2>2. vms[m].st = "starting"
    BY <2>1, Zenon DEF IInv, SInv, Owners
  <2>3. vms[m].addr \in Addrs /\ Holds(m) /\ node # "boot"
    BY <2>2 DEF IInv, SInv, Shapes, AddrShape, Holds, Boots
  <2>4. Holds(n) => vms[m].addr # vms[n].addr
    BY <2>3, Zenon DEF IInv, SInv, AddressHeldOnce
  <2> QED BY <2>3, <2>4
<1> QED BY <1>2, <1>3, Zenon DEF Snap

(* Steps that have nothing to do with snapshots. *)
LEMMA SnapStill ==
  ASSUME SnapInv, UNCHANGED <<vms, task, sup, store, dir, todo>>, node' = "down" <=> node = "down",
         \A n \in Names : task[n].pc \in {"load", "back"} =>
           host'[vms[n].addr].files = host[vms[n].addr].files
  PROVE  SnapInv'
BY Zenon DEF SnapInv, Snap

(* A step of a start. *)
LEMMA SnapStarts ==
  ASSUME IInv, SnapInv, NEW n \in Names,
         task[n].pc \in StartPcs, task'[n].pc \in StartPcs, task'[n].old = task[n].old,
         \A m \in Names \ {n} : task'[m] = task[m] /\ store'[m] = store[m],
         UNCHANGED <<node, todo, vms, sup, dir>>, store'[n] = store[n] \/ ~IsParked(store'[n]),
         \A b \in Addrs \ {vms[n].addr} : host'[b] = host[b]
  PROVE  SnapInv'
<1>1. Snap(n)
  BY Zenon DEF SnapInv
<1>2. "idle" \notin StartPcs /\ StartPcs \cap WakePcs = {}
      /\ StartPcs \cap {"wake", "move", "wunwind", "wfailed", "load", "back", "wlost"} = {}
  BY DEF StartPcs, WakePcs
<1>3. vms[n].st = "starting"
  BY <1>2, Zenon DEF IInv, SInv, Owners
<1>4. Holds(n) /\ n \notin todo /\ node # "down" /\ ~IsParked(vms[n]) /\ sup[n].pc = "none"
  BY <1>3, Zenon DEF IInv, SInv, Boots, Holds, IsParked, Owners
<1>5. ~IsParked(store'[n])
  BY <1>1, <1>2, <1>4, Zenon DEF Snap
<1>6. Snap(n)'
  BY <1>1, <1>2, <1>4, <1>5 DEF Snap
<1> QED BY <1>4, <1>6, SnapFrame, Zenon

(* A step of a wake, with the files where they belong after it. *)
LEMMA SnapWakes ==
  ASSUME IInv, SnapInv, NEW n \in Names,
         task[n].pc \in WakePcs, task'[n].pc \in WakePcs \ {"wlost"}, task'[n].old = task[n].old,
         \A m \in Names \ {n} :
           task'[m] = task[m] /\ store'[m] = store[m] /\ dir'[m] = dir[m],
         UNCHANGED <<node, todo, vms, sup>>,
         \A b \in Addrs \ {vms[n].addr} : host'[b] = host[b],
         task'[n].pc \in {"wake", "move", "wunwind", "wfailed"} => dir'[n] \in Whole,
         task'[n].pc \in {"load", "back"} => host'[vms[n].addr].files = TRUE
  PROVE  SnapInv'
<1>1. Snap(n)
  BY Zenon DEF SnapInv
<1>2. "idle" \notin WakePcs /\ StartPcs \cap WakePcs = {}
  BY DEF StartPcs, WakePcs
<1>3. vms[n].st = "starting"
  BY <1>2, Zenon DEF IInv, SInv, Owners
<1>4. Holds(n) /\ n \notin todo /\ node # "down" /\ ~IsParked(vms[n]) /\ sup[n].pc = "none"
  BY <1>3, Zenon DEF IInv, SInv, Boots, Holds, IsParked, Owners
<1>5. Snap(n)'
  BY <1>1, <1>2, <1>4 DEF Snap
<1> QED BY <1>4, <1>5, SnapFrame, Zenon

(* There is no start or wake of a name, any more. *)
LEMMA SnapSettles ==
  ASSUME IInv, SnapInv, NEW n \in Names, node' = node, todo' = todo \/ todo' = todo \ {n},
         \A m \in Names \ {n} : /\ vms'[m] = vms[m] /\ task'[m] = task[m] /\ sup'[m] = sup[m]
                                /\ store'[m] = store[m] /\ dir'[m] = dir[m],
         \/ host' = host \/ node = "boot"
         \/ Holds(n) /\ \A b \in Addrs \ {vms[n].addr} : host'[b] = host[b],
         task'[n].pc = "idle", n \notin todo', node # "down",
         IsParked(vms'[n]) => dir'[n] \in Whole,
         IsParked(store'[n]) => IsParked(vms'[n]),
         sup'[n].pc \in {"teardown", "end"} /\ sup'[n].reason = "parked" => dir'[n] \in Whole
  PROVE  SnapInv'
<1>1. "idle" \notin StartPcs \cup WakePcs
  BY Zenon DEF StartPcs, WakePcs
<1>2. Snap(n)'
  BY <1>1 DEF Snap
<1> QED BY <1>2, SnapFrame, Zenon

(* run_vm refuses a parked VM, and wake_vm takes nothing else. *)
LEMMA SnapBegins ==
  ASSUME IInv, SnapInv, NEW n \in Names,
         \/ \E h \in Hosts \cup {NoRoute}, a \in Addrs : RunVm(n, h, a)
         \/ \E a \in Addrs : WakeVm(n, a)
  PROVE  SnapInv'
<1>1. /\ node = "ready" /\ UNCHANGED <<node, todo, sup, store, dir, host>>
      /\ vms[n].st # "starting"
      /\ \E e : vms' = [vms EXCEPT ![n] = e] /\ e.st = "starting"
      /\ \/ /\ task' = [task EXCEPT ![n] = [Idle EXCEPT !.pc = "start", !.old = vms[n]]]
            /\ ~IsParked(vms[n])
         \/ /\ task' = [task EXCEPT ![n] = [Idle EXCEPT !.pc = "wake", !.old = vms[n]]]
            /\ IsParked(vms[n])
  <2>1. CASE \E h \in Hosts \cup {NoRoute}, a \in Addrs : RunVm(n, h, a)
    <3>1. PICK h \in Hosts \cup {NoRoute}, a \in Addrs : RunVm(n, h, a)
      BY <2>1
    <3>2. [Absent EXCEPT !.st = "starting", !.addr = a, !.log = nextLog, !.host = h].st = "starting"
      BY DEF Absent
    <3>3. vms[n].st # "starting"
      BY <3>1, Zenon DEF RunVm
    <3>4. /\ node = "ready" /\ ~IsParked(vms[n])
          /\ vms' = [vms EXCEPT ![n] = [Absent EXCEPT !.st = "starting", !.addr = a,
                                                      !.log = nextLog, !.host = h]]
          /\ task' = [task EXCEPT ![n] = [Idle EXCEPT !.pc = "start", !.old = vms[n]]]
      BY <3>1, Zenon DEF RunVm
    <3>5. UNCHANGED <<node, todo, sup, store, dir, host>>
      BY <3>1, Zenon DEF RunVm, durable
    <3>6. \E e : vms' = [vms EXCEPT ![n] = e] /\ e.st = "starting"
      BY <3>2, <3>4, Zenon
    <3> QED BY <3>3, <3>4, <3>5, <3>6, Zenon
  <2>2. CASE \E a \in Addrs : WakeVm(n, a)
    <3>1. PICK a \in Addrs : WakeVm(n, a)
      BY <2>2
    <3>2. [vms[n] EXCEPT !.st = "starting", !.addr = a, !.reason = "none"].st = "starting"
      BY DEF IInv, TypeOK, Entry
    <3>3. vms[n].st # "starting"
      BY <3>1, Zenon DEF WakeVm, IsParked
    <3>4. /\ node = "ready" /\ IsParked(vms[n])
          /\ vms' = [vms EXCEPT ![n] = [vms[n] EXCEPT !.st = "starting", !.addr = a,
                                                      !.reason = "none"]]
          /\ task' = [task EXCEPT ![n] = [Idle EXCEPT !.pc = "wake", !.old = vms[n]]]
      BY <3>1, Zenon DEF WakeVm
    <3>5. UNCHANGED <<node, todo, sup, store, dir, host>>
      BY <3>1, Zenon DEF WakeVm, durable
    <3>6. \E e : vms' = [vms EXCEPT ![n] = e] /\ e.st = "starting"
      BY <3>2, <3>4, Zenon
    <3> QED BY <3>3, <3>4, <3>5, <3>6, Zenon
  <2> QED BY <2>1, <2>2, Zenon
<1>2. /\ vms'[n].st = "starting" /\ \A m \in Names \ {n} : vms'[m] = vms[m]
      /\ task'[n].old = vms[n] /\ \A m \in Names \ {n} : task'[m] = task[m]
      /\ \/ task'[n].pc = "start" /\ ~IsParked(vms[n])
         \/ task'[n].pc = "wake" /\ IsParked(vms[n])
  BY <1>1, Zenon DEF IInv, TypeOK, Idle
<1>3. Snap(n)
  BY Zenon DEF SnapInv
<1>4. task[n].pc = "idle" /\ n \notin todo /\ ~IsParked(vms'[n])
  BY <1>1, <1>2 DEF IInv, SInv, Owners, Boots, IsParked
<1>5. sup[n].pc \in {"teardown", "end"} /\ sup[n].reason = "parked" => dir[n] \in Whole
  BY <1>3, Zenon DEF Snap
<1>6. IsParked(store[n]) => IsParked(vms[n])
  BY <1>1, <1>3, <1>4 DEF Snap, WakePcs
<1>7. Snap(n)'
  <2>1. "start" \notin WakePcs /\ "wake" \notin StartPcs /\ "wake" \in WakePcs
    BY DEF StartPcs, WakePcs
  <2>2. IsParked(vms[n]) => dir[n] \in Whole
    BY <1>3, Zenon DEF Snap
  <2> QED BY <1>1, <1>2, <1>4, <1>5, <1>6, <2>1, <2>2, Zenon DEF Snap
<1> QED BY <1>1, <1>2, <1>7, SnapFrame, Zenon

(* What the agent keeps when it ends, and what the next one finds. *)
LEMMA SnapDied ==
  ASSUME IInv, SnapInv, Die, UNCHANGED <<store, dir>>, node # "down",
         \A n \in Names : task[n].pc \notin {"load", "back", "woken"}
  PROVE  SnapInv'
<1>1. SUFFICES ASSUME NEW n \in Names PROVE Snap(n)'
  BY Zenon DEF SnapInv
<1>2. Snap(n)
  BY Zenon DEF SnapInv
<1>3. vms'[n] = Absent /\ task'[n] = Idle /\ sup'[n] = NoSup /\ node' = "down"
  BY Zenon DEF Die
<1>4. ~IsParked(Absent) /\ Idle.pc = "idle" /\ NoSup.pc = "none"
  BY DEF IsParked, Absent, Idle, NoSup
<1>5. IsParked(store[n]) => dir[n] \in Whole
  <2>1. CASE task[n].pc = "wrecorded"
    <3>1. store[n] = Running(vms[n], task[n].pid) /\ vms[n] \in Entry
      BY <2>1, Zenon DEF IInv, SInv, TaskRecorded, RecordedPcs, TypeOK
    <3> QED BY <3>1 DEF Running, Entry, IsParked
  <2>2. CASE task[n].pc # "wrecorded"
    <3>1. task[n].pc \in WakePcs => task[n].pc \in {"wake", "move", "wunwind", "wfailed"}
      BY <1>2, <2>2 DEF WakePcs, Snap
    <3> QED BY <1>2, <3>1, Zenon DEF Snap
  <2> QED BY <2>1, <2>2
<1>6. "idle" \notin StartPcs \cup WakePcs
  BY DEF StartPcs, WakePcs
<1> QED BY <1>3, <1>4, <1>5, <1>6 DEF Snap

(* The next agent keeps the directories of the records that say parked. *)
LEMMA SnapBoot == ASSUME IInv, SnapInv, Boot PROVE SnapInv'
<1>1. /\ node = "down" /\ UNCHANGED <<vms, task, sup, store>>
      /\ todo' = {n \in Names : store[n].st # "absent"}
      /\ dir' = [n \in Names |-> IF IsParked(store[n]) THEN dir[n] ELSE "none"]
  BY Zenon DEF Boot
<1>2. SUFFICES ASSUME NEW n \in Names PROVE Snap(n)'
  BY Zenon DEF SnapInv
<1>3. vms[n].st = "absent"
  BY <1>1, Zenon DEF IInv, SInv, Boots
<1>4. task[n].pc = "idle" /\ sup[n].pc = "none" /\ ~IsParked(vms[n])
  BY <1>3 DEF IInv, SInv, Owners, IsParked
<1>5. IsParked(store[n]) => dir'[n] \in Whole /\ n \in todo'
  <2>1. IsParked(store[n]) => dir[n] \in Whole
    BY <1>1, Zenon DEF SnapInv, Snap
  <2> QED BY <1>1, <2>1 DEF IsParked
<1>6. "idle" \notin StartPcs \cup WakePcs
  BY DEF StartPcs, WakePcs
<1> QED BY <1>1, <1>4, <1>5, <1>6 DEF Snap


(* The steps of a start or wake under way, if the disk and the database do   *)
(* not fail: the files go into the jail, and out of it again when the load   *)
(* has failed.                                                               *)
LEMMA SnapStartStep ==
  ASSUME IInv, SnapInv, "store" \notin Faults, NEW n \in Names,
         \/ Booted(n) \/ StartFails(n) \/ StartUnwind(n) \/ RecordStart(n)
         \/ \E p \in Pids : StartHost(n, p)
  PROVE  SnapInv'
<1>1. TypeOK /\ host \in [Addrs -> HostState] /\ store \in [Names -> Entry]
  BY DEF IInv, TypeOK
<1>2. ASSUME NEW pc \in StartPcs, SetPc(n, pc)
      PROVE  /\ task'[n].pc \in StartPcs /\ task'[n].old = task[n].old
             /\ \A m \in Names \ {n} : task'[m] = task[m]
  BY <1>1, <1>2, SetPcEffect, Zenon
<1>3. CASE Booted(n) \/ StartFails(n) \/ StartUnwind(n)
  <2>1. UNCHANGED <<node, todo, vms, sup, store>>
    BY <1>3, GoesOn, Zenon
  <2>2. dir' = dir /\ \A b \in Addrs \ {vms[n].addr} : host'[b] = host[b]
    BY <1>1, <1>3, Zenon DEF Booted, StartFails, StartUnwind, Teardown, SetHost, durable
  <2>3. task[n].pc \in StartPcs /\ \E pc \in StartPcs : SetPc(n, pc)
    BY <1>3, Zenon DEF Booted, StartFails, StartUnwind, StartPcs
  <2> QED BY <1>2, <2>1, <2>2, <2>3, SnapStarts, Zenon
<1>4. CASE RecordStart(n)
  <2>1. /\ UNCHANGED <<node, todo, vms, sup, dir, host>>
        /\ task[n].pc = "booted" /\ SetPc(n, "recorded")
        /\ store' = [store EXCEPT ![n] = Running(vms[n], task[n].pid)]
    BY <1>4, Zenon DEF RecordStart, Fault
  <2>2. "booted" \in StartPcs /\ "recorded" \in StartPcs
    BY DEF StartPcs
  <2>3. /\ store'[n] = Running(vms[n], task[n].pid) /\ vms[n] \in Entry
        /\ \A m \in Names \ {n} : store'[m] = store[m]
    BY <1>1, <2>1, Zenon DEF TypeOK
  <2>4. ~IsParked(store'[n])
    BY <2>3 DEF Running, Entry, IsParked
  <2> QED BY <1>2, <2>1, <2>2, <2>3, <2>4, SnapStarts, Zenon
<1>5. CASE \E p \in Pids : StartHost(n, p)
  <2>1. UNCHANGED <<node, todo, vms, sup, store, dir>>
    BY <1>5, Zenon DEF StartHost, HostUp
  <2>2. \A b \in Addrs \ {vms[n].addr} : host'[b] = host[b]
    BY <1>1, <1>5 DEF StartHost, HostUp, SetHost
  <2>3. /\ task[n].pc = "start" /\ task'[n].pc = "boot" /\ task'[n].old = task[n].old
        /\ \A m \in Names \ {n} : task'[m] = task[m]
    <3>1. ~\E p \in Pids : WakeHost(n, p)
      BY <1>5 DEF StartHost, WakeHost, HostUp
    <3> QED BY <1>1, <1>5, <3>1, HostUpGoesOn, Zenon
  <2>4. "start" \in StartPcs /\ "boot" \in StartPcs
    BY DEF StartPcs
  <2> QED BY <2>1, <2>2, <2>3, <2>4, SnapStarts, Zenon
<1> QED BY <1>3, <1>4, <1>5, Zenon

(* ... of a wake. *)
LEMMA SnapWakeStep ==
  ASSUME IInv, SnapInv, "store" \notin Faults, "disk" \notin Faults, NEW n \in Names,
         \/ WakeHostFails(n) \/ WakeMove(n) \/ WakeLoad(n) \/ WakeLoadFails(n) \/ WakePutBack(n)
         \/ WakeUnwind(n) \/ RecordWake(n) \/ \E p \in Pids : WakeHost(n, p)
  PROVE  SnapInv'
<1>1. /\ TypeOK /\ host \in [Addrs -> HostState] /\ dir \in [Names -> DirState]
      /\ store \in [Names -> Entry]
  BY DEF IInv, TypeOK
<1>2. Snap(n)
  BY Zenon DEF SnapInv
<1>3. /\ {"wake", "move", "load", "woken", "back", "wunwind"} \subseteq WakePcs
      /\ {"load", "woken", "wrecorded", "back", "wunwind", "wfailed"} \subseteq WakePcs \ {"wlost"}
  BY DEF WakePcs
<1>4. ASSUME NEW pc \in WakePcs \ {"wlost"}, SetPc(n, pc), task[n].pc \in WakePcs,
             UNCHANGED <<node, todo, vms, sup>>,
             \A m \in Names \ {n} : store'[m] = store[m] /\ dir'[m] = dir[m],
             host' = host \/ \E h : SetHost(vms[n].addr, h),
             pc \notin {"load", "back", "woken", "wrecorded"} => dir'[n] \in Whole,
             pc \in {"load", "back"} => host'[vms[n].addr].files = TRUE
      PROVE  SnapInv'
  <2>1. /\ task'[n].pc = pc /\ task'[n].old = task[n].old
        /\ \A m \in Names \ {n} : task'[m] = task[m]
    BY <1>1, <1>4, SetPcEffect, Zenon
  <2>2. \A b \in Addrs \ {vms[n].addr} : host'[b] = host[b]
    BY <1>1, <1>4, Zenon DEF SetHost
  <2>3. pc \in {"wake", "move", "wunwind", "wfailed"} => dir'[n] \in Whole
    BY <1>4, Zenon
  <2> QED BY <1>4, <2>1, <2>2, <2>3, SnapWakes, Zenon
<1>5. task[n].pc # "idle" => vms[n].addr \in Addrs /\ host[vms[n].addr] \in HostState
  BY <1>1 DEF IInv, SInv, Owners, Shapes, AddrShape
<1>6. CASE WakeHostFails(n) \/ WakeUnwind(n)
  <2>1. /\ UNCHANGED <<node, todo, vms, sup, store, dir>>
        /\ task[n].pc \in {"wake", "wunwind"} /\ SetPc(n, "wfailed")
        /\ host' = host \/ \E h : SetHost(vms[n].addr, h)
    BY <1>6, ZenonT(30) DEF WakeHostFails, WakeUnwind, Teardown, durable
  <2>2. dir[n] \in Whole
    BY <1>2, <2>1 DEF Snap
  <2> QED BY <1>3, <1>4, <2>1, <2>2, Zenon
<1>7. CASE WakeMove(n)
  <2>1. task[n].pc = "move" /\ UNCHANGED <<node, todo, vms, sup, store>>
    BY <1>7, Zenon DEF WakeMove
  <2>2. dir[n] \in Whole
    BY <1>2, <2>1, Zenon DEF Snap
  <2>3. /\ dir' = [dir EXCEPT ![n] = "empty"] /\ SetPc(n, "load")
        /\ SetHost(vms[n].addr, [host[vms[n].addr] EXCEPT !.files = TRUE, !.ran = dir[n] = "stale"])
    BY <1>7, <2>2, Zenon DEF WakeMove, Fault, Whole
  <2>4. host'[vms[n].addr].files = TRUE
    BY <1>1, <1>5, <2>1, <2>3 DEF SetHost, HostState
  <2>5. \A m \in Names \ {n} : dir'[m] = dir[m]
    BY <1>1, <2>3, Zenon
  <2> QED BY <1>3, <1>4, <2>1, <2>3, <2>4, <2>5, Zenon
<1>8. CASE WakeLoad(n) \/ WakeLoadFails(n)
  <2>1. /\ task[n].pc = "load" /\ UNCHANGED <<node, todo, vms, sup, store, dir>>
        /\ SetPc(n, "woken") \/ SetPc(n, "back")
        /\ \/ host' = host
           \/ SetHost(vms[n].addr, [host[vms[n].addr] EXCEPT !.ran = TRUE])
    BY <1>8, Zenon DEF WakeLoad, WakeLoadFails
  <2>2. host[vms[n].addr].files = TRUE
    BY <1>2, <2>1 DEF Snap
  <2>3. host'[vms[n].addr].files = TRUE
    BY <1>1, <1>5, <2>1, <2>2 DEF SetHost, HostState
  <2> QED BY <1>3, <1>4, <2>1, <2>3, Zenon
<1>9. CASE WakePutBack(n)
  <2>1. task[n].pc = "back" /\ SetPc(n, "wunwind") /\ UNCHANGED <<node, todo, vms, sup, store>>
    BY <1>9, Zenon DEF WakePutBack
  <2>2. host[vms[n].addr].files = TRUE
    BY <1>2, <2>1 DEF Snap
  <2>3. /\ dir' = [dir EXCEPT ![n] = IF host[vms[n].addr].ran THEN "stale" ELSE "full"]
        /\ \E h : SetHost(vms[n].addr, h)
    BY <1>9, <2>2, Zenon DEF WakePutBack, Fault
  <2>4. dir'[n] \in Whole /\ \A m \in Names \ {n} : dir'[m] = dir[m]
    BY <1>1, <2>3 DEF Whole
  <2> QED BY <1>3, <1>4, <2>1, <2>3, <2>4, Zenon
<1>10. CASE RecordWake(n)
  <2>1. /\ UNCHANGED <<node, todo, vms, sup, dir, host>>
        /\ task[n].pc = "woken" /\ SetPc(n, "wrecorded")
        /\ store' = [store EXCEPT ![n] = Running(vms[n], task[n].pid)]
    BY <1>10, Zenon DEF RecordWake, Fault
  <2>2. \A m \in Names \ {n} : store'[m] = store[m]
    BY <1>1, <2>1, Zenon
  <2> QED BY <1>3, <1>4, <2>1, <2>2, Zenon
<1>11. CASE \E p \in Pids : WakeHost(n, p)
  <2>1. /\ UNCHANGED <<node, todo, vms, sup, store, dir>>
        /\ \A b \in Addrs \ {vms[n].addr} : host'[b] = host[b]
    BY <1>1, <1>11, Zenon DEF WakeHost, HostUp, SetHost
  <2>2. /\ task[n].pc = "wake" /\ task'[n].pc = "move" /\ task'[n].old = task[n].old
        /\ \A m \in Names \ {n} : task'[m] = task[m]
    <3>1. ~\E p \in Pids : StartHost(n, p)
      BY <1>11 DEF StartHost, WakeHost, HostUp
    <3> QED BY <1>1, <1>11, <3>1, HostUpGoesOn, Zenon
  <2>3. dir[n] \in Whole
    BY <1>2, <2>2, Zenon DEF Snap
  <2>4. "wake" \in WakePcs /\ "move" \in WakePcs \ {"wlost"}
    BY DEF WakePcs
  <2> QED BY <2>1, <2>2, <2>3, <2>4, SnapWakes, Zenon
<1> QED BY <1>6, <1>7, <1>8, <1>9, <1>10, <1>11, Zenon

(* A start or wake is over: a wake that failed has put the snapshot back     *)
(* before its VM is a parked one again.                                      *)
LEMMA SnapTaskEnds ==
  ASSUME IInv, SnapInv, NEW n \in Names,
         \/ ForgetStart(n) \/ StartSupervising(n) \/ PutBack(n) \/ WakeLost(n) \/ WakeSupervising(n)
  PROVE  SnapInv'
<1>1. /\ vms \in [Names -> Entry] /\ task \in [Names -> Task] /\ sup \in [Names -> Sup]
      /\ dir \in [Names -> DirState] /\ vms[n] \in Entry
  BY DEF IInv, TypeOK
<1>2. Snap(n)
  BY Zenon DEF SnapInv
<1>3. ~WakeLost(n)
  BY <1>2, Zenon DEF Snap, WakeLost
<1>4. UNCHANGED <<node, todo, store, host>> /\ task' = [task EXCEPT ![n] = Idle]
  BY <1>3, Zenon DEF ForgetStart, StartSupervising, PutBack, WakeSupervising, durable
<1>5. task'[n].pc = "idle" /\ \A m \in Names \ {n} : task'[m] = task[m]
  BY <1>1, <1>4, Zenon DEF Idle
<1>6. task[n].pc \in {"failed", "recorded", "wfailed", "wrecorded"}
  BY <1>3, Zenon DEF ForgetStart, StartSupervising, PutBack, WakeSupervising
<1>7. vms[n].st = "starting"
  BY <1>6, Zenon DEF IInv, SInv, Owners
<1>8. n \notin todo /\ node # "down" /\ sup[n].pc = "none" /\ ~IsParked(vms[n])
  BY <1>7 DEF IInv, SInv, Boots, Owners, IsParked
<1>9. ASSUME NEW e, vms' = [vms EXCEPT ![n] = e]
      PROVE  vms'[n] = e /\ \A m \in Names \ {n} : vms'[m] = vms[m]
  BY <1>1, <1>9, Zenon
<1>10. CASE ForgetStart(n) \/ PutBack(n)
  <2>1. /\ UNCHANGED <<sup, dir>> /\ vms' = [vms EXCEPT ![n] = task[n].old]
        /\ task[n].pc \in {"failed", "wfailed"}
    BY <1>10, Zenon DEF ForgetStart, PutBack, durable
  <2>2. vms'[n] = task[n].old /\ \A m \in Names \ {n} : vms'[m] = vms[m]
    BY <1>9, <2>1, Zenon
  <2>3. /\ IsParked(vms'[n]) => dir[n] \in Whole
        /\ IsParked(store[n]) => IsParked(vms'[n])
    <3>1. CASE task[n].pc = "failed"
      <4>1. "failed" \in StartPcs /\ "failed" \notin WakePcs
        BY DEF StartPcs, WakePcs
      <4> QED BY <1>2, <1>8, <2>2, <3>1, <4>1, Zenon DEF Snap
    <3>2. CASE task[n].pc = "wfailed"
      <4>1. "wfailed" \in WakePcs
        BY Zenon DEF WakePcs
      <4> QED BY <1>2, <2>2, <3>2, <4>1, Zenon DEF Snap
    <3> QED BY <2>1, <3>1, <3>2, Zenon
  <2> QED BY <1>4, <1>5, <1>8, <2>1, <2>2, <2>3, SnapSettles, Zenon
<1>11. CASE StartSupervising(n) \/ WakeSupervising(n)
  <2>1. /\ vms' = [vms EXCEPT ![n] = Running(vms[n], task[n].pid)]
        /\ sup' = [sup EXCEPT ![n] = Watch] /\ task[n].pc \in RecordedPcs
        /\ dir' = dir \/ \E d : dir' = [dir EXCEPT ![n] = d]
    BY <1>11, Zenon DEF StartSupervising, WakeSupervising, RecordedPcs
  <2>2. /\ vms'[n] = Running(vms[n], task[n].pid)
        /\ \A m \in Names \ {n} : vms'[m] = vms[m]
    BY <1>9, <2>1, Zenon
  <2>3. /\ sup'[n].pc = "watch" /\ \A m \in Names \ {n} : sup'[m] = sup[m]
        /\ \A m \in Names \ {n} : dir'[m] = dir[m]
    BY <1>1, <2>1 DEF Watch
  <2>4. vms'[n] = store[n]
    BY <2>1, <2>2, Zenon DEF IInv, SInv, TaskRecorded
  <2>5. ~IsParked(vms'[n])
    BY <1>1, <2>2 DEF IsParked, Running, Entry
  <2> QED BY <1>4, <1>5, <1>8, <2>2, <2>3, <2>4, <2>5, SnapSettles, Zenon
<1> QED BY <1>3, <1>10, <1>11, Zenon

(* A supervisor that gets to a parked end has moved the snapshot out of the  *)
(* jail.                                                                     *)
LEMMA SnapSupStep ==
  ASSUME IInv, SnapInv, "disk" \notin Faults, NEW n \in Names, SupStep(n), ~RecordEnd(n)
  PROVE  SnapInv'
<1>1. /\ host \in [Addrs -> HostState] /\ sup \in [Names -> Sup] /\ sup[n] \in Sup
      /\ dir \in [Names -> DirState] /\ vms[n] \in Entry
  BY DEF IInv, TypeOK
<1>2. Snap(n)
  BY Zenon DEF SnapInv
<1>3. sup[n].pc # "none"
  BY Zenon DEF SupStep, SupNaturalEnd, SupStop, SupPark, SupSnapshot, SupSnapshotFails, SupKill,
         SupMoveOut, SupTeardown
<1>4. vms[n].st = "running" /\ store[n] = vms[n] /\ task[n].pc = "idle"
  BY <1>3 DEF IInv, SInv, Owners, RunningIsRecorded
<1>5. n \notin todo /\ node # "down" /\ Holds(n) /\ ~IsParked(vms[n])
  BY <1>4 DEF IInv, SInv, Boots, Holds, IsParked
<1>6. /\ UNCHANGED <<node, todo, vms, task, store>>
      /\ host' = host \/ \E h : SetHost(vms[n].addr, h)
      /\ dir' = dir \/ \E d : dir' = [dir EXCEPT ![n] = d]
      /\ sup' = sup \/ (\E pc : SetSup(n, pc)) \/ \E why : EndSup(n, why)
  <2>1. UNCHANGED <<node, todo, vms, task, store>>
    BY Zenon DEF SupStep, SupNaturalEnd, SupStop, SupPark, SupSnapshot, SupSnapshotFails, SupKill,
                 SupMoveOut, SupTeardown, durable
  <2>2. host' = host \/ \E h : SetHost(vms[n].addr, h)
    BY Zenon DEF SupStep, SupNaturalEnd, SupStop, SupPark, SupSnapshot, SupSnapshotFails, SupKill,
                 SupMoveOut, SupTeardown, durable, Teardown
  <2>3. dir' = dir \/ \E d : dir' = [dir EXCEPT ![n] = d]
    BY Zenon DEF SupStep, SupNaturalEnd, SupStop, SupPark, SupSnapshot, SupSnapshotFails, SupKill,
                 SupMoveOut, SupTeardown, durable
  <2>4. sup' = sup \/ (\E pc : SetSup(n, pc)) \/ \E why : EndSup(n, why)
    BY Zenon DEF SupStep, SupNaturalEnd, SupStop, SupPark, SupSnapshot, SupSnapshotFails, SupKill,
                 SupMoveOut, SupTeardown
  <2> QED BY <2>1, <2>2, <2>3, <2>4, Zenon
<1>7. /\ \A m \in Names \ {n} : dir'[m] = dir[m]
      /\ \A m \in Names \ {n} : sup'[m] = sup[m]
      /\ \A b \in Addrs \ {vms[n].addr} : host'[b] = host[b]
  <2>1. \A m \in Names \ {n} : dir'[m] = dir[m]
    BY <1>1, <1>6
  <2>2. \A m \in Names \ {n} : sup'[m] = sup[m]
    BY <1>1, <1>6 DEF SetSup, EndSup
  <2>3. \A b \in Addrs \ {vms[n].addr} : host'[b] = host[b]
    BY <1>1, <1>6 DEF SetHost
  <2> QED BY <2>1, <2>2, <2>3
<1>8. sup'[n].pc \in {"teardown", "end"} /\ sup'[n].reason = "parked" => dir'[n] \in Whole
  <2>1. CASE SupNaturalEnd(n) \/ SupStop(n)
    <3>1. EndSup(n, "exited") \/ EndSup(n, "forced")
      BY <2>1, Zenon DEF SupNaturalEnd, SupStop
    <3> QED BY <1>1, <3>1 DEF EndSup
  <2>2. CASE SupPark(n) \/ SupSnapshot(n) \/ SupKill(n)
    <3>1. \/ sup' = sup /\ sup[n].pc = "watch"
          \/ SetSup(n, "snapshot") \/ SetSup(n, "kill") \/ SetSup(n, "moveout")
      BY <2>2, Zenon DEF SupPark, SupSnapshot, SupKill
    <3> QED BY <1>1, <3>1 DEF SetSup, Sup
  <2>3. CASE SupSnapshotFails(n)
    <3>1. SetSup(n, "watch") \/ EndSup(n, "forced")
      BY <2>3, Zenon DEF SupSnapshotFails
    <3> QED BY <1>1, <3>1 DEF SetSup, EndSup, Sup
  <2>4. CASE SupMoveOut(n)
    <3>1. dir' = [dir EXCEPT ![n] = "full"]
      BY <2>4, Zenon DEF SupMoveOut, Fault
    <3> QED BY <1>1, <3>1 DEF Whole
  <2>5. CASE SupTeardown(n)
    <3>1. sup[n].pc = "teardown" /\ SetSup(n, "end") /\ dir' = dir
      BY <2>5, Zenon DEF SupTeardown
    <3>2. sup'[n].reason = sup[n].reason
      BY <1>1, <3>1 DEF SetSup, Sup
    <3> QED BY <1>2, <3>1, <3>2 DEF Snap
  <2> QED BY <2>1, <2>2, <2>3, <2>4, <2>5, Zenon DEF SupStep
<1> QED BY <1>4, <1>5, <1>6, <1>7, <1>8, SnapSettles, Zenon

(* The end of a VM, rm, and the look at a record. *)
LEMMA SnapVmEnds ==
  ASSUME IInv, SnapInv, "store" \notin Faults, "disk" \notin Faults, NEW n \in Names,
         RecordEnd(n) \/ Remove(n) \/ BootStep(n)
  PROVE  SnapInv'
<1>1. /\ vms \in [Names -> Entry] /\ store \in [Names -> Entry] /\ sup \in [Names -> Sup]
      /\ dir \in [Names -> DirState] /\ vms[n] \in Entry /\ store[n] \in Entry
  BY DEF IInv, TypeOK
<1>2. Snap(n)
  BY Zenon DEF SnapInv
<1>3. ASSUME NEW e, vms' = [vms EXCEPT ![n] = e]
      PROVE  vms'[n] = e /\ \A m \in Names \ {n} : vms'[m] = vms[m]
  BY <1>1, <1>3, Zenon
<1>4. ASSUME NEW e, store' = [store EXCEPT ![n] = e]
      PROVE  store'[n] = e /\ \A m \in Names \ {n} : store'[m] = store[m]
  BY <1>1, <1>4, Zenon
<1>5. vms[n].st # "starting" => task[n].pc = "idle"
  BY Zenon DEF IInv, SInv, Owners
<1>6. ~IsParked(Absent) /\ NoSup.pc = "none" /\ Watch.pc = "watch"
  BY DEF IsParked, Absent, NoSup, Watch
<1>7. \A e \in Entry : \A why : IsParked(Ended(e, why)) <=> why = "parked"
  BY DEF IsParked, Ended, Entry
<1>8. CASE RecordEnd(n)
  <2>1. /\ sup[n].pc = "end" /\ sup' = [sup EXCEPT ![n] = NoSup]
        /\ UNCHANGED <<node, todo, task, dir, host>>
        /\ vms' = [vms EXCEPT ![n] = Ended(vms[n], sup[n].reason)]
        /\ store' = [store EXCEPT ![n] = Ended(store[n], sup[n].reason)]
    BY <1>8, Zenon DEF RecordEnd, Fault
  <2>2. vms[n].st = "running"
    BY <2>1, Zenon DEF IInv, SInv, Owners
  <2>3. n \notin todo /\ node # "down" /\ task[n].pc = "idle"
    BY <1>5, <2>2 DEF IInv, SInv, Boots
  <2>4. sup'[n] = NoSup /\ \A m \in Names \ {n} : sup'[m] = sup[m]
    BY <1>1, <2>1, Zenon
  <2>5. /\ vms'[n] = Ended(vms[n], sup[n].reason) /\ store'[n] = Ended(store[n], sup[n].reason)
        /\ \A m \in Names \ {n} : vms'[m] = vms[m] /\ store'[m] = store[m]
    BY <1>3, <1>4, <2>1, Zenon
  <2>6. /\ IsParked(vms'[n]) <=> sup[n].reason = "parked"
        /\ IsParked(store'[n]) <=> sup[n].reason = "parked"
    <3>1. /\ IsParked(Ended(vms[n], sup[n].reason)) <=> sup[n].reason = "parked"
          /\ IsParked(Ended(store[n], sup[n].reason)) <=> sup[n].reason = "parked"
      BY <1>1, <1>7
    <3> QED BY <2>5, <3>1
  <2>7. sup[n].reason = "parked" => dir[n] \in Whole
    BY <1>2, <2>1, Zenon DEF Snap
  <2>8. sup'[n].pc \notin {"teardown", "end"}
    BY <1>6, <2>4
  <2> QED BY <2>1, <2>3, <2>4, <2>5, <2>6, <2>7, <2>8, SnapSettles, Zenon
<1>9. CASE Remove(n)
  <2>1. /\ vms[n].st = "ended" /\ UNCHANGED <<node, todo, task, sup, host>>
        /\ node \in {"ready", "stopping"}
        /\ vms' = [vms EXCEPT ![n] = Absent] /\ store' = [store EXCEPT ![n] = Absent]
        /\ \E d : dir' = [dir EXCEPT ![n] = d]
    BY <1>9, Zenon DEF Remove, Fault
  <2>2. n \notin todo /\ node # "down" /\ task[n].pc = "idle" /\ sup[n].pc = "none"
    BY <1>5, <2>1 DEF IInv, SInv, Boots, Owners
  <2>3. /\ vms'[n] = Absent /\ store'[n] = Absent
        /\ \A m \in Names \ {n} : vms'[m] = vms[m] /\ store'[m] = store[m]
    BY <1>3, <1>4, <2>1, Zenon
  <2>4. \A m \in Names \ {n} : dir'[m] = dir[m]
    BY <1>1, <2>1, Zenon
  <2>5. sup'[n].pc \notin {"teardown", "end"}
    BY <2>1, <2>2
  <2> QED BY <1>6, <2>1, <2>2, <2>3, <2>4, <2>5, SnapSettles, Zenon
<1>10. CASE BootStep(n)
  <2>1. /\ node = "boot" /\ n \in todo /\ UNCHANGED <<node, task, dir>> /\ todo' = todo \ {n}
        /\ sup' = sup \/ sup' = [sup EXCEPT ![n] = Watch]
        /\ \/ store' = store /\ vms' = [vms EXCEPT ![n] = store[n]]
           \/ /\ store' = [store EXCEPT ![n] = Ended(store[n], "agent_down")]
              /\ vms' = [vms EXCEPT ![n] = Ended(store[n], "agent_down")]
    <3>1. CASE ReconcileEnded(n)
      BY <3>1, Zenon DEF ReconcileEnded, durable
    <3>2. CASE Adopt(n)
      BY <3>2, Zenon DEF Adopt
    <3>3. CASE ReconcileDead(n)
      BY <3>3, Zenon DEF ReconcileDead, Fault
    <3> QED BY <1>10, <3>1, <3>2, <3>3, Zenon DEF BootStep
  <2>2. vms[n].st = "absent"
    BY <2>1, Zenon DEF IInv, SInv, Boots
  <2>3. task[n].pc = "idle" /\ sup[n].pc = "none"
    BY <1>5, <2>2, Zenon DEF IInv, SInv, Owners
  <2>4. /\ sup'[n].pc \notin {"teardown", "end"} /\ \A m \in Names \ {n} : sup'[m] = sup[m]
    BY <1>1, <1>6, <2>1, <2>3
  <2>5. /\ \/ vms'[n] = store[n] /\ store'[n] = store[n]
           \/ vms'[n] = Ended(store[n], "agent_down") /\ store'[n] = vms'[n]
        /\ \A m \in Names \ {n} : vms'[m] = vms[m] /\ store'[m] = store[m]
    BY <1>3, <1>4, <2>1, Zenon
  <2>6. ~IsParked(Ended(store[n], "agent_down"))
    BY <1>1, <1>7
  <2>7. IsParked(store[n]) => dir[n] \in Whole
    BY <1>2, <2>1, Zenon DEF Snap
  <2>8. /\ IsParked(vms'[n]) => dir'[n] \in Whole
        /\ IsParked(store'[n]) => IsParked(vms'[n])
    BY <2>1, <2>5, <2>6, <2>7, Zenon
  <2>9. n \notin todo' /\ node # "down"
    BY <2>1
  <2> QED BY <2>1, <2>3, <2>4, <2>5, <2>8, <2>9, SnapSettles, Zenon
<1> QED BY <1>8, <1>9, <1>10, Zenon


(* Every step but those of KilledHoldingSnapshot. *)
LEMMA SnapNext ==
  ASSUME "store" \notin Faults, "disk" \notin Faults,
         IInv, SnapInv, [Next]_vars, [~KilledHoldingSnapshot]_vars
  PROVE  SnapInv'
<1>1. ASSUME NEW n \in Names, StartStep(n) \/ WakeStep(n) PROVE SnapInv'
  BY <1>1, SnapBegins, SnapStartStep, SnapWakeStep, SnapTaskEnds, Zenon DEF StartStep, WakeStep
<1>2. ASSUME NEW n \in Names, SupStep(n) \/ BootStep(n) \/ Remove(n) PROVE SnapInv'
  BY <1>2, SnapSupStep, SnapVmEnds, Zenon
<1>3. node # "down" /\ Die => ~KilledHoldingSnapshot
  <2>1. node # "down" /\ Die => vars' # vars
    BY DEF Die, vars
  <2> QED BY <2>1, Zenon
<1>4. ASSUME NEW n \in Names, CrashInRemove(n) PROVE SnapInv'
  <2>1. node # "down" /\ Die
    BY <1>4 DEF CrashInRemove
  <2> QED BY <1>3, <1>4, <2>1, Zenon DEF KilledHoldingSnapshot
<1>5. CASE Exit
  <2>1. /\ node # "down" /\ Die /\ UNCHANGED <<store, dir>>
        /\ \A n \in Names : vms[n].st # "starting"
    BY <1>5 DEF Exit, durable
  <2>2. \A n \in Names : task[n].pc = "idle"
    BY <2>1, Zenon DEF IInv, SInv, Owners
  <2> QED BY <2>1, <2>2, SnapDied
<1>6. CASE Crash
  <2>1. node # "down" /\ Die /\ UNCHANGED <<store, dir>>
    BY <1>6 DEF Crash, durable, Up
  <2>2. \A n \in Names : task[n].pc \notin {"load", "back", "woken"}
    BY <1>3, <1>6, <2>1, Zenon DEF KilledHoldingSnapshot
  <2> QED BY <2>1, <2>2, SnapDied, Zenon
<1>7. ASSUME NEW a \in Addrs, GuestEnds(a) PROVE SnapInv'
  <2>1. /\ UNCHANGED <<vms, task, sup, store, dir, todo, node>>
        /\ host' = [host EXCEPT ![a] = [host[a] EXCEPT !.vmm = "dead"]]
    BY <1>7, Zenon DEF GuestEnds, SetHost, volatile
  <2>2. host \in [Addrs -> HostState]
    BY DEF IInv, TypeOK
  <2>3. [host[a] EXCEPT !.vmm = "dead"].files = host[a].files
    BY <2>2 DEF HostState
  <2>4. \A b \in Addrs : host'[b].files = host[b].files
    BY <2>1, <2>2, <2>3, Zenon
  <2>5. \A n \in Names : task[n].pc \in {"load", "back"} => vms[n].addr \in Addrs
    BY DEF IInv, SInv, Owners, Shapes, AddrShape
  <2> QED BY <2>1, <2>4, <2>5, SnapStill, Zenon
<1>8. ASSUME NEW a \in Addrs, Sweep(a) PROVE SnapInv'
  <2>1. UNCHANGED <<vms, task, sup, store, dir, todo, node>> /\ node = "boot"
    BY <1>8, Zenon DEF Sweep, volatile
  <2>2. \A n \in Names : task[n].pc = "idle"
    BY <2>1, Zenon DEF IInv, SInv, Owners, Boots
  <2>3. \A n \in Names : task[n].pc \notin {"load", "back"}
    BY <2>2
  <2> QED BY <2>1, <2>3, SnapStill, Zenon
<1>9. CASE Shutdown \/ Ready \/ UNCHANGED vars
  <2>1. UNCHANGED <<vms, task, sup, store, dir, todo, host>>
    BY <1>9, Zenon DEF Shutdown, Ready, durable, vars
  <2>2. node' = "down" <=> node = "down"
    BY <1>9 DEF Shutdown, Ready, vars
  <2> QED BY <2>1, <2>2, SnapStill, Zenon
<1> QED
  BY <1>1, <1>2, <1>4, <1>5, <1>6, <1>7, <1>8, <1>9, SnapBoot, Zenon DEF Next

(* A VM that the agent has as parked holds its whole snapshot: through parks *)
(* and wakes that fail at any step, starts of other VMs, guests that die,    *)
(* lost answers, shutdowns and crashes (Vm::wake, put_back, reconcile), as   *)
(* long as the disk and the database work and the agent is not killed in a   *)
(* wake that has the files in the jail, nor in rm.                           *)
THEOREM SnapshotsKept ==
  ASSUME "store" \notin Faults, "disk" \notin Faults
  PROVE  Spec /\ [][~KilledHoldingSnapshot]_vars => []ParkedHoldsSnapshot
<1>1. Init => SnapInv
  <2>1. SUFFICES ASSUME Init, NEW n \in Names PROVE Snap(n)
    BY Zenon DEF SnapInv
  <2>2. vms[n] = Absent /\ store[n] = Absent /\ task[n] = Idle /\ sup[n] = NoSup
    BY <2>1, Zenon DEF Init
  <2>3. ~IsParked(Absent) /\ Idle.pc = "idle" /\ NoSup.pc = "none"
    BY DEF IsParked, Absent, Idle, NoSup
  <2>4. "idle" \notin StartPcs \cup WakePcs
    BY DEF StartPcs, WakePcs
  <2> QED BY <2>2, <2>3, <2>4 DEF Snap
<1>2. IInv /\ SnapInv /\ [Next]_vars /\ [~KilledHoldingSnapshot]_vars => SnapInv'
  BY SnapNext, Zenon
<1>3. SnapInv => ParkedHoldsSnapshot
  BY Zenon DEF SnapInv, Snap, ParkedHoldsSnapshot, Whole
<1> QED BY <1>1, <1>2, <1>3, Inductive, PTL DEF Spec
=============================================================================
