------------------------- MODULE NodeAgentInvariant -------------------------
(* The inductive invariant of NodeAgent, for any number of names, VM         *)
(* addresses, processes and logs and whatever faults happen, and the safety  *)
(* that follows from it. First comes what the updates the actions are made   *)
(* of do to the state, then the kinds of change a start or wake makes with   *)
(* one lemma for each action or family of actions, then the same for the     *)
(* supervisors, ends, deaths and the reconciliation; and last, on top of it, *)
(* the console logs.                                                         *)
EXTENDS NodeAgent, TLAPS

(* Where a start or wake has a VMM, and where it has none. *)
VmmPcs == {"boot", "booted", "recorded", "unwind", "move", "load", "woken", "wrecorded",
           "back", "wunwind"}
RecordedPcs == {"recorded", "wrecorded"}

Nothing == {NoHost, Remains}

(* An address is in an entry or record exactly while its VM starts or runs. *)
AddrShape(e) ==
  /\ e.st \in {"starting", "running"} => e.addr \in Addrs
  /\ e.st \in {"absent", "ended"} => e.addr = NoAddr

Shapes ==
  \A n \in Names :
    /\ AddrShape(vms[n])
    /\ AddrShape(store[n]) /\ store[n].st # "starting"
    /\ AddrShape(task[n].old) /\ task[n].old.st \in {"absent", "ended"}
    /\ store[n].st = "running" => store[n].pid \in Pids

(* An entry is starting exactly while its task runs, running exactly while   *)
(* its supervisor does.                                                      *)
Owners ==
  \A n \in Names :
    /\ task[n].pc # "idle" <=> vms[n].st = "starting"
    /\ sup[n].pc # "none" <=> vms[n].st = "running"

(* Where the agent is between a crash and its socket. *)
Boots ==
  /\ node = "down" => \A n \in Names : vms[n].st = "absent"
  /\ node = "boot" => \A n \in Names : vms[n].st # "starting"
  /\ \A n \in todo : node = "boot" /\ vms[n].st = "absent"

(* A start or wake that is on record is there with what it will run as. *)
TaskRecorded ==
  \A n \in Names : task[n].pc \in RecordedPcs => store[n] = Running(vms[n], task[n].pid)

(* No two VMs have one VMM process. *)
PidsApart ==
  \A n, m \in Names : n # m =>
    /\ task[n].pid # NoPid => task[n].pid # task[m].pid /\ task[n].pid # store[m].pid
    /\ store[n].pid # NoPid => store[n].pid # store[m].pid

(* The VMM at the address of a VM that starts or runs is that VM's. *)
HostOf(n) ==
  /\ task[n].pc \in VmmPcs =>
       task[n].pid \in Pids /\ host[vms[n].addr].pid = task[n].pid
  /\ task[n].pc \notin VmmPcs \cup {"idle"} => host[vms[n].addr] \in Nothing
  /\ sup[n].pc \notin {"none", "end"} => host[vms[n].addr].pid = vms[n].pid
  /\ sup[n].pc = "end" => host[vms[n].addr] \in Nothing

HostOfHolder == \A n \in Names : HostOf(n)

NoVmmNoState == \A a \in Addrs : host[a].pid = NoPid => host[a] \in Nothing

(* A record's VMM that is still there is being looked after, or will be once *)
(* the agent is up again.                                                    *)
RecordedVmmKnown ==
  \A n \in Names :
    store[n].st = "running" /\ host[store[n].addr].pid = store[n].pid =>
      \/ node = "down" \/ n \in todo \/ vms[n].st = "running"
      \/ task[n].pc \in RecordedPcs

SInv ==
  /\ Shapes /\ Owners /\ Boots
  /\ RunningIsRecorded /\ TaskRecorded /\ PidsApart
  /\ AddressHeldOnce /\ HostOfHolder /\ NoVmmNoState /\ HostStateOwned
  /\ RecordedVmmKnown

IInv == TypeOK /\ SInv
-----------------------------------------------------------------------------
(* What the updates of the actions do to each variable's type.               *)
LEMMA EntryTypes ==
  /\ Absent \in Entry /\ Idle \in Task /\ Watch \in Sup /\ NoSup \in Sup
  /\ NoHost \in HostState /\ Remains \in HostState
  /\ \A e \in Entry, q \in Pids \cup {NoPid} : Running(e, q) \in Entry
  /\ \A e \in Entry, why \in Reasons :
       /\ Ended(e, why) \in Entry
       /\ Ended(e, why).st = "ended" /\ Ended(e, why).addr = NoAddr
       /\ Ended(e, why).pid = NoPid
<1>1. Absent \in Entry /\ Watch \in Sup /\ NoSup \in Sup
  BY MaxLogAssumption
     DEF Absent, Entry, Watch, NoSup, Sup, Reasons, NoAddr, NoPid, NoLog
<1>2. Idle \in Task
  BY <1>1 DEF Idle, Task
<1>3. NoHost \in HostState /\ Remains \in HostState
  BY DEF NoHost, Remains, HostState
<1>4. ASSUME NEW e \in Entry, NEW q \in Pids \cup {NoPid} PROVE Running(e, q) \in Entry
  BY <1>4, Zenon DEF Entry, Running
<1>5. ASSUME NEW e \in Entry, NEW why \in Reasons
      PROVE  /\ Ended(e, why) \in Entry
             /\ Ended(e, why).st = "ended" /\ Ended(e, why).addr = NoAddr
             /\ Ended(e, why).pid = NoPid
  BY <1>5, Zenon DEF Entry, Ended
<1> QED BY <1>1, <1>2, <1>3, <1>4, <1>5

(* What setting the program counter of one task leaves alone.                *)
LEMMA SetPcEffect ==
  ASSUME TypeOK, NEW n \in Names, NEW pc \in StartPcs \cup WakePcs, SetPc(n, pc)
  PROVE  /\ task' \in [Names -> Task]
         /\ task'[n].pc = pc /\ task'[n].pid = task[n].pid /\ task'[n].old = task[n].old
         /\ \A m \in Names \ {n} : task'[m] = task[m]
BY DEF TypeOK, SetPc, Task

(* What setting the state of one address leaves alone.                       *)
LEMMA SetHostEffect ==
  ASSUME TypeOK, NEW a \in Addrs, NEW h \in HostState, SetHost(a, h)
  PROVE  /\ host' \in [Addrs -> HostState]
         /\ host'[a] = h /\ \A b \in Addrs \ {a} : host'[b] = host[b]
BY DEF TypeOK, SetHost

(* An address whose state is set to what it is.                              *)
LEMMA HostKept ==
  ASSUME TypeOK, NEW a \in Addrs, UNCHANGED host
  PROVE  SetHost(a, host[a]) /\ host[a] \in HostState
BY DEF TypeOK, SetHost

(* What fixed values say: no process where there is nothing, a supervisor    *)
(* begins by watching, and an absent VM has no address.                      *)
LEMMA FixedFields ==
  /\ \A h \in Nothing : h.pid = NoPid
  /\ NoHost.pid = NoPid /\ Watch.pc = "watch"
  /\ Absent.st = "absent" /\ Absent.addr = NoAddr /\ Idle.old = Absent
BY DEF Nothing, NoHost, Remains, Watch, Absent, Idle
-----------------------------------------------------------------------------
(* The kinds of change: a start or wake begins, spawns its VMM, moves on,    *)
(* records it and hands it to a supervisor.                                  *)

(* A start or wake goes on with the VMM it has, still has none, or has given *)
(* it up.                                                                    *)
LEMMA TaskStep ==
  ASSUME IInv, TypeOK', NEW n \in Names,
         UNCHANGED <<node, todo, vms, sup, store>>,
         task[n].pc \notin RecordedPcs \cup {"idle"},
         task'[n].pc \notin RecordedPcs \cup {"idle"},
         task'[n].pid = task[n].pid, task'[n].old = task[n].old,
         \A m \in Names \ {n} : task'[m] = task[m],
         \A b \in Addrs \ {vms[n].addr} : host'[b] = host[b],
         \/ /\ task[n].pc \in VmmPcs /\ task'[n].pc \in VmmPcs
            /\ host'[vms[n].addr].pid = host[vms[n].addr].pid
         \/ task'[n].pc \notin VmmPcs /\ host'[vms[n].addr] \in Nothing
  PROVE  SInv'
<1>1. vms[n].st = "starting" /\ vms[n].addr \in Addrs
  BY DEF IInv, SInv, Owners, Shapes, AddrShape
<1>2. Shapes'
  BY DEF IInv, SInv, Shapes, AddrShape
<1>3. Owners'
  BY DEF IInv, SInv, Owners
<1>4. Boots'
  BY DEF IInv, SInv, Boots
<1>5. RunningIsRecorded' /\ AddressHeldOnce'
  BY Zenon DEF IInv, SInv, RunningIsRecorded, AddressHeldOnce, Holds
<1>6. TaskRecorded'
  BY ZenonT(60) DEF IInv, SInv, TaskRecorded, Running
<1>7. PidsApart'
  BY DEF IInv, SInv, PidsApart
<1>8. HostOfHolder'
  <2>1. ASSUME NEW m \in Names \ {n}, Holds(m)
        PROVE  vms[m].addr \in Addrs \ {vms[n].addr}
    BY <1>1, <2>1 DEF IInv, SInv, Shapes, AddrShape, AddressHeldOnce, Holds
  <2>2. ASSUME NEW m \in Names \ {n} PROVE HostOf(m)'
    <3>1. CASE Holds(m)
      BY <2>1, <3>1 DEF IInv, SInv, HostOfHolder, HostOf
    <3>2. CASE ~Holds(m)
      BY <3>2 DEF IInv, SInv, Owners, Holds, VmmPcs, HostOf
    <3> QED BY <3>1, <3>2
  <2>3. HostOf(n)'
    BY <1>1 DEF IInv, SInv, HostOfHolder, HostOf, Owners
  <2> QED BY <2>2, <2>3 DEF HostOfHolder
<1>9. NoVmmNoState'
  BY <1>1, PidsAssumption DEF IInv, SInv, NoVmmNoState, HostOfHolder, HostOf, NoPid
<1>10. HostStateOwned'
  BY <1>1 DEF IInv, SInv, HostStateOwned, Serving, Holds, HostOfHolder, HostOf, Nothing
<1>11. RecordedVmmKnown'
  <2>1. \A b \in Addrs : host'[b].pid \in {host[b].pid, NoPid}
    BY <1>1 DEF Nothing, NoHost, Remains
  <2>2. \A m \in Names : store[m].st = "running" =>
                          store[m].addr \in Addrs /\ store[m].pid # NoPid
    BY PidsAssumption DEF IInv, SInv, Shapes, AddrShape, NoPid
  <2>3. RecordedVmmKnown
    BY DEF IInv, SInv
  <2> QED BY <2>1, <2>2, <2>3 DEF RecordedVmmKnown
<1> QED BY <1>2, <1>3, <1>4, <1>5, <1>6, <1>7, <1>8, <1>9, <1>10, <1>11 DEF SInv

(* A start or wake begins at a free address. *)
LEMMA BeginTask ==
  ASSUME IInv, TypeOK', NEW n \in Names, NEW a \in Addrs,
         UNCHANGED <<node, todo, sup, store, host>>,
         node = "ready", vms[n].st \in {"absent", "ended"}, FreeAddr(a),
         vms'[n].st = "starting", vms'[n].addr = a,
         \A m \in Names \ {n} : vms'[m] = vms[m] /\ task'[m] = task[m],
         task'[n].pc \in {"start", "wake"}, task'[n].pid = NoPid, task'[n].old = vms[n]
  PROVE  SInv'
<1>1. \A m \in Names : vms[m].addr # a
  BY DEF FreeAddr
<1>2. Shapes'
  BY AddrsAssumption DEF IInv, SInv, Shapes, AddrShape
<1>3. Owners'
  BY DEF IInv, SInv, Owners
<1>4. Boots'
  BY DEF IInv, SInv, Boots
<1>5. RunningIsRecorded' /\ AddressHeldOnce'
  <2>1. RunningIsRecorded'
    BY DEF IInv, SInv, RunningIsRecorded
  <2>2. AddressHeldOnce'
    BY <1>1 DEF IInv, SInv, AddressHeldOnce, Holds
  <2> QED BY <2>1, <2>2
<1>6. TaskRecorded'
  BY Zenon DEF IInv, SInv, TaskRecorded, Running, RecordedPcs
<1>7. PidsApart'
  BY DEF IInv, SInv, PidsApart
<1>8. HostOfHolder'
  BY <1>1 DEF IInv, SInv, HostOfHolder, HostOf, HostStateOwned, Serving, Nothing, Owners, VmmPcs
<1>9. NoVmmNoState'
  BY DEF IInv, SInv, NoVmmNoState
<1>10. HostStateOwned'
  BY <1>1 DEF IInv, SInv, HostStateOwned, Serving, Holds
<1>11. RecordedVmmKnown'
  BY DEF IInv, SInv, RecordedVmmKnown, Owners, RecordedPcs
<1> QED BY <1>2, <1>3, <1>4, <1>5, <1>6, <1>7, <1>8, <1>9, <1>10, <1>11 DEF SInv

(* host_steps spawns a VMM at an address with nothing on it. *)
LEMMA VmmSpawned ==
  ASSUME IInv, TypeOK', NEW n \in Names, NEW p \in Pids,
         UNCHANGED <<node, todo, vms, sup, store>>,
         task[n].pc \notin RecordedPcs \cup {"idle"},
         task'[n].pc \in VmmPcs \ RecordedPcs,
         task'[n].pid = p, task'[n].old = task[n].old,
         \A m \in Names \ {n} : task'[m] = task[m],
         \A b \in Addrs \ {vms[n].addr} : host'[b] = host[b],
         host'[vms[n].addr].pid = p, FreshPid(p)
  PROVE  SInv'
<1>1. /\ vms[n].st = "starting" /\ vms[n].addr \in Addrs
      /\ task'[n].pc # "idle"
      /\ \A m \in Names : store[m].pid # p /\ task[m].pid # p
  BY DEF IInv, SInv, Owners, Shapes, AddrShape, FreshPid, VmmPcs
<1>2. Shapes'
  BY DEF IInv, SInv, Shapes, AddrShape
<1>3. Owners'
  BY <1>1 DEF IInv, SInv, Owners
<1>4. Boots'
  BY DEF IInv, SInv, Boots
<1>5. RunningIsRecorded' /\ AddressHeldOnce'
  BY Zenon DEF IInv, SInv, RunningIsRecorded, AddressHeldOnce, Holds
<1>6. TaskRecorded'
  BY Zenon DEF IInv, SInv, TaskRecorded, Running
<1>7. PidsApart'
  BY <1>1 DEF IInv, SInv, PidsApart
<1>8. HostOfHolder'
  <2>1. ASSUME NEW m \in Names \ {n}, Holds(m)
        PROVE  vms[m].addr \in Addrs \ {vms[n].addr}
    BY <1>1, <2>1 DEF IInv, SInv, Shapes, AddrShape, AddressHeldOnce, Holds
  <2>2. ASSUME NEW m \in Names \ {n} PROVE HostOf(m)'
    <3>1. CASE Holds(m)
      BY <2>1, <3>1 DEF IInv, SInv, HostOfHolder, HostOf
    <3>2. CASE ~Holds(m)
      BY <3>2 DEF IInv, SInv, Owners, Holds, VmmPcs, HostOf
    <3> QED BY <3>1, <3>2
  <2>3. HostOf(n)'
    BY <1>1 DEF IInv, SInv, HostOf, Owners
  <2> QED BY <2>2, <2>3 DEF HostOfHolder
<1>9. NoVmmNoState'
  BY <1>1, PidsAssumption DEF IInv, SInv, NoVmmNoState, NoPid
<1>10. HostStateOwned'
  BY <1>1 DEF IInv, SInv, HostStateOwned, Serving, Holds
<1>11. RecordedVmmKnown'
  BY <1>1 DEF IInv, SInv, RecordedVmmKnown, Shapes, AddrShape
<1> QED BY <1>2, <1>3, <1>4, <1>5, <1>6, <1>7, <1>8, <1>9, <1>10, <1>11 DEF SInv

(* insert_running puts a start or wake on record. *)
LEMMA TaskOnRecord ==
  ASSUME IInv, TypeOK', NEW n \in Names,
         UNCHANGED <<node, todo, vms, sup, host>>,
         task[n].pc \in VmmPcs, task'[n].pc \in RecordedPcs,
         task'[n].pid = task[n].pid, task'[n].old = task[n].old,
         store'[n] = Running(vms[n], task[n].pid),
         \A m \in Names \ {n} : task'[m] = task[m] /\ store'[m] = store[m]
  PROVE  SInv'
<1>1. /\ vms[n].st = "starting" /\ vms[n].addr \in Addrs /\ task[n].pid \in Pids
      /\ task'[n].pc \in VmmPcs /\ task'[n].pc # "idle"
  BY DEF IInv, SInv, Owners, Shapes, AddrShape, HostOfHolder, HostOf, VmmPcs, RecordedPcs
<1>r. store'[n].st = "running" /\ store'[n].pid = task[n].pid /\ store'[n].addr = vms[n].addr
  BY DEF IInv, TypeOK, Entry, Running
<1>2. Shapes'
  BY <1>1, <1>r DEF IInv, SInv, Shapes, AddrShape
<1>3. Owners'
  BY <1>1 DEF IInv, SInv, Owners
<1>4. Boots'
  BY DEF IInv, SInv, Boots
<1>5. RunningIsRecorded' /\ AddressHeldOnce'
  BY <1>1 DEF IInv, SInv, RunningIsRecorded, AddressHeldOnce, Holds
<1>6. TaskRecorded'
  BY DEF IInv, SInv, TaskRecorded
<1>7. PidsApart'
  BY <1>r DEF IInv, SInv, PidsApart
<1>8. HostOfHolder'
  BY <1>1 DEF IInv, SInv, HostOfHolder, HostOf
<1>9. NoVmmNoState'
  BY DEF IInv, SInv, NoVmmNoState
<1>10. HostStateOwned'
  BY DEF IInv, SInv, HostStateOwned, Serving, Holds
<1>11. RecordedVmmKnown'
  BY DEF IInv, SInv, RecordedVmmKnown
<1> QED BY <1>2, <1>3, <1>4, <1>5, <1>6, <1>7, <1>8, <1>9, <1>10, <1>11, Zenon DEF SInv

(* start_supervising takes over the VM of a start or wake on record. *)
LEMMA Supervised ==
  ASSUME IInv, TypeOK', NEW n \in Names,
         UNCHANGED <<node, todo, store, host>>,
         task[n].pc \in RecordedPcs,
         vms'[n] = Running(vms[n], task[n].pid), task'[n] = Idle, sup'[n] = Watch,
         \A m \in Names \ {n} : vms'[m] = vms[m] /\ task'[m] = task[m] /\ sup'[m] = sup[m]
  PROVE  SInv'
<1>1. /\ vms[n].st = "starting" /\ vms[n].addr \in Addrs
      /\ store[n] = vms'[n] /\ task[n].pc \in VmmPcs
  BY DEF IInv, SInv, Owners, Shapes, AddrShape, TaskRecorded, VmmPcs, RecordedPcs
<1>r. vms'[n].st = "running" /\ vms'[n].pid = task[n].pid /\ vms'[n].addr = vms[n].addr
  BY DEF IInv, TypeOK, Entry, Running
<1>i. /\ task'[n].pc = "idle" /\ task'[n].pid = NoPid
      /\ task'[n].old.st = "absent" /\ task'[n].old.addr = NoAddr
      /\ sup'[n].pc = "watch"
  BY DEF Idle, Absent, Watch
<1>2. Shapes'
  BY <1>1, <1>r, <1>i DEF IInv, SInv, Shapes, AddrShape
<1>3. Owners'
  BY <1>r, <1>i DEF IInv, SInv, Owners
<1>4. Boots'
  BY <1>1, <1>r DEF IInv, SInv, Boots
<1>5. RunningIsRecorded' /\ AddressHeldOnce'
  BY <1>1, <1>r DEF IInv, SInv, RunningIsRecorded, AddressHeldOnce, Holds
<1>6. TaskRecorded'
  BY <1>i DEF IInv, SInv, TaskRecorded, RecordedPcs
<1>7. PidsApart'
  BY <1>i DEF IInv, SInv, PidsApart
<1>8. HostOfHolder'
  BY <1>1, <1>r, <1>i DEF IInv, SInv, HostOfHolder, HostOf, VmmPcs
<1>9. NoVmmNoState'
  BY DEF IInv, SInv, NoVmmNoState
<1>10. HostStateOwned'
  BY <1>1, <1>r, <1>i DEF IInv, SInv, HostStateOwned, Serving, Holds, HostOfHolder, HostOf
<1>11. RecordedVmmKnown'
  BY <1>r DEF IInv, SInv, RecordedVmmKnown
<1> QED BY <1>2, <1>3, <1>4, <1>5, <1>6, <1>7, <1>8, <1>9, <1>10, <1>11 DEF SInv
-----------------------------------------------------------------------------
(* The actions.                                                              *)

(* TaskStep for a step that sets a task's program counter and one address's  *)
(* host state, then for one that leaves the host alone.                      *)
LEMMA TaskGoes ==
  ASSUME IInv, NEW n \in Names, NEW pc \in (StartPcs \cup WakePcs) \ RecordedPcs,
         NEW h \in HostState,
         UNCHANGED <<node, todo, vms, sup, nextLog, store>>,
         dir' \in [Names -> DirState], logs' = logs,
         task[n].pc \notin RecordedPcs \cup {"idle"},
         SetPc(n, pc), SetHost(vms[n].addr, h),
         \/ pc \in VmmPcs /\ task[n].pc \in VmmPcs /\ h.pid = host[vms[n].addr].pid
         \/ pc \notin VmmPcs /\ h \in Nothing
  PROVE  IInv'
<1>1. vms[n].addr \in Addrs
  BY DEF IInv, SInv, Owners, Shapes, AddrShape
<1>2. /\ task' \in [Names -> Task]
      /\ task'[n].pc = pc /\ task'[n].pid = task[n].pid /\ task'[n].old = task[n].old
      /\ \A m \in Names \ {n} : task'[m] = task[m]
  BY SetPcEffect DEF IInv
<1>3. /\ host' \in [Addrs -> HostState] /\ host'[vms[n].addr] = h
      /\ \A b \in Addrs \ {vms[n].addr} : host'[b] = host[b]
  BY <1>1, SetHostEffect DEF IInv
<1>4. TypeOK'
  BY <1>2, <1>3 DEF IInv, TypeOK
<1>5. pc # "idle"
  BY Zenon DEF StartPcs, WakePcs
<1>6. SInv'
  BY <1>2, <1>3, <1>4, <1>5, TaskStep
<1> QED BY <1>4, <1>6 DEF IInv

(* TaskGoes for a step that leaves the host as it is.                        *)
LEMMA TaskGoesAlone ==
  ASSUME IInv, NEW n \in Names, NEW pc \in (StartPcs \cup WakePcs) \ RecordedPcs,
         UNCHANGED <<node, todo, vms, sup, nextLog, store, dir, logs, host>>,
         task[n].pc \notin RecordedPcs \cup {"idle"},
         SetPc(n, pc), pc \in VmmPcs <=> task[n].pc \in VmmPcs
  PROVE  IInv'
<1>1. vms[n].addr \in Addrs
  BY Zenon DEF IInv, SInv, Owners, Shapes, AddrShape
<1>2. /\ SetHost(vms[n].addr, host[vms[n].addr]) /\ host[vms[n].addr] \in HostState
      /\ dir' \in [Names -> DirState]
  BY <1>1, HostKept DEF IInv, TypeOK
<1>3. pc \notin VmmPcs => host[vms[n].addr] \in Nothing
  BY Zenon DEF IInv, SInv, HostOfHolder, HostOf
<1> QED BY <1>2, <1>3, TaskGoes, Zenon

(* run_vm claims a name and an address for a start.                          *)
LEMMA RunVmInv ==
  ASSUME IInv, NEW n \in Names, NEW h \in Hosts \cup {NoRoute}, NEW a \in Addrs, RunVm(n, h, a)
  PROVE  IInv'
<1> DEFINE e == [Absent EXCEPT !.st = "starting", !.addr = a, !.log = nextLog, !.host = h]
           t == [Idle EXCEPT !.pc = "start", !.old = vms[n]]
<1>1. e \in Entry /\ e.st = "starting" /\ e.addr = a
  <2>1. nextLog \in 0..MaxLog
    BY MaxLogAssumption DEF RunVm, IInv, TypeOK
  <2>2. ASSUME NEW f \in Entry, NEW k \in 0..MaxLog
        PROVE  LET g == [f EXCEPT !.st = "starting", !.addr = a, !.log = k, !.host = h]
               IN  g \in Entry /\ g.st = "starting" /\ g.addr = a
    BY Zenon DEF Entry
  <2> QED BY <2>1, <2>2, EntryTypes, Zenon
<1>2. t \in Task /\ t.pc = "start" /\ t.pid = NoPid /\ t.old = vms[n]
  BY EntryTypes, Zenon DEF IInv, TypeOK, Task, Idle, StartPcs
<1>3. /\ vms' = [vms EXCEPT ![n] = e] /\ task' = [task EXCEPT ![n] = t]
      /\ nextLog' \in 1..(MaxLog + 1)
      /\ UNCHANGED <<node, todo, sup, store, dir, logs, host>>
  BY MaxLogAssumption DEF RunVm, IInv, TypeOK, durable
<1> HIDE DEF e, t
<1>4. /\ vms' \in [Names -> Entry] /\ vms'[n] = e
      /\ task' \in [Names -> Task] /\ task'[n] = t
      /\ \A m \in Names \ {n} : vms'[m] = vms[m] /\ task'[m] = task[m]
  BY <1>1, <1>2, <1>3 DEF IInv, TypeOK
<1>5. TypeOK'
  BY <1>3, <1>4 DEF IInv, TypeOK
<1>6. SInv'
  BY <1>1, <1>2, <1>3, <1>4, <1>5, BeginTask, Zenon DEF RunVm
<1> QED BY <1>5, <1>6, Zenon DEF IInv

(* wake_vm claims an address for a parked App.                               *)
LEMMA WakeVmInv ==
  ASSUME IInv, NEW n \in Names, NEW a \in Addrs, WakeVm(n, a)
  PROVE  IInv'
<1> DEFINE e == [vms[n] EXCEPT !.st = "starting", !.addr = a, !.reason = "none"]
           t == [Idle EXCEPT !.pc = "wake", !.old = vms[n]]
<1>1. e \in Entry /\ e.st = "starting" /\ e.addr = a
  <2>1. ASSUME NEW f \in Entry
        PROVE  LET g == [f EXCEPT !.st = "starting", !.addr = a, !.reason = "none"]
               IN  g \in Entry /\ g.st = "starting" /\ g.addr = a
    BY Zenon DEF Entry, Reasons
  <2>2. vms[n] \in Entry
    BY DEF IInv, TypeOK
  <2> QED BY <2>1, <2>2, Zenon
<1>2. t \in Task /\ t.pc = "wake" /\ t.pid = NoPid /\ t.old = vms[n]
  BY EntryTypes, Zenon DEF IInv, TypeOK, Task, Idle, WakePcs
<1>3. /\ vms' = [vms EXCEPT ![n] = e] /\ task' = [task EXCEPT ![n] = t]
      /\ UNCHANGED <<node, todo, sup, nextLog, store, dir, logs, host>>
  BY DEF WakeVm, durable
<1> HIDE DEF e, t
<1>4. /\ vms' \in [Names -> Entry] /\ vms'[n] = e
      /\ task' \in [Names -> Task] /\ task'[n] = t
      /\ \A m \in Names \ {n} : vms'[m] = vms[m] /\ task'[m] = task[m]
  BY <1>1, <1>2, <1>3 DEF IInv, TypeOK
<1>5. TypeOK'
  BY <1>3, <1>4 DEF IInv, TypeOK
<1>6. SInv'
  BY <1>1, <1>2, <1>3, <1>4, <1>5, BeginTask, Zenon DEF WakeVm, IsParked
<1> QED BY <1>5, <1>6 DEF IInv

(* host_steps brings up the host side of a start or wake, or fails to.       *)
LEMMA HostUpInv ==
  ASSUME IInv, NEW n \in Names, NEW p \in Pids, StartHost(n, p) \/ WakeHost(n, p)
  PROVE  IInv'
<1> DEFINE h == [pid |-> p, vmm |-> "live", files |-> FALSE, ran |-> FALSE]
<1>1. PICK from \in {"start", "wake"}, to \in {"boot", "move"} : HostUp(n, from, to, p)
  BY DEF StartHost, WakeHost
<1>2. vms[n].addr \in Addrs /\ vms[n].log \in 0..MaxLog
  BY <1>1 DEF HostUp, IInv, SInv, TypeOK, Entry, Owners, Shapes, AddrShape
<1>3. /\ host' \in [Addrs -> HostState] /\ host'[vms[n].addr] = h
      /\ \A b \in Addrs \ {vms[n].addr} : host'[b] = host[b]
  <2>1. h \in HostState /\ SetHost(vms[n].addr, h)
    BY <1>1 DEF HostUp, HostState
  <2> QED BY <2>1, <1>2, SetHostEffect DEF IInv
<1>4. /\ task' \in [Names -> Task]
      /\ task'[n].pc = to /\ task'[n].pid = p /\ task'[n].old = task[n].old
      /\ \A m \in Names \ {n} : task'[m] = task[m]
  BY <1>1, Zenon DEF HostUp, IInv, TypeOK, Task, StartPcs, WakePcs
<1>5. logs' \subseteq Names \X (0..MaxLog)
  BY <1>1, <1>2 DEF HostUp, IInv, TypeOK
<1>6. /\ UNCHANGED <<node, todo, vms, sup, nextLog, store, dir>>
      /\ task[n].pc = from /\ FreshPid(p)
  BY <1>1 DEF HostUp
<1>7. TypeOK'
  BY <1>3, <1>4, <1>5, <1>6 DEF IInv, TypeOK
<1>8. from \notin RecordedPcs \cup {"idle"} /\ to \in VmmPcs \ RecordedPcs /\ h.pid = p
  BY DEF RecordedPcs, VmmPcs
<1>9. SInv'
  BY <1>3, <1>4, <1>6, <1>7, <1>8, VmmSpawned
<1> QED BY <1>7, <1>9 DEF IInv

(* A start's guest boots, or its start or a wake's host side fails.          *)
LEMMA StartGoesOn ==
  ASSUME IInv, NEW n \in Names, Booted(n) \/ StartFails(n) \/ WakeHostFails(n)
  PROVE  IInv'
<1>1. UNCHANGED <<node, todo, vms, sup, nextLog, store, dir, logs, host>>
  BY DEF Booted, StartFails, WakeHostFails, durable
<1>2. CASE Booted(n)
  BY <1>1, <1>2, TaskGoesAlone DEF Booted, VmmPcs, RecordedPcs, StartPcs
<1>3. CASE StartFails(n)
  <2>1. CASE task[n].pc = "boot"
    BY <1>1, <1>3, <2>1, TaskGoesAlone DEF StartFails, VmmPcs, RecordedPcs, StartPcs
  <2>2. CASE task[n].pc = "start"
    BY <1>1, <1>3, <2>2, TaskGoesAlone DEF StartFails, VmmPcs, RecordedPcs, StartPcs
  <2> QED BY <1>3, <2>1, <2>2 DEF StartFails
<1>4. CASE WakeHostFails(n)
  BY <1>1, <1>4, TaskGoesAlone DEF WakeHostFails, VmmPcs, RecordedPcs, WakePcs
<1> QED BY <1>2, <1>3, <1>4

(* Vm::teardown and Vm::destroy at the end of a start or wake. *)
LEMMA Unwound ==
  ASSUME IInv, NEW n \in Names, NEW pc \in {"failed", "wfailed", "wlost"},
         UNCHANGED <<node, todo, vms, sup, nextLog, store, dir, logs>>,
         task[n].pc \notin RecordedPcs \cup {"idle"},
         Teardown(vms[n].addr), SetPc(n, pc)
  PROVE  IInv'
<1>1. PICK h \in Nothing : SetHost(vms[n].addr, h)
  BY DEF Teardown, Nothing
<1>2. /\ h \in HostState /\ pc \in (StartPcs \cup WakePcs) \ RecordedPcs /\ pc \notin VmmPcs
      /\ dir' \in [Names -> DirState]
  BY EntryTypes DEF Nothing, StartPcs, WakePcs, RecordedPcs, VmmPcs, IInv, TypeOK
<1> QED BY <1>1, <1>2, TaskGoes

(* A failed start or wake tears down what it had.                            *)
LEMMA UnwindInv ==
  ASSUME IInv, NEW n \in Names, StartUnwind(n) \/ WakeUnwind(n)
  PROVE  IInv'
<1>1. CASE StartUnwind(n)
  BY <1>1, Unwound DEF StartUnwind, RecordedPcs
<1>2. CASE WakeUnwind(n)
  BY <1>2, Unwound DEF WakeUnwind, RecordedPcs
<1> QED BY <1>1, <1>2

(* insert_running records a start or wake, or fails and unwinds it.          *)
LEMMA RecordStartInv ==
  ASSUME IInv, NEW n \in Names, RecordStart(n) \/ RecordWake(n)
  PROVE  IInv'
<1> DEFINE r == Running(vms[n], task[n].pid)
<1>1. task[n].pc \in {"booted", "woken"} /\ UNCHANGED <<node, todo, vms, sup, nextLog, dir, logs>>
  BY DEF RecordStart, RecordWake
<1>2. ASSUME NEW pc \in RecordedPcs, SetPc(n, pc), store' = [store EXCEPT ![n] = r], host' = host
      PROVE  IInv'
  <2>1. r \in Entry
    BY EntryTypes DEF IInv, TypeOK, Task
  <2> HIDE DEF r
  <2>2. /\ store' \in [Names -> Entry] /\ store'[n] = r
        /\ \A m \in Names \ {n} : store'[m] = store[m]
    BY <1>2, <2>1 DEF IInv, TypeOK
  <2>3. /\ task' \in [Names -> Task]
        /\ task'[n].pc = pc /\ task'[n].pid = task[n].pid /\ task'[n].old = task[n].old
        /\ \A m \in Names \ {n} : task'[m] = task[m]
    BY <1>2, SetPcEffect DEF IInv, RecordedPcs, StartPcs, WakePcs
  <2>4. TypeOK'
    BY <1>1, <1>2, <2>2, <2>3 DEF IInv, TypeOK
  <2>5. task[n].pc \in VmmPcs
    BY <1>1 DEF VmmPcs
  <2>6. SInv'
    BY <1>1, <1>2, <2>2, <2>3, <2>4, <2>5, TaskOnRecord DEF r
  <2> QED BY <2>4, <2>6 DEF IInv
<1>3. CASE RecordStart(n)
  <2>1. CASE store' = [store EXCEPT ![n] = r] /\ SetPc(n, "recorded")
    BY <1>2, <1>3, <2>1 DEF RecordStart, RecordedPcs
  <2>2. CASE SetPc(n, "unwind") /\ UNCHANGED store
    BY <1>1, <1>3, <2>2, TaskGoesAlone DEF RecordStart, VmmPcs, RecordedPcs, StartPcs
  <2> QED BY <1>3, <2>1, <2>2, Zenon DEF RecordStart
<1>4. CASE RecordWake(n)
  <2>1. CASE store' = [store EXCEPT ![n] = r] /\ SetPc(n, "wrecorded") /\ UNCHANGED host
    BY <1>2, <2>1 DEF RecordedPcs
  <2>2. CASE Teardown(vms[n].addr) /\ SetPc(n, "wlost") /\ UNCHANGED store
    BY <1>1, <2>2, Unwound DEF RecordedPcs
  <2> QED BY <1>4, <2>1, <2>2 DEF RecordWake
<1> QED BY <1>3, <1>4

(* start_supervising takes a recorded start or wake over.                    *)
LEMMA SupervisingInv ==
  ASSUME IInv, NEW n \in Names, StartSupervising(n) \/ WakeSupervising(n)
  PROVE  IInv'
<1> DEFINE r == Running(vms[n], task[n].pid)
<1>1. /\ task[n].pc \in RecordedPcs /\ UNCHANGED <<node, todo, nextLog, store, host>>
      /\ vms' = [vms EXCEPT ![n] = r] /\ sup' = [sup EXCEPT ![n] = Watch]
      /\ task' = [task EXCEPT ![n] = Idle]
  BY DEF StartSupervising, WakeSupervising, RecordedPcs
<1>2. dir' \in [Names -> DirState] /\ logs' \subseteq Names \X (0..MaxLog)
  BY DEF StartSupervising, WakeSupervising, IInv, TypeOK, DirState
<1>3. r \in Entry
  BY EntryTypes DEF IInv, TypeOK, Task
<1> HIDE DEF r
<1>4. /\ vms' \in [Names -> Entry] /\ vms'[n] = r /\ sup' \in [Names -> Sup] /\ sup'[n] = Watch
      /\ task' \in [Names -> Task] /\ task'[n] = Idle
      /\ \A m \in Names \ {n} : vms'[m] = vms[m] /\ task'[m] = task[m] /\ sup'[m] = sup[m]
  BY <1>1, <1>3, EntryTypes DEF IInv, TypeOK
<1>5. TypeOK'
  BY <1>1, <1>2, <1>4 DEF IInv, TypeOK
<1>6. SInv'
  BY <1>1, <1>4, <1>5, Supervised DEF r
<1> QED BY <1>5, <1>6 DEF IInv

(* WakeMove, WakeLoad, WakeLoadFails and WakePutBack change what is in the   *)
(* jail, not whose VMM is there.                                             *)
LEMMA WakeGoesOn ==
  ASSUME IInv, NEW n \in Names,
         WakeMove(n) \/ WakeLoad(n) \/ WakeLoadFails(n) \/ WakePutBack(n)
  PROVE  IInv'
<1> DEFINE a == vms[n].addr
<1>1. /\ task[n].pc \in {"move", "load", "back"}
      /\ UNCHANGED <<node, todo, vms, sup, nextLog, store, logs>>
  BY DEF WakeMove, WakeLoad, WakeLoadFails, WakePutBack
<1>2. a \in Addrs /\ host[a] \in HostState
  BY <1>1, Zenon DEF IInv, SInv, TypeOK, Owners, Shapes, AddrShape
<1>3. dir' \in [Names -> DirState]
  BY DEF WakeMove, WakeLoad, WakeLoadFails, WakePutBack, IInv, TypeOK, DirState
<1>4. \E pc \in {"load", "back", "woken", "wunwind"} : SetPc(n, pc)
  BY ZenonT(60) DEF WakeMove, WakeLoad, WakeLoadFails, WakePutBack
<1>5. \E h \in HostState : SetHost(a, h) /\ h.pid = host[a].pid
  <2>1. ASSUME NEW h \in HostState, NEW f \in BOOLEAN, NEW g \in BOOLEAN
        PROVE  LET k == [h EXCEPT !.files = f, !.ran = g]
                   l == [h EXCEPT !.ran = g]
                   m == [h EXCEPT !.files = f]
               IN  /\ k \in HostState /\ k.pid = h.pid /\ l \in HostState /\ l.pid = h.pid
                   /\ m \in HostState /\ m.pid = h.pid
    BY Zenon DEF HostState
  <2>2. CASE UNCHANGED host
    BY <2>2, <1>2, HostKept, Zenon DEF IInv
  <2>3. CASE SetHost(a, [host[a] EXCEPT !.files = TRUE, !.ran = dir[n] = "stale"])
    BY <2>1, <2>3, <1>2, ZenonT(60)
  <2>4. CASE SetHost(a, [host[a] EXCEPT !.ran = TRUE])
    BY <2>1, <2>4, <1>2, ZenonT(60)
  <2>5. CASE SetHost(a, [host[a] EXCEPT !.files = FALSE])
    BY <2>1, <2>5, <1>2, ZenonT(60)
  <2> QED BY <2>2, <2>3, <2>4, <2>5, Zenon DEF WakeMove, WakeLoad, WakeLoadFails, WakePutBack
<1>6. PICK pc \in {"load", "back", "woken", "wunwind"}, h \in HostState :
        SetPc(n, pc) /\ SetHost(a, h) /\ h.pid = host[a].pid
  BY <1>4, <1>5, Zenon
<1>7. /\ pc \in (StartPcs \cup WakePcs) \ RecordedPcs /\ pc \in VmmPcs
      /\ task[n].pc \in VmmPcs /\ task[n].pc \notin RecordedPcs \cup {"idle"}
  BY <1>1, Zenon DEF WakePcs, RecordedPcs, VmmPcs
<1> QED BY <1>1, <1>3, <1>6, <1>7, TaskGoes, Zenon
-----------------------------------------------------------------------------
(* What supervisors, ends, deaths and reconciliation do to the inductive     *)
(* invariant: a VM watched or let go of, the agent gone, a change of phase,  *)
(* an adoption, a change on the Node.                                        *)

(* A supervisor goes on with its VMM, or has torn it down. *)
LEMMA SupervisorStep ==
  ASSUME IInv, TypeOK', NEW n \in Names,
         UNCHANGED <<node, todo, vms, task, store>>,
         sup[n].pc \notin {"none", "end"}, sup'[n].pc # "none",
         \A m \in Names \ {n} : sup'[m] = sup[m],
         \A b \in Addrs \ {vms[n].addr} : host'[b] = host[b],
         \/ sup'[n].pc # "end" /\ host'[vms[n].addr].pid = host[vms[n].addr].pid
         \/ sup'[n].pc = "end" /\ host'[vms[n].addr] \in Nothing
  PROVE  SInv'
<1>1. /\ vms[n].st = "running" /\ vms[n].addr \in Addrs /\ vms[n].pid \in Pids
      /\ task[n].pc = "idle"
  BY DEF IInv, SInv, TypeOK, Owners, Shapes, AddrShape, RunningIsRecorded
<1>2. Shapes'
  BY DEF IInv, SInv, Shapes, AddrShape
<1>3. Owners'
  BY DEF IInv, SInv, Owners
<1>4. Boots'
  BY DEF IInv, SInv, Boots
<1>5. RunningIsRecorded' /\ AddressHeldOnce'
  BY Zenon DEF IInv, SInv, RunningIsRecorded, AddressHeldOnce, Holds
<1>6. TaskRecorded'
  BY Zenon DEF IInv, SInv, TaskRecorded, Running
<1>7. PidsApart'
  BY DEF IInv, SInv, PidsApart
<1>8. HostOfHolder'
  <2>1. ASSUME NEW m \in Names \ {n}, Holds(m)
        PROVE  vms[m].addr \in Addrs \ {vms[n].addr}
    BY <1>1, <2>1 DEF IInv, SInv, Shapes, AddrShape, AddressHeldOnce, Holds
  <2>2. ASSUME NEW m \in Names \ {n} PROVE HostOf(m)'
    <3>1. CASE Holds(m)
      BY <2>1, <3>1 DEF IInv, SInv, HostOfHolder, HostOf
    <3>2. CASE ~Holds(m)
      BY <3>2 DEF IInv, SInv, Owners, Holds, VmmPcs, HostOf
    <3> QED BY <3>1, <3>2, Zenon
  <2>3. HostOf(n)'
    BY <1>1 DEF IInv, SInv, HostOfHolder, HostOf, VmmPcs
  <2> QED BY <2>2, <2>3 DEF HostOfHolder
<1>9. NoVmmNoState'
  BY <1>1, PidsAssumption, Zenon DEF IInv, SInv, NoVmmNoState, HostOfHolder, HostOf, NoPid
<1>10. HostStateOwned'
  BY <1>1 DEF IInv, SInv, HostStateOwned, Serving, Holds, HostOfHolder, HostOf, Nothing
<1>11. RecordedVmmKnown'
  <2>1. \A b \in Addrs : host'[b].pid \in {host[b].pid, NoPid}
    BY <1>1 DEF Nothing, NoHost, Remains
  <2>2. \A m \in Names : store[m].st = "running" =>
                          store[m].addr \in Addrs /\ store[m].pid # NoPid
    BY PidsAssumption DEF IInv, SInv, Shapes, AddrShape, NoPid
  <2>3. RecordedVmmKnown
    BY Zenon DEF IInv, SInv
  <2> QED BY <2>1, <2>2, <2>3 DEF RecordedVmmKnown
<1> QED BY <1>2, <1>3, <1>4, <1>5, <1>6, <1>7, <1>8, <1>9, <1>10, <1>11, Zenon DEF SInv

(* A VM is ended or gone in the registry: a failed start or wake is put      *)
(* back, an end recorded, a dead VM reconciled or an Ended VM removed. What  *)
(* it had on the Node is gone, and its record names no VMM that is there.    *)
LEMMA LetGo ==
  ASSUME IInv, TypeOK', NEW n \in Names,
         UNCHANGED <<node, host>>, todo' = todo \ {n}, node # "down",
         Holds(n) => host[vms[n].addr] \in Nothing,
         vms'[n].st \in {"absent", "ended"}, vms'[n].addr = NoAddr,
         task'[n].pc = "idle", task'[n].pid \in {NoPid, task[n].pid},
         task'[n].old.st \in {"absent", "ended"}, task'[n].old.addr = NoAddr,
         sup'[n].pc = "none",
         \/ /\ store'[n].st \in {"absent", "ended"}
            /\ store'[n].addr = NoAddr /\ store'[n].pid = NoPid
         \/ /\ store'[n] = store[n]
            /\ ~(store[n].st = "running" /\ host[store[n].addr].pid = store[n].pid),
         \A m \in Names \ {n} : /\ vms'[m] = vms[m] /\ task'[m] = task[m]
                                /\ sup'[m] = sup[m] /\ store'[m] = store[m]
  PROVE  SInv'
<1>2. Shapes'
  BY DEF IInv, SInv, Shapes, AddrShape
<1>3. Owners'
  <2>1. ASSUME NEW m \in Names \ {n}
        PROVE  /\ task'[m].pc # "idle" <=> vms'[m].st = "starting"
               /\ sup'[m].pc # "none" <=> vms'[m].st = "running"
    <3>1. /\ task[m].pc # "idle" <=> vms[m].st = "starting"
          /\ sup[m].pc # "none" <=> vms[m].st = "running"
      BY Zenon DEF IInv, SInv, Owners
    <3>2. vms'[m] = vms[m] /\ task'[m] = task[m] /\ sup'[m] = sup[m]
      BY Zenon
    <3> QED BY <3>1, <3>2, Zenon
  <2>2. vms'[n].st \notin {"starting", "running"}
    BY Zenon
  <2> QED BY <2>1, <2>2, Zenon DEF Owners
<1>4. Boots'
  BY DEF IInv, SInv, TypeOK, Boots
<1>5. RunningIsRecorded' /\ AddressHeldOnce'
  BY ZenonT(30) DEF IInv, SInv, RunningIsRecorded, AddressHeldOnce, Holds
<1>6. TaskRecorded'
  BY Zenon DEF IInv, SInv, TaskRecorded, RecordedPcs
<1>7. PidsApart'
  <2>1. \A m \in Names : /\ task'[m].pid \in {NoPid, task[m].pid}
                         /\ store'[m].pid \in {NoPid, store[m].pid}
    OBVIOUS
  <2>2. ASSUME NEW k \in Names, NEW m \in Names, k # m
        PROVE  /\ task'[k].pid # NoPid =>
                    task'[k].pid # task'[m].pid /\ task'[k].pid # store'[m].pid
               /\ store'[k].pid # NoPid => store'[k].pid # store'[m].pid
    <3>1. /\ task[k].pid # NoPid => task[k].pid # task[m].pid /\ task[k].pid # store[m].pid
          /\ store[k].pid # NoPid => store[k].pid # store[m].pid
      BY <2>2, Zenon DEF IInv, SInv, PidsApart
    <3> QED BY <2>1, <3>1, Zenon
  <2> QED BY <2>2, Zenon DEF PidsApart
<1>8. HostOfHolder'
  BY DEF IInv, SInv, HostOfHolder, HostOf, VmmPcs
<1>9. NoVmmNoState'
  BY DEF IInv, SInv, NoVmmNoState
<1>10. HostStateOwned'
  <2>1. SUFFICES ASSUME Serving, NEW a \in Addrs, host[a] \notin Nothing
                 PROVE  \E m \in Names : /\ Holds(m)' /\ vms'[m].addr = a
                                         /\ host[a].pid \in {vms'[m].pid, task'[m].pid}
    BY Zenon DEF HostStateOwned, Serving, Nothing
  <2>2. PICK m \in Names : /\ Holds(m) /\ vms[m].addr = a
                           /\ host[a].pid \in {vms[m].pid, task[m].pid}
    BY <2>1, Zenon DEF IInv, SInv, HostStateOwned, Nothing
  <2>3. vms'[m] = vms[m] /\ task'[m] = task[m]
    BY <2>1, <2>2, Zenon
  <2> QED BY <2>2, <2>3, Zenon DEF Holds
<1>11. RecordedVmmKnown'
  BY DEF IInv, SInv, RecordedVmmKnown
<1> QED BY <1>2, <1>3, <1>4, <1>5, <1>6, <1>7, <1>8, <1>9, <1>10, <1>11, Zenon DEF SInv

(* The agent is gone, the database and the Node are as they were. *)
LEMMA Died ==
  ASSUME IInv, TypeOK', Die, UNCHANGED <<store, host>>
  PROVE  SInv'
<1>1. \A n \in Names : /\ vms'[n] = Absent /\ task'[n] = Idle /\ sup'[n] = NoSup
  BY Zenon DEF Die
<1>2. Shapes'
  <2>1. \A n \in Names : store[n].st = "running" => store[n].pid \in Pids
    BY Zenon DEF IInv, SInv, Shapes
  <2>2. \A n \in Names : AddrShape(store[n]) /\ store[n].st # "starting"
    BY Zenon DEF IInv, SInv, Shapes
  <2> QED BY <1>1, <2>1, <2>2, FixedFields, Zenon DEF Shapes, AddrShape
<1>3. Owners'
  BY <1>1 DEF Owners, Absent, Idle, NoSup
<1>4. Boots'
  BY <1>1 DEF Boots, Absent, Die
<1>5. RunningIsRecorded' /\ AddressHeldOnce'
  <2>1. \A n \in Names : vms'[n].st = "absent"
    BY <1>1 DEF Absent
  <2> QED BY <2>1, Zenon DEF RunningIsRecorded, AddressHeldOnce, Holds
<1>6. TaskRecorded'
  BY <1>1 DEF TaskRecorded, RecordedPcs, Idle
<1>7. PidsApart'
  BY <1>1 DEF IInv, SInv, PidsApart, Idle
<1>8. HostOfHolder'
  BY <1>1 DEF HostOfHolder, HostOf, VmmPcs, Idle, NoSup
<1>9. NoVmmNoState'
  BY DEF IInv, SInv, NoVmmNoState
<1>10. HostStateOwned'
  BY DEF HostStateOwned, Serving, Die
<1>11. RecordedVmmKnown'
  BY DEF RecordedVmmKnown, Die
<1> QED BY <1>2, <1>3, <1>4, <1>5, <1>6, <1>7, <1>8, <1>9, <1>10, <1>11 DEF SInv

(* Nothing the invariant speaks of changes. *)
LEMMA Unmoved ==
  ASSUME IInv, UNCHANGED <<node, todo, vms, task, sup, store, host>>
  PROVE  SInv'
<1>1. (Shapes /\ Owners /\ Boots)'
  BY ZenonT(60) DEF IInv, SInv, Shapes, AddrShape, Owners, Boots
<1>2. (RunningIsRecorded /\ TaskRecorded /\ PidsApart /\ AddressHeldOnce)'
  BY Zenon
     DEF IInv, SInv, RunningIsRecorded, TaskRecorded, PidsApart, AddressHeldOnce, Running, Holds
<1>3. (HostOfHolder /\ NoVmmNoState /\ HostStateOwned /\ RecordedVmmKnown)'
  BY DEF IInv, SInv, HostOfHolder, HostOf, NoVmmNoState, HostStateOwned, RecordedVmmKnown,
         Serving, Holds
<1> QED BY <1>1, <1>2, <1>3 DEF SInv

(* Only the agent's phase, and with it what is left to reconcile, changes. *)
LEMMA PhaseStep ==
  ASSUME IInv, TypeOK', UNCHANGED <<vms, task, sup, store, host>>,
         Shutdown \/ Boot \/ Ready
  PROVE  SInv'
<1>1. (Shapes /\ Owners)'
  BY DEF IInv, SInv, Shapes, AddrShape, Owners
<1>2. Boots'
  <2>1. CASE Shutdown
    BY <2>1 DEF IInv, SInv, Boots, Shutdown
  <2>2. CASE Boot
    BY <2>2 DEF IInv, SInv, Boots, Boot
  <2>3. CASE Ready
    BY <2>3, Zenon DEF IInv, SInv, Boots, Ready
  <2> QED BY <2>1, <2>2, <2>3, Zenon
<1>3. (RunningIsRecorded /\ TaskRecorded /\ PidsApart /\ AddressHeldOnce)'
  BY Zenon
     DEF IInv, SInv, RunningIsRecorded, TaskRecorded, PidsApart, AddressHeldOnce, Running, Holds
<1>4. (HostOfHolder /\ NoVmmNoState)'
  BY DEF IInv, SInv, HostOfHolder, HostOf, NoVmmNoState
<1>5. HostStateOwned'
  <2>1. CASE Shutdown
    BY <2>1 DEF IInv, SInv, HostStateOwned, Serving, Holds, Shutdown
  <2>2. CASE Boot
    BY <2>2 DEF HostStateOwned, Serving, Boot
  <2>3. CASE Ready
    <3> SUFFICES ASSUME NEW a \in Addrs, host[a] \notin Nothing
                 PROVE  \E n \in Names : /\ Holds(n) /\ vms[n].addr = a
                                         /\ host[a].pid \in {vms[n].pid, task[n].pid}
      BY DEF HostStateOwned, Holds, Nothing
    <3>1. PICK n \in Names : vms[n].addr = a
      BY <2>3, Zenon DEF Ready, Held, Nothing
    <3>2. Holds(n)
      BY <3>1, AddrsAssumption DEF IInv, SInv, TypeOK, Entry, Shapes, AddrShape, Holds
    <3> QED BY <3>1, <3>2, Zenon DEF IInv, SInv, HostOfHolder, HostOf, Owners, Holds
  <2> QED BY <2>1, <2>2, <2>3
<1>6. RecordedVmmKnown'
  <2>1. CASE Shutdown
    BY <2>1, Zenon DEF IInv, SInv, RecordedVmmKnown, Shutdown
  <2>2. CASE Boot
    BY <2>2, Zenon DEF RecordedVmmKnown, Boot
  <2>3. CASE Ready
    BY <2>3, Zenon DEF IInv, SInv, RecordedVmmKnown, Ready
  <2> QED BY <2>1, <2>2, <2>3
<1> QED BY <1>1, <1>2, <1>3, <1>4, <1>5, <1>6, Zenon DEF SInv

(* Reconciliation takes back a VM whose VMM is alive. That no other entry    *)
(* holds its address follows from the process found there.                   *)
LEMMA AdoptStep ==
  ASSUME IInv, TypeOK', NEW n \in Names, Adopt(n)
  PROVE  SInv'
<1> DEFINE a == store[n].addr
<1>1. /\ node = "boot" /\ node' = node /\ n \in todo /\ todo' = todo \ {n}
      /\ store[n].st = "running" /\ host[a].pid = store[n].pid
      /\ vms'[n] = store[n] /\ sup'[n] = Watch /\ task' = task /\ store' = store
      /\ \A m \in Names \ {n} : vms'[m] = vms[m] /\ sup'[m] = sup[m]
  BY Zenon DEF Adopt, IsRunning, IInv, TypeOK
<1>a. a \in Addrs /\ store[n].pid \in Pids /\ vms[n].st = "absent" /\ task[n].pc = "idle"
  BY <1>1 DEF IInv, SInv, Shapes, AddrShape, Boots, Owners
<1>h. /\ \A b \in Addrs \ {a} : host'[b] = host[b]
      /\ host'[a].pid = host[a].pid
  <2>1. CASE SetHost(a, [host[a] EXCEPT !.vmm = "live", !.ran = TRUE])
    BY <2>1, <1>a DEF SetHost, IInv, TypeOK, HostState
  <2>2. CASE UNCHANGED host
    BY <2>2
  <2> QED BY <2>1, <2>2 DEF Adopt
<1>o. \A m \in Names \ {n} : Holds(m) => vms[m].addr # a
  <2> SUFFICES ASSUME NEW m \in Names \ {n}, Holds(m), vms[m].addr = a
               PROVE  FALSE
    BY Zenon
  <2>1. vms[m].st = "running"
    BY <1>1 DEF IInv, SInv, Boots, Holds
  <2>2. store[m] = vms[m] /\ store[m].pid \in Pids /\ store[m].pid # store[n].pid
    BY <2>1, <1>a, PidsAssumption, Zenon
       DEF IInv, SInv, RunningIsRecorded, Shapes, PidsApart, NoPid
  <2>3. host[a].pid = store[m].pid \/ host[a].pid = NoPid
    <3>1. HostOf(m) /\ sup[m].pc # "none"
      BY <2>1, Zenon DEF IInv, SInv, HostOfHolder, Owners
    <3>2. host[vms[m].addr].pid = vms[m].pid \/ host[vms[m].addr] \in Nothing
      BY <3>1, Zenon DEF HostOf
    <3> QED BY <2>2, <3>2, FixedFields, Zenon
  <2>4. host[a].pid = store[n].pid
    BY <1>1, Zenon
  <2>5. store[n].pid # NoPid
    BY <1>a, PidsAssumption DEF NoPid
  <2> HIDE DEF a
  <2> QED BY <2>2, <2>3, <2>4, <2>5
<1>w. sup'[n].pc = "watch"
  BY <1>1, FixedFields, Zenon
<1>2. Shapes'
  BY <1>1 DEF IInv, SInv, Shapes, AddrShape
<1>3. Owners'
  <2>1. /\ task' = task /\ task[n].pc = "idle" /\ vms'[n].st = "running"
        /\ \A m \in Names \ {n} : vms'[m] = vms[m] /\ sup'[m] = sup[m]
    BY <1>1, <1>a, Zenon
  <2>2. Owners
    BY DEF IInv, SInv
  <2> QED BY <2>1, <2>2, <1>w DEF Owners
<1>4. Boots'
  BY <1>1, Zenon DEF IInv, SInv, TypeOK, Boots
<1>5. RunningIsRecorded' /\ AddressHeldOnce'
  <2>1. RunningIsRecorded'
    BY <1>1, Zenon DEF IInv, SInv, RunningIsRecorded
  <2>2. AddressHeldOnce
    BY DEF IInv, SInv
  <2>3. vms'[n].addr = a /\ \A m \in Names \ {n} : vms'[m] = vms[m]
    BY <1>1, Zenon
  <2> HIDE DEF a
  <2> QED BY <2>1, <2>2, <2>3, <1>o, Zenon DEF AddressHeldOnce, Holds
<1>6. TaskRecorded'
  BY <1>1, <1>a DEF IInv, SInv, TaskRecorded, RecordedPcs
<1>7. PidsApart'
  BY <1>1 DEF IInv, SInv, PidsApart
<1>8. HostOfHolder'
  <2>1. ASSUME NEW m \in Names \ {n} PROVE HostOf(m)'
    <3>1. CASE Holds(m)
      <4>1. vms[m].addr \in Addrs \ {a}
        BY <3>1, <1>o, Zenon DEF IInv, SInv, Shapes, AddrShape, Holds
      <4>2. /\ vms'[m] = vms[m] /\ task' = task /\ sup'[m] = sup[m]
            /\ host'[vms[m].addr] = host[vms[m].addr]
        BY <4>1, <1>1, <1>h
      <4>3. HostOf(m)
        BY Zenon DEF IInv, SInv, HostOfHolder
      <4> QED BY <4>2, <4>3, Zenon DEF HostOf
    <3>2. CASE ~Holds(m)
      BY <3>2, <1>1, Zenon DEF IInv, SInv, Owners, Holds, VmmPcs, HostOf
    <3> QED BY <3>1, <3>2, Zenon
  <2>2. HostOf(n)'
    <3>1. task'[n].pc = "idle"
      BY <1>1, <1>a
    <3>2. host'[vms'[n].addr].pid = vms'[n].pid
      <4>1. vms'[n].addr = a /\ vms'[n].pid = store[n].pid
        BY <1>1, Zenon
      <4>2. host'[a].pid = store[n].pid
        BY <1>1, <1>h, Zenon
      <4> HIDE DEF a
      <4> QED BY <4>1, <4>2
    <3> QED BY <3>1, <3>2, <1>w, Zenon DEF HostOf, VmmPcs
  <2> QED BY <2>1, <2>2 DEF HostOfHolder
<1>9. NoVmmNoState'
  BY <1>1, <1>a, <1>h, PidsAssumption, Zenon DEF IInv, SInv, NoVmmNoState, NoPid
<1>10. HostStateOwned'
  BY <1>1 DEF HostStateOwned, Serving
<1>11. RecordedVmmKnown'
  <2>1. \A b \in Addrs : host'[b].pid = host[b].pid
    BY <1>h, Zenon
  <2>2. \A m \in Names : store[m].st = "running" => store[m].addr \in Addrs
    BY DEF IInv, SInv, Shapes, AddrShape
  <2>3. RecordedVmmKnown
    BY DEF IInv, SInv
  <2> QED BY <1>1, <2>1, <2>2, <2>3 DEF RecordedVmmKnown
<1> QED BY <1>2, <1>3, <1>4, <1>5, <1>6, <1>7, <1>8, <1>9, <1>10, <1>11 DEF SInv

(* A guest ends, or the sweep clears an address no entry holds. *)
LEMMA HostStep ==
  ASSUME IInv, TypeOK', NEW a \in Addrs, GuestEnds(a) \/ Sweep(a)
  PROVE  SInv'
<1>1. /\ UNCHANGED <<node, todo, vms, task, sup, store>>
      /\ \A b \in Addrs \ {a} : host'[b] = host[b]
      /\ \/ host'[a].pid = host[a].pid /\ host[a] \notin Nothing
         \/ node = "boot" /\ host'[a] = NoHost /\ \A n \in Names : vms[n].addr # a
  <2>1. CASE GuestEnds(a)
    BY <2>1 DEF GuestEnds, SetHost, volatile, IInv, TypeOK, HostState, Nothing, NoHost, Remains
  <2>2. CASE Sweep(a)
    BY <2>2, Zenon DEF Sweep, SetHost, Held, volatile, IInv, TypeOK, HostState
  <2> QED BY <2>1, <2>2
<1>2. Shapes'
  BY <1>1, Zenon DEF IInv, SInv, Shapes, AddrShape
<1>3. Owners'
  BY <1>1, Zenon DEF IInv, SInv, Owners
<1>4. Boots'
  BY <1>1 DEF IInv, SInv, Boots
<1>5. RunningIsRecorded' /\ AddressHeldOnce'
  BY <1>1, Zenon DEF IInv, SInv, RunningIsRecorded, AddressHeldOnce, Holds
<1>6. TaskRecorded'
  BY <1>1, Zenon DEF IInv, SInv, TaskRecorded, Running
<1>7. PidsApart'
  BY <1>1 DEF IInv, SInv, PidsApart
<1>8. HostOfHolder'
  <2> SUFFICES ASSUME NEW n \in Names PROVE HostOf(n)'
    BY Zenon DEF HostOfHolder
  <2>1. CASE Holds(n)
    <3>1. vms[n].addr \in Addrs
      BY <2>1 DEF IInv, SInv, Shapes, AddrShape, Holds
    <3> QED BY <3>1, <1>1, Zenon DEF IInv, SInv, HostOfHolder, HostOf
  <2>2. CASE ~Holds(n)
    BY <2>2, <1>1, Zenon DEF IInv, SInv, Owners, Holds, VmmPcs, HostOf
  <2> QED BY <2>1, <2>2
<1>9. NoVmmNoState'
  BY <1>1, Zenon DEF IInv, SInv, NoVmmNoState, Nothing
<1>10. HostStateOwned'
  BY <1>1 DEF IInv, SInv, HostStateOwned, Serving, Holds, Nothing
<1>11. RecordedVmmKnown'
  <2>1. \A b \in Addrs : host'[b].pid \in {host[b].pid, NoPid}
    BY <1>1, FixedFields, Zenon
  <2>2. \A m \in Names : store[m].st = "running" =>
                          store[m].addr \in Addrs /\ store[m].pid # NoPid
    BY PidsAssumption DEF IInv, SInv, Shapes, AddrShape, NoPid
  <2>3. RecordedVmmKnown
    BY Zenon DEF IInv, SInv
  <2> QED BY <1>1, <2>1, <2>2, <2>3, Zenon DEF RecordedVmmKnown
<1> QED BY <1>2, <1>3, <1>4, <1>5, <1>6, <1>7, <1>8, <1>9, <1>10, <1>11, Zenon DEF SInv
-----------------------------------------------------------------------------
(* The actions: one lemma for each, or for a family of them.                 *)

(* SupervisorStep for a step that sets a supervisor and one address's host   *)
(* state.                                                                    *)
LEMMA SupGoes ==
  ASSUME IInv, NEW n \in Names, NEW s \in Sup, NEW h \in HostState,
         UNCHANGED <<node, todo, vms, task, nextLog, store>>,
         dir' \in [Names -> DirState], logs' = logs,
         sup[n].pc \notin {"none", "end"}, s.pc # "none",
         sup' = [sup EXCEPT ![n] = s], SetHost(vms[n].addr, h),
         \/ s.pc # "end" /\ h.pid = host[vms[n].addr].pid
         \/ s.pc = "end" /\ h \in Nothing
  PROVE  IInv'
<1>1. vms[n].addr \in Addrs
  BY Zenon DEF IInv, SInv, Owners, Shapes, AddrShape
<1>2. /\ sup' \in [Names -> Sup] /\ sup'[n] = s
      /\ \A m \in Names \ {n} : sup'[m] = sup[m]
  <2>1. sup \in [Names -> Sup]
    BY Zenon DEF IInv, TypeOK
  <2> QED BY <2>1, Zenon
<1>3. /\ host' \in [Addrs -> HostState] /\ host'[vms[n].addr] = h
      /\ \A b \in Addrs \ {vms[n].addr} : host'[b] = host[b]
  BY <1>1, SetHostEffect DEF IInv
<1>4. TypeOK'
  BY <1>2, <1>3 DEF IInv, TypeOK
<1>5. SInv'
  BY <1>2, <1>3, <1>4, SupervisorStep, Zenon
<1> QED BY <1>4, <1>5 DEF IInv

(* LetGo for the updates the actions make. *)
LEMMA LetGoInv ==
  ASSUME IInv, NEW n \in Names, NEW e \in Entry,
         UNCHANGED <<node, nextLog, host>>, todo' = todo \ {n}, node # "down",
         dir' \in [Names -> DirState], logs' \subseteq Names \X (0..MaxLog),
         Holds(n) => host[vms[n].addr] \in Nothing,
         e.st \in {"absent", "ended"}, e.addr = NoAddr, vms' = [vms EXCEPT ![n] = e],
         \/ task' = [task EXCEPT ![n] = Idle]
         \/ task' = task /\ task[n].pc = "idle",
         \/ sup' = [sup EXCEPT ![n] = NoSup]
         \/ sup' = sup /\ sup[n].pc = "none",
         \/ \E r \in Entry : /\ store' = [store EXCEPT ![n] = r]
                              /\ r.st \in {"absent", "ended"} /\ r.addr = NoAddr /\ r.pid = NoPid
         \/ /\ store' = store
            /\ ~(store[n].st = "running" /\ host[store[n].addr].pid = store[n].pid)
  PROVE  IInv'
<1>1. vms' \in [Names -> Entry] /\ vms'[n] = e /\ \A m \in Names \ {n} : vms'[m] = vms[m]
  BY Zenon DEF IInv, TypeOK
<1>2. /\ task' \in [Names -> Task] /\ task'[n].pc = "idle" /\ task'[n].pid \in {NoPid, task[n].pid}
      /\ task'[n].old.st \in {"absent", "ended"} /\ task'[n].old.addr = NoAddr
      /\ \A m \in Names \ {n} : task'[m] = task[m]
  <2>1. CASE task' = [task EXCEPT ![n] = Idle]
    BY <2>1, EntryTypes, Zenon DEF IInv, TypeOK, Idle, Absent
  <2>2. CASE task' = task /\ task[n].pc = "idle"
    BY <2>2, Zenon DEF IInv, SInv, TypeOK, Shapes, AddrShape
  <2> QED BY <2>1, <2>2, Zenon
<1>3. /\ sup' \in [Names -> Sup] /\ sup'[n].pc = "none"
      /\ \A m \in Names \ {n} : sup'[m] = sup[m]
  <2>1. CASE sup' = [sup EXCEPT ![n] = NoSup]
    <3>1. sup \in [Names -> Sup] /\ NoSup \in Sup /\ NoSup.pc = "none"
      BY EntryTypes, Zenon DEF IInv, TypeOK, NoSup
    <3> QED BY <2>1, <3>1
  <2>2. CASE sup' = sup /\ sup[n].pc = "none"
    BY <2>2, Zenon DEF IInv, TypeOK
  <2> QED BY <2>1, <2>2
<1>4. /\ store' \in [Names -> Entry] /\ \A m \in Names \ {n} : store'[m] = store[m]
      /\ \/ /\ store'[n].st \in {"absent", "ended"}
            /\ store'[n].addr = NoAddr /\ store'[n].pid = NoPid
         \/ /\ store'[n] = store[n]
            /\ ~(store[n].st = "running" /\ host[store[n].addr].pid = store[n].pid)
  BY Zenon DEF IInv, TypeOK
<1>5. TypeOK'
  BY <1>1, <1>2, <1>3, <1>4, Zenon DEF IInv, TypeOK
<1>6. SInv'
  BY <1>1, <1>2, <1>3, <1>4, <1>5, LetGo, Zenon
<1> QED BY <1>5, <1>6, Zenon DEF IInv

(* A failed start is forgotten; a failed wake is put back or lost.           *)
LEMMA TaskEndsInv ==
  ASSUME IInv, NEW n \in Names, ForgetStart(n) \/ PutBack(n) \/ WakeLost(n)
  PROVE  IInv'
<1>1. /\ task[n].pc \in {"failed", "wfailed", "wlost"}
      /\ UNCHANGED <<node, todo, sup, nextLog, dir, host>> /\ task' = [task EXCEPT ![n] = Idle]
  BY Zenon DEF ForgetStart, PutBack, WakeLost, durable
<1>2. /\ vms[n].st = "starting" /\ sup[n].pc = "none" /\ host[vms[n].addr] \in Nothing
      /\ node \notin {"down", "boot"} /\ todo = todo \ {n} /\ dir' \in [Names -> DirState]
  BY <1>1, Zenon DEF IInv, SInv, TypeOK, Owners, HostOfHolder, HostOf, VmmPcs, Boots
<1>3. ~(store[n].st = "running" /\ host[store[n].addr].pid = store[n].pid)
  BY <1>1, <1>2, Zenon DEF IInv, SInv, RecordedVmmKnown, RecordedPcs
<1>4. /\ task[n].old \in Entry /\ task[n].old.st \in {"absent", "ended"}
      /\ task[n].old.addr = NoAddr /\ store[n] \in Entry
  BY DEF IInv, SInv, TypeOK, Task, Shapes, AddrShape
<1>5. logs' \subseteq Names \X (0..MaxLog)
  BY DEF ForgetStart, PutBack, WakeLost, durable, IInv, TypeOK
<1>6. CASE ForgetStart(n) \/ PutBack(n)
  <2>1. vms' = [vms EXCEPT ![n] = task[n].old] /\ store' = store
    BY <1>6 DEF ForgetStart, PutBack, durable
  <2> QED BY <1>1, <1>2, <1>3, <1>4, <1>5, <2>1, LetGoInv, Zenon
<1>7. CASE WakeLost(n)
  <2>1. \A x \in Entry : /\ Ended(x, "forced") \in Entry /\ Ended(x, "forced").st = "ended"
                         /\ Ended(x, "forced").addr = NoAddr /\ Ended(x, "forced").pid = NoPid
    BY EntryTypes DEF Reasons
  <2>2. /\ vms' = [vms EXCEPT ![n] = Ended(task[n].old, "forced")]
        /\ store' = [store EXCEPT ![n] = Ended(store[n], "forced")] \/ store' = store
    BY <1>7 DEF WakeLost
  <2> QED BY <1>1, <1>2, <1>3, <1>4, <1>5, <2>1, <2>2, LetGoInv, Zenon
<1> QED BY <1>6, <1>7

(* A supervisor's last step records how its VM ended.                        *)
LEMMA RecordEndInv ==
  ASSUME IInv, NEW n \in Names, RecordEnd(n)
  PROVE  IInv'
<1>1. /\ sup[n].pc = "end" /\ UNCHANGED <<node, todo, task, nextLog, dir, logs, host>>
      /\ vms' = [vms EXCEPT ![n] = Ended(vms[n], sup[n].reason)]
      /\ store' = [store EXCEPT ![n] = Ended(store[n], sup[n].reason)] \/ store' = store
      /\ sup' = [sup EXCEPT ![n] = NoSup]
  BY DEF RecordEnd
<1>2. /\ vms[n].st = "running" /\ task[n].pc = "idle" /\ host[vms[n].addr] \in Nothing
      /\ node # "down" /\ todo = todo \ {n} /\ dir' \in [Names -> DirState]
      /\ logs' \subseteq Names \X (0..MaxLog)
  BY <1>1, Zenon DEF IInv, SInv, TypeOK, Owners, HostOfHolder, HostOf, Boots
<1>3. ~(store[n].st = "running" /\ host[store[n].addr].pid = store[n].pid)
  <2>1. store[n] = vms[n] /\ (store[n].st = "running" => store[n].pid \in Pids)
    BY <1>2 DEF IInv, SInv, RunningIsRecorded, Shapes
  <2>2. NoHost.pid = NoPid /\ Remains.pid = NoPid
    BY Zenon DEF NoHost, Remains
  <2>3. host[vms[n].addr].pid = NoPid
    BY <1>2, <2>2 DEF Nothing
  <2>4. NoPid \notin Pids
    BY PidsAssumption DEF NoPid
  <2> QED BY <2>1, <2>3, <2>4, Zenon
<1>4. vms[n] \in Entry /\ store[n] \in Entry /\ sup[n].reason \in Reasons
  BY DEF IInv, TypeOK, Sup
<1>5. \A x \in Entry : LET e == Ended(x, sup[n].reason)
                       IN  e \in Entry /\ e.st = "ended" /\ e.addr = NoAddr /\ e.pid = NoPid
  BY <1>4, EntryTypes, Zenon
<1> QED BY <1>1, <1>2, <1>3, <1>4, <1>5, LetGoInv, Zenon

(* Reconciliation of a VM that is over, or whose VMM is dead.                *)
LEMMA ReconcileInv ==
  ASSUME IInv, NEW n \in Names,
         \/ ReconcileEnded(n)
         \/ ReconcileDead(n) /\ ~Die
  PROVE  IInv'
<1>1. /\ node = "boot" /\ n \in todo /\ todo' = todo \ {n}
      /\ UNCHANGED <<node, task, sup, nextLog, dir, logs, host>>
  BY Zenon DEF ReconcileEnded, ReconcileDead, durable
<1>2. /\ vms[n].st = "absent" /\ task[n].pc = "idle" /\ sup[n].pc = "none"
      /\ dir' \in [Names -> DirState] /\ logs' \subseteq Names \X (0..MaxLog)
      /\ store[n] \in Entry /\ ~Holds(n)
  BY <1>1 DEF IInv, SInv, TypeOK, Boots, Owners, Holds
<1>3. CASE ReconcileEnded(n)
  <2>1. /\ vms' = [vms EXCEPT ![n] = store[n]] /\ store' = store
        /\ store[n].st = "ended" /\ store[n].addr = NoAddr
    BY <1>3 DEF ReconcileEnded, durable, IInv, SInv, Shapes, AddrShape
  <2> QED BY <1>1, <1>2, <2>1, LetGoInv, Zenon
<1>4. CASE ReconcileDead(n) /\ ~Die
  <2>1. /\ vms' = [vms EXCEPT ![n] = Ended(store[n], "agent_down")]
        /\ store' = [store EXCEPT ![n] = Ended(store[n], "agent_down")]
    BY <1>4 DEF ReconcileDead
  <2>2. "agent_down" \in Reasons
    BY DEF Reasons
  <2> QED BY <1>1, <1>2, <2>1, <2>2, EntryTypes, LetGoInv, Zenon
<1> QED BY <1>3, <1>4, Zenon

(* remove_vm forgets an Ended App and its files.                             *)
LEMMA RemoveInv ==
  ASSUME IInv, NEW n \in Names, Remove(n)
  PROVE  IInv'
<1>1. /\ node \in {"ready", "stopping"} /\ vms[n].st = "ended"
      /\ UNCHANGED <<node, todo, task, sup, nextLog, host>>
  BY Zenon DEF Remove
<1>2. /\ task[n].pc = "idle" /\ sup[n].pc = "none" /\ ~Holds(n) /\ todo' = todo \ {n}
  <2>1. vms[n].st \notin {"absent", "starting", "running"}
    BY <1>1, Zenon
  <2>2. task[n].pc = "idle" /\ sup[n].pc = "none" /\ n \notin todo
    BY <2>1, Zenon DEF IInv, SInv, Owners, Boots
  <2> QED BY <1>1, <2>1, <2>2, Zenon DEF Holds
<1>3. dir' \in [Names -> DirState] /\ logs' \subseteq Names \X (0..MaxLog)
  BY DEF Remove, IInv, TypeOK, DirState
<1>4. CASE vms' = [vms EXCEPT ![n] = Absent] /\ store' = [store EXCEPT ![n] = Absent]
  <2>1. Absent.st = "absent" /\ Absent.addr = NoAddr /\ Absent.pid = NoPid
    BY DEF Absent
  <2> QED BY <1>1, <1>2, <1>3, <1>4, <2>1, EntryTypes, LetGoInv, ZenonT(60)
<1>5. CASE UNCHANGED <<vms, store>>
  <2>1. TypeOK'
    BY <1>1, <1>3, <1>5, Zenon DEF IInv, TypeOK
  <2> QED BY <1>1, <1>5, <2>1, Unmoved DEF IInv
<1> QED BY <1>4, <1>5 DEF Remove

(* The steps of a supervisor: stops, parks and ends.                         *)
LEMMA SupervisorInv ==
  ASSUME IInv, NEW n \in Names,
         \/ SupNaturalEnd(n) \/ SupStop(n) \/ SupPark(n) \/ SupSnapshot(n)
         \/ SupSnapshotFails(n) \/ SupKill(n) \/ SupMoveOut(n) \/ SupTeardown(n)
  PROVE  IInv'
<1> DEFINE a == vms[n].addr
<1>1. /\ sup[n].pc \notin {"none", "end"}
      /\ UNCHANGED <<node, todo, vms, task, nextLog, store, logs>>
  BY ZenonT(60)
     DEF SupNaturalEnd, SupStop, SupPark, SupSnapshot, SupSnapshotFails, SupKill,
         SupMoveOut, SupTeardown, durable
<1>2. a \in Addrs /\ host[a] \in HostState /\ sup[n] \in Sup
  BY <1>1, Zenon DEF IInv, SInv, TypeOK, Owners, Shapes, AddrShape
<1>3. dir' \in [Names -> DirState]
  BY DEF IInv, TypeOK, DirState, SupNaturalEnd, SupStop, SupPark, SupSnapshot,
         SupSnapshotFails, SupKill, SupMoveOut, SupTeardown, durable
<1>4. CASE SupTeardown(n)
  <2>1. \E h \in Nothing : SetHost(a, h)
    BY <1>4, Zenon DEF SupTeardown, Teardown, Nothing
  <2>2. PICK h \in HostState : h \in Nothing /\ SetHost(a, h)
    BY <2>1, EntryTypes, Zenon DEF Nothing
  <2>3. PICK s \in Sup : s.pc = "end" /\ sup' = [sup EXCEPT ![n] = s]
    BY <1>4, <1>2, ZenonT(60) DEF SupTeardown, SetSup, Sup
  <2> QED BY <1>1, <1>3, <2>2, <2>3, SupGoes, Zenon
<1>5. CASE ~SupTeardown(n)
  <2>1. PICK h \in HostState : SetHost(a, h) /\ h.pid = host[a].pid
    <3>1. ASSUME NEW h \in HostState, NEW v \in {"live", "paused", "dead"}, NEW f \in BOOLEAN
          PROVE  LET k == [h EXCEPT !.files = TRUE, !.ran = FALSE]
                     l == [h EXCEPT !.vmm = v]
                     m == [h EXCEPT !.files = f]
                 IN  /\ k \in HostState /\ k.pid = h.pid /\ l \in HostState /\ l.pid = h.pid
                     /\ m \in HostState /\ m.pid = h.pid
      BY Zenon DEF HostState
    <3>2. CASE UNCHANGED host
      BY <3>2, <1>2, HostKept, Zenon DEF IInv
    <3>3. CASE \E v \in {"live", "paused", "dead"} : SetHost(a, [host[a] EXCEPT !.vmm = v])
      BY <3>1, <3>3, <1>2, ZenonT(60)
    <3>4. CASE SetHost(a, [host[a] EXCEPT !.files = TRUE, !.ran = FALSE])
      BY <3>1, <3>4, <1>2, ZenonT(60)
    <3>5. CASE SetHost(a, [host[a] EXCEPT !.files = FALSE])
      BY <3>1, <3>5, <1>2, ZenonT(60)
    <3> QED
      BY <1>5, <3>2, <3>3, <3>4, <3>5, ZenonT(60)
         DEF SupNaturalEnd, SupStop, SupPark, SupSnapshot, SupSnapshotFails, SupKill,
             SupMoveOut, durable
  <2>2. PICK s \in Sup : /\ s.pc \notin {"none", "end"}
                         /\ sup' = [sup EXCEPT ![n] = s]
    <3>1. ASSUME NEW pc \in {"watch", "snapshot", "kill", "moveout"}, SetSup(n, pc)
          PROVE  \E s \in Sup : s.pc \notin {"none", "end"} /\ sup' = [sup EXCEPT ![n] = s]
      <4>1. [sup[n] EXCEPT !.pc = pc] \in Sup /\ [sup[n] EXCEPT !.pc = pc].pc = pc
        BY <1>2, Zenon DEF Sup
      <4>2. sup' = [sup EXCEPT ![n] = [sup[n] EXCEPT !.pc = pc]]
        BY <3>1, Zenon DEF SetSup
      <4> QED BY <4>1, <4>2, ZenonT(60)
    <3>2. ASSUME NEW why \in Reasons, EndSup(n, why)
          PROVE  \E s \in Sup : s.pc \notin {"none", "end"} /\ sup' = [sup EXCEPT ![n] = s]
      <4>1. [pc |-> "teardown", reason |-> why] \in Sup
        BY Zenon DEF Sup
      <4> QED BY <3>2, <4>1, ZenonT(60) DEF EndSup
    <3>3. CASE UNCHANGED sup
      BY <3>3, <1>1, <1>2, Zenon DEF IInv, TypeOK
    <3>4. {"exited", "forced", "parked"} \subseteq Reasons
      BY Zenon DEF Reasons
    <3> QED
      BY <1>5, <3>1, <3>2, <3>3, <3>4, ZenonT(60)
         DEF SupNaturalEnd, SupStop, SupPark, SupSnapshot, SupSnapshotFails, SupKill,
             SupMoveOut
  <2> QED BY <1>1, <1>3, <2>1, <2>2, SupGoes, Zenon
<1> QED BY <1>4, <1>5, ZenonT(60)

(* Reconciliation adopts a live VM.                                          *)
LEMMA AdoptInv ==
  ASSUME IInv, NEW n \in Names, Adopt(n)
  PROVE  IInv'
<1> DEFINE a == store[n].addr
<1>1. /\ UNCHANGED <<node, task, nextLog, store, dir, logs>> /\ todo' \subseteq Names
      /\ vms' \in [Names -> Entry] /\ sup' \in [Names -> Sup]
  BY EntryTypes DEF Adopt, IInv, TypeOK
<1>2. host' \in [Addrs -> HostState]
  <2>1. CASE SetHost(a, [host[a] EXCEPT !.vmm = "live", !.ran = TRUE])
    <3>1. a \in Addrs
      BY DEF Adopt, IsRunning, IInv, SInv, Shapes, AddrShape
    <3>2. [host[a] EXCEPT !.vmm = "live", !.ran = TRUE] \in HostState
      <4>1. host[a] \in HostState
        BY <3>1 DEF IInv, TypeOK
      <4> QED BY <4>1, Zenon DEF HostState
    <3> QED BY <2>1, <3>1, <3>2 DEF SetHost, IInv, TypeOK
  <2>2. CASE UNCHANGED host
    BY <2>2 DEF IInv, TypeOK
  <2> QED BY <2>1, <2>2 DEF Adopt
<1>3. TypeOK'
  BY <1>1, <1>2 DEF IInv, TypeOK
<1> QED BY <1>3, AdoptStep DEF IInv

(* A guest ends by itself, or the sweep clears an address.                   *)
LEMMA HostInv ==
  ASSUME IInv, NEW a \in Addrs, GuestEnds(a) \/ Sweep(a)
  PROVE  IInv'
<1>1. UNCHANGED <<node, todo, vms, task, sup, nextLog, store, dir, logs>>
  BY DEF GuestEnds, Sweep, volatile
<1>2. host' \in [Addrs -> HostState]
  <2>1. CASE GuestEnds(a)
    BY <2>1 DEF GuestEnds, SetHost, IInv, TypeOK, HostState
  <2>2. CASE Sweep(a)
    BY <2>2, EntryTypes DEF Sweep, SetHost, IInv, TypeOK
  <2> QED BY <2>1, <2>2
<1>3. TypeOK'
  BY <1>1, <1>2 DEF IInv, TypeOK
<1> QED BY <1>3, HostStep DEF IInv

(* The agent crashes or exits.                                               *)
LEMMA DiedInv ==
  ASSUME IInv, Die, UNCHANGED <<store, logs, host>>, dir' \in [Names -> DirState]
  PROVE  IInv'
<1>1. TypeOK'
  BY EntryTypes, MaxLogAssumption DEF Die, IInv, TypeOK
<1> QED BY <1>1, Died DEF IInv

(* The agent starts, comes up or is told to stop.                            *)
LEMMA PhaseInv ==
  ASSUME IInv, Shutdown \/ Boot \/ Ready
  PROVE  IInv'
<1>1. UNCHANGED <<vms, task, sup, store, host>>
  BY DEF Shutdown, Boot, Ready, durable
<1>2. TypeOK'
  <2>1. CASE Shutdown
    BY <1>1, <2>1, Zenon DEF Shutdown, durable, IInv, TypeOK
  <2>2. CASE Boot
    BY <1>1, <2>2 DEF Boot, IInv, TypeOK, DirState
  <2>3. CASE Ready
    BY <1>1, <2>3 DEF Ready, durable, IInv, TypeOK
  <2> QED BY <2>1, <2>2, <2>3
<1> QED BY <1>1, <1>2, PhaseStep DEF IInv
-----------------------------------------------------------------------------
(* No step of the agent, and no fault, breaks the invariant. *)
LEMMA NextInv == IInv /\ [Next]_vars => IInv'
<1> SUFFICES ASSUME IInv, [Next]_vars PROVE IInv'
  OBVIOUS
<1> USE DEF IInv
<1>1. ASSUME NEW n \in Names, StartStep(n) PROVE IInv'
  <2> HIDE DEF IInv
  <2> QED BY <1>1, RunVmInv, HostUpInv, StartGoesOn, RecordStartInv, UnwindInv, TaskEndsInv,
             SupervisingInv DEF StartStep
<1>2. ASSUME NEW n \in Names, WakeStep(n) PROVE IInv'
  <2> HIDE DEF IInv
  <2> QED BY <1>2, WakeVmInv, HostUpInv, StartGoesOn, WakeGoesOn, UnwindInv, TaskEndsInv,
             RecordStartInv, SupervisingInv DEF WakeStep
<1>3. ASSUME NEW n \in Names, SupStep(n) PROVE IInv'
  <2> HIDE DEF IInv
  <2> QED BY <1>3, SupervisorInv, RecordEndInv DEF SupStep
<1>4. ASSUME NEW n \in Names, BootStep(n) PROVE IInv'
  <2>1. CASE ReconcileDead(n) /\ Die
    <3>1. UNCHANGED <<store, logs, host>> /\ dir' \in [Names -> DirState]
      BY <2>1 DEF ReconcileDead, Die, TypeOK, durable
    <3> HIDE DEF IInv
    <3> QED BY <2>1, <3>1, DiedInv
  <2> HIDE DEF IInv
  <2> QED BY <1>4, <2>1, ReconcileInv, AdoptInv DEF BootStep
<1>5. ASSUME NEW n \in Names, Remove(n) PROVE IInv'
  BY <1>5, RemoveInv
<1>6. CASE Exit \/ Crash \/ \E n \in Names : CrashInRemove(n)
  <2>1. Die /\ UNCHANGED <<store, logs, host>> /\ dir' \in [Names -> DirState]
    BY <1>6 DEF Exit, Crash, CrashInRemove, durable, TypeOK, DirState
  <2> HIDE DEF IInv
  <2> QED BY <2>1, DiedInv
<1>7. ASSUME NEW a \in Addrs, GuestEnds(a) \/ Sweep(a) PROVE IInv'
  BY <1>7, HostInv
<1>8. CASE Shutdown \/ Boot \/ Ready
  BY <1>8, PhaseInv
<1>9. CASE UNCHANGED vars
  <2>1. TypeOK'
    BY <1>9 DEF vars, TypeOK
  <2>2. SInv'
    BY <1>9, Unmoved DEF vars
  <2> QED BY <2>1, <2>2
<1> HIDE DEF IInv
<1> QED BY <1>1, <1>2, <1>3, <1>4, <1>5, <1>6, <1>7, <1>8, <1>9 DEF Next
-----------------------------------------------------------------------------
(* The inductive invariant holds of every behaviour of the agent. *)
THEOREM Inductive == Spec => []IInv
<1>1. Init => IInv
  <2> SUFFICES ASSUME Init PROVE IInv
    OBVIOUS
  <2>1. \A n \in Names : vms[n] = Absent /\ store[n] = Absent /\ task[n] = Idle /\ sup[n] = NoSup
    BY Zenon DEF Init
  <2>2. TypeOK
    <3>1. 1 \in 1..(MaxLog + 1)
      BY MaxLogAssumption, SMT
    <3> QED BY <3>1, EntryTypes, Zenon DEF Init, TypeOK, DirState
  <2>3. Shapes /\ Owners /\ Boots
    BY <2>1 DEF Init, Shapes, AddrShape, Owners, Boots, Absent, Idle, NoSup
  <2>4. \A n \in Names :
          /\ vms[n].st = "absent" /\ task[n].pc = "idle"
          /\ store[n].pid = NoPid /\ task[n].pid = NoPid
    <3>1. Absent.st = "absent" /\ Absent.pid = NoPid /\ Idle.pc = "idle" /\ Idle.pid = NoPid
      BY DEF Absent, Idle
    <3> QED
      BY <2>1, <3>1, Zenon
  <2>5. RunningIsRecorded /\ TaskRecorded
    BY <2>4, Zenon DEF RunningIsRecorded, TaskRecorded, RecordedPcs
  <2>6. PidsApart /\ AddressHeldOnce
    BY <2>4, Zenon DEF PidsApart, AddressHeldOnce, Holds
  <2>7. HostOfHolder /\ NoVmmNoState /\ HostStateOwned /\ RecordedVmmKnown
    BY <2>1 DEF Init, HostOfHolder, HostOf, NoVmmNoState, HostStateOwned, RecordedVmmKnown,
                Nothing, VmmPcs, Absent, Idle, NoSup
  <2> QED BY <2>2, <2>3, <2>5, <2>7, <2>6 DEF IInv, SInv
<1> QED BY <1>1, NextInv, PTL DEF Spec

(* Every variable keeps its type, whatever the handlers, supervisors and     *)
(* reconciliation do.                                                        *)
THEOREM TypeCorrect == Spec => []TypeOK
<1>1. IInv => TypeOK
  BY DEF IInv
<1> QED BY <1>1, Inductive, PTL

(* free_vm_address never gives an address to two VMs that start or run, also *)
(* across a crash and the adoption of what an earlier agent left.            *)
THEOREM AddressSafe == Spec => []AddressHeldOnce
<1>1. IInv => AddressHeldOnce
  BY DEF IInv, SInv
<1> QED BY <1>1, Inductive, PTL

(* While the agent serves, host state on an address is that of the VM the    *)
(* registry holds it for, but for the remains of a failed teardown.          *)
THEOREM HostOwned == Spec => []HostStateOwned
<1>1. IInv => HostStateOwned
  BY DEF IInv, SInv
<1> QED BY <1>1, Inductive, PTL

(* A VM under a supervisor is on record as the registry has it: insert_running *)
(* comes before start_supervising, and every later write keeps them equal.    *)
THEOREM RunningRecorded == Spec => []RunningIsRecorded
<1>1. IInv => RunningIsRecorded
  BY DEF IInv, SInv
<1> QED BY <1>1, Inductive, PTL

(* Once the agent serves, each live VMM on record is supervised, or about to *)
(* be by the start or wake that recorded it.                                 *)
THEOREM LiveManaged == Spec => []RecordedLiveIsManaged
<1>1. IInv => RecordedLiveIsManaged
  <2> SUFFICES ASSUME IInv, Serving, NEW n \in Names, IsRunning(store[n])
               PROVE  \/ vms[n] = store[n] /\ sup[n].pc # "none"
                      \/ task[n].pc \in {"recorded", "wrecorded"} /\ task[n].pid = store[n].pid
    BY Zenon DEF RecordedLiveIsManaged
  <2>1. vms[n].st = "running" \/ task[n].pc \in RecordedPcs
    BY Zenon DEF IInv, SInv, RecordedVmmKnown, IsRunning, Serving, Boots
  <2>2. CASE vms[n].st = "running"
    BY <2>2, Zenon DEF IInv, SInv, RunningIsRecorded, Owners
  <2>3. CASE task[n].pc \in RecordedPcs
    BY <2>3, ZenonT(60) DEF IInv, SInv, TypeOK, Entry, TaskRecorded, Running, RecordedPcs
  <2> QED BY <2>1, <2>2, <2>3, Zenon
<1> QED BY <1>1, Inductive, PTL

(* The only steps that write a record do so when its VMM isn't there. *)
LEMMA RecordWriters ==
  ASSUME IInv, [Next]_vars, NEW n \in Names, IsRunning(store[n])
  PROVE  store'[n] = store[n]
<1>1. /\ store[n].st = "running" /\ host[store[n].addr].pid = store[n].pid
      /\ \/ node = "down" \/ n \in todo \/ vms[n].st = "running"
         \/ task[n].pc \in RecordedPcs
  BY DEF IsRunning, IInv, SInv, RecordedVmmKnown
<1>2. ASSUME NEW m \in Names, store'[n] # store[n],
             RecordStart(m) \/ RecordWake(m) \/ WakeLost(m)
      PROVE  FALSE
  <2>1. m = n /\ task[n].pc \in {"booted", "woken", "wlost"}
    BY <1>2, Zenon DEF RecordStart, RecordWake, WakeLost, IInv, TypeOK
  <2>2. vms[n].st = "starting"
    BY <2>1, Zenon DEF IInv, SInv, Owners
  <2> QED BY <1>1, <2>1, <2>2 DEF IInv, SInv, Boots, RecordedPcs
<1>3. ASSUME NEW m \in Names, store'[n] # store[n], RecordEnd(m)
      PROVE  FALSE
  <2>1. m = n /\ sup[n].pc = "end"
    BY <1>3 DEF RecordEnd, IInv, TypeOK
  <2>2. vms[n].st = "running" /\ host[vms[n].addr] \in Nothing
    BY <2>1, Zenon DEF IInv, SInv, HostOfHolder, HostOf, Owners
  <2>3. store[n] = vms[n] /\ store[n].pid \in Pids
    BY <1>1, <2>2, Zenon DEF IInv, SInv, RunningIsRecorded, Shapes
  <2> QED BY <1>1, <2>2, <2>3, PidsAssumption DEF Nothing, NoHost, Remains, NoPid
<1>4. ASSUME NEW m \in Names, store'[n] # store[n], Remove(m)
      PROVE  FALSE
  <2>1. m = n /\ vms[n].st = "ended" /\ node \in {"ready", "stopping"}
    BY <1>4 DEF Remove, IInv, TypeOK
  <2> QED BY <1>1, <2>1, Zenon DEF IInv, SInv, Boots, Owners, RecordedPcs
<1>5. ASSUME NEW m \in Names, store'[n] # store[n], BootStep(m)
      PROVE  FALSE
  BY <1>5, Zenon DEF BootStep, ReconcileEnded, Adopt, ReconcileDead, durable, IInv, TypeOK
<1>6. ASSUME NEW m \in Names, StartStep(m), ~RecordStart(m) PROVE store' = store
  BY <1>6, ZenonT(60)
     DEF StartStep, RunVm, StartHost, HostUp, Booted, StartFails, StartUnwind, ForgetStart,
         StartSupervising, durable
<1>7. ASSUME NEW m \in Names, WakeStep(m), ~RecordWake(m), ~WakeLost(m) PROVE store' = store
  BY <1>7, ZenonT(60)
     DEF WakeStep, WakeVm, WakeHost, HostUp, WakeHostFails, WakeMove, WakeLoad,
         WakeLoadFails, WakePutBack, WakeUnwind, PutBack, WakeSupervising, durable
<1>8. ASSUME NEW m \in Names, SupStep(m), ~RecordEnd(m) PROVE store' = store
  BY <1>8, Zenon
     DEF SupStep, SupNaturalEnd, SupStop, SupPark, SupSnapshot, SupSnapshotFails, SupKill,
         SupMoveOut, SupTeardown, durable
<1>9. ASSUME NEW m \in Names, CrashInRemove(m) PROVE store' = store
  BY <1>9 DEF CrashInRemove
<1>a. ASSUME NEW a \in Addrs, GuestEnds(a) \/ Sweep(a) PROVE store' = store
  BY <1>a DEF GuestEnds, Sweep
<1>b. CASE Shutdown \/ Exit \/ Crash \/ Boot \/ Ready \/ UNCHANGED vars
  BY <1>b DEF Shutdown, Exit, Crash, Boot, Ready, durable, vars
<1>10. ASSUME NEW m \in Names,
              \/ StartStep(m) \/ WakeStep(m) \/ SupStep(m) \/ BootStep(m)
              \/ Remove(m) \/ CrashInRemove(m)
       PROVE  store'[n] = store[n]
  BY <1>2, <1>3, <1>4, <1>5, <1>6, <1>7, <1>8, <1>9, <1>10
<1> QED BY <1>10, <1>a, <1>b DEF Next

(* No handler, supervisor or reconciliation writes, replaces or removes the  *)
(* record of a VM whose VMM is alive.                                        *)
THEOREM RecordKept == Spec => LiveRecordKept
<1>1. IInv /\ [Next]_vars => [\A n \in Names : IsRunning(store[n]) => store'[n] = store[n]]_vars
  BY RecordWriters
<1> QED BY <1>1, Inductive, PTL DEF Spec, LiveRecordKept

-----------------------------------------------------------------------------
(* The console log of one name: the record's is there, a start's own is not  *)
(* before host_steps makes it and is after, and is neither the record's nor  *)
(* that of the VM it replaces; next_log_number is past every one there is.   *)
LogOf(n) ==
  /\ store[n].st # "absent" => <<n, store[n].log>> \in logs
  /\ task[n].pc = "start" => <<n, vms[n].log>> \notin logs
  /\ task[n].pc \in VmmPcs => <<n, vms[n].log>> \in logs
  /\ task[n].pc \in StartPcs => task[n].old.log # vms[n].log
  /\ task[n].pc \in StartPcs \ {"recorded"} /\ store[n].st # "absent" => store[n].log # vms[n].log
  /\ vms[n].log < nextLog /\ task[n].old.log < nextLog
  /\ node # "down" => \A k \in 0..MaxLog : <<n, k>> \in logs => k < nextLog

(* A VM that is not starting for the first time is on record, and no VM has  *)
(* no log.                                                                   *)
OnRecord(n) ==
  /\ vms[n].st \in {"running", "ended"} \/ task[n].pc \in WakePcs \/ task[n].old.st = "ended" =>
       store[n].st # "absent"
  /\ task[n].pc = "idle" => task[n] = Idle
  /\ vms[n].st = "absent" => vms[n].log = NoLog
  /\ task[n].old.st = "absent" => task[n].old.log = NoLog

LogInv == \A n \in Names : LogOf(n) /\ OnRecord(n)

(* One name's start, VM or record moves and the logs of the others stay.     *)
LEMMA LogFrame ==
  ASSUME TypeOK, TypeOK', LogInv, NEW n \in Names, node' = node, nextLog <= nextLog',
         \A m \in Names \ {n} :
           /\ vms'[m] = vms[m] /\ task'[m] = task[m] /\ store'[m] = store[m]
           /\ \A k \in 0..MaxLog : <<m, k>> \in logs' <=> <<m, k>> \in logs,
         LogOf(n)', OnRecord(n)'
  PROVE  LogInv'
<1> SUFFICES ASSUME NEW m \in Names \ {n} PROVE LogOf(m)' /\ OnRecord(m)'
  BY Zenon DEF LogInv
<1>1. LogOf(m) /\ OnRecord(m)
  BY Zenon DEF LogInv
<1>2. /\ vms[m].log \in 0..MaxLog /\ store[m].log \in 0..MaxLog /\ task[m].old.log \in 0..MaxLog
      /\ nextLog \in 1..(MaxLog + 1) /\ nextLog' \in 1..(MaxLog + 1)
  BY DEF TypeOK, Entry, Task
<1>3. OnRecord(m)'
  BY <1>1, Zenon DEF OnRecord
<1>4. /\ vms'[m].log < nextLog' /\ task'[m].old.log < nextLog'
      /\ node' # "down" => \A k \in 0..MaxLog : <<m, k>> \in logs' => k < nextLog'
  <2>1. \A k \in 0..MaxLog : k < nextLog => k < nextLog'
    BY <1>2, MaxLogAssumption
  <2> QED
    BY <1>1, <1>2, <2>1, Zenon DEF LogOf
<1>5. LogOf(m)'
  BY <1>1, <1>2, <1>4, Zenon DEF LogOf
<1> QED
  BY <1>3, <1>5, Zenon

(* Steps that have nothing to do with logs: a supervisor's, the guests', the *)
(* sweep's, and the phases of an agent that is up.                           *)
LEMMA LogStill ==
  ASSUME LogInv, UNCHANGED <<vms, task, store, nextLog, logs>>, node = "down" => node' = "down"
  PROVE  LogInv'
BY Zenon DEF LogInv, LogOf, OnRecord

(* The agent ends: no start is under way, and what is on record stays. *)
LEMMA LogDied ==
  ASSUME IInv, LogInv, Die, UNCHANGED <<store, logs>>
  PROVE  LogInv'
<1> SUFFICES ASSUME NEW n \in Names PROVE LogOf(n)' /\ OnRecord(n)'
  BY Zenon DEF LogInv
<1>1. /\ vms'[n] = Absent /\ task'[n] = Idle /\ nextLog' = 1 /\ node' = "down"
      /\ store'[n] = store[n] /\ logs' = logs
  BY Zenon DEF Die
<1>2. /\ Absent.st = "absent" /\ Absent.log = 0 /\ Idle.pc = "idle" /\ Idle.old = Absent
      /\ NoLog = 0
  BY DEF Absent, Idle, NoLog
<1>3. "idle" \notin StartPcs \cup WakePcs \cup VmmPcs
  BY DEF StartPcs, WakePcs, VmmPcs
<1>4. store[n].st # "absent" => <<n, store[n].log>> \in logs
  BY Zenon DEF LogInv, LogOf
<1>5. Absent.log < 1
  BY <1>2
<1>6. LogOf(n)'
  BY <1>1, <1>2, <1>3, <1>4, <1>5, Zenon DEF LogOf
<1>7. OnRecord(n)'
  BY <1>1, <1>2, <1>3, Zenon DEF OnRecord
<1> QED
  BY <1>6, <1>7, Zenon

(* A start or wake goes on, or fails, without a new log or record. *)
LEMMA LogPc ==
  ASSUME IInv, IInv', LogInv, NEW n \in Names, NEW pc \in StartPcs \cup WakePcs, SetPc(n, pc),
         UNCHANGED <<node, vms, nextLog, store, logs>>,
         pc # "start", pc \in VmmPcs => task[n].pc \in VmmPcs,
         pc \in StartPcs => task[n].pc \in StartPcs \ {"recorded"},
         pc \in WakePcs => task[n].pc \in WakePcs
  PROVE  LogInv'
<1>1. /\ task'[n].pc = pc /\ task'[n].old = task[n].old
      /\ \A m \in Names \ {n} : task'[m] = task[m]
  BY SetPcEffect, Zenon DEF IInv
<1>2. LogOf(n) /\ OnRecord(n)
  BY Zenon DEF LogInv
<1>3. LogOf(n)'
  BY <1>1, <1>2, Zenon DEF LogOf
<1>4. OnRecord(n)'
  <2>1. pc # "idle"
    BY DEF StartPcs, WakePcs
  <2> QED
    BY <1>1, <1>2, <2>1, Zenon DEF OnRecord
<1>5. nextLog <= nextLog' /\ TypeOK /\ TypeOK'
  BY DEF IInv, TypeOK
<1> QED
  BY <1>1, <1>3, <1>4, <1>5, LogFrame, Zenon

(* The steps of a start or wake that only go on. *)
LEMMA GoesOn ==
  ASSUME NEW n \in Names,
         \/ Booted(n) \/ StartFails(n) \/ StartUnwind(n) \/ WakeHostFails(n) \/ WakeMove(n)
         \/ WakeLoad(n) \/ WakeLoadFails(n) \/ WakePutBack(n) \/ WakeUnwind(n)
  PROVE  /\ UNCHANGED <<node, todo, vms, sup, nextLog, store, logs>>
         /\ \/ task[n].pc = "boot" /\ (SetPc(n, "booted") \/ SetPc(n, "unwind"))
            \/ task[n].pc \in {"start", "unwind"} /\ SetPc(n, "failed")
            \/ task[n].pc = "wake" /\ SetPc(n, "wfailed")
            \/ task[n].pc = "move" /\ (SetPc(n, "load") \/ SetPc(n, "back"))
            \/ task[n].pc = "load" /\ (SetPc(n, "woken") \/ SetPc(n, "back"))
            \/ task[n].pc = "back" /\ SetPc(n, "wunwind")
            \/ task[n].pc = "wunwind" /\ SetPc(n, "wfailed")
<1>1. UNCHANGED <<node, todo, vms, sup, nextLog, store, logs>>
  BY Zenon DEF Booted, StartFails, StartUnwind, WakeHostFails, WakeMove, WakeLoad,
               WakeLoadFails, WakePutBack, WakeUnwind, durable
<1>2. CASE StartFails(n)
  <2>1. task[n].pc \in {"start", "boot"}
    BY <1>2, Zenon DEF StartFails
  <2> QED
    BY <1>1, <1>2, <2>1, Zenon DEF StartFails
<1> QED
  BY <1>1, <1>2, Zenon DEF Booted, StartUnwind, WakeHostFails, WakeMove, WakeLoad,
                           WakeLoadFails, WakePutBack, WakeUnwind

(* host_steps take a start or wake one step on. *)
LEMMA HostUpGoesOn ==
  ASSUME TypeOK, NEW n \in Names, NEW p \in Pids, StartHost(n, p) \/ WakeHost(n, p)
  PROVE  /\ UNCHANGED <<node, todo, vms, sup, nextLog, store, dir>>
         /\ \/ StartHost(n, p) /\ task[n].pc = "start" /\ task'[n].pc = "boot"
            \/ WakeHost(n, p) /\ task[n].pc = "wake" /\ task'[n].pc = "move"
         /\ task'[n].old = task[n].old
         /\ \A m \in Names \ {n} : task'[m] = task[m]
<1>1. UNCHANGED <<node, todo, vms, sup, nextLog, store, dir>>
  BY Zenon DEF StartHost, WakeHost, HostUp
<1>2. CASE StartHost(n, p)
  <2>1. task' = [task EXCEPT ![n].pc = "boot", ![n].pid = p] /\ task[n].pc = "start"
    BY <1>2, Zenon DEF StartHost, HostUp
  <2> QED BY <1>1, <1>2, <2>1 DEF TypeOK, Task
<1>3. CASE WakeHost(n, p)
  <2>1. task' = [task EXCEPT ![n].pc = "move", ![n].pid = p] /\ task[n].pc = "wake"
    BY <1>3, Zenon DEF WakeHost, HostUp
  <2> QED BY <1>1, <1>3, <2>1 DEF TypeOK, Task
<1> QED BY <1>2, <1>3, Zenon

(* ... and leave every log where it is. *)
LEMMA LogGoesOn ==
  ASSUME IInv, IInv', LogInv, NEW n \in Names,
         \/ Booted(n) \/ StartFails(n) \/ StartUnwind(n) \/ WakeHostFails(n) \/ WakeMove(n)
         \/ WakeLoad(n) \/ WakeLoadFails(n) \/ WakePutBack(n) \/ WakeUnwind(n)
  PROVE  LogInv'
BY GoesOn, LogPc, Zenon DEF StartPcs, WakePcs, VmmPcs

(* run_vm's new number is past every log's, the record's and that of the VM  *)
(* it replaces; a wake goes on with its VM's own.                            *)
LEMMA LogBegins ==
  ASSUME IInv, IInv', LogInv, NEW n \in Names,
         \/ \E h \in Hosts \cup {NoRoute}, a \in Addrs : RunVm(n, h, a)
         \/ \E a \in Addrs : WakeVm(n, a)
  PROVE  LogInv'
<1>0. TypeOK /\ TypeOK' /\ LogOf(n) /\ OnRecord(n)
  BY Zenon DEF IInv, LogInv
<1>1. /\ vms[n] \in Entry /\ store[n] \in Entry /\ vms[n].log \in 0..MaxLog
      /\ store[n].log \in 0..MaxLog /\ nextLog \in Nat
      /\ vms \in [Names -> Entry] /\ task \in [Names -> Task]
  BY <1>0 DEF TypeOK, Entry
<1>2. ASSUME NEW h \in Hosts \cup {NoRoute}, NEW a \in Addrs, RunVm(n, h, a) PROVE LogInv'
  <2>1. /\ node = "ready" /\ node' = node /\ nextLog <= MaxLog /\ nextLog' = nextLog + 1
        /\ logs' = logs /\ store' = store
    BY <1>2, Zenon DEF RunVm, durable
  <2>2. /\ vms'[n].st = "starting" /\ vms'[n].log = nextLog
        /\ task'[n].pc = "start" /\ task'[n].old = vms[n]
        /\ \A m \in Names \ {n} : vms'[m] = vms[m] /\ task'[m] = task[m]
    BY <1>1, <1>2, Zenon DEF RunVm, Absent, Idle
  <2>3. /\ <<n, nextLog>> \notin logs
        /\ store[n].st # "absent" => store[n].log < nextLog
        /\ \A k \in 0..MaxLog : <<n, k>> \in logs => k < nextLog
    <3>1. \A k \in 0..MaxLog : <<n, k>> \in logs => k < nextLog
      BY <1>0, <2>1, Zenon DEF LogOf
    <3>2. nextLog \in 0..MaxLog /\ ~(nextLog < nextLog)
      BY <1>1, <2>1, MaxLogAssumption
    <3>3. store[n].st # "absent" => <<n, store[n].log>> \in logs
      BY <1>0, Zenon DEF LogOf
    <3> QED
      BY <1>1, <3>1, <3>2, <3>3, Zenon
  <2>4. "start" \in StartPcs \ {"recorded"} /\ "start" \notin VmmPcs \cup WakePcs
    BY DEF StartPcs, VmmPcs, WakePcs
  <2>5. vms[n].log < nextLog
    BY <1>0, Zenon DEF LogOf
  <2>6. /\ vms[n].log # nextLog /\ (store[n].st # "absent" => store[n].log # nextLog)
        /\ nextLog < nextLog' /\ vms[n].log < nextLog' /\ nextLog <= nextLog'
        /\ \A k \in 0..MaxLog : <<n, k>> \in logs' => k < nextLog'
    BY <1>1, <2>1, <2>3, <2>5, MaxLogAssumption
  <2>7. LogOf(n)'
    BY <1>0, <2>1, <2>2, <2>3, <2>4, <2>6, Zenon DEF LogOf
  <2>8. OnRecord(n)'
    BY <1>0, <2>1, <2>2, <2>4, Zenon DEF OnRecord
  <2> QED
    BY <1>0, <2>1, <2>2, <2>6, <2>7, <2>8, LogFrame, Zenon
<1>3. ASSUME NEW a \in Addrs, WakeVm(n, a) PROVE LogInv'
  <2>1. /\ node' = node /\ nextLog' = nextLog /\ logs' = logs /\ store' = store
        /\ vms[n].st = "ended"
    BY <1>3, Zenon DEF WakeVm, durable, IsParked
  <2>2. /\ vms'[n].st = "starting" /\ vms'[n].log = vms[n].log
        /\ task'[n].pc = "wake" /\ task'[n].old = vms[n]
        /\ \A m \in Names \ {n} : vms'[m] = vms[m] /\ task'[m] = task[m]
    BY <1>1, <1>3, Zenon DEF WakeVm, Idle, Entry
  <2>3. "wake" \notin VmmPcs \cup StartPcs
    BY DEF StartPcs, VmmPcs
  <2>4. LogOf(n)'
    BY <1>0, <2>1, <2>2, <2>3, Zenon DEF LogOf
  <2>5. OnRecord(n)'
    BY <1>0, <2>1, <2>2, Zenon DEF OnRecord
  <2>6. nextLog <= nextLog'
    BY <1>1, <2>1
  <2> QED
    BY <1>0, <2>1, <2>2, <2>4, <2>5, <2>6, LogFrame, Zenon
<1> QED
  BY <1>2, <1>3, Zenon

(* host_steps makes the log. *)
LEMMA LogHostUp ==
  ASSUME IInv, IInv', LogInv, NEW n \in Names, NEW p \in Pids, StartHost(n, p) \/ WakeHost(n, p)
  PROVE  LogInv'
<1>0. TypeOK /\ TypeOK' /\ LogOf(n) /\ OnRecord(n)
  BY Zenon DEF IInv, LogInv
<1>1. /\ UNCHANGED <<node, vms, nextLog, store>> /\ logs' = logs \cup {<<n, vms[n].log>>}
  BY Zenon DEF StartHost, WakeHost, HostUp
<1>2. /\ \/ task[n].pc = "start" /\ task'[n].pc = "boot"
         \/ task[n].pc = "wake" /\ task'[n].pc = "move"
      /\ task'[n].old = task[n].old
      /\ \A m \in Names \ {n} : task'[m] = task[m]
  BY <1>0, HostUpGoesOn, Zenon
<1>3. \A m \in Names \ {n}, k \in 0..MaxLog : <<m, k>> \in logs' <=> <<m, k>> \in logs
  BY <1>1
<1>4. \A k \in 0..MaxLog : <<n, k>> \in logs' => <<n, k>> \in logs \/ k = vms[n].log
  BY <1>1
<1>5. LogOf(n)'
  <2>1. "boot" \in StartPcs \ {"recorded"} /\ "boot" # "start" /\ "move" \notin StartPcs
    BY DEF StartPcs
  <2>2. "start" \in StartPcs \ {"recorded"} /\ "move" # "start"
    BY DEF StartPcs
  <2> QED
    BY <1>0, <1>1, <1>2, <1>4, <2>1, <2>2, Zenon DEF LogOf
<1>6. OnRecord(n)'
  BY <1>0, <1>1, <1>2, Zenon DEF OnRecord, WakePcs
<1>7. nextLog <= nextLog'
  BY <1>0, <1>1 DEF TypeOK
<1> QED
  BY <1>0, <1>1, <1>2, <1>3, <1>5, <1>6, <1>7, LogFrame, Zenon

(* insert_running: the record names the log that host_steps made. *)
LEMMA LogRecorded ==
  ASSUME IInv, IInv', LogInv, NEW n \in Names, RecordStart(n) \/ RecordWake(n)
  PROVE  LogInv'
<1>0. TypeOK /\ TypeOK' /\ LogOf(n) /\ OnRecord(n)
  BY Zenon DEF IInv, LogInv
<1>1. UNCHANGED <<node, vms, nextLog, logs>>
  BY Zenon DEF RecordStart, RecordWake
<1>2. CASE UNCHANGED store
  <2>1. \/ task[n].pc = "booted" /\ (SetPc(n, "recorded") \/ SetPc(n, "unwind"))
        \/ task[n].pc = "woken" /\ (SetPc(n, "wrecorded") \/ SetPc(n, "wlost"))
    BY Zenon DEF RecordStart, RecordWake
  <2> QED
    BY <1>1, <1>2, <2>1, LogPc, Zenon DEF StartPcs, WakePcs, VmmPcs
<1>3. ASSUME NEW pc \in RecordedPcs, SetPc(n, pc), task[n].pc \in {"booted", "woken"},
             task[n].pc = "booted" <=> pc = "recorded",
             store' = [store EXCEPT ![n] = Running(vms[n], task[n].pid)]
      PROVE  LogInv'
  <2>1. pc \in StartPcs \cup WakePcs
    BY DEF RecordedPcs, StartPcs, WakePcs
  <2>2. /\ task'[n].pc = pc /\ task'[n].old = task[n].old
        /\ \A m \in Names \ {n} : task'[m] = task[m]
    BY <1>0, <1>3, <2>1, SetPcEffect, Zenon
  <2>3. vms \in [Names -> Entry] /\ store \in [Names -> Entry]
    BY <1>0, Zenon DEF TypeOK
  <2>4. /\ store'[n].st = "running" /\ store'[n].log = vms[n].log
        /\ \A m \in Names \ {n} : store'[m] = store[m]
    BY <1>3, <2>3, Zenon DEF Running, Entry
  <2>5. /\ task[n].pc \in VmmPcs /\ pc # "start" /\ (pc \in StartPcs => task[n].pc \in StartPcs)
        /\ pc \notin StartPcs \ {"recorded"}
    BY <1>3 DEF RecordedPcs, StartPcs, VmmPcs
  <2>6. LogOf(n)'
    BY <1>0, <1>1, <2>2, <2>4, <2>5, Zenon DEF LogOf
  <2>7. OnRecord(n)'
    <3>1. pc # "idle"
      BY DEF RecordedPcs
    <3> QED
      BY <1>0, <1>1, <2>2, <2>4, <3>1, Zenon DEF OnRecord
  <2>8. nextLog <= nextLog'
    BY <1>0, <1>1 DEF TypeOK
  <2> QED
    BY <1>0, <1>1, <2>2, <2>4, <2>6, <2>7, <2>8, LogFrame, Zenon
<1>4. UNCHANGED store \/ \E pc \in RecordedPcs :
        /\ SetPc(n, pc) /\ task[n].pc \in {"booted", "woken"}
        /\ task[n].pc = "booted" <=> pc = "recorded"
        /\ store' = [store EXCEPT ![n] = Running(vms[n], task[n].pid)]
  BY Zenon DEF RecordStart, RecordWake, RecordedPcs
<1> QED
  BY <1>2, <1>3, <1>4, Zenon

(* A start, wake or VM of this name is over, or supervised: the log of its   *)
(* record is not among those that go.                                        *)
LEMMA LogSettled ==
  ASSUME IInv, IInv', LogInv, NEW n \in Names, UNCHANGED <<node, nextLog>>,
         \A m \in Names \ {n} : vms'[m] = vms[m] /\ task'[m] = task[m] /\ store'[m] = store[m],
         NEW gone \in 0..MaxLog, logs' = logs \/ logs' = logs \ {<<n, gone>>},
         task'[n] = Idle, vms'[n].log < nextLog,
         store'[n].st # "absent" => <<n, store'[n].log>> \in logs',
         vms'[n].st \in {"running", "ended"} => store'[n].st # "absent",
         vms'[n].st = "absent" => vms'[n].log = NoLog
  PROVE  LogInv'
<1>0. TypeOK /\ TypeOK' /\ LogOf(n) /\ nextLog <= nextLog'
  <2>1. TypeOK /\ TypeOK' /\ LogOf(n) /\ nextLog' = nextLog
    BY Zenon DEF IInv, LogInv
  <2>2. nextLog \in 1..(MaxLog + 1)
    BY <2>1, Zenon DEF TypeOK
  <2> HIDE DEF TypeOK
  <2> QED BY <2>1, <2>2, MaxLogAssumption
<1>1. /\ Absent.st = "absent" /\ Absent.log = 0 /\ Idle.pc = "idle" /\ Idle.old = Absent
      /\ NoLog = 0
  BY DEF Absent, Idle, NoLog
<1>2. "idle" \notin StartPcs \cup WakePcs \cup VmmPcs
  BY DEF StartPcs, WakePcs, VmmPcs
<1>3. Absent.log < nextLog
  <2>1. nextLog \in 1..(MaxLog + 1)
    BY <1>0, Zenon DEF TypeOK
  <2> QED
    BY <1>1, <2>1, MaxLogAssumption
<1>4. \A k \in 0..MaxLog : <<n, k>> \in logs' => <<n, k>> \in logs
  BY Zenon
<1>5. \A m \in Names \ {n}, k \in 0..MaxLog : <<m, k>> \in logs' <=> <<m, k>> \in logs
  OBVIOUS
<1>6. LogOf(n)'
  BY <1>0, <1>1, <1>2, <1>3, <1>4, Zenon DEF LogOf
<1>7. OnRecord(n)'
  BY <1>1, <1>2, Zenon DEF OnRecord
<1> QED
  BY <1>0, <1>5, <1>6, <1>7, LogFrame, Zenon

(* A failed start takes its own log, a finished one that of the VM it        *)
(* replaced, and a wake takes none.                                          *)
LEMMA LogTaskEnds ==
  ASSUME IInv, IInv', LogInv, NEW n \in Names,
         \/ ForgetStart(n) \/ StartSupervising(n) \/ PutBack(n) \/ WakeLost(n) \/ WakeSupervising(n)
  PROVE  LogInv'
<1>0. TypeOK /\ TypeOK' /\ LogOf(n) /\ OnRecord(n)
  BY Zenon DEF IInv, LogInv
<1>1. /\ vms \in [Names -> Entry] /\ store \in [Names -> Entry] /\ task \in [Names -> Task]
      /\ vms[n].log \in 0..MaxLog /\ task[n].old \in Entry /\ task[n].old.log \in 0..MaxLog
  BY <1>0 DEF TypeOK, Entry, Task
<1>2. UNCHANGED <<node, nextLog>> /\ task' = [task EXCEPT ![n] = Idle]
  BY Zenon DEF ForgetStart, StartSupervising, PutBack, WakeLost, WakeSupervising, durable
<1>3. task'[n] = Idle /\ \A m \in Names \ {n} : task'[m] = task[m]
  BY <1>1, <1>2, Zenon
<1>4. ASSUME NEW e, vms' = [vms EXCEPT ![n] = e]
      PROVE  vms'[n] = e /\ \A m \in Names \ {n} : vms'[m] = vms[m]
  BY <1>1, <1>4, Zenon
<1>5. /\ vms[n].log < nextLog /\ task[n].old.log < nextLog
      /\ store[n].st # "absent" => <<n, store[n].log>> \in logs
  BY <1>0, Zenon DEF LogOf
<1>6. CASE ForgetStart(n)
  <2>1. /\ task[n].pc = "failed" /\ store' = store /\ logs' = logs \ {<<n, vms[n].log>>}
        /\ vms' = [vms EXCEPT ![n] = task[n].old]
    BY <1>6, Zenon DEF ForgetStart
  <2>2. vms'[n] = task[n].old /\ \A m \in Names \ {n} : vms'[m] = vms[m]
    BY <1>4, <2>1, Zenon
  <2>3. "failed" \in StartPcs \ {"recorded"}
    BY DEF StartPcs
  <2>4. store[n].st # "absent" => store[n].log # vms[n].log
    BY <1>0, <2>1, <2>3, Zenon DEF LogOf
  <2>5. store'[n].st # "absent" => <<n, store'[n].log>> \in logs'
    BY <1>5, <2>1, <2>4, Zenon
  <2>6. vms'[n].st \in {"running", "ended"} => store'[n].st # "absent"
    <3>1. task[n].old.st \in {"absent", "ended"}
      BY Zenon DEF IInv, SInv, Shapes
    <3> QED
      BY <1>0, <2>1, <2>2, <3>1, Zenon DEF OnRecord
  <2>7. vms'[n].st = "absent" => vms'[n].log = NoLog
    BY <1>0, <2>2, Zenon DEF OnRecord
  <2> QED
    BY <1>1, <1>2, <1>3, <1>5, <2>1, <2>2, <2>5, <2>6, <2>7, LogSettled, Zenon
<1>7. CASE StartSupervising(n)
  <2>1. /\ task[n].pc = "recorded" /\ store' = store /\ logs' = logs \ {<<n, task[n].old.log>>}
        /\ vms' = [vms EXCEPT ![n] = Running(vms[n], task[n].pid)]
    BY <1>7, Zenon DEF StartSupervising
  <2>2. vms'[n] = Running(vms[n], task[n].pid) /\ \A m \in Names \ {n} : vms'[m] = vms[m]
    BY <1>4, <2>1, Zenon
  <2>3. store[n] = Running(vms[n], task[n].pid)
    BY <2>1, Zenon DEF IInv, SInv, TaskRecorded, RecordedPcs
  <2>4. /\ Running(vms[n], task[n].pid).log = vms[n].log
        /\ Running(vms[n], task[n].pid).st = "running"
    BY <1>1 DEF Running, Entry
  <2>5. "recorded" \in StartPcs
    BY DEF StartPcs
  <2>6. task[n].old.log # vms[n].log
    BY <1>0, <2>1, <2>5, Zenon DEF LogOf
  <2>7. store'[n].st # "absent" => <<n, store'[n].log>> \in logs'
    BY <1>5, <2>1, <2>3, <2>4, <2>6, Zenon
  <2>8. store'[n].st # "absent" /\ vms'[n].log < nextLog /\ vms'[n].st # "absent"
    BY <1>5, <2>1, <2>2, <2>3, <2>4, Zenon
  <2> QED
    BY <1>1, <1>2, <1>3, <2>1, <2>2, <2>7, <2>8, LogSettled, Zenon
<1>8. CASE PutBack(n) \/ WakeLost(n) \/ WakeSupervising(n)
  <2>1. /\ task[n].pc \in {"wfailed", "wlost", "wrecorded"} /\ logs' = logs
        /\ store' = store \/ store' = [store EXCEPT ![n] = Ended(store[n], "forced")]
        /\ \E e \in {task[n].old, Ended(task[n].old, "forced"), Running(vms[n], task[n].pid)} :
             vms' = [vms EXCEPT ![n] = e]
    BY <1>8, Zenon DEF PutBack, WakeLost, WakeSupervising, durable
  <2>2. PICK e \in {task[n].old, Ended(task[n].old, "forced"), Running(vms[n], task[n].pid)} :
          vms' = [vms EXCEPT ![n] = e]
    BY <2>1, Zenon
  <2>3. vms'[n] = e /\ \A m \in Names \ {n} : vms'[m] = vms[m]
    BY <1>4, <2>2, Zenon
  <2>4. /\ Ended(task[n].old, "forced").log = task[n].old.log
        /\ Ended(task[n].old, "forced").st = "ended"
        /\ Running(vms[n], task[n].pid).log = vms[n].log
        /\ Running(vms[n], task[n].pid).st = "running"
    BY <1>1 DEF Ended, Running, Entry
  <2>5. vms'[n].log < nextLog
    BY <1>5, <2>2, <2>3, <2>4, Zenon
  <2>6. store[n].st # "absent"
    BY <1>0, <2>1, Zenon DEF OnRecord, WakePcs
  <2>7. /\ store'[n].st # "absent" /\ store'[n].log = store[n].log
        /\ \A m \in Names \ {n} : store'[m] = store[m]
    <3>1. store[n] \in Entry
      BY <1>1, Zenon
    <3>2. Ended(store[n], "forced").st = "ended" /\ Ended(store[n], "forced").log = store[n].log
      BY <3>1 DEF Ended, Entry
    <3> QED
      BY <1>1, <2>1, <2>6, <3>2, Zenon
  <2>8. <<n, store'[n].log>> \in logs'
    BY <1>5, <2>1, <2>6, <2>7, Zenon
  <2>9. vms'[n].st = "absent" => vms'[n].log = NoLog
    BY <1>0, <2>2, <2>3, <2>4, Zenon DEF OnRecord
  <2> QED
    BY <1>1, <1>2, <1>3, <2>1, <2>3, <2>5, <2>7, <2>8, <2>9, LogSettled, Zenon
<1> QED
  BY <1>6, <1>7, <1>8, Zenon

(* The end of a VM, rm and the look at a record at the next start: rm takes  *)
(* the log with the record that names it.                                    *)
LEMMA LogVmEnds ==
  ASSUME IInv, IInv', LogInv, NEW n \in Names,
         RecordEnd(n) \/ Remove(n) \/ BootStep(n)
  PROVE  LogInv'
<1>0. TypeOK /\ TypeOK' /\ LogOf(n) /\ OnRecord(n)
  BY Zenon DEF IInv, LogInv
<1>1. /\ vms \in [Names -> Entry] /\ store \in [Names -> Entry] /\ vms[n] \in Entry
      /\ store[n] \in Entry /\ vms[n].log \in 0..MaxLog /\ store[n].log \in 0..MaxLog
      /\ sup[n].reason \in Reasons /\ nextLog \in 1..(MaxLog + 1)
  BY <1>0 DEF TypeOK, Entry, Sup
<1>2. /\ vms[n].log < nextLog
      /\ store[n].st # "absent" => <<n, store[n].log>> \in logs
      /\ node # "down" => \A k \in 0..MaxLog : <<n, k>> \in logs => k < nextLog
  BY <1>0, Zenon DEF LogOf
<1>3. ASSUME task[n].pc = "idle" PROVE task[n] = Idle
  BY <1>0, <1>3, Zenon DEF OnRecord
<1>4. \A e \in Entry : \A why : Ended(e, why).st = "ended" /\ Ended(e, why).log = e.log
  BY DEF Ended, Entry
<1>5. ASSUME NEW e, vms' = [vms EXCEPT ![n] = e]
      PROVE  vms'[n] = e /\ \A m \in Names \ {n} : vms'[m] = vms[m]
  BY <1>1, <1>5, Zenon
<1>6. ASSUME NEW e, store' = [store EXCEPT ![n] = e]
      PROVE  store'[n] = e /\ \A m \in Names \ {n} : store'[m] = store[m]
  BY <1>1, <1>6, Zenon
<1>7. CASE RecordEnd(n)
  <2>1. /\ sup[n].pc = "end" /\ UNCHANGED <<node, nextLog, logs, task>>
        /\ store' = store \/ store' = [store EXCEPT ![n] = Ended(store[n], sup[n].reason)]
        /\ vms' = [vms EXCEPT ![n] = Ended(vms[n], sup[n].reason)]
    BY <1>7, Zenon DEF RecordEnd
  <2>2. vms[n].st = "running" /\ task[n].pc = "idle"
    BY <2>1, Zenon DEF IInv, SInv, Owners
  <2>3. store[n].st # "absent"
    BY <1>0, <2>2, Zenon DEF OnRecord
  <2>4. /\ vms'[n].log = vms[n].log /\ vms'[n].st = "ended"
        /\ \A m \in Names \ {n} : vms'[m] = vms[m]
    <3>1. /\ Ended(vms[n], sup[n].reason).st = "ended"
          /\ Ended(vms[n], sup[n].reason).log = vms[n].log
      BY <1>1, <1>4, Zenon
    <3>2. /\ vms'[n] = Ended(vms[n], sup[n].reason)
          /\ \A m \in Names \ {n} : vms'[m] = vms[m]
      BY <1>5, <2>1, Zenon
    <3> QED
      BY <3>1, <3>2, Zenon
  <2>5. /\ store'[n].st # "absent" /\ store'[n].log = store[n].log
        /\ \A m \in Names \ {n} : store'[m] = store[m]
    <3>1. CASE store' = store
      BY <2>3, <3>1, Zenon
    <3>2. CASE store' = [store EXCEPT ![n] = Ended(store[n], sup[n].reason)]
      <4>1. /\ Ended(store[n], sup[n].reason).st = "ended"
            /\ Ended(store[n], sup[n].reason).log = store[n].log
        BY <1>1, <1>4, Zenon
      <4>2. /\ store'[n] = Ended(store[n], sup[n].reason)
            /\ \A m \in Names \ {n} : store'[m] = store[m]
        BY <1>6, <3>2, Zenon
      <4> QED
        BY <4>1, <4>2, Zenon
    <3> QED
      BY <2>1, <3>1, <3>2, Zenon
  <2>6. <<n, store'[n].log>> \in logs' /\ vms'[n].log < nextLog /\ task'[n] = Idle
    BY <1>2, <1>3, <2>1, <2>2, <2>3, <2>4, <2>5, Zenon
  <2> QED
    BY <1>1, <2>1, <2>4, <2>5, <2>6, LogSettled, Zenon
<1>8. CASE Remove(n)
  <2>1. UNCHANGED <<node, nextLog, task>> /\ vms[n].st = "ended"
    BY <1>8, Zenon DEF Remove
  <2>2. CASE UNCHANGED <<store, logs, vms>>
    BY <2>1, <2>2, LogStill, Zenon
  <2>3. CASE /\ store' = [store EXCEPT ![n] = Absent] /\ logs' = logs \ {<<n, vms[n].log>>}
             /\ vms' = [vms EXCEPT ![n] = Absent]
    <3>1. /\ store'[n] = Absent /\ vms'[n] = Absent
          /\ \A m \in Names \ {n} : store'[m] = store[m] /\ vms'[m] = vms[m]
      BY <1>5, <1>6, <2>3, Zenon
    <3>2. Absent.st = "absent" /\ Absent.log < nextLog /\ Absent.log = NoLog
      BY <1>1 DEF Absent, NoLog
    <3>3. task'[n] = Idle
      BY <1>3, <2>1, Zenon DEF IInv, SInv, Owners
    <3> QED
      BY <1>1, <2>1, <2>3, <3>1, <3>2, <3>3, LogSettled, Zenon
  <2> QED
    BY <1>8, <2>2, <2>3, Zenon DEF Remove
<1>9. CASE BootStep(n)
  <2>1. node = "boot" /\ n \in todo
    BY <1>9, Zenon DEF BootStep, ReconcileEnded, Adopt, ReconcileDead
  <2>2. vms[n].st = "absent"
    BY <2>1, Zenon DEF IInv, SInv, Boots
  <2>3. task[n].pc = "idle"
    BY <2>2, Zenon DEF IInv, SInv, Owners
  <2>4. CASE Die /\ UNCHANGED durable
    BY <2>4, LogDied, Zenon DEF durable
  <2>5. CASE /\ UNCHANGED <<node, nextLog, task, logs>> /\ store[n].st # "absent"
             /\ \/ store' = store /\ vms' = [vms EXCEPT ![n] = store[n]]
                \/ /\ store' = [store EXCEPT ![n] = Ended(store[n], "agent_down")]
                   /\ vms' = [vms EXCEPT ![n] = Ended(store[n], "agent_down")]
    <3>1. store[n].log < nextLog
      BY <1>1, <1>2, <2>1, <2>5, Zenon
    <3>2. /\ store'[n].st # "absent" /\ store'[n].log = store[n].log
          /\ vms'[n].log = store[n].log /\ vms'[n].st # "absent"
          /\ \A m \in Names \ {n} : store'[m] = store[m] /\ vms'[m] = vms[m]
      <4>1. CASE store' = store /\ vms' = [vms EXCEPT ![n] = store[n]]
        <5>1. vms'[n] = store[n] /\ \A m \in Names \ {n} : vms'[m] = vms[m]
          BY <1>5, <4>1, Zenon
        <5> QED
          BY <2>5, <4>1, <5>1, Zenon
      <4>2. CASE /\ store' = [store EXCEPT ![n] = Ended(store[n], "agent_down")]
                 /\ vms' = [vms EXCEPT ![n] = Ended(store[n], "agent_down")]
        <5>1. /\ Ended(store[n], "agent_down").st = "ended"
              /\ Ended(store[n], "agent_down").log = store[n].log
          BY <1>1, <1>4, Zenon
        <5>2. /\ store'[n] = Ended(store[n], "agent_down")
              /\ \A m \in Names \ {n} : store'[m] = store[m]
          BY <1>6, <4>2, Zenon
        <5>3. /\ vms'[n] = Ended(store[n], "agent_down")
              /\ \A m \in Names \ {n} : vms'[m] = vms[m]
          BY <1>5, <4>2, Zenon
        <5> QED
          BY <5>1, <5>2, <5>3, Zenon
      <4> QED
        BY <2>5, <4>1, <4>2, Zenon
    <3>3. <<n, store'[n].log>> \in logs' /\ task'[n] = Idle /\ vms'[n].log < nextLog
      BY <1>2, <1>3, <2>3, <2>5, <3>1, <3>2, Zenon
    <3> QED
      BY <1>1, <2>5, <3>2, <3>3, LogSettled, Zenon
  <2> QED
    BY <1>9, <2>4, <2>5, Zenon
       DEF BootStep, ReconcileEnded, Adopt, ReconcileDead, durable, IsRunning
<1> QED
  BY <1>7, <1>8, <1>9, Zenon

(* The next start removes the logs that no record names, and numbers from    *)
(* past all there were.                                                      *)
LEMMA LogBoot == ASSUME IInv, IInv', LogInv, Boot PROVE LogInv'
<1>0. PICK k \in 1..(MaxLog + 1) : NextLogNumber(k) /\ nextLog' = k
  BY Zenon DEF Boot
<1>1. /\ node = "down" /\ UNCHANGED <<vms, task, store>>
      /\ logs' = {l \in logs : store[l[1]].st # "absent" /\ store[l[1]].log = l[2]}
  BY Zenon DEF Boot
<1> SUFFICES ASSUME NEW n \in Names PROVE LogOf(n)' /\ OnRecord(n)'
  BY Zenon DEF LogInv
<1>2. LogOf(n) /\ OnRecord(n)
  BY Zenon DEF LogInv
<1>3. vms[n].st = "absent" /\ task[n].pc = "idle"
  BY <1>1, Zenon DEF IInv, SInv, Boots, Owners
<1>4. Idle.old = Absent /\ Absent.log = 0 /\ NoLog = 0 /\ 0 < nextLog'
  BY <1>0, MaxLogAssumption DEF Idle, Absent, NoLog
<1>5. vms[n].log < nextLog' /\ task[n].old.log < nextLog'
  BY <1>2, <1>3, <1>4, Zenon DEF OnRecord
<1>6. \A j \in 0..MaxLog : <<n, j>> \in logs' => j < nextLog'
  BY <1>0, <1>1, Zenon DEF NextLogNumber
<1>7. store[n].st # "absent" => <<n, store[n].log>> \in logs'
  BY <1>1, <1>2 DEF LogOf
<1>8. "idle" \notin StartPcs \cup WakePcs \cup VmmPcs
  BY DEF StartPcs, WakePcs, VmmPcs
<1>9. LogOf(n)'
  BY <1>1, <1>3, <1>5, <1>6, <1>7, <1>8, Zenon DEF LogOf
<1> QED
  BY <1>1, <1>2, <1>9, Zenon DEF OnRecord

(* Every step keeps the logs in order. *)
LEMMA LogNext == ASSUME IInv, IInv', LogInv, [Next]_vars PROVE LogInv'
<1>1. ASSUME NEW n \in Names, StartStep(n) \/ WakeStep(n) PROVE LogInv'
  BY <1>1, LogGoesOn, LogBegins, LogHostUp, LogRecorded, LogTaskEnds, Zenon DEF StartStep, WakeStep
<1>2. ASSUME NEW n \in Names, SupStep(n) PROVE LogInv'
  <2>1. CASE RecordEnd(n)
    BY <2>1, LogVmEnds, Zenon
  <2>2. CASE ~RecordEnd(n)
    <3>1. UNCHANGED <<vms, task, store, nextLog, logs, node>>
      BY <1>2, <2>2, Zenon DEF SupStep, SupNaturalEnd, SupStop, SupPark, SupSnapshot,
                               SupSnapshotFails, SupKill, SupMoveOut, SupTeardown, durable
    <3> QED
      BY <3>1, LogStill, Zenon
  <2> QED
    BY <2>1, <2>2, Zenon
<1>3. ASSUME NEW n \in Names, BootStep(n) \/ Remove(n) PROVE LogInv'
  BY <1>3, LogVmEnds, Zenon
<1>4. ASSUME NEW n \in Names, CrashInRemove(n) PROVE LogInv'
  BY <1>4, LogDied, Zenon DEF CrashInRemove
<1>5. ASSUME NEW a \in Addrs, GuestEnds(a) \/ Sweep(a) PROVE LogInv'
  BY <1>5, LogStill, Zenon DEF GuestEnds, Sweep, volatile
<1>6. CASE Shutdown \/ Ready
  BY <1>6, LogStill, Zenon DEF Shutdown, Ready, durable
<1>7. CASE Exit \/ Crash
  BY <1>7, LogDied, Zenon DEF Exit, Crash, durable
<1>8. CASE Boot
  BY <1>8, LogBoot
<1>9. CASE UNCHANGED vars
  BY <1>9, LogStill, Zenon DEF vars
<1> QED
  BY <1>1, <1>2, <1>3, <1>4, <1>5, <1>6, <1>7, <1>8, <1>9, Zenon DEF Next

(* The logs are in order in every behaviour of the agent.                    *)
THEOREM LogsInductive == Spec => [](IInv /\ LogInv)
<1>1. Init => LogInv
  <2> SUFFICES ASSUME Init, NEW n \in Names PROVE LogOf(n) /\ OnRecord(n)
    BY Zenon DEF LogInv
  <2>1. vms[n] = Absent /\ store[n] = Absent /\ task[n] = Idle /\ nextLog = 1 /\ logs = {}
    BY Zenon DEF Init
  <2>2. /\ Absent.st = "absent" /\ Absent.log = NoLog /\ Idle.pc = "idle" /\ Idle.old = Absent
        /\ NoLog < 1
    BY DEF Absent, Idle, NoLog
  <2>3. "idle" \notin StartPcs \cup WakePcs \cup VmmPcs
    BY Zenon DEF StartPcs, WakePcs, VmmPcs
  <2>4. LogOf(n)
    BY <2>1, <2>2, <2>3 DEF LogOf
  <2> QED
    BY <2>1, <2>2, <2>3, <2>4, Zenon DEF OnRecord
<1>2. IInv /\ IInv' /\ LogInv /\ [Next]_vars => LogInv'
  BY LogNext, Zenon
<1> QED
  BY <1>1, <1>2, Inductive, PTL DEF Spec

(* The console log that a record names is there, and a start opens no log    *)
(* that is there already: through failed starts, replaced names, rm, crashes *)
(* and the removal of unrecorded logs.                                       *)
THEOREM LogsKept == Spec => []RecordedLogKept
<1>1. LogInv => RecordedLogKept
  BY Zenon DEF LogInv, LogOf, RecordedLogKept
<1> QED
  BY <1>1, LogsInductive, PTL
=============================================================================
