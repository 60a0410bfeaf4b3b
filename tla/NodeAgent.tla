------------------------------ MODULE NodeAgent ------------------------------
(* The Node agent's VM registry, its state database, the snapshots of parked *)
(* VMs, their console logs and the host state of every VM address, through   *)
(* run, park, wake, stop, rm, shutdown, a crash and the reconciliation of    *)
(* the next start (crates/cirro-node/src/agent.rs, state.rs, vm.rs).         *)
(*                                                                           *)
(* A handler is cut into actions at its awaits and where a crash between two *)
(* of its durable writes can be told apart. How a supervisor receives its    *)
(* stop requests is the subject of Supervisor, what the edge does with an    *)
(* App's requests that of EdgeHold; here any stop may come at any time.      *)
EXTENDS Integers

CONSTANTS
  Names,      \* VM names, compared as the registry's BTreeMap orders them
  Addrs,      \* the VM addresses of the Node subnet
  Hosts,      \* hostnames of routes
  NoRoute,    \* a VM that isn't an App
  Pids,       \* identities of VMM processes: pid and start time together
  MaxLog,     \* bound on the numbers of console logs
  Faults      \* what may go wrong in a behaviour, a subset of FaultKinds

(* "start"  a VM start fails          "load"   a snapshot load fails          *)
(* "guest"  a guest ends by itself    "reply"  ... after the guest was resumed*)
(* "park"   a pause or snapshot fails "resume" resuming a paused guest fails  *)
(* "disk"   moving or removing files  "store"  a database write fails         *)
(* "crash"  the agent is killed       "undo"   a step of a teardown fails     *)
FaultKinds == {"start", "guest", "park", "resume", "disk", "load", "reply", "store", "undo",
               "crash"}

NoAddr == 0
NoPid  == 0
NoLog  == 0

ASSUME NamesAssumption  == Names \subseteq Nat
ASSUME AddrsAssumption  == Addrs \subseteq Nat \ {NoAddr}
ASSUME PidsAssumption   == Pids \subseteq Nat \ {NoPid}
ASSUME HostsAssumption  == NoRoute \notin Hosts
ASSUME MaxLogAssumption == MaxLog \in Nat
ASSUME FaultsAssumption == Faults \subseteq FaultKinds

VARIABLES
  node,     \* "down", "boot" (reconciling), "ready" or "stopping"
  todo,     \* names whose record the reconciliation has still to look at
  vms,      \* the registry: name -> entry
  task,     \* name -> the start or wake under way for it
  sup,      \* name -> its VM's supervisor task
  nextLog,  \* the number of the next console log
  store,    \* the state database: name -> record
  dir,      \* name -> its directory under parked/
  logs,     \* the console log files, <<name, number>>
  host      \* VM address -> the host state in its name

volatile == <<node, todo, vms, task, sup, nextLog>>
durable  == <<store, dir, logs, host>>
vars     == <<node, todo, vms, task, sup, nextLog, store, dir, logs, host>>
-----------------------------------------------------------------------------
(* Entries and records. A record of the database has the shape of an entry   *)
(* and is never "starting".                                                  *)
Reasons == {"none", "exited", "forced", "parked", "agent_down"}

Entry == [st : {"absent", "starting", "running", "ended"}, addr : Addrs \cup {NoAddr},
          pid : Pids \cup {NoPid}, log : 0..MaxLog, host : Hosts \cup {NoRoute},
          reason : Reasons]

Absent == [st |-> "absent", addr |-> NoAddr, pid |-> NoPid, log |-> NoLog,
           host |-> NoRoute, reason |-> "none"]

IsParked(e) == e.st = "ended" /\ e.reason = "parked"

Ended(e, why) == [e EXCEPT !.st = "ended", !.addr = NoAddr, !.pid = NoPid, !.reason = why]

Running(e, p) == [e EXCEPT !.st = "running", !.pid = p]

(* The task of a start or wake: its program counter, the VMM it spawned and  *)
(* the Ended VM set aside (Replaced in the code), Absent if there was none.  *)
StartPcs == {"start", "boot", "booted", "recorded", "unwind", "failed"}
WakePcs  == {"wake", "move", "load", "woken", "wrecorded", "back", "wunwind", "wfailed", "wlost"}
Task     == [pc : {"idle"} \cup StartPcs \cup WakePcs, pid : Pids \cup {NoPid}, old : Entry]
Idle     == [pc |-> "idle", pid |-> NoPid, old |-> Absent]

Sup   == [pc : {"none", "watch", "snapshot", "kill", "moveout", "teardown", "end"},
          reason : Reasons]
NoSup == [pc |-> "none", reason |-> "none"]
Watch == [pc |-> "watch", reason |-> "none"]

(* Namespace, links, jail and cgroup of one VM address, with the VMM         *)
(* process. `files`: the jail holds a snapshot's files; `ran`: the guest has *)
(* run since those files were a consistent set. Remains is whatever a        *)
(* teardown that failed in part has left, without a VMM.                     *)
HostState == [pid : Pids \cup {NoPid}, vmm : {"none", "live", "paused", "dead"},
              files : BOOLEAN, ran : BOOLEAN]
NoHost    == [pid |-> NoPid, vmm |-> "none", files |-> FALSE, ran |-> FALSE]
Remains   == [pid |-> NoPid, vmm |-> "dead", files |-> FALSE, ran |-> FALSE]

(* A snapshot directory: "empty" is any set of files that can't be woken,    *)
(* "stale" a complete one whose guest has run since.                         *)
DirState == {"none", "empty", "full", "stale"}

TypeOK ==
  /\ node \in {"down", "boot", "ready", "stopping"}
  /\ todo \subseteq Names
  /\ vms \in [Names -> Entry]
  /\ task \in [Names -> Task]
  /\ sup \in [Names -> Sup]
  /\ nextLog \in 1..(MaxLog + 1)
  /\ store \in [Names -> Entry]
  /\ dir \in [Names -> DirState]
  /\ logs \subseteq Names \X (0..MaxLog)
  /\ host \in [Addrs -> HostState]

Init ==
  /\ node = "ready"
  /\ todo = {}
  /\ vms = [n \in Names |-> Absent]
  /\ task = [n \in Names |-> Idle]
  /\ sup = [n \in Names |-> NoSup]
  /\ nextLog = 1
  /\ store = [n \in Names |-> Absent]
  /\ dir = [n \in Names |-> "none"]
  /\ logs = {}
  /\ host = [a \in Addrs |-> NoHost]
-----------------------------------------------------------------------------
Up == node \in {"boot", "ready", "stopping"}

Holds(n) == vms[n].st \in {"starting", "running"}

(* Mutant of FreeAddr: an address counts as held only once its VM runs. *)
BugFreeAddr(a) ==
  LET free(b) == \A n \in Names : vms[n].st = "running" => vms[n].addr # b
  IN  free(a) /\ \A b \in Addrs : free(b) => a <= b

(* free_vm_address: the lowest VM address no entry holds. *)
FreeAddr(a) ==
  LET free(b) == \A n \in Names : vms[n].addr # b
  IN  free(a) /\ \A b \in Addrs : free(b) => a <= b

(* A new process: nothing on the Node or on record has its identity. *)
FreshPid(p) ==
  LET fresh(q) == /\ \A a \in Addrs : host[a].pid # q
                  /\ \A n \in Names : store[n].pid # q /\ task[n].pid # q
  IN  fresh(p) /\ \A q \in Pids : fresh(q) => p <= q

(* Mutant of AppWithHost: an Ended App loses its hostname. *)
BugAppWithHost(n, h) ==
  Holds(n) /\ vms[n].host = h /\ \A m \in Names : Holds(m) /\ vms[m].host = h => n <= m

(* app_with_host: the first App, in name order, whose route has `h`. *)
AppWithHost(n, h) ==
  vms[n].host = h /\ \A m \in Names : vms[m].host = h => n <= m

SetHost(a, h) == host' = [host EXCEPT ![a] = h]
SetPc(n, pc)  == task' = [task EXCEPT ![n].pc = pc]
SetSup(n, pc) == sup' = [sup EXCEPT ![n].pc = pc]
EndSup(n, why) == sup' = [sup EXCEPT ![n] = [pc |-> "teardown", reason |-> why]]

Fault(kind) == kind \in Faults

(* Vm::teardown: kills the VMM and undoes the start's steps, each of which   *)
(* only logs a failure.                                                      *)
Teardown(a) == SetHost(a, NoHost) \/ (Fault("undo") /\ SetHost(a, Remains))
-----------------------------------------------------------------------------
(* Starting a VM: run_vm and start_vm.                                       *)

(* run_vm under the registry's lock: every refusal is a conjunct. The Ended  *)
(* VM of that name is set aside in the task.                                 *)
RunVm(n, h, a) ==
  /\ node = "ready"
  /\ vms[n].st \in {"absent", "ended"} /\ ~IsParked(vms[n])
  /\ h # NoRoute => \A m \in Names : AppWithHost(m, h) => m = n
  /\ FreeAddr(a)
  /\ nextLog <= MaxLog
  /\ vms' = [vms EXCEPT ![n] = [Absent EXCEPT !.st = "starting", !.addr = a,
                                              !.log = nextLog, !.host = h]]
  /\ task' = [task EXCEPT ![n] = [Idle EXCEPT !.pc = "start", !.old = vms[n]]]
  /\ nextLog' = nextLog + 1
  /\ UNCHANGED <<node, todo, sup, durable>>

(* host_steps: the console log, the host objects and the VMM. `ip netns add` *)
(* refuses an address that still has them.                                   *)
HostUp(n, from, to, p) ==
  LET a == vms[n].addr IN
  /\ task[n].pc = from
  /\ host[a] = NoHost
  /\ FreshPid(p)
  /\ SetHost(a, [pid |-> p, vmm |-> "live", files |-> FALSE, ran |-> FALSE])
  /\ logs' = logs \cup {<<n, vms[n].log>>}
  /\ task' = [task EXCEPT ![n].pc = to, ![n].pid = p]
  /\ UNCHANGED <<node, todo, vms, sup, nextLog, store, dir>>

StartHost(n, p) == HostUp(n, "start", "boot", p)

(* Devices, boot, guest-init's config and the grace period. *)
Booted(n) ==
  /\ task[n].pc = "boot"
  /\ host[vms[n].addr].vmm = "live"
  /\ SetPc(n, "booted")
  /\ UNCHANGED <<node, todo, vms, sup, nextLog, durable>>

(* Vm::start fails, at any of its steps. *)
StartFails(n) ==
  /\ \/ task[n].pc \in {"start", "boot"} /\ Fault("start")
     \/ task[n].pc = "start" /\ host[vms[n].addr] # NoHost
     \/ task[n].pc = "boot" /\ host[vms[n].addr].vmm = "dead"
  /\ SetPc(n, IF task[n].pc = "boot" THEN "unwind" ELSE "failed")
  /\ UNCHANGED <<node, todo, vms, sup, nextLog, durable>>

(* Mutant of RecordStart: a start that can't be recorded is kept. *)
BugRecordStart(n) ==
  /\ task[n].pc = "booted"
  /\ \/ store' = [store EXCEPT ![n] = Running(vms[n], task[n].pid)]
     \/ Fault("store") /\ UNCHANGED store
  /\ SetPc(n, "recorded")
  /\ UNCHANGED <<node, todo, vms, sup, nextLog, dir, logs, host>>

(* start_vm's insert_running, which a Vm::destroy follows if it fails. *)
RecordStart(n) ==
  /\ task[n].pc = "booted"
  /\ \/ /\ store' = [store EXCEPT ![n] = Running(vms[n], task[n].pid)]
        /\ SetPc(n, "recorded")
     \/ Fault("store") /\ SetPc(n, "unwind") /\ UNCHANGED store
  /\ UNCHANGED <<node, todo, vms, sup, nextLog, dir, logs, host>>

StartUnwind(n) ==
  /\ task[n].pc = "unwind"
  /\ Teardown(vms[n].addr)
  /\ SetPc(n, "failed")
  /\ UNCHANGED <<node, todo, vms, sup, nextLog, store, dir, logs>>

(* Mutant of ForgetStart: the put-back VM's log is removed. *)
BugForgetLog(n) ==
  /\ task[n].pc = "failed"
  /\ logs' = logs \ {<<n, task[n].old.log>>}
  /\ vms' = [vms EXCEPT ![n] = task[n].old]
  /\ task' = [task EXCEPT ![n] = Idle]
  /\ UNCHANGED <<node, todo, sup, nextLog, store, dir, host>>

(* forget_start: puts back the Ended VM, removes the start's own log. *)
ForgetStart(n) ==
  /\ task[n].pc = "failed"
  /\ logs' = logs \ {<<n, vms[n].log>>}
  /\ vms' = [vms EXCEPT ![n] = task[n].old]
  /\ task' = [task EXCEPT ![n] = Idle]
  /\ UNCHANGED <<node, todo, sup, nextLog, store, dir, host>>

(* start_vm's end: the replaced VM's log goes, the supervisor takes over. *)
StartSupervising(n) ==
  /\ task[n].pc = "recorded"
  /\ logs' = logs \ {<<n, task[n].old.log>>}
  /\ vms' = [vms EXCEPT ![n] = Running(vms[n], task[n].pid)]
  /\ sup' = [sup EXCEPT ![n] = Watch]
  /\ task' = [task EXCEPT ![n] = Idle]
  /\ UNCHANGED <<node, todo, nextLog, store, dir, host>>
-----------------------------------------------------------------------------
(* Waking a parked VM: wake_vm, Vm::wake and finish_wake.                    *)

WakeVm(n, a) ==
  /\ node = "ready"
  /\ IsParked(vms[n])
  /\ dir[n] # "none"
  /\ FreeAddr(a)
  /\ vms' = [vms EXCEPT ![n] = [vms[n] EXCEPT !.st = "starting", !.addr = a,
                                              !.reason = "none"]]
  /\ task' = [task EXCEPT ![n] = [Idle EXCEPT !.pc = "wake", !.old = vms[n]]]
  /\ UNCHANGED <<node, todo, sup, nextLog, durable>>

WakeHost(n, p) == HostUp(n, "wake", "move", p)

(* The snapshot's files into the jail. A move that fails part-way leaves     *)
(* them in both places.                                                      *)
WakeMove(n) ==
  LET a == vms[n].addr
      move(pc) == /\ dir[n] \in {"full", "stale"}
                  /\ dir' = [dir EXCEPT ![n] = "empty"]
                  /\ SetHost(a, [host[a] EXCEPT !.files = TRUE, !.ran = dir[n] = "stale"])
                  /\ SetPc(n, pc)
  IN
  /\ task[n].pc = "move"
  /\ \/ move("load")
     \/ Fault("disk") /\ move("back")
     \/ dir[n] \notin {"full", "stale"} /\ SetPc(n, "back") /\ UNCHANGED <<dir, host>>
  /\ UNCHANGED <<node, todo, vms, sup, nextLog, store, logs>>

(* load_snapshot resumes the guest in the same call. *)
WakeLoad(n) ==
  LET a == vms[n].addr IN
  /\ task[n].pc = "load"
  /\ host[a].vmm = "live"
  /\ SetHost(a, [host[a] EXCEPT !.ran = TRUE])
  /\ SetPc(n, "woken")
  /\ UNCHANGED <<node, todo, vms, sup, nextLog, store, dir, logs>>

WakeLoadFails(n) ==
  LET a == vms[n].addr IN
  /\ task[n].pc = "load"
  /\ \/ (Fault("load") \/ host[a].vmm = "dead") /\ UNCHANGED host
     \/ Fault("reply") /\ SetHost(a, [host[a] EXCEPT !.ran = TRUE])
  /\ SetPc(n, "back")
  /\ UNCHANGED <<node, todo, vms, sup, nextLog, store, dir, logs>>

(* Mutant of WakePutBack: the files stay in the jail. *)
BugWakePutBack(n) ==
  /\ task[n].pc = "back"
  /\ SetPc(n, "wunwind")
  /\ UNCHANGED <<node, todo, vms, sup, nextLog, durable>>

(* Vm::wake's error path: the files back out of the jail, a failure of which *)
(* is only logged.                                                           *)
WakePutBack(n) ==
  LET a == vms[n].addr IN
  /\ task[n].pc = "back"
  /\ \/ /\ host[a].files
        /\ dir' = [dir EXCEPT ![n] = IF host[a].ran THEN "stale" ELSE "full"]
        /\ SetHost(a, [host[a] EXCEPT !.files = FALSE])
     \/ (Fault("disk") \/ ~host[a].files) /\ UNCHANGED <<dir, host>>
  /\ SetPc(n, "wunwind")
  /\ UNCHANGED <<node, todo, vms, sup, nextLog, store, logs>>

WakeUnwind(n) ==
  /\ task[n].pc = "wunwind"
  /\ Teardown(vms[n].addr)
  /\ SetPc(n, "wfailed")
  /\ UNCHANGED <<node, todo, vms, sup, nextLog, store, dir, logs>>

(* A wake whose host_steps fail never touches the snapshot. *)
WakeHostFails(n) ==
  /\ task[n].pc = "wake"
  /\ Fault("start") \/ host[vms[n].addr] # NoHost
  /\ SetPc(n, "wfailed")
  /\ UNCHANGED <<node, todo, vms, sup, nextLog, durable>>

(* finish_wake's put_back. *)
PutBack(n) ==
  /\ task[n].pc = "wfailed"
  /\ vms' = [vms EXCEPT ![n] = task[n].old]
  /\ task' = [task EXCEPT ![n] = Idle]
  /\ UNCHANGED <<node, todo, sup, nextLog, durable>>

(* finish_wake's insert_running, which a Vm::destroy follows if it fails. *)
RecordWake(n) ==
  /\ task[n].pc = "woken"
  /\ \/ /\ store' = [store EXCEPT ![n] = Running(vms[n], task[n].pid)]
        /\ SetPc(n, "wrecorded")
        /\ UNCHANGED host
     \/ /\ Fault("store")
        /\ Teardown(vms[n].addr)
        /\ SetPc(n, "wlost")
        /\ UNCHANGED store
  /\ UNCHANGED <<node, todo, vms, sup, nextLog, dir, logs>>

(* ... and which then records the VM as forced: its snapshot is used up. *)
WakeLost(n) ==
  /\ task[n].pc = "wlost"
  /\ \/ store' = [store EXCEPT ![n] = Ended(store[n], "forced")]
     \/ Fault("store") /\ UNCHANGED store
  /\ vms' = [vms EXCEPT ![n] = Ended(task[n].old, "forced")]
  /\ task' = [task EXCEPT ![n] = Idle]
  /\ UNCHANGED <<node, todo, sup, nextLog, dir, logs, host>>

(* finish_wake's end: remove_dir takes only an empty directory. *)
WakeSupervising(n) ==
  /\ task[n].pc = "wrecorded"
  /\ dir' = [dir EXCEPT ![n] = IF @ = "empty" THEN "none" ELSE @]
  /\ vms' = [vms EXCEPT ![n] = Running(vms[n], task[n].pid)]
  /\ sup' = [sup EXCEPT ![n] = Watch]
  /\ task' = [task EXCEPT ![n] = Idle]
  /\ UNCHANGED <<node, todo, nextLog, store, logs, host>>
-----------------------------------------------------------------------------
(* The supervisor of a running VM: run_until_ended, park, teardown and       *)
(* record_end. "exited" stands for every natural end, "forced" for every     *)
(* stop (Supervisor tells the reasons apart).                                *)

GuestEnds(a) ==
  /\ Fault("guest")
  /\ host[a].vmm \in {"live", "paused"}
  /\ SetHost(a, [host[a] EXCEPT !.vmm = "dead"])
  /\ UNCHANGED <<volatile, store, dir, logs>>

SupNaturalEnd(n) ==
  /\ sup[n].pc = "watch"
  /\ host[vms[n].addr].vmm = "dead"
  /\ EndSup(n, "exited")
  /\ UNCHANGED <<node, todo, vms, task, nextLog, durable>>

SupStop(n) ==
  LET a == vms[n].addr IN
  /\ sup[n].pc = "watch"
  /\ node # "boot"
  /\ host[a].vmm # "dead"
  /\ SetHost(a, [host[a] EXCEPT !.vmm = "dead"])
  /\ EndSup(n, "forced")
  /\ UNCHANGED <<node, todo, vms, task, nextLog, store, dir, logs>>

(* park_steps: the directory, then the pause. A failure of either removes    *)
(* the directory and the VM runs on.                                         *)
SupPark(n) ==
  LET a == vms[n].addr IN
  /\ sup[n].pc = "watch"
  /\ node # "boot"
  /\ host[a].vmm # "dead"
  /\ \/ /\ dir' = [dir EXCEPT ![n] = IF @ = "none" THEN "empty" ELSE @]
        /\ SetHost(a, [host[a] EXCEPT !.vmm = "paused"])
        /\ SetSup(n, "snapshot")
     \/ /\ Fault("park")
        /\ dir' = [dir EXCEPT ![n] = "none"]
        /\ UNCHANGED <<host, sup>>
  /\ UNCHANGED <<node, todo, vms, task, nextLog, store, logs>>

SupSnapshot(n) ==
  LET a == vms[n].addr IN
  /\ sup[n].pc = "snapshot"
  /\ host[a].vmm = "paused"
  /\ SetHost(a, [host[a] EXCEPT !.files = TRUE, !.ran = FALSE])
  /\ SetSup(n, "kill")
  /\ UNCHANGED <<node, todo, vms, task, nextLog, store, dir, logs>>

(* The snapshot fails: the VM is resumed, or lost if that fails too. *)
SupSnapshotFails(n) ==
  LET a == vms[n].addr IN
  /\ sup[n].pc = "snapshot"
  /\ Fault("park") \/ host[a].vmm = "dead"
  /\ dir' = [dir EXCEPT ![n] = "none"]
  /\ \/ /\ host[a].vmm = "paused"
        /\ SetHost(a, [host[a] EXCEPT !.vmm = "live"])
        /\ SetSup(n, "watch")
     \/ /\ Fault("resume") \/ host[a].vmm = "dead"
        /\ SetHost(a, [host[a] EXCEPT !.vmm = "dead"])
        /\ EndSup(n, "forced")
  /\ UNCHANGED <<node, todo, vms, task, nextLog, store, logs>>

SupKill(n) ==
  LET a == vms[n].addr IN
  /\ sup[n].pc = "kill"
  /\ SetHost(a, [host[a] EXCEPT !.vmm = "dead"])
  /\ SetSup(n, "moveout")
  /\ UNCHANGED <<node, todo, vms, task, nextLog, store, dir, logs>>

(* The snapshot's files out of the jail: parked, or lost with the VM. *)
SupMoveOut(n) ==
  LET a == vms[n].addr IN
  /\ sup[n].pc = "moveout"
  /\ SetHost(a, [host[a] EXCEPT !.files = FALSE])
  /\ \/ dir' = [dir EXCEPT ![n] = "full"] /\ EndSup(n, "parked")
     \/ Fault("disk") /\ dir' = [dir EXCEPT ![n] = "none"] /\ EndSup(n, "forced")
  /\ UNCHANGED <<node, todo, vms, task, nextLog, store, logs>>

(* Mutant of SupTeardown: the host state stays. *)
BugSupTeardown(n) ==
  /\ sup[n].pc = "teardown"
  /\ SetSup(n, "end")
  /\ UNCHANGED <<node, todo, vms, task, nextLog, durable>>

SupTeardown(n) ==
  /\ sup[n].pc = "teardown"
  /\ Teardown(vms[n].addr)
  /\ SetSup(n, "end")
  /\ UNCHANGED <<node, todo, vms, task, nextLog, store, dir, logs>>

(* Mutant of RecordEnd: the end is kept from the registry. *)
BugRecordStoreOnly(n) ==
  /\ sup[n].pc = "end"
  /\ store' = [store EXCEPT ![n] = Ended(store[n], sup[n].reason)]
  /\ sup' = [sup EXCEPT ![n] = NoSup]
  /\ UNCHANGED <<node, todo, vms, task, nextLog, dir, logs, host>>

(* record_end: a database that refuses the end is only logged. *)
RecordEnd(n) ==
  /\ sup[n].pc = "end"
  /\ \/ store' = [store EXCEPT ![n] = Ended(store[n], sup[n].reason)]
     \/ Fault("store") /\ UNCHANGED store
  /\ vms' = [vms EXCEPT ![n] = Ended(vms[n], sup[n].reason)]
  /\ sup' = [sup EXCEPT ![n] = NoSup]
  /\ UNCHANGED <<node, todo, task, nextLog, dir, logs, host>>
-----------------------------------------------------------------------------
(* rm: the snapshot, the record, the log, the entry, in this order. *)
Remove(n) ==
  /\ node \in {"ready", "stopping"}
  /\ vms[n].st = "ended"
  /\ \/ /\ dir' = [dir EXCEPT ![n] = IF IsParked(vms[n]) THEN "none" ELSE @]
        /\ \/ /\ store' = [store EXCEPT ![n] = Absent]
              /\ logs' = logs \ {<<n, vms[n].log>>}
              /\ vms' = [vms EXCEPT ![n] = Absent]
           \/ Fault("store") /\ UNCHANGED <<store, logs, vms>>
     \/ /\ Fault("disk") /\ IsParked(vms[n]) /\ dir[n] # "none"
        /\ dir' = [dir EXCEPT ![n] = "empty"]
        /\ UNCHANGED <<store, logs, vms>>
  /\ UNCHANGED <<node, todo, task, sup, nextLog, host>>

(* shutdown refuses new starts at once, and exits once none is under way.    *)
(* A supervisor is cut wherever it is.                                       *)
Shutdown ==
  /\ node = "ready"
  /\ node' = "stopping"
  /\ UNCHANGED <<todo, vms, task, sup, nextLog, durable>>

Die ==
  /\ node' = "down"
  /\ todo' = {}
  /\ vms' = [n \in Names |-> Absent]
  /\ task' = [n \in Names |-> Idle]
  /\ sup' = [n \in Names |-> NoSup]
  /\ nextLog' = 1

(* Mutant of Exit: a shutdown waits for the VMs to end as well. *)
BugExit ==
  /\ node = "stopping"
  /\ \A n \in Names : ~Holds(n)
  /\ Die
  /\ UNCHANGED durable

Exit ==
  /\ node = "stopping"
  /\ \A n \in Names : vms[n].st # "starting"
  /\ Die
  /\ UNCHANGED durable

Crash ==
  /\ Fault("crash")
  /\ Up
  /\ Die
  /\ UNCHANGED durable

(* The agent is killed inside rm, once the snapshot is gone. *)
CrashInRemove(n) ==
  /\ Fault("crash")
  /\ node \in {"ready", "stopping"}
  /\ IsParked(vms[n])
  /\ dir' = [dir EXCEPT ![n] = "none"]
  /\ Die
  /\ UNCHANGED <<store, logs, host>>
-----------------------------------------------------------------------------
(* The next start: run and reconcile.                                        *)

(* next_log_number, before any log is removed: one past the highest. *)
NextLogNumber(k) ==
  /\ \A l \in logs : l[2] < k
  /\ k = 1 \/ \E l \in logs : l[2] = k - 1

(* Loads the records, removes unrecorded logs and unowned snapshots. *)
Boot ==
  /\ node = "down"
  /\ node' = "boot"
  /\ todo' = {n \in Names : store[n].st # "absent"}
  /\ \E k \in 1..(MaxLog + 1) : NextLogNumber(k) /\ nextLog' = k
  /\ logs' = {l \in logs : store[l[1]].st # "absent" /\ store[l[1]].log = l[2]}
  /\ dir' = [n \in Names |-> IF IsParked(store[n]) THEN dir[n] ELSE "none"]
  /\ UNCHANGED <<vms, task, sup, store, host>>

(* ProcessId::is_running of the process a record names. *)
IsRunning(e) ==
  /\ e.st = "running"
  /\ host[e.addr].pid = e.pid
  /\ host[e.addr].vmm \in {"live", "paused"}

ReconcileEnded(n) ==
  /\ node = "boot" /\ n \in todo
  /\ store[n].st = "ended"
  /\ vms' = [vms EXCEPT ![n] = store[n]]
  /\ todo' = todo \ {n}
  /\ UNCHANGED <<node, task, sup, nextLog, durable>>

(* Mutant of Adopt: the VM taken back has no supervisor. *)
BugAdopt(n) ==
  /\ node = "boot" /\ n \in todo
  /\ IsRunning(store[n])
  /\ vms' = [vms EXCEPT ![n] = store[n]]
  /\ todo' = todo \ {n}
  /\ UNCHANGED <<node, task, sup, nextLog, durable>>

(* Vm::adopt and resume, a failure of which is only logged. *)
Adopt(n) ==
  LET a == store[n].addr IN
  /\ node = "boot" /\ n \in todo
  /\ IsRunning(store[n])
  /\ \/ SetHost(a, [host[a] EXCEPT !.vmm = "live", !.ran = TRUE])
     \/ Fault("resume") /\ UNCHANGED host
  /\ vms' = [vms EXCEPT ![n] = store[n]]
  /\ sup' = [sup EXCEPT ![n] = Watch]
  /\ todo' = todo \ {n}
  /\ UNCHANGED <<node, task, nextLog, store, dir, logs>>

(* Mutant of ReconcileDead: a VM on record is taken for dead unasked. *)
BugReconcileDead(n) ==
  /\ node = "boot" /\ n \in todo
  /\ store[n].st = "running"
  /\ store' = [store EXCEPT ![n] = Ended(store[n], "agent_down")]
  /\ vms' = [vms EXCEPT ![n] = Ended(store[n], "agent_down")]
  /\ todo' = todo \ {n}
  /\ UNCHANGED <<node, task, sup, nextLog, dir, logs, host>>

(* A VM that died while the agent was down. The agent refuses to start when  *)
(* that can't be recorded.                                                   *)
ReconcileDead(n) ==
  /\ node = "boot" /\ n \in todo
  /\ store[n].st = "running" /\ ~IsRunning(store[n])
  /\ \/ /\ store' = [store EXCEPT ![n] = Ended(store[n], "agent_down")]
        /\ vms' = [vms EXCEPT ![n] = Ended(store[n], "agent_down")]
        /\ todo' = todo \ {n}
        /\ UNCHANGED <<node, task, sup, nextLog, dir, logs, host>>
     \/ Fault("store") /\ Die /\ UNCHANGED durable

(* sweep_host_state: clean_up of each address with host state that no entry  *)
(* holds.                                                                    *)
Held(a) == \E n \in Names : vms[n].addr = a

(* Mutants of Sweep: it runs before the records are looked at; it leaves the *)
(* directory of the jail.                                                    *)
BugSweepFirst(a) ==
  /\ node = "boot"
  /\ host[a] # NoHost /\ ~Held(a)
  /\ SetHost(a, NoHost)
  /\ UNCHANGED <<volatile, store, dir, logs>>

BugSweepHalf(a) ==
  /\ node = "boot" /\ todo = {}
  /\ host[a] # NoHost /\ ~Held(a)
  /\ SetHost(a, [host[a] EXCEPT !.vmm = "dead"])
  /\ UNCHANGED <<volatile, store, dir, logs>>

Sweep(a) ==
  /\ node = "boot" /\ todo = {}
  /\ host[a] # NoHost /\ ~Held(a)
  /\ SetHost(a, NoHost)
  /\ UNCHANGED <<volatile, store, dir, logs>>

Ready ==
  /\ node = "boot" /\ todo = {}
  /\ \A a \in Addrs : host[a] # NoHost => Held(a)
  /\ node' = "ready"
  /\ UNCHANGED <<todo, vms, task, sup, nextLog, durable>>
-----------------------------------------------------------------------------
StartStep(n) ==
  \/ \E h \in Hosts \cup {NoRoute}, a \in Addrs : RunVm(n, h, a)
  \/ \E p \in Pids : StartHost(n, p)
  \/ Booted(n) \/ StartFails(n) \/ RecordStart(n) \/ StartUnwind(n)
  \/ ForgetStart(n) \/ StartSupervising(n)

WakeStep(n) ==
  \/ \E a \in Addrs : WakeVm(n, a)
  \/ \E p \in Pids : WakeHost(n, p)
  \/ WakeHostFails(n) \/ WakeMove(n) \/ WakeLoad(n) \/ WakeLoadFails(n)
  \/ WakePutBack(n) \/ WakeUnwind(n) \/ PutBack(n) \/ RecordWake(n)
  \/ WakeLost(n) \/ WakeSupervising(n)

SupStep(n) ==
  \/ SupNaturalEnd(n) \/ SupStop(n) \/ SupPark(n) \/ SupSnapshot(n)
  \/ SupSnapshotFails(n) \/ SupKill(n) \/ SupMoveOut(n) \/ SupTeardown(n)
  \/ RecordEnd(n)

BootStep(n) == ReconcileEnded(n) \/ Adopt(n) \/ ReconcileDead(n)

Next ==
  \/ \E n \in Names : StartStep(n) \/ WakeStep(n) \/ SupStep(n) \/ BootStep(n)
                      \/ Remove(n) \/ CrashInRemove(n)
  \/ \E a \in Addrs : GuestEnds(a) \/ Sweep(a)
  \/ Shutdown \/ Exit \/ Crash \/ Boot \/ Ready

Spec == Init /\ [][Next]_vars

(* What goes on by itself: the tasks of starts and wakes, the supervisors,   *)
(* the reconciliation and the end of a shutdown. Requests, faults and the    *)
(* next start of the agent owe nothing.                                      *)
TaskGoesOn(n) ==
  \/ \E p \in Pids : StartHost(n, p) \/ WakeHost(n, p)
  \/ Booted(n) \/ StartFails(n) \/ RecordStart(n) \/ StartUnwind(n)
  \/ ForgetStart(n) \/ StartSupervising(n)
  \/ WakeHostFails(n) \/ WakeMove(n) \/ WakeLoad(n) \/ WakeLoadFails(n)
  \/ WakePutBack(n) \/ WakeUnwind(n) \/ PutBack(n) \/ RecordWake(n)
  \/ WakeLost(n) \/ WakeSupervising(n)

SupGoesOn(n) ==
  \/ SupNaturalEnd(n) \/ SupSnapshot(n) \/ SupSnapshotFails(n) \/ SupKill(n)
  \/ SupMoveOut(n) \/ SupTeardown(n) \/ RecordEnd(n)

Fairness ==
  /\ \A n \in Names : WF_vars(TaskGoesOn(n)) /\ WF_vars(SupGoesOn(n)) /\ WF_vars(BootStep(n))
  /\ \A a \in Addrs : WF_vars(Sweep(a))
  /\ WF_vars(Ready) /\ WF_vars(Exit)

FairSpec == Spec /\ Fairness
-----------------------------------------------------------------------------
(* Safety.                                                                   *)

Serving == node \in {"ready", "stopping"}

(* No two VMs starting or running hold one VM address: free_vm_address and   *)
(* the registry's lock, across wakes, put-backs and adoption after a crash.  *)
AddressHeldOnce ==
  \A n, m \in Names : Holds(n) /\ Holds(m) /\ vms[n].addr = vms[m].addr => n = m

(* While the agent serves, whatever is on the Node in a VM address's name    *)
(* belongs to the VM the registry holds it for, but for what a failed        *)
(* teardown left, and no VMM runs without an owner: teardown before an       *)
(* address is freed, the sweep before the socket opens.                      *)
HostStateOwned ==
  Serving => \A a \in Addrs : host[a] \notin {NoHost, Remains} =>
    \E n \in Names : /\ Holds(n) /\ vms[n].addr = a
                     /\ host[a].pid \in {vms[n].pid, task[n].pid}

(* A VM under a supervisor is on record exactly as the registry has it, so   *)
(* that a crash at any moment leaves it somebody's to adopt (start_vm: "A VM *)
(* that isn't on record would be nobody's to stop after a restart").         *)
RunningIsRecorded == \A n \in Names : vms[n].st = "running" => store[n] = vms[n]

(* Once reconciled, a live VMM that a record names is the registry's VM of   *)
(* that name: no adoption is missed and none is done for another's process.  *)
RecordedLiveIsManaged ==
  Serving => \A n \in Names : IsRunning(store[n]) =>
    \/ vms[n] = store[n] /\ sup[n].pc # "none"
    \/ task[n].pc \in {"recorded", "wrecorded"} /\ task[n].pid = store[n].pid

(* The console log a record names is there, through failed starts, replaced  *)
(* names, rm and the removal of unrecorded logs; and a start never opens one *)
(* that is already there, which host_steps would truncate (next_log_number). *)
RecordedLogKept ==
  \A n \in Names :
    /\ store[n].st # "absent" => <<n, store[n].log>> \in logs
    /\ task[n].pc = "start" => <<n, vms[n].log>> \notin logs

(* A hostname belongs to at most one App on the Node: taken when a start     *)
(* begins, kept through parks, wakes and ends until the App is removed.      *)
HostnameOwnedOnce ==
  \A n, m \in Names : vms[n].host # NoRoute /\ vms[n].host = vms[m].host => n = m

(* A parked VM still holds its whole snapshot: every wake that fails has put *)
(* it back.                                                                  *)
ParkedHoldsSnapshot == \A n \in Names : IsParked(vms[n]) => dir[n] \in {"full", "stale"}

(* No step touches the record of a VM whose VMM is alive: a VM is recorded   *)
(* as ended, removed or replaced only once it has stopped.                   *)
LiveRecordKept == [][\A n \in Names : IsRunning(store[n]) => store'[n] = store[n]]_vars

(* The sweep spares every VMM on record (VMs outlive the agent). *)
SweepSparesRecorded ==
  [][\A a \in Addrs : node = "boot" /\ host[a].vmm \in {"live", "paused"} /\ host'[a] = NoHost
       => \A n \in Names : store[n].st = "running" => store[n].pid # host[a].pid]_vars
-----------------------------------------------------------------------------
(* Liveness, under FairSpec.                                                 *)

(* A shutdown ends: new starts are refused and those under way all settle,   *)
(* also when a guest dies or a database write fails meanwhile.               *)
ShutdownExits == node = "stopping" ~> node = "down"

(* A start of the agent gets to serving, whatever an earlier agent left. *)
ReconcileFinishes == node = "boot" ~> node \in {"ready", "down"}

(* A VM that stopped or died is recorded as ended, and its address freed. *)
EndIsRecorded == \A n \in Names : sup[n].pc = "teardown" ~> vms[n].addr = NoAddr
=============================================================================
