------------------------------ MODULE Machines ------------------------------
(* Machines and Machine-backed Apps (agent/machine.rs): the known_hosts file *)
(* that pins every Machine's host key, the one `ssh` per Machine that is kept *)
(* running with a forward per App, the records a restart brings back, and    *)
(* the names and hostnames Apps on Machines share with VMs.                  *)
(*                                                                           *)
(* A handler that holds the entries lock is one step, but for the moment a   *)
(* write of known_hosts has truncated the file: `ssh` takes no lock. The     *)
(* `adding` lock makes add, remove and restore one process, `adder`.         *)
EXTENDS Naturals, Functions

CONSTANTS
  Names,     \* Machines
  Apps,      \* names of Apps, on a Machine or in a VM
  Hosts,     \* hostnames
  NoHost,    \* ... and none
  Ports,     \* ports of the Node's 127.0.0.1
  NoPort,    \* ... and none
  Keys,      \* host keys, numbered in the order a Machine presents them
  Ops        \* what may happen besides requests about Machines; without
             \* "ssh" none gets as far as its Machine

OpKinds == {"ssh", "net", "key", "ports", "store", "disk", "crash", "shutdown", "vm"}
Slots  == {0, 1}     \* an `ssh` and the one it replaces
NoKey  == 0
NoName == 0

ASSUME NamesAssumption  == Names \subseteq Nat \ {NoName}
ASSUME HostsAssumption  == NoHost \notin Hosts
ASSUME PortsAssumption  == NoPort \notin Ports
ASSUME KeysAssumption   == Keys \subseteq Nat \ {NoKey} /\ 1 \in Keys
ASSUME OpsAssumption    == Ops \subseteq OpKinds

VARIABLES
  key,      \* the host key each Machine presents
  known,    \* known_hosts: the pinned key under each Machine's name
  recs,     \* the database's Machines: the pinned key
  appRecs,  \* the database's Apps: Machine and hostname
  node,     \* "down", "boot" (restore), "up" or "stopping"
  todo,     \* the Machines restore has still to bring back
  entry,    \* the agent's Machines: the pinned key
  app,      \* their Apps: Machine, hostname and local port
  tunnel,   \* each Machine's `ssh`, and the one being replaced
  cur,      \* which of the two the entry owns
  link,     \* what each of the two last said
  adder,    \* who holds `adding`, and how far it is
  vms,      \* the VMs' hostnames, NoHost where there is no VM
  runner    \* a run_vm between its two checks

machines == <<entry, app, tunnel, cur, link>>
stores   == <<recs, appRecs>>
vars     == <<key, known, stores, node, todo, machines, adder, vms, runner>>
-----------------------------------------------------------------------------
AppRec == [on : Names \cup {NoName}, host : Hosts \cup {NoHost}]
NoRec  == [on |-> NoName, host |-> NoHost]
App    == [on : Names \cup {NoName}, host : Hosts \cup {NoHost}, port : Ports \cup {NoPort}]
NoApp  == [on |-> NoName, host |-> NoHost, port |-> NoPort]

(* An `ssh` and the task that runs it. `log` is its "Authenticated to" line: *)
(* not written, written, or read by the task.                                *)
Tunnel   == [pc : {"none", "spawn", "conn", "auth", "bound", "exit", "sleep", "over"},
             log : {"quiet", "said", "read"}, bad : BOOLEAN,
             fwd : [Apps -> Ports \cup {NoPort}]]
NoTunnel == [pc |-> "none", log |-> "quiet", bad |-> FALSE, fwd |-> [a \in Apps |-> NoPort]]

Link    == [up : BOOLEAN, changed : BOOLEAN]
NewLink == [up |-> FALSE, changed |-> FALSE]

Adder == [pc : {"idle", "scan", "pin", "pinning", "login", "unpinning", "connecting"},
          name : Names \cup {NoName}, key : Keys \cup {NoKey}]
Idle  == [pc |-> "idle", name |-> NoName, key |-> NoKey]

Vm    == Hosts \cup {NoHost}
Run   == [app : Apps, host : Hosts]

TypeOK ==
  /\ key \in [Names -> Keys]
  /\ known \in [Names -> Keys \cup {NoKey}]
  /\ recs \in [Names -> Keys \cup {NoKey}]
  /\ appRecs \in [Apps -> AppRec]
  /\ node \in {"down", "boot", "up", "stopping"}
  /\ todo \subseteq Names
  /\ entry \in [Names -> Keys \cup {NoKey}]
  /\ app \in [Apps -> App]
  /\ tunnel \in [Names \X Slots -> Tunnel]
  /\ cur \in [Names -> Slots]
  /\ link \in [Names \X Slots -> Link]
  /\ adder \in Adder
  /\ vms \in [Apps -> Vm]
  /\ runner \in SUBSET Run /\ \A r, s \in runner : r = s

NoEntries == [m \in Names |-> NoKey]
NoApps    == [a \in Apps |-> NoApp]
NoTunnels == [t \in Names \X Slots |-> NoTunnel]
NoLinks   == [t \in Names \X Slots |-> NewLink]

Init ==
  /\ key = [m \in Names |-> 1]
  /\ known = NoEntries
  /\ recs = NoEntries
  /\ appRecs = [a \in Apps |-> NoRec]
  /\ node = "up" /\ todo = {}
  /\ entry = NoEntries /\ app = NoApps
  /\ tunnel = NoTunnels /\ cur = [m \in Names |-> 0] /\ link = NoLinks
  /\ adder = Idle
  /\ vms = [a \in Apps |-> NoHost]
  /\ runner = {}
-----------------------------------------------------------------------------
May(op) == op \in Ops
Serving == node \in {"up", "stopping"}

(* A write of known_hosts is under way, with the entries lock held. *)
Writing  == adder.pc \in {"pinning", "unpinning", "connecting"}
Unlocked == ~Writing

OnMachine(m)   == {a \in Apps : app[a].on = m}
HasApp(a)      == app[a].on # NoName
AppWithHost(h) == \E a \in Apps : app[a].on # NoName /\ app[a].host = h

(* The `ssh` whose link the agent reads; any other has been aborted. *)
Owned(t) == entry[t[1]] # NoKey /\ cur[t[1]] = t[2]

(* free_local_ports holds the ports it chooses, so they differ; nothing      *)
(* holds them once it returns.                                               *)
FreePorts ==
  LET bound == {t \in Names \X Slots : tunnel[t].pc = "bound"}
  IN  Ports \ {tunnel[t].fwd[a] : t \in bound, a \in Apps}

(* start_tunnel of the Machine m with the Apps `apps` into the slot s, once  *)
(* the ports f are chosen. A dying `ssh` is gone before the next one but one *)
(* is started.                                                               *)
NewSsh(m, s, f) ==
  /\ tunnel[<<m, s>>].pc = "none"
  /\ tunnel' = [tunnel EXCEPT ![<<m, s>>] =
                  [NoTunnel EXCEPT !.pc = "spawn",
                     !.fwd = [a \in Apps |-> IF a \in DOMAIN f THEN f[a] ELSE NoPort]]]
  /\ cur' = [cur EXCEPT ![m] = s]
  /\ link' = [link EXCEPT ![<<m, s>>] = NewLink]

WithPorts(apps, f) ==
  [a \in Apps |-> IF a \in DOMAIN f THEN [apps[a] EXCEPT !.port = f[a]] ELSE apps[a]]

(* Mutants of StartTunnel: ports are given out before the last one is chosen; *)
(* a key that failed isn't looked at.                                        *)
BugStartPorts(m, apps) ==
  \E f \in Injection({a \in Apps : apps[a].on = m}, FreePorts) :
    /\ app' = WithPorts(apps, f)
    /\ \/ link[<<m, cur[m]>>].changed /\ UNCHANGED <<tunnel, cur, link>>
       \/ ~link[<<m, cur[m]>>].changed /\ NewSsh(m, 1 - cur[m], f)
       \/ May("ports") /\ UNCHANGED <<tunnel, cur, link>>

BugStartAgain(m, apps) ==
  \E f \in Injection({a \in Apps : apps[a].on = m}, FreePorts) :
    app' = WithPorts(apps, f) /\ NewSsh(m, 1 - cur[m], f)

StartTunnel(m, apps) ==
  \E f \in Injection({a \in Apps : apps[a].on = m}, FreePorts) :
    /\ app' = WithPorts(apps, f)
    /\ \/ link[<<m, cur[m]>>].changed /\ UNCHANGED <<tunnel, cur, link>>
       \/ ~link[<<m, cur[m]>>].changed /\ NewSsh(m, 1 - cur[m], f)

(* write_known_hosts: the pins of the entries, and the pending one. *)
Pins(m, k) == [entry EXCEPT ![m] = k]
Truncated  == NoEntries
-----------------------------------------------------------------------------
(* Machine-backed Apps: add_app and remove_app, under the entries lock.      *)

(* run_on_machine's own checks, under the lock of the VM table. *)
FreeOfVms(a, h) == vms[a] = NoHost /\ \A b \in Apps : vms[b] # h

(* Mutant of AddApp: an App that can't be recorded stays. *)
BugAddApp(a, m, h) ==
  /\ Serving /\ Unlocked /\ runner = {}
  /\ FreeOfVms(a, h)
  /\ ~HasApp(a) /\ ~AppWithHost(h) /\ entry[m] # NoKey
  /\ StartTunnel(m, [app EXCEPT ![a] = [NoApp EXCEPT !.on = m, !.host = h]])
  /\ \/ appRecs' = [appRecs EXCEPT ![a] = [on |-> m, host |-> h]]
     \/ May("store") /\ UNCHANGED appRecs
  /\ UNCHANGED <<key, known, recs, node, todo, entry, adder, vms, runner>>

(* run_on_machine has seen that no VM has the name or the hostname, and      *)
(* holds the VM table. When the App can't be recorded it is taken back, with *)
(* the `ssh` just started for it; if that can't be replaced it keeps the     *)
(* App's forward.                                                            *)
AddApp(a, m, h) ==
  LET added == [app EXCEPT ![a] = [NoApp EXCEPT !.on = m, !.host = h]] IN
  /\ Serving /\ Unlocked /\ runner = {}
  /\ FreeOfVms(a, h)
  /\ ~HasApp(a) /\ ~AppWithHost(h) /\ entry[m] # NoKey
  /\ \/ /\ StartTunnel(m, added)
        /\ appRecs[a] = NoRec
        /\ appRecs' = [appRecs EXCEPT ![a] = [on |-> m, host |-> h]]
     \/ /\ StartTunnel(m, app)
        /\ May("store") \/ appRecs[a] # NoRec
        /\ UNCHANGED appRecs
     \/ /\ May("ports") /\ (May("store") \/ appRecs[a] # NoRec)
        /\ \E f \in Injection(OnMachine(m) \cup {a}, FreePorts) :
             /\ app' = [WithPorts(added, f) EXCEPT ![a] = NoApp]
             /\ \/ link[<<m, cur[m]>>].changed /\ UNCHANGED <<tunnel, cur, link>>
                \/ ~link[<<m, cur[m]>>].changed /\ NewSsh(m, 1 - cur[m], f)
        /\ UNCHANGED appRecs
     \/ /\ May("ports")
        /\ UNCHANGED <<app, tunnel, cur, link, appRecs>>
  /\ UNCHANGED <<key, known, recs, node, todo, entry, adder, vms, runner>>

RemoveApp(a) ==
  LET m == app[a].on  removed == [app EXCEPT ![a] = NoApp] IN
  /\ Serving /\ Unlocked
  /\ HasApp(a)
  /\ appRecs' = [appRecs EXCEPT ![a] = NoRec]
  /\ \/ StartTunnel(m, removed)
     \/ May("ports") /\ app' = removed /\ UNCHANGED <<tunnel, cur, link>>
  /\ UNCHANGED <<key, known, recs, node, todo, entry, adder, vms, runner>>
-----------------------------------------------------------------------------
(* add, remove and restore: the holder of `adding`.                          *)

Step(pc) == adder' = [adder EXCEPT !.pc = pc]
Release  == adder' = Idle
quiet    == <<key, node, todo, vms, runner, appRecs, app>>

(* The operator names the fingerprint k. *)
AddBegin(m, k) ==
  /\ Serving /\ adder = Idle
  /\ entry[m] = NoKey
  /\ adder' = [pc |-> "scan", name |-> m, key |-> k]
  /\ UNCHANGED <<quiet, known, recs, entry, tunnel, cur, link>>

AddScan ==
  /\ adder.pc = "scan"
  /\ \/ key[adder.name] = adder.key /\ Step("pin")
     \/ key[adder.name] # adder.key /\ Release
     \/ May("net") /\ Release
  /\ UNCHANGED <<quiet, known, recs, entry, tunnel, cur, link>>

(* public_key, then the pin, which `ssh` needs to log in. *)
AddPin ==
  /\ adder.pc = "pin"
  /\ \/ Step("pinning") /\ known' = Truncated
     \/ May("disk") /\ Release /\ UNCHANGED known
  /\ UNCHANGED <<quiet, recs, entry, tunnel, cur, link>>

AddPinned ==
  /\ adder.pc = "pinning"
  /\ \/ Step("login") /\ known' = Pins(adder.name, adder.key)
     \/ May("disk") /\ Release /\ UNCHANGED known
  /\ UNCHANGED <<quiet, recs, entry, tunnel, cur, link>>

(* `ssh true`; then insert_machine, whose name must be free, and connect. *)
AddLogin ==
  LET m == adder.name IN
  /\ adder.pc = "login"
  /\ known[m] = key[m]
  /\ \/ /\ recs[m] = NoKey
        /\ recs' = [recs EXCEPT ![m] = adder.key]
        /\ Step("connecting") /\ known' = Truncated
     \/ /\ recs[m] # NoKey \/ May("store")
        /\ Release /\ UNCHANGED <<recs, known>>
  /\ UNCHANGED <<quiet, entry, tunnel, cur, link>>

AddRefused ==
  /\ adder.pc = "login"
  /\ known[adder.name] # key[adder.name] \/ May("net")
  /\ Step("unpinning") /\ known' = Truncated
  /\ UNCHANGED <<quiet, recs, entry, tunnel, cur, link>>

Unpinned ==
  /\ adder.pc = "unpinning"
  /\ Release
  /\ \/ known' = entry
     \/ May("disk") /\ UNCHANGED known
  /\ UNCHANGED <<quiet, recs, entry, tunnel, cur, link>>

(* The client hangs up while the handler waits for a child. *)
AddCancelled ==
  /\ adder.pc \in {"scan", "login"}
  /\ Release
  /\ UNCHANGED <<quiet, known, recs, entry, tunnel, cur, link>>

(* connect: a new Machine has no Apps, a restored one those on record. *)
Connect ==
  LET m == adder.name
      mine == {a \in Apps : node = "boot" /\ appRecs[a].on = m}
      apps == [a \in Apps |-> IF a \in mine THEN [NoApp EXCEPT !.on = m, !.host = appRecs[a].host]
                              ELSE app[a]]
  IN
  /\ adder.pc = "connecting"
  /\ Release
  /\ \/ /\ known' = Pins(m, adder.key)
        /\ \/ /\ \E f \in Injection(mine, FreePorts) :
                   /\ app' = WithPorts(apps, f)
                   /\ NewSsh(m, IF tunnel[<<m, cur[m]>>].pc = "none" THEN cur[m] ELSE 1 - cur[m], f)
              /\ entry' = [entry EXCEPT ![m] = adder.key]
           \/ May("ports") /\ UNCHANGED <<entry, app, tunnel, cur, link>>
     \/ May("disk") /\ UNCHANGED <<known, entry, app, tunnel, cur, link>>
  /\ UNCHANGED <<key, stores, node, todo, vms, runner>>

(* Mutant of Remove: it doesn't wait for an add. *)
BugRemoveMidAdd(m) ==
  /\ Serving /\ Unlocked
  /\ entry[m] # NoKey /\ OnMachine(m) = {}
  /\ recs' = [recs EXCEPT ![m] = NoKey]
  /\ entry' = [entry EXCEPT ![m] = NoKey]
  /\ known' = Pins(m, NoKey)
  /\ UNCHANGED <<quiet, tunnel, cur, link, adder>>

(* "Not mid-add: rewriting known_hosts would unpin the key being added." *)
Remove(m) ==
  /\ Serving /\ adder = Idle
  /\ entry[m] # NoKey /\ OnMachine(m) = {}
  /\ recs' = [recs EXCEPT ![m] = NoKey]
  /\ entry' = [entry EXCEPT ![m] = NoKey]
  /\ Step("unpinning") /\ known' = Truncated
  /\ UNCHANGED <<quiet, tunnel, cur, link>>

(* restore: one Machine after another, before anything is served. *)
Restore(m) ==
  /\ node = "boot" /\ adder = Idle
  /\ m \in todo /\ \A n \in todo : m <= n
  /\ todo' = todo \ {m}
  /\ adder' = [pc |-> "connecting", name |-> m, key |-> recs[m]]
  /\ known' = Truncated
  /\ UNCHANGED <<key, stores, node, machines, vms, runner>>
-----------------------------------------------------------------------------
(* run_tunnel and run_ssh, and the `ssh` they run.                           *)

SetTunnel(t, u) == tunnel' = [tunnel EXCEPT ![t] = u]
rest == <<key, known, stores, node, todo, entry, app, cur, adder, vms, runner>>

SshStart(t) ==
  /\ May("ssh") /\ tunnel[t].pc = "spawn"
  /\ \/ SetTunnel(t, [tunnel[t] EXCEPT !.pc = "conn"])
     \/ May("net") /\ SetTunnel(t, [tunnel[t] EXCEPT !.pc = "exit"])
  /\ UNCHANGED <<rest, link>>

(* Mutant of SshVerify: StrictHostKeyChecking=no. *)
BugSshVerify(t) ==
  /\ tunnel[t].pc = "conn" /\ Unlocked
  /\ SetTunnel(t, [tunnel[t] EXCEPT !.pc = "auth", !.log = "said"])
  /\ UNCHANGED <<rest, link>>

(* `ssh` reads known_hosts when the Machine presents its key, and trusts     *)
(* only the key pinned there under the Machine's name.                       *)
SshVerify(t) ==
  /\ tunnel[t].pc = "conn"
  /\ \/ known[t[1]] = key[t[1]] /\ SetTunnel(t, [tunnel[t] EXCEPT !.pc = "auth", !.log = "said"])
     \/ known[t[1]] # key[t[1]] /\ SetTunnel(t, [tunnel[t] EXCEPT !.pc = "exit", !.bad = TRUE])
  /\ UNCHANGED <<rest, link>>

(* ExitOnForwardFailure. *)
SshForward(t) ==
  LET ports == {tunnel[t].fwd[a] : a \in Apps} \ {NoPort} IN
  /\ tunnel[t].pc = "auth"
  /\ \/ ports \subseteq FreePorts /\ SetTunnel(t, [tunnel[t] EXCEPT !.pc = "bound"])
     \/ ~(ports \subseteq FreePorts) /\ SetTunnel(t, [tunnel[t] EXCEPT !.pc = "exit"])
  /\ UNCHANGED <<rest, link>>

(* No answer, no login, or a connection lost. *)
SshFails(t) ==
  /\ May("net")
  /\ tunnel[t].pc \in {"conn", "auth", "bound"}
  /\ SetTunnel(t, [tunnel[t] EXCEPT !.pc = "exit"])
  /\ UNCHANGED <<rest, link>>

ReadLogin(t) ==
  /\ tunnel[t].log = "said"
  /\ SetTunnel(t, [tunnel[t] EXCEPT !.log = "read"])
  /\ link' = [link EXCEPT ![t] = [up |-> TRUE, changed |-> FALSE]]
  /\ UNCHANGED rest

(* Every line is read before the end is. *)
SshEnded(t) ==
  /\ tunnel[t].pc = "exit" /\ tunnel[t].log # "said"
  /\ link' = [link EXCEPT ![t] = [up |-> FALSE, changed |-> tunnel[t].bad]]
  /\ SetTunnel(t, [tunnel[t] EXCEPT !.pc = IF tunnel[t].bad THEN "over" ELSE "sleep",
                                    !.log = "quiet", !.bad = FALSE])
  /\ UNCHANGED rest

Retry(t) ==
  /\ tunnel[t].pc = "sleep"
  /\ SetTunnel(t, [tunnel[t] EXCEPT !.pc = "spawn"])
  /\ UNCHANGED <<rest, link>>

(* An aborted task is dropped, and its `ssh` killed. *)
Dropped(t) ==
  /\ tunnel[t].pc # "none" /\ ~Owned(t)
  /\ SetTunnel(t, NoTunnel)
  /\ link' = [link EXCEPT ![t] = NewLink]
  /\ UNCHANGED rest
-----------------------------------------------------------------------------
(* VMs, the agent's own life and the Machines'.                              *)

(* Mutant of RunVmInsert: Machines' Apps aren't looked at. *)
BugRunVmInsert ==
  /\ Unlocked
  /\ \E r \in runner :
       vms' = IF \A b \in Apps : vms[b] # r.host THEN [vms EXCEPT ![r.app] = r.host] ELSE vms
  /\ runner' = {}
  /\ UNCHANGED <<key, known, stores, node, todo, machines, adder>>

(* run_vm holds the VM table from its look at shutting_down to its insert. *)
RunVm(a, h) ==
  /\ May("vm") /\ node = "up" /\ runner = {}
  /\ runner' = {[app |-> a, host |-> h]}
  /\ UNCHANGED <<key, known, stores, node, todo, machines, adder, vms>>

RunVmInsert ==
  LET free(r) == /\ ~HasApp(r.app) /\ ~AppWithHost(r.host)
                 /\ FreeOfVms(r.app, r.host)
  IN
  /\ Unlocked
  /\ \E r \in runner : vms' = IF free(r) THEN [vms EXCEPT ![r.app] = r.host] ELSE vms
  /\ runner' = {}
  /\ UNCHANGED <<key, known, stores, node, todo, machines, adder>>

(* rm, which looks for a Machine-backed App of the name first. *)
RemoveVm(a) ==
  /\ Serving /\ Unlocked /\ runner = {}
  /\ ~HasApp(a) /\ vms[a] # NoHost
  /\ vms' = [vms EXCEPT ![a] = NoHost]
  /\ UNCHANGED <<key, known, stores, node, todo, machines, adder, runner>>

(* shutdown: disconnect_all drops every entry. *)
Shutdown ==
  /\ May("shutdown")
  /\ node = "up" /\ Unlocked
  /\ node' = "stopping"
  /\ entry' = NoEntries /\ app' = NoApps
  /\ UNCHANGED <<key, known, stores, todo, tunnel, cur, link, adder, vms, runner>>

(* The process goes: PR_SET_PDEATHSIG takes every `ssh` along. *)
Down ==
  /\ node' = "down" /\ todo' = {}
  /\ entry' = NoEntries /\ app' = NoApps
  /\ tunnel' = NoTunnels /\ cur' = [m \in Names |-> 0] /\ link' = NoLinks
  /\ adder' = Idle /\ runner' = {}
  /\ UNCHANGED <<key, known, stores, vms>>

Exit  == node = "stopping" /\ runner = {} /\ Down
Crash == May("crash") /\ node # "down" /\ Down

Boot ==
  /\ node = "down"
  /\ node' = "boot" /\ todo' = {m \in Names : recs[m] # NoKey}
  /\ UNCHANGED <<key, known, stores, machines, adder, vms, runner>>

Ready ==
  /\ node = "boot" /\ todo = {} /\ adder = Idle
  /\ node' = "up"
  /\ UNCHANGED <<key, known, stores, todo, machines, adder, vms, runner>>

(* A Machine is reinstalled and presents the next key. *)
KeyChanges(m) ==
  /\ May("key") /\ key[m] + 1 \in Keys
  /\ key' = [key EXCEPT ![m] = @ + 1]
  /\ UNCHANGED <<known, stores, node, todo, machines, adder, vms, runner>>
-----------------------------------------------------------------------------
AdderStep == AddScan \/ AddPin \/ AddPinned \/ AddLogin \/ AddRefused \/ Unpinned \/ Connect

TunnelStep(t) ==
  \/ SshStart(t) \/ SshVerify(t) \/ SshForward(t) \/ ReadLogin(t) \/ SshEnded(t)
  \/ Retry(t) \/ Dropped(t)

Next ==
  \/ \E a \in Apps, m \in Names, h \in Hosts : AddApp(a, m, h)
  \/ \E a \in Apps : RemoveApp(a) \/ RemoveVm(a) \/ \E h \in Hosts : RunVm(a, h)
  \/ \E m \in Names, k \in Keys : AddBegin(m, k)
  \/ \E m \in Names : Remove(m) \/ Restore(m) \/ KeyChanges(m)
  \/ AdderStep \/ AddCancelled \/ RunVmInsert
  \/ \E t \in Names \X Slots : TunnelStep(t) \/ SshFails(t)
  \/ Shutdown \/ Exit \/ Crash \/ Boot \/ Ready

Spec == Init /\ [][Next]_vars
-----------------------------------------------------------------------------
(* known_hosts holds the pin of every Machine and of the one being added,    *)
(* whoever adds or removes another meanwhile and however the agent crashed.  *)
PinsHeld ==
  Unlocked =>
    /\ \A m \in Names : entry[m] # NoKey => known[m] = entry[m]
    /\ adder.pc = "login" => known[adder.name] = adder.key

(* The agent's `ssh` logs in only to a Machine that presents the key pinned  *)
(* when it was added.                                                        *)
LogsInToPinned ==
  [][\A t \in Names \X Slots : tunnel[t].log = "quiet" /\ tunnel'[t].log = "said" /\ Owned(t)
       => key[t[1]] = entry[t[1]]]_vars

(* While the agent runs, a Machine whose host key failed gets no other `ssh`  *)
(* until it is removed, whatever Apps are added to it or removed.            *)
FailedKeyEndsIt ==
  [][\A m \in Names : LET t == <<m, cur[m]>> IN
       Owned(t) /\ link[t].changed /\ entry'[m] = entry[m] =>
         cur'[m] = cur[m] /\ link'[t] = link[t] /\ tunnel'[t].pc = "over"]_vars

(* The link says what the Machine's own `ssh` said ("an old one ending can't *)
(* mark the new one down", nor up), and while it is up the port the edge     *)
(* dials for each of its Apps is forwarded to that App by that `ssh`,        *)
(* through failed reconnects and Apps taken back.                            *)
EdgePortForwarded ==
  /\ \A m \in Names : LET t == <<m, cur[m]>> IN Owned(t) => (link[t].up <=> tunnel[t].log = "read")
  /\ \A a \in Apps : HasApp(a) =>
       LET m == app[a].on  t == <<m, cur[m]>> IN
       link[t].up => app[a].port # NoPort /\ tunnel[t].fwd[a] = app[a].port

(* Machines and Apps are on record as the agent has them, and no App's       *)
(* record outlives its Machine's, so that a restart brings back exactly      *)
(* these.                                                                    *)
OnRecord ==
  /\ TypeOK
  /\ \A m \in Names : entry[m] # NoKey => recs[m] = entry[m]
  /\ \A a \in Apps : HasApp(a) =>
       appRecs[a] = [on |-> app[a].on, host |-> app[a].host] /\ entry[app[a].on] # NoKey
  /\ \A a \in Apps : appRecs[a].on # NoName => recs[appRecs[a].on] # NoKey

(* A name and a hostname belong to at most one App, in a VM or on a Machine. *)
OwnedOnce ==
  \A a, b \in Apps : HasApp(a) =>
    /\ vms[a] = NoHost
    /\ vms[b] # app[a].host
    /\ HasApp(b) /\ app[b].host = app[a].host => a = b
=============================================================================
