--------------------------- MODULE MachinesProofs ---------------------------
(* Proofs about Machines (agent/machine.rs), for any number of Machines,     *)
(* Apps, hostnames and ports and whatever may fail: the records a restart    *)
(* brings back, the key every `ssh` is held to, and the port the edge dials. *)
(* What needs a fault to be left out says so in its hypothesis.              *)
EXTENDS Machines, TLAPS

(* The Machine being added or restored has no entry until it is connected. *)
Adding ==
  adder.pc \in {"scan", "pin", "pinning", "login", "connecting"} =>
    adder.name \in Names /\ adder.key \in Keys /\ entry[adder.name] = NoKey

(* A Node that is down has nothing; while it restores, the Machines still to *)
(* be restored are on record and have no entry, and nothing else is added.   *)
Life ==
  /\ node = "down" => entry = NoEntries /\ app = NoApps /\ adder = Idle
  /\ node # "boot" => todo = {}
  /\ node = "boot" => adder.pc \in {"idle", "connecting"}
  /\ \A m \in todo : entry[m] = NoKey /\ recs[m] # NoKey /\ adder.name # m

(* The Machine about to be connected is on record, with no Apps when it is a *)
(* new one.                                                                  *)
Connecting ==
  adder.pc = "connecting" =>
    /\ recs[adder.name] = adder.key
    /\ node # "boot" => \A a \in Apps : appRecs[a].on # adder.name

(* known_hosts never holds another key than the pinned one under the name of *)
(* a Machine, even when it is cut short.                                     *)
Pinned == \A m \in Names : entry[m] # NoKey => known[m] \in {NoKey, entry[m]}

(* The three clauses of OnRecord, and that a Machine has every App recorded  *)
(* on it.                                                                    *)
Recorded ==
  /\ \A m \in Names : entry[m] # NoKey => recs[m] = entry[m]
  /\ \A a \in Apps : HasApp(a) =>
       appRecs[a] = [on |-> app[a].on, host |-> app[a].host] /\ entry[app[a].on] # NoKey
  /\ \A a \in Apps : appRecs[a].on # NoName =>
       /\ recs[appRecs[a].on] # NoKey
       /\ entry[appRecs[a].on] # NoKey => app[a].on = appRecs[a].on

(* A link is up from the login its `ssh` was heard of to the end of it, and  *)
(* tells of a failed key exactly when the task is over; an `ssh` that has    *)
(* not verified the key has said nothing.                                    *)
SoundLink(u, l) ==
  /\ l.up = TRUE <=> u.log = "read"
  /\ l.changed = TRUE <=> u.pc = "over"
  /\ u.pc \in {"none", "spawn", "conn", "sleep", "over"} => u.log = "quiet"

Links == \A t \in Names \X Slots : SoundLink(tunnel[t], link[t])

(* The `ssh` of a Machine forwards each App's port, unless its key failed. *)
Forwarded(a, t) ==
  link[t].changed # TRUE => app[a].port # NoPort /\ tunnel[t].fwd[a] = app[a].port

Forwards == \A a \in Apps : HasApp(a) => Forwarded(a, <<app[a].on, cur[app[a].on]>>)

IInv == TypeOK /\ Adding /\ Life /\ Connecting /\ Pinned /\ Recorded /\ Links /\ Forwards

(* Once the agent runs, every Machine on record has an entry or is about to  *)
(* get one.                                                                  *)
Tried ==
  node # "down" => \A m \in Names : recs[m] # NoKey =>
    entry[m] # NoKey \/ m \in todo \/ (adder.pc = "connecting" /\ adder.name = m)

(* Records of Apps and VMs share no name and no hostname, whether or not the *)
(* agent runs.                                                               *)
Apart ==
  \A a, b \in Apps : appRecs[a].on # NoName =>
    /\ vms[a] = NoHost
    /\ vms[b] # appRecs[a].host
    /\ appRecs[b].on # NoName /\ appRecs[b].host = appRecs[a].host => a = b

Owners ==
  /\ node # "stopping"
  /\ runner # {} => node = "up"
  /\ Tried
  /\ Apart
-----------------------------------------------------------------------------
(* Init: a fresh Node has no Machines. *)
LEMMA InitInv == Init => IInv
<1> SUFFICES ASSUME Init PROVE IInv
  OBVIOUS
<1> USE DEF NoName, NoKey
<1>1. /\ NoKey \in Keys \cup {NoKey} /\ NoRec \in AppRec /\ NoApp \in App
      /\ NewLink \in Link /\ Idle \in Adder
  BY DEF NoRec, AppRec, NoApp, App, NewLink, Link, Idle, Adder
<1>2. NoTunnel \in Tunnel
  BY DEF NoTunnel, Tunnel
<1>3. TypeOK
  BY <1>1, <1>2, KeysAssumption
     DEF TypeOK, Init, NoEntries, NoApps, NoTunnels, NoLinks, Slots, Vm
<1>4. Adding /\ Life /\ Connecting /\ Pinned
  BY DEF Init, Adding, Life, Connecting, Pinned, Idle, NoEntries
<1>5. Recorded
  BY DEF Init, Recorded, HasApp, NoEntries, NoApps, NoApp, NoRec
<1>6. Links
  BY DEF Init, Links, SoundLink, NoTunnels, NoLinks, NoTunnel, NewLink
<1>7. Forwards
  BY DEF Init, Forwards, HasApp, NoApps, NoApp
<1> QED
  BY <1>3, <1>4, <1>5, <1>6, <1>7 DEF IInv

-----------------------------------------------------------------------------
(* What the agent and the database hold of Machines and Apps is left alone. *)
LEMMA TablesAlone ==
  ASSUME IInv, UNCHANGED <<recs, appRecs, entry, app, tunnel, cur, link>>
  PROVE  Recorded' /\ Links' /\ Forwards'
<1>1. Recorded'
  BY Zenon DEF IInv, Recorded, HasApp
<1>2. Links'
  BY Zenon DEF IInv, Links
<1>3. Forwards'
  BY Zenon DEF IInv, HasApp, Forwards, Forwarded
<1> QED
  BY <1>1, <1>2, <1>3

(* An App is on a Machine, or on none, and so is its record. *)
LEMMA OnNames ==
  ASSUME IInv, NEW a \in Apps
  PROVE  /\ app[a].on # NoName => app[a].on \in Names
         /\ appRecs[a].on # NoName => appRecs[a].on \in Names
<1>1. app[a] \in App /\ appRecs[a] \in AppRec
  BY Zenon DEF IInv, TypeOK
<1> QED
  BY <1>1 DEF App, AppRec

(* Steps that only touch VMs, or the key a Machine presents, leave what is   *)
(* said of Machines alone.                                                   *)
LEMMA VmFrame ==
  ASSUME IInv, TypeOK', UNCHANGED <<known, stores, node, todo, machines, adder>>
  PROVE  IInv'
<1>1. UNCHANGED <<known, recs, appRecs, node, todo, entry, app, tunnel, cur, link, adder>>
  BY DEF stores, machines
<1>2. Adding' /\ Life' /\ Connecting' /\ Pinned'
  BY <1>1, Zenon DEF IInv, Adding, Life, Connecting, Pinned
<1>3. Recorded' /\ Links' /\ Forwards'
  BY <1>1, TablesAlone, Zenon
<1> QED
  BY <1>2, <1>3, Zenon DEF IInv

(* run_vm, its insert, rm, and a Machine that is reinstalled. *)
LEMMA VmInv ==
  ASSUME IInv,
         \/ \E a \in Apps : RemoveVm(a) \/ \E h \in Hosts : RunVm(a, h)
         \/ RunVmInsert
         \/ \E m \in Names : KeyChanges(m)
  PROVE  IInv'
<1> TypeOK
  BY DEF IInv
<1>1. ASSUME NEW a \in Apps, RemoveVm(a) PROVE IInv'
  <2>1. TypeOK'
    BY <1>1 DEF RemoveVm, TypeOK, stores, machines, Vm
  <2> QED
    BY <1>1, <2>1, VmFrame DEF RemoveVm
<1>2. ASSUME NEW a \in Apps, NEW h \in Hosts, RunVm(a, h) PROVE IInv'
  <2>1. TypeOK'
    BY <1>2 DEF RunVm, TypeOK, stores, machines, Run
  <2> QED
    BY <1>2, <2>1, VmFrame DEF RunVm
<1>3. ASSUME RunVmInsert PROVE IInv'
  <2>1. PICK r \in runner : vms' = vms \/ vms' = [vms EXCEPT ![r.app] = r.host]
    BY <1>3, Zenon DEF RunVmInsert
  <2>2. r.app \in Apps /\ r.host \in Hosts
    BY <2>1 DEF TypeOK, Run
  <2>3. vms' \in [Apps -> Vm]
    BY <2>1, <2>2 DEF TypeOK, Vm
  <2>4. TypeOK'
    BY <1>3, <2>3 DEF RunVmInsert, TypeOK, stores, machines
  <2> QED
    BY <1>3, <2>4, VmFrame DEF RunVmInsert
<1>4. ASSUME NEW m \in Names, KeyChanges(m) PROVE IInv'
  <2>1. TypeOK'
    BY <1>4 DEF KeyChanges, TypeOK, stores, machines
  <2> QED
    BY <1>4, <2>1, VmFrame DEF KeyChanges
<1> QED
  BY <1>1, <1>2, <1>3, <1>4

-----------------------------------------------------------------------------
(* A step of run_tunnel, run_ssh or `ssh` writes one tunnel and its link. It *)
(* keeps the forwards of an `ssh` the agent owns, and a failed key failed.   *)
LEMMA TunnelFrame ==
  ASSUME IInv, NEW t \in Names \X Slots, NEW u \in Tunnel, NEW l \in Link, UNCHANGED rest,
         tunnel' = [tunnel EXCEPT ![t] = u], link' = [link EXCEPT ![t] = l],
         SoundLink(u, l),
         Owned(t) => u.fwd = tunnel[t].fwd /\ (l.changed # TRUE => link[t].changed # TRUE)
  PROVE  IInv'
<1>1. UNCHANGED <<key, known, recs, appRecs, node, todo, entry, app, cur, adder, vms, runner>>
  BY DEF rest, stores
<1>2. TypeOK'
  BY <1>1 DEF IInv, TypeOK
<1>3. Adding' /\ Life' /\ Connecting' /\ Pinned'
  BY <1>1, Zenon DEF IInv, Adding, Life, Connecting, Pinned
<1>4. Recorded'
  BY <1>1, Zenon DEF IInv, Recorded, HasApp
<1>5. Links'
  BY DEF IInv, TypeOK, Links
<1>6. Forwards'
  <2> SUFFICES ASSUME NEW a \in Apps, HasApp(a)
               PROVE  Forwarded(a, <<app[a].on, cur[app[a].on]>>)'
    BY <1>1 DEF Forwards, HasApp
  <2> DEFINE m == app[a].on
             q == <<m, cur[m]>>
  <2>1. m \in Names /\ cur[m] \in Slots /\ entry[m] # NoKey /\ Forwarded(a, q)
    BY DEF IInv, TypeOK, App, HasApp, Recorded, Forwards
  <2>2. Owned(q) /\ q \in Names \X Slots
    BY <2>1 DEF Owned
  <2>3. CASE q = t
    BY <1>1, <2>1, <2>2, <2>3, Zenon DEF Forwarded, IInv, TypeOK
  <2>4. CASE q # t
    BY <1>1, <2>1, <2>2, <2>4, Zenon DEF Forwarded, IInv, TypeOK
  <2> QED
    BY <2>3, <2>4
<1> QED
  BY <1>2, <1>3, <1>4, <1>5, <1>6 DEF IInv

(* run_tunnel, run_ssh and `ssh`, step by step. *)
LEMMA TunnelInv ==
  ASSUME IInv, NEW t \in Names \X Slots, TunnelStep(t) \/ SshFails(t)
  PROVE  IInv'
<1> DEFINE old == tunnel[t]
           was == link[t]
<1>1. old \in Tunnel /\ was \in Link /\ link = [link EXCEPT ![t] = was] /\ SoundLink(old, was)
  BY DEF IInv, TypeOK, Links
<1> HIDE DEF old, was
<1>2. tunnel[t] = old /\ link[t] = was
  BY DEF old, was
<1>a. ASSUME NEW u \in Tunnel, NEW l \in Link, SoundLink(u, l), u.fwd = old.fwd,
             l.changed # TRUE => was.changed # TRUE,
             SetTunnel(t, u), link' = [link EXCEPT ![t] = l], UNCHANGED rest
      PROVE  IInv'
  BY <1>2, <1>a, TunnelFrame, Zenon DEF SetTunnel
<1>b. UNCHANGED link => link' = [link EXCEPT ![t] = was]
  BY <1>1, Zenon
<1>3. CASE SshStart(t) \/ SshForward(t) \/ SshFails(t) \/ Retry(t)
  <2>1. PICK p \in {"spawn", "conn", "bound", "exit"} :
          /\ SetTunnel(t, [old EXCEPT !.pc = p]) /\ UNCHANGED <<rest, link>>
          /\ old.pc \in {"spawn", "conn", "auth", "bound", "sleep"}
          /\ p \in {"spawn", "conn"} => old.pc \in {"spawn", "sleep"}
    BY <1>2, <1>3 DEF SshStart, SshForward, SshFails, Retry
  <2> DEFINE u == [old EXCEPT !.pc = p]
  <2>2. u \in Tunnel /\ SoundLink(u, was) /\ u.fwd = old.fwd
    BY <1>1, <2>1 DEF Tunnel, SoundLink
  <2>3. SetTunnel(t, u) /\ UNCHANGED rest /\ link' = [link EXCEPT ![t] = was]
    BY <1>b, <2>1
  <2> HIDE DEF u
  <2> QED
    BY <1>1, <1>a, <2>2, <2>3, Zenon
<1>4. CASE SshVerify(t)
  <2> DEFINE ok == [old EXCEPT !.pc = "auth", !.log = "said"]
             no == [old EXCEPT !.pc = "exit", !.bad = TRUE]
  <2>1. /\ old.pc = "conn" /\ (SetTunnel(t, ok) \/ SetTunnel(t, no))
        /\ UNCHANGED rest /\ link' = [link EXCEPT ![t] = was]
    BY <1>2, <1>4, <1>b DEF SshVerify
  <2>2. ok \in Tunnel /\ SoundLink(ok, was) /\ ok.fwd = old.fwd
    BY <1>1, <2>1, Zenon DEF Tunnel, SoundLink
  <2>3. no \in Tunnel /\ SoundLink(no, was) /\ no.fwd = old.fwd
    BY <1>1, <2>1, Zenon DEF Tunnel, SoundLink
  <2> HIDE DEF ok, no
  <2> QED
    BY <1>1, <1>a, <2>1, <2>2, <2>3, Zenon
<1>5. CASE ReadLogin(t)
  <2> DEFINE u == [old EXCEPT !.log = "read"]
             l == [up |-> TRUE, changed |-> FALSE]
  <2>1. /\ old.log = "said" /\ SetTunnel(t, u)
        /\ UNCHANGED rest /\ link' = [link EXCEPT ![t] = l]
    BY <1>2, <1>5 DEF ReadLogin
  <2>2. u \in Tunnel /\ u.fwd = old.fwd /\ l \in Link /\ SoundLink(u, l) /\ was.changed # TRUE
    BY <1>1, <2>1, Zenon DEF Tunnel, Link, SoundLink
  <2> HIDE DEF u, l
  <2> QED
    BY <1>a, <2>1, <2>2, Zenon
<1>6. CASE SshEnded(t)
  <2> DEFINE u == [old EXCEPT !.pc = IF old.bad THEN "over" ELSE "sleep",
                              !.log = "quiet", !.bad = FALSE]
             l == [up |-> FALSE, changed |-> old.bad]
  <2>1. /\ old.pc = "exit" /\ SetTunnel(t, u)
        /\ UNCHANGED rest /\ link' = [link EXCEPT ![t] = l]
    BY <1>2, <1>6 DEF SshEnded
  <2>2. u \in Tunnel /\ u.fwd = old.fwd /\ l \in Link
    BY <1>1, <2>1, Zenon DEF Tunnel, Link
  <2>3. SoundLink(u, l) /\ was.changed # TRUE
    BY <1>1, <2>1, Zenon DEF Tunnel, SoundLink
  <2> HIDE DEF u, l
  <2> QED
    BY <1>a, <2>1, <2>2, <2>3, Zenon
<1>7. CASE Dropped(t)
  <2>1. ~Owned(t) /\ UNCHANGED rest
    BY <1>7 DEF Dropped
  <2>2. tunnel' = [tunnel EXCEPT ![t] = NoTunnel] /\ link' = [link EXCEPT ![t] = NewLink]
    BY <1>7 DEF Dropped, SetTunnel
  <2>3. NoTunnel \in Tunnel /\ NewLink \in Link /\ SoundLink(NoTunnel, NewLink)
    BY DEF NoTunnel, Tunnel, NewLink, Link, SoundLink
  <2> QED
    BY <2>1, <2>2, <2>3, TunnelFrame, Zenon
<1> QED
  BY <1>3, <1>4, <1>5, <1>6, <1>7, Zenon DEF TunnelStep

-----------------------------------------------------------------------------
(* A step of the holder of `adding` that only writes known_hosts: what the   *)
(* agent and the database hold stays.                                        *)
LEMMA AdderFrame ==
  ASSUME IInv, UNCHANGED <<quiet, recs, entry, tunnel, cur, link>>,
         known' \in [Names -> Keys \cup {NoKey}], Pinned',
         adder' \in Adder, Adding', adder'.pc # "connecting",
         node = "boot" => adder'.pc = "idle",
         node = "down" => adder' = Idle,
         \A m \in todo : adder'.name # m
  PROVE  IInv'
<1>1. UNCHANGED <<key, node, todo, vms, runner, recs, appRecs, entry, app, tunnel, cur, link>>
  BY DEF quiet
<1>2. TypeOK'
  BY <1>1, Zenon DEF IInv, TypeOK
<1>3. Life'
  BY <1>1, Zenon DEF IInv, Life
<1>4. Connecting'
  BY Zenon DEF Connecting
<1>5. Recorded' /\ Links' /\ Forwards'
  BY <1>1, TablesAlone, Zenon
<1> QED
  BY <1>2, <1>3, <1>4, <1>5, Zenon DEF IInv

(* `adding` is released, or its holder goes on to something other than       *)
(* connecting.                                                               *)
LEMMA AdderMoves ==
  ASSUME IInv, UNCHANGED <<quiet, recs, entry, tunnel, cur, link>>,
         known' \in [Names -> Keys \cup {NoKey}], Pinned',
         adder.pc \in {"scan", "pin", "pinning", "login", "unpinning"},
         Release \/ \E p \in {"pin", "pinning", "login", "unpinning"} :
           Step(p) /\ (p = "unpinning" \/ adder.pc \in {"scan", "pin", "pinning", "login"})
  PROVE  IInv'
<1>1. node # "boot" /\ node # "down" /\ todo = {} /\ adder \in Adder /\ Adding /\ entry' = entry
  BY DEF IInv, Life, Idle, TypeOK
<1>2. CASE Release
  <2>1. adder' \in Adder /\ adder'.pc = "idle"
    BY <1>2 DEF Release, Idle, Adder, NoName, NoKey
  <2>2. Adding'
    BY <2>1 DEF Adding
  <2> QED
    BY <1>1, <2>1, <2>2, AdderFrame
<1>3. ASSUME NEW p \in {"pin", "pinning", "login", "unpinning"}, Step(p),
             p = "unpinning" \/ adder.pc \in {"scan", "pin", "pinning", "login"}
      PROVE  IInv'
  <2>1. adder' \in Adder /\ adder'.pc = p /\ adder'.name = adder.name /\ adder'.key = adder.key
    BY <1>1, <1>3 DEF Step, Adder
  <2>2. Adding'
    BY <1>1, <1>3, <2>1 DEF Adding
  <2>3. p # "connecting"
    BY <1>3
  <2> QED
    BY <1>1, <2>1, <2>2, <2>3, AdderFrame
<1> QED
  BY <1>2, <1>3

(* known_hosts as it was, truncated, or with the key being added. *)
LEMMA PinsKept ==
  ASSUME IInv, entry' = entry,
         \/ known' = known
         \/ known' = Truncated
         \/ known' = entry
         \/ adder.pc \in {"pinning", "connecting"} /\ known' = Pins(adder.name, adder.key)
  PROVE  known' \in [Names -> Keys \cup {NoKey}] /\ Pinned'
<1>1. /\ known \in [Names -> Keys \cup {NoKey}] /\ entry \in [Names -> Keys \cup {NoKey}]
      /\ Pinned
      /\ adder.pc \in {"pinning", "connecting"} =>
           adder.key \in Keys /\ adder.name \in Names /\ entry[adder.name] = NoKey
  BY DEF IInv, TypeOK, Adding
<1>2. CASE known' = known
  BY <1>1, <1>2 DEF Pinned
<1>3. CASE known' = Truncated
  BY <1>3 DEF Pinned, Truncated, NoEntries
<1>4. CASE known' = entry
  BY <1>1, <1>4 DEF Pinned
<1>5. CASE adder.pc \in {"pinning", "connecting"} /\ known' = Pins(adder.name, adder.key)
  BY <1>1, <1>5 DEF Pinned, Pins
<1> QED
  BY <1>2, <1>3, <1>4, <1>5

(* add up to insert_machine, its failures, and the end of remove. *)
LEMMA AdderInv ==
  ASSUME IInv, AddScan \/ AddPin \/ AddPinned \/ AddRefused \/ Unpinned \/ AddCancelled
  PROVE  IInv'
<1>1. UNCHANGED <<quiet, recs, entry, tunnel, cur, link>>
  BY DEF AddScan, AddPin, AddPinned, AddRefused, Unpinned, AddCancelled
<1>2. \/ known' = known \/ known' = Truncated \/ known' = entry
      \/ adder.pc \in {"pinning", "connecting"} /\ known' = Pins(adder.name, adder.key)
  BY DEF AddScan, AddPin, AddPinned, AddRefused, Unpinned, AddCancelled
<1>3. known' \in [Names -> Keys \cup {NoKey}] /\ Pinned'
  BY <1>1, <1>2, PinsKept
<1>4. /\ adder.pc \in {"scan", "pin", "pinning", "login", "unpinning"}
      /\ Release \/ \E p \in {"pin", "pinning", "login", "unpinning"} :
           Step(p) /\ (p = "unpinning" \/ adder.pc \in {"scan", "pin", "pinning", "login"})
  BY DEF AddScan, AddPin, AddPinned, AddRefused, Unpinned, AddCancelled
<1> QED
  BY <1>1, <1>3, <1>4, AdderMoves, Zenon

(* add begins for a Machine that has no entry. *)
LEMMA AddBeginInv ==
  ASSUME IInv, NEW m \in Names, NEW k \in Keys, AddBegin(m, k)
  PROVE  IInv'
<1>1. /\ UNCHANGED <<quiet, recs, entry, tunnel, cur, link>> /\ known' = known /\ entry' = entry
      /\ entry[m] = NoKey /\ node \in {"up", "stopping"} /\ todo = {}
      /\ adder' = [pc |-> "scan", name |-> m, key |-> k]
  BY DEF AddBegin, IInv, Life, Serving
<1>2. known' \in [Names -> Keys \cup {NoKey}] /\ Pinned'
  BY <1>1, PinsKept, Zenon
<1>3. adder' \in Adder /\ Adding' /\ adder'.pc # "connecting"
  BY <1>1 DEF Adder, Adding
<1>4. node # "boot" /\ node # "down"
  BY <1>1
<1>5. \A n \in todo : adder'.name # n
  BY <1>1
<1> QED
  BY <1>1, <1>2, <1>3, <1>4, <1>5, AdderFrame, Zenon

(* insert_machine: the Machine is on record, with no Apps, and is connected  *)
(* next.                                                                     *)
LEMMA AddLoginInv ==
  ASSUME IInv, AddLogin
  PROVE  IInv'
<1> DEFINE m == adder.name
<1>1. UNCHANGED <<quiet, entry, tunnel, cur, link>> /\ adder.pc = "login"
  BY DEF AddLogin
<1>2. CASE Release /\ UNCHANGED <<recs, known>>
  <2>1. known' \in [Names -> Keys \cup {NoKey}] /\ Pinned'
    BY <1>1, <1>2, PinsKept
  <2> QED
    BY <1>1, <1>2, <2>1, AdderMoves
<1>3. CASE /\ recs[m] = NoKey /\ recs' = [recs EXCEPT ![m] = adder.key]
           /\ Step("connecting") /\ known' = Truncated
  <2>1. UNCHANGED <<key, node, todo, vms, runner, appRecs, entry, app, tunnel, cur, link>>
    BY <1>1 DEF quiet
  <2>2. /\ adder \in Adder /\ m \in Names /\ adder.key \in Keys /\ entry[m] = NoKey
        /\ node # "boot" /\ node # "down" /\ todo = {}
    BY <1>1 DEF IInv, TypeOK, Adding, Life, Idle
  <2>3. known' \in [Names -> Keys \cup {NoKey}] /\ Pinned'
    BY <1>3, <2>1, PinsKept
  <2>4. adder' \in Adder /\ adder'.pc = "connecting" /\ adder'.name = m /\ adder'.key = adder.key
    BY <1>3, <2>2 DEF Step, Adder
  <2>5. recs' \in [Names -> Keys \cup {NoKey}] /\ recs'[m] = adder.key /\ adder.key # NoKey
    BY <1>3, <2>2, KeysAssumption, Zenon DEF IInv, TypeOK
  <2>6. \A n \in Names : n # m => recs'[n] = recs[n]
    BY <1>3, <2>2 DEF IInv, TypeOK
  <2>7. TypeOK'
    BY <2>1, <2>3, <2>4, <2>5, Zenon DEF IInv, TypeOK
  <2>8. Adding' /\ Life'
    BY <2>1, <2>2, <2>4 DEF Adding, Life
  <2>9. \A a \in Apps : appRecs[a].on # NoName =>
          appRecs[a].on # m /\ appRecs[a].on \in Names
    BY <1>3 DEF IInv, TypeOK, AppRec, Recorded
  <2>10. Connecting'
    BY <2>1, <2>2, <2>4, <2>5, <2>9, NamesAssumption DEF Connecting, NoName
  <2>11. Recorded'
    BY <1>3, <2>1, <2>2, <2>5, <2>6, <2>9, Zenon DEF Recorded, IInv, HasApp
  <2>12. Links' /\ Forwards'
    BY <2>1, Zenon DEF IInv, HasApp, Links, Forwards, Forwarded
  <2> QED
    BY <2>3, <2>7, <2>8, <2>10, <2>11, <2>12, Zenon DEF IInv
<1> QED
  BY <1>2, <1>3, Zenon DEF AddLogin

(* remove: a Machine without Apps leaves the record and the entries. *)
LEMMA RemoveInv ==
  ASSUME IInv, NEW m \in Names, Remove(m)
  PROVE  IInv'
<1>1. /\ UNCHANGED <<key, node, todo, vms, runner, appRecs, app, tunnel, cur, link>>
      /\ adder = Idle /\ known' = Truncated /\ Step("unpinning")
      /\ recs' = [recs EXCEPT ![m] = NoKey] /\ entry' = [entry EXCEPT ![m] = NoKey]
  BY DEF Remove, quiet
<1>2. /\ recs \in [Names -> Keys \cup {NoKey}] /\ entry \in [Names -> Keys \cup {NoKey}]
      /\ node # "boot" /\ node # "down" /\ todo = {}
  BY DEF Remove, Serving, IInv, TypeOK, Life
<1>3. adder' \in Adder /\ adder'.pc = "unpinning"
  BY <1>1 DEF Step, Idle, Adder, NoName, NoKey
<1>4. /\ recs' \in [Names -> Keys \cup {NoKey}] /\ entry' \in [Names -> Keys \cup {NoKey}]
      /\ entry'[m] = NoKey /\ \A n \in Names : n # m => recs'[n] = recs[n] /\ entry'[n] = entry[n]
  BY <1>1, <1>2
<1>5. known' \in [Names -> Keys \cup {NoKey}] /\ Pinned'
  BY <1>1 DEF Truncated, NoEntries, Pinned
<1>6. TypeOK'
  BY <1>1, <1>3, <1>4, <1>5, Zenon DEF IInv, TypeOK
<1>7. Adding' /\ Life' /\ Connecting'
  BY <1>1, <1>2, <1>3 DEF Adding, Life, Connecting
<1>8. \A a \in Apps : app[a].on # m /\ (appRecs[a].on # NoName => appRecs[a].on # m)
  BY DEF Remove, OnMachine, IInv, Recorded
<1>9. \A a \in Apps : /\ HasApp(a) => app[a].on \in Names
                      /\ appRecs[a].on # NoName => appRecs[a].on \in Names
  BY DEF IInv, TypeOK, App, AppRec, HasApp
<1>10. Recorded'
  BY <1>1, <1>4, <1>8, <1>9, Zenon DEF Recorded, IInv, HasApp
<1>11. Links' /\ Forwards'
  BY <1>1, Zenon DEF IInv, HasApp, Links, Forwards, Forwarded
<1> QED
  BY <1>5, <1>6, <1>7, <1>10, <1>11, Zenon DEF IInv

(* restore takes the next Machine on record. *)
LEMMA RestoreInv ==
  ASSUME IInv, NEW m \in Names, Restore(m)
  PROVE  IInv'
<1>1. /\ UNCHANGED <<key, recs, appRecs, node, entry, app, tunnel, cur, link, vms, runner>>
      /\ node = "boot" /\ m \in todo /\ todo' = todo \ {m} /\ known' = Truncated
      /\ adder' = [pc |-> "connecting", name |-> m, key |-> recs[m]]
  BY DEF Restore, stores, machines
<1>2. recs[m] \in Keys /\ entry[m] = NoKey
  BY <1>1 DEF IInv, TypeOK, Life
<1>3. adder' \in Adder
  BY <1>1, <1>2 DEF Adder
<1>4. known' \in [Names -> Keys \cup {NoKey}] /\ Pinned'
  BY <1>1, PinsKept
<1>5. TypeOK'
  <2>1. todo' \subseteq Names
    BY <1>1 DEF IInv, TypeOK
  <2> QED
    BY <1>1, <1>3, <1>4, <2>1, Zenon DEF IInv, TypeOK
<1>6. Adding' /\ Connecting'
  BY <1>1, <1>2 DEF Adding, Connecting
<1>7. Life'
  BY <1>1 DEF IInv, Life
<1>8. Recorded' /\ Links' /\ Forwards'
  BY <1>1, TablesAlone, Zenon
<1> QED
  BY <1>4, <1>5, <1>6, <1>7, <1>8, Zenon DEF IInv

-----------------------------------------------------------------------------
(* shutdown drops every entry and every App; the records stay. *)
LEMMA ShutdownInv ==
  ASSUME IInv, Shutdown
  PROVE  IInv'
<1>1. /\ UNCHANGED <<key, known, recs, appRecs, todo, tunnel, cur, link, adder, vms, runner>>
      /\ node = "up" /\ node' = "stopping" /\ entry' = NoEntries /\ app' = NoApps
      /\ adder.pc # "connecting"
  BY DEF Shutdown, stores, Unlocked, Writing
<1>2. entry' \in [Names -> Keys \cup {NoKey}] /\ app' \in [Apps -> App]
  BY <1>1 DEF NoEntries, NoApps, NoApp, App
<1>3. (\A m \in Names : entry'[m] = NoKey) /\ \A a \in Apps : app'[a].on = NoName
  BY <1>1 DEF NoEntries, NoApps, NoApp
<1>4. TypeOK'
  <2>1. node' \in {"down", "boot", "up", "stopping"}
    BY <1>1
  <2> QED
    BY <1>1, <1>2, <2>1, Zenon DEF IInv, TypeOK
<1>5. Adding' /\ Connecting'
  BY <1>1, <1>3 DEF IInv, Adding, Connecting
<1>6. Life'
  BY <1>1 DEF IInv, Life
<1>7. Pinned'
  BY <1>3 DEF Pinned
<1>8. Recorded'
  <2>1. \A a \in Apps : appRecs[a].on # NoName =>
          appRecs[a].on \in Names /\ recs[appRecs[a].on] # NoKey
    BY DEF IInv, TypeOK, AppRec, Recorded
  <2> QED
    BY <1>1, <1>3, <2>1, Zenon DEF Recorded, HasApp
<1>9. Links' /\ Forwards'
  BY <1>1, <1>3, Zenon DEF IInv, Links, Forwards, HasApp
<1> QED
  BY <1>4, <1>5, <1>6, <1>7, <1>8, <1>9, Zenon DEF IInv

(* The process ends, by shutdown or by a crash at any point: only the        *)
(* database, known_hosts and the VMs are left.                               *)
LEMMA DownInv ==
  ASSUME IInv, Down
  PROVE  IInv'
<1>1. /\ UNCHANGED <<key, known, recs, appRecs, vms>> /\ node' = "down" /\ todo' = {}
      /\ entry' = NoEntries /\ app' = NoApps
      /\ tunnel' = NoTunnels /\ cur' = [m \in Names |-> 0] /\ link' = NoLinks
      /\ adder' = Idle /\ runner' = {}
  BY DEF Down, stores
<1>2. (\A m \in Names : entry'[m] = NoKey) /\ \A a \in Apps : app'[a].on = NoName
  BY <1>1 DEF NoEntries, NoApps, NoApp
<1>3. TypeOK'
  <2>1. entry' \in [Names -> Keys \cup {NoKey}] /\ app' \in [Apps -> App] /\ adder' \in Adder
    BY <1>1 DEF NoEntries, NoApps, NoApp, App, Idle, Adder, NoName, NoKey
  <2>2. /\ tunnel' \in [Names \X Slots -> Tunnel] /\ link' \in [Names \X Slots -> Link]
        /\ cur' \in [Names -> Slots]
    <3>1. NoTunnel \in Tunnel /\ NewLink \in Link
      BY DEF NoTunnel, Tunnel, NewLink, Link
    <3> QED
      BY <1>1, <3>1 DEF NoTunnels, NoLinks, Slots
  <2>3. /\ node' \in {"down", "boot", "up", "stopping"} /\ todo' \subseteq Names
        /\ runner' \in SUBSET Run /\ \A r, s \in runner' : r = s
    BY <1>1
  <2> QED
    BY <1>1, <2>1, <2>2, <2>3, Zenon DEF IInv, TypeOK
<1>4. Adding' /\ Connecting' /\ Life'
  BY <1>1 DEF Adding, Connecting, Life, Idle
<1>5. Pinned'
  BY <1>2 DEF Pinned
<1>6. Recorded'
  <2>1. \A a \in Apps : appRecs[a].on # NoName =>
          appRecs[a].on \in Names /\ recs[appRecs[a].on] # NoKey
    BY DEF IInv, TypeOK, AppRec, Recorded
  <2> QED
    BY <1>1, <1>2, <2>1, Zenon DEF Recorded, HasApp
<1>7. Links'
  <2>1. SoundLink(NoTunnel, NewLink)
    BY DEF NoTunnel, NewLink, SoundLink
  <2> QED
    BY <1>1, <2>1 DEF Links, NoTunnels, NoLinks
<1>8. Forwards'
  BY <1>2 DEF Forwards, HasApp
<1> QED
  BY <1>3, <1>4, <1>5, <1>6, <1>7, <1>8, Zenon DEF IInv

(* The agent starts, and serves once every Machine has been tried. *)
LEMMA BootInv ==
  ASSUME IInv, Boot \/ Ready
  PROVE  IInv'
<1>1. UNCHANGED <<key, known, recs, appRecs, entry, app, tunnel, cur, link, adder, vms, runner>>
  BY DEF Boot, Ready, stores, machines
<1>2. node' \in {"down", "boot", "up", "stopping"} /\ todo' \subseteq Names
  BY DEF Boot, Ready, IInv, TypeOK
<1>3. TypeOK'
  BY <1>1, <1>2, Zenon DEF IInv, TypeOK
<1>4. adder = Idle
  BY DEF Boot, Ready, IInv, Life
<1>5. Adding' /\ Connecting'
  BY <1>1, <1>4 DEF Adding, Connecting, Idle
<1>6. Life'
  <2>1. CASE Boot
    BY <1>1, <1>4, <2>1, NamesAssumption DEF Boot, IInv, Life, NoEntries, Idle, NoName
  <2>2. CASE Ready
    BY <1>1, <2>2 DEF Ready, IInv, Life
  <2> QED
    BY <2>1, <2>2
<1>7. Pinned'
  BY <1>1, Zenon DEF IInv, Pinned
<1>8. Recorded' /\ Links' /\ Forwards'
  BY <1>1, TablesAlone, Zenon
<1> QED
  BY <1>3, <1>5, <1>6, <1>7, <1>8, Zenon DEF IInv

-----------------------------------------------------------------------------
(* What starting a tunnel of the Machine m leaves, with the ports f for the  *)
(* Apps S: tunnels of other Machines as they were, and its own `ssh`         *)
(* forwarding exactly those ports, or with a failed key.                     *)
Started(m, S, f) ==
  /\ tunnel' \in [Names \X Slots -> Tunnel]
  /\ link' \in [Names \X Slots -> Link]
  /\ cur' \in [Names -> Slots]
  /\ Links'
  /\ \A n \in Names \ {m} : /\ cur'[n] = cur[n]
                            /\ tunnel'[<<n, cur[n]>>] = tunnel[<<n, cur[n]>>]
                            /\ link'[<<n, cur[n]>>] = link[<<n, cur[n]>>]
  /\ link'[<<m, cur'[m]>>].changed # TRUE => \A a \in S : tunnel'[<<m, cur'[m]>>].fwd[a] = f[a]

(* free_local_ports gives each App a port. *)
LEMMA PortsChosen ==
  ASSUME NEW S, NEW f \in Injection(S, FreePorts)
  PROVE  f \in [S -> Ports] /\ DOMAIN f = S
BY DEF Injection, FreePorts

(* start_tunnel's new `ssh`. *)
LEMMA NewSshStarts ==
  ASSUME IInv, NEW m \in Names, NEW q \in Slots, NEW S \in SUBSET Apps, NEW f \in [S -> Ports],
         NewSsh(m, q, f)
  PROVE  Started(m, S, f)
<1> DEFINE g == [a \in Apps |-> IF a \in DOMAIN f THEN f[a] ELSE NoPort]
           u == [NoTunnel EXCEPT !.pc = "spawn", !.fwd = g]
<1>1. g \in [Apps -> Ports \cup {NoPort}] /\ \A a \in S : g[a] = f[a]
  BY Zenon
<1> HIDE DEF g
<1>2. u \in Tunnel /\ u.fwd = g /\ SoundLink(u, NewLink) /\ NewLink \in Link
  BY <1>1, Zenon DEF Tunnel, NoTunnel, SoundLink, NewLink, Link
<1>3. /\ tunnel' = [tunnel EXCEPT ![<<m, q>>] = u] /\ cur' = [cur EXCEPT ![m] = q]
      /\ link' = [link EXCEPT ![<<m, q>>] = NewLink]
  BY Zenon DEF NewSsh, g
<1> HIDE DEF u
<1>4. /\ tunnel \in [Names \X Slots -> Tunnel] /\ link \in [Names \X Slots -> Link]
      /\ cur \in [Names -> Slots] /\ Links
  BY DEF IInv, TypeOK
<1>5. tunnel' \in [Names \X Slots -> Tunnel] /\ tunnel'[<<m, q>>] = u
  BY <1>2, <1>3, <1>4
<1>6. link' \in [Names \X Slots -> Link] /\ link'[<<m, q>>] = NewLink
  BY <1>2, <1>3, <1>4
<1>7. cur' \in [Names -> Slots] /\ cur'[m] = q /\ \A n \in Names \ {m} : cur'[n] = cur[n]
  BY <1>3, <1>4
<1>8. \A t \in Names \X Slots : t # <<m, q>> => tunnel'[t] = tunnel[t] /\ link'[t] = link[t]
  BY <1>3, <1>4
<1>9. Links'
  BY <1>2, <1>4, <1>5, <1>6, <1>8, Zenon DEF Links
<1>10. \A n \in Names \ {m} : <<n, cur[n]>> # <<m, q>> /\ <<n, cur[n]>> \in Names \X Slots
  BY <1>4
<1> QED
  BY <1>1, <1>2, <1>5, <1>6, <1>7, <1>8, <1>9, <1>10, Zenon DEF Started

(* start_tunnel and free_local_ports, and a Machine whose key failed, which  *)
(* gets no other `ssh`.                                                      *)
LEMMA TunnelStarts ==
  ASSUME IInv, NEW m \in Names, NEW S \in SUBSET Apps, NEW f \in [S -> Ports],
         \/ link[<<m, cur[m]>>].changed /\ UNCHANGED <<tunnel, cur, link>>
         \/ ~link[<<m, cur[m]>>].changed /\ NewSsh(m, 1 - cur[m], f)
  PROVE  Started(m, S, f)
<1>1. cur[m] \in Slots /\ link[<<m, cur[m]>>].changed \in BOOLEAN
  BY DEF IInv, TypeOK, Link
<1>2. CASE link[<<m, cur[m]>>].changed /\ UNCHANGED <<tunnel, cur, link>>
  <2>1. Links'
    BY <1>2, Zenon DEF IInv, Links
  <2>2. link'[<<m, cur'[m]>>].changed = TRUE
    BY <1>1, <1>2, Zenon
  <2> QED
    BY <1>2, <2>1, <2>2, Zenon DEF Started, IInv, TypeOK
<1>3. CASE NewSsh(m, 1 - cur[m], f)
  <2>1. 1 - cur[m] \in Slots
    BY <1>1 DEF Slots
  <2> QED
    BY <1>3, <2>1, NewSshStarts, Zenon
<1> QED
  BY <1>2, <1>3

(* The Apps with their new ports are the same Apps on the same Machines. *)
LEMMA PortsGiven ==
  ASSUME NEW apps \in [Apps -> App], NEW S \in SUBSET Apps, NEW f \in [S -> Ports]
  PROVE  /\ WithPorts(apps, f) \in [Apps -> App]
         /\ \A a \in Apps : /\ WithPorts(apps, f)[a].on = apps[a].on
                            /\ WithPorts(apps, f)[a].host = apps[a].host
                            /\ a \in S => WithPorts(apps, f)[a].port = f[a]
                            /\ a \notin S => WithPorts(apps, f)[a] = apps[a]
<1> DEFINE given(a) == IF a \in S THEN [apps[a] EXCEPT !.port = f[a]] ELSE apps[a]
           w == [a \in Apps |-> given(a)]
<1>1. ASSUME NEW r \in App, NEW p \in Ports
      PROVE  /\ [r EXCEPT !.port = p] \in App /\ [r EXCEPT !.port = p].on = r.on
             /\ [r EXCEPT !.port = p].host = r.host /\ [r EXCEPT !.port = p].port = p
  BY DEF App
<1>2. \A a \in Apps : /\ given(a) \in App /\ given(a).on = apps[a].on
                      /\ given(a).host = apps[a].host
                      /\ a \in S => given(a).port = f[a]
                      /\ a \notin S => given(a) = apps[a]
  <2> SUFFICES ASSUME NEW a \in Apps
               PROVE  /\ given(a) \in App /\ given(a).on = apps[a].on
                      /\ given(a).host = apps[a].host
                      /\ a \in S => given(a).port = f[a]
                      /\ a \notin S => given(a) = apps[a]
    OBVIOUS
  <2>1. apps[a] \in App /\ (a \in S => f[a] \in Ports)
    BY Zenon
  <2>2. CASE a \in S
    BY <1>1, <2>1, <2>2
  <2>3. CASE a \notin S
    BY <2>1, <2>3
  <2> QED
    BY <2>2, <2>3
<1>3. WithPorts(apps, f) = w
  <2>1. DOMAIN f = S
    OBVIOUS
  <2> QED
    BY <2>1 DEF WithPorts
<1> HIDE DEF given
<1>4. w \in [Apps -> App] /\ \A a \in Apps : w[a] = given(a)
  BY <1>2
<1> HIDE DEF w
<1> QED
  BY <1>2, <1>3, <1>4

(* Every App of a Machine started anew is dialled on the port its `ssh`      *)
(* forwards; the Apps of the others are dialled as before.                   *)
LEMMA StartForwards ==
  ASSUME IInv, NEW m \in Names, NEW S \in SUBSET Apps, NEW f \in [S -> Ports], Started(m, S, f),
         app' \in [Apps -> App],
         \A a \in Apps : app'[a].on = m => a \in S /\ app'[a].port = f[a],
         \A a \in Apps : app'[a].on # m => app'[a] = app[a] \/ app'[a].on = NoName
  PROVE  Forwards'
<1> SUFFICES ASSUME NEW a \in Apps, app'[a].on # NoName
             PROVE  Forwarded(a, <<app[a].on, cur[app[a].on]>>)'
  BY Zenon DEF Forwards, HasApp
<1>1. CASE app'[a].on = m
  <2>1. f[a] # NoPort /\ app'[a].port = f[a] /\ a \in S
    BY <1>1, PortsAssumption
  <2> QED
    BY <1>1, <2>1 DEF Forwarded, Started
<1>2. CASE app'[a].on # m
  <2>1. app'[a] = app[a]
    BY <1>2
  <2>2. app[a].on \in Names \ {m} /\ Forwarded(a, <<app[a].on, cur[app[a].on]>>)
    BY <1>2, <2>1 DEF IInv, TypeOK, App, Forwards, HasApp
  <2>3. LET n == app[a].on IN
          /\ cur'[n] = cur[n] /\ tunnel'[<<n, cur[n]>>] = tunnel[<<n, cur[n]>>]
          /\ link'[<<n, cur[n]>>] = link[<<n, cur[n]>>]
    BY <2>2, Zenon DEF Started
  <2> QED
    BY <2>1, <2>2, <2>3, Zenon DEF Forwarded
<1> QED
  BY <1>1, <1>2

(* The Apps, and the tunnels that carry them. *)
Carried ==
  /\ app \in [Apps -> App] /\ tunnel \in [Names \X Slots -> Tunnel]
  /\ link \in [Names \X Slots -> Link] /\ cur \in [Names -> Slots]
  /\ Links /\ Forwards

(* start_tunnel for the Apps of m, none of another Machine being touched. *)
LEMMA StartCarries ==
  ASSUME IInv, NEW m \in Names, NEW apps \in [Apps -> App], StartTunnel(m, apps),
         \A b \in Apps : apps[b].on # m => apps[b] = app[b] \/ apps[b].on = NoName
  PROVE  Carried' /\ \A b \in Apps : app'[b].on = apps[b].on /\ app'[b].host = apps[b].host
<1> DEFINE S == {b \in Apps : apps[b].on = m}
<1>1. PICK f \in Injection(S, FreePorts) :
        /\ app' = WithPorts(apps, f)
        /\ \/ link[<<m, cur[m]>>].changed /\ UNCHANGED <<tunnel, cur, link>>
           \/ ~link[<<m, cur[m]>>].changed /\ NewSsh(m, 1 - cur[m], f)
  BY Zenon DEF StartTunnel
<1>2. S \in SUBSET Apps /\ \A b \in Apps : b \in S <=> apps[b].on = m
  OBVIOUS
<1> HIDE DEF S
<1>3. f \in [S -> Ports]
  BY PortsChosen, Zenon
<1>4. Started(m, S, f)
  BY <1>1, <1>2, <1>3, TunnelStarts, Zenon
<1>5. /\ app' \in [Apps -> App]
      /\ \A b \in Apps : /\ app'[b].on = apps[b].on /\ app'[b].host = apps[b].host
                         /\ b \in S => app'[b].port = f[b]
                         /\ b \notin S => app'[b] = apps[b]
  <2> DEFINE w == WithPorts(apps, f)
  <2>1. /\ w \in [Apps -> App]
        /\ \A b \in Apps : /\ w[b].on = apps[b].on /\ w[b].host = apps[b].host
                           /\ b \in S => w[b].port = f[b]
                           /\ b \notin S => w[b] = apps[b]
    BY <1>2, <1>3, PortsGiven
  <2>2. app' = w
    BY <1>1
  <2> HIDE DEF w
  <2> QED
    BY <2>1, <2>2
<1>6. Forwards'
  <2>1. \A b \in Apps : app'[b].on = m => b \in S /\ app'[b].port = f[b]
    BY <1>2, <1>5, Zenon
  <2>2. \A b \in Apps : app'[b].on # m => app'[b] = app[b] \/ app'[b].on = NoName
    BY <1>2, <1>5, Zenon
  <2> QED
    BY <1>2, <1>3, <1>4, <1>5, <2>1, <2>2, StartForwards
<1> QED
  BY <1>4, <1>5, <1>6, Zenon DEF Carried, Started

(* One App is recorded with its Machine, or taken from the record and the    *)
(* agent; the others stay.                                                   *)
LEMMA RecordedMoves ==
  ASSUME IInv, UNCHANGED <<recs, entry>>, NEW a \in Apps,
         \A b \in Apps \ {a} : /\ app'[b].on = app[b].on /\ app'[b].host = app[b].host
                               /\ appRecs'[b] = appRecs[b],
         \/ app'[a].on = app[a].on /\ app'[a].host = app[a].host /\ appRecs'[a] = appRecs[a]
         \/ app[a].on = NoName /\ app'[a].on = NoName /\ appRecs'[a] = appRecs[a]
         \/ app'[a].on = NoName /\ appRecs'[a].on = NoName
         \/ /\ app'[a].on \in Names /\ entry[app'[a].on] # NoKey
            /\ appRecs'[a] = [on |-> app'[a].on, host |-> app'[a].host]
  PROVE  Recorded'
<1> DEFINE one(b) ==
      /\ app[b].on # NoName =>
           appRecs[b] = [on |-> app[b].on, host |-> app[b].host] /\ entry[app[b].on] # NoKey
      /\ appRecs[b].on # NoName =>
           /\ recs[appRecs[b].on] # NoKey
           /\ entry[appRecs[b].on] # NoKey => app[b].on = appRecs[b].on
<1>1. \A m \in Names : entry[m] # NoKey => recs[m] = entry[m]
  BY DEF IInv, Recorded
<1>2. \A b \in Apps : one(b)
  BY Zenon DEF IInv, Recorded, HasApp
<1>3. ASSUME NEW b \in Apps \ {a} PROVE one(b)'
  <2>1. one(b) /\ app'[b].on = app[b].on /\ app'[b].host = app[b].host /\ appRecs'[b] = appRecs[b]
    BY <1>2, <1>3, Zenon
  <2> QED
    BY <2>1, Zenon
<1>4. one(a)'
  <2>1. CASE app'[a].on = app[a].on /\ app'[a].host = app[a].host /\ appRecs'[a] = appRecs[a]
    BY <1>2, <2>1, Zenon
  <2>2. CASE app[a].on = NoName /\ app'[a].on = NoName /\ appRecs'[a] = appRecs[a]
    BY <1>2, <2>2, Zenon
  <2>3. CASE app'[a].on = NoName /\ appRecs'[a].on = NoName
    BY <2>3, Zenon
  <2>4. CASE /\ app'[a].on \in Names /\ entry[app'[a].on] # NoKey
             /\ appRecs'[a] = [on |-> app'[a].on, host |-> app'[a].host]
    <3>1. appRecs'[a].on = app'[a].on /\ app'[a].on \in Names
      BY <2>4
    <3>2. entry'[app'[a].on] # NoKey /\ recs'[app'[a].on] = entry'[app'[a].on]
      BY <1>1, <2>4, Zenon
    <3> QED
      BY <2>4, <3>1, <3>2, Zenon
  <2> QED
    BY <2>1, <2>2, <2>3, <2>4, Zenon
<1>5. \A b \in Apps : one(b)'
  BY <1>3, <1>4, Zenon
<1> QED
  BY <1>1, <1>5, Zenon DEF Recorded, HasApp

(* What an App's operation leaves alone: the Machines and `adding`. *)
LEMMA AppFrame ==
  ASSUME IInv, Serving, Unlocked, Carried', appRecs' \in [Apps -> AppRec], Recorded',
         UNCHANGED <<key, known, recs, node, todo, entry, adder, vms, runner>>
  PROVE  IInv'
<1>1. node # "down" /\ adder.pc # "connecting" /\ node' = node /\ adder' = adder
  BY DEF Serving, Unlocked, Writing
<1>2. TypeOK'
  BY Zenon DEF IInv, TypeOK, Carried
<1>3. Adding' /\ Connecting' /\ Pinned'
  BY <1>1, Zenon DEF IInv, Adding, Connecting, Pinned
<1>4. Life'
  BY <1>1, Zenon DEF IInv, Life
<1> QED
  BY <1>2, <1>3, <1>4, Zenon DEF IInv, Carried

(* add_app: recorded, taken back because it can't be recorded, or refused    *)
(* for want of ports.                                                        *)
LEMMA AddAppInv ==
  ASSUME IInv, NEW a \in Apps, NEW m \in Names, NEW h \in Hosts, AddApp(a, m, h)
  PROVE  IInv'
<1> DEFINE it == [NoApp EXCEPT !.on = m, !.host = h]
           added == [app EXCEPT ![a] = it]
<1>1. /\ Serving /\ Unlocked /\ app[a].on = NoName /\ entry[m] # NoKey
      /\ UNCHANGED <<key, known, recs, node, todo, entry, adder, vms, runner>>
  BY DEF AddApp, HasApp
<1>2. it \in App /\ it.on = m /\ it.host = h
  BY Zenon DEF NoApp, App
<1>3. app \in [Apps -> App] /\ appRecs \in [Apps -> AppRec]
  BY DEF IInv, TypeOK
<1>4. /\ added \in [Apps -> App] /\ added[a].on = m /\ added[a].host = h
      /\ \A b \in Apps \ {a} : added[b] = app[b]
  BY <1>2, <1>3
<1>5. ASSUME Carried', Recorded', appRecs' \in [Apps -> AppRec] PROVE IInv'
  BY <1>1, <1>5, AppFrame, Zenon
<1>6. CASE StartTunnel(m, added) /\ appRecs' = [appRecs EXCEPT ![a] = [on |-> m, host |-> h]]
  <2> HIDE DEF added
  <2>1. \A b \in Apps : added[b].on # m => added[b] = app[b] \/ added[b].on = NoName
    BY <1>4
  <2>2. Carried' /\ \A b \in Apps : app'[b].on = added[b].on /\ app'[b].host = added[b].host
    BY <1>4, <1>6, <2>1, StartCarries
  <2>3. /\ appRecs' \in [Apps -> AppRec] /\ appRecs'[a] = [on |-> m, host |-> h]
        /\ \A b \in Apps \ {a} : appRecs'[b] = appRecs[b]
    <3>1. [on |-> m, host |-> h] \in AppRec
      BY DEF AppRec
    <3> QED
      BY <1>3, <1>6, <3>1
  <2>4. \A b \in Apps \ {a} : app'[b].on = app[b].on /\ app'[b].host = app[b].host
    BY <1>4, <2>2, Zenon
  <2>5. app'[a].on = m /\ app'[a].host = h
    BY <1>4, <2>2, Zenon
  <2>6. Recorded'
    BY <1>1, <2>3, <2>4, <2>5, RecordedMoves, Zenon
  <2> QED
    BY <1>5, <2>2, <2>3, <2>6, Zenon
<1>7. CASE StartTunnel(m, app) /\ UNCHANGED appRecs
  <2>1. Carried' /\ \A b \in Apps : app'[b].on = app[b].on /\ app'[b].host = app[b].host
    BY <1>3, <1>7, StartCarries
  <2>2. Recorded'
    BY <1>1, <1>7, <2>1, RecordedMoves, Zenon
  <2> QED
    BY <1>3, <1>5, <1>7, <2>1, <2>2, Zenon
<1>8. CASE /\ \E f \in Injection(OnMachine(m) \cup {a}, FreePorts) :
                /\ app' = [WithPorts(added, f) EXCEPT ![a] = NoApp]
                /\ \/ link[<<m, cur[m]>>].changed /\ UNCHANGED <<tunnel, cur, link>>
                   \/ ~link[<<m, cur[m]>>].changed /\ NewSsh(m, 1 - cur[m], f)
           /\ UNCHANGED appRecs
  <2> DEFINE S == OnMachine(m) \cup {a}
  <2> HIDE DEF added
  <2>1. S \in SUBSET Apps /\ a \in S /\ \A b \in Apps \ {a} : b \in S <=> app[b].on = m
    BY DEF OnMachine
  <2>2. PICK f \in Injection(S, FreePorts) :
          /\ app' = [WithPorts(added, f) EXCEPT ![a] = NoApp]
          /\ \/ link[<<m, cur[m]>>].changed /\ UNCHANGED <<tunnel, cur, link>>
             \/ ~link[<<m, cur[m]>>].changed /\ NewSsh(m, 1 - cur[m], f)
    BY <1>8, Zenon
  <2> HIDE DEF S
  <2>3. f \in [S -> Ports]
    BY PortsChosen, Zenon
  <2>4. Started(m, S, f)
    BY <2>1, <2>2, <2>3, TunnelStarts, Zenon
  <2> DEFINE w == WithPorts(added, f)
  <2>5. /\ w \in [Apps -> App]
        /\ \A b \in Apps : /\ w[b].on = added[b].on /\ w[b].host = added[b].host
                           /\ b \in S => w[b].port = f[b]
                           /\ b \notin S => w[b] = added[b]
    BY <1>4, <2>1, <2>3, PortsGiven
  <2> HIDE DEF w
  <2>6. NoApp \in App /\ NoApp.on = NoName
    BY DEF NoApp, App
  <2>7. app' = [w EXCEPT ![a] = NoApp]
    BY <2>2 DEF w
  <2>8. app' \in [Apps -> App] /\ app'[a].on = NoName /\ \A b \in Apps \ {a} : app'[b] = w[b]
    BY <2>5, <2>6, <2>7
  <2>9. \A b \in Apps \ {a} : /\ app'[b].on = app[b].on /\ app'[b].host = app[b].host
                              /\ app[b].on = m => app'[b].port = f[b]
                              /\ app[b].on # m => app'[b] = app[b]
    BY <1>4, <2>1, <2>5, <2>8
  <2>10. Forwards'
    <3>1. NoName # m
      BY NamesAssumption DEF NoName
    <3>2. \A b \in Apps : app'[b].on = m => b \in S /\ app'[b].port = f[b]
      BY <2>1, <2>8, <2>9, <3>1
    <3>3. \A b \in Apps : app'[b].on # m => app'[b] = app[b] \/ app'[b].on = NoName
      BY <2>8, <2>9
    <3> QED
      BY <2>1, <2>3, <2>4, <2>8, <3>2, <3>3, StartForwards
  <2>11. Carried'
    BY <2>4, <2>8, <2>10, Zenon DEF Carried, Started
  <2>12. Recorded'
    BY <1>1, <1>8, <2>8, <2>9, RecordedMoves, Zenon
  <2> QED
    BY <1>3, <1>5, <1>8, <2>11, <2>12, Zenon
<1>9. CASE UNCHANGED <<app, tunnel, cur, link, appRecs>>
  <2>1. Recorded' /\ Links' /\ Forwards'
    BY <1>1, <1>9, TablesAlone, Zenon
  <2>2. Carried'
    BY <1>9, <2>1, Zenon DEF Carried, IInv, TypeOK
  <2> QED
    BY <1>3, <1>5, <1>9, <2>1, <2>2
<1> QED
  BY <1>6, <1>7, <1>8, <1>9, Zenon DEF AddApp

(* remove_app, whether or not the Machine's `ssh` can be started without it. *)
LEMMA RemoveAppInv ==
  ASSUME IInv, NEW a \in Apps, RemoveApp(a)
  PROVE  IInv'
<1> DEFINE m == app[a].on
           removed == [app EXCEPT ![a] = NoApp]
<1>1. /\ Serving /\ Unlocked /\ m # NoName /\ appRecs' = [appRecs EXCEPT ![a] = NoRec]
      /\ UNCHANGED <<key, known, recs, node, todo, entry, adder, vms, runner>>
      /\ \/ StartTunnel(m, removed)
         \/ app' = removed /\ UNCHANGED <<tunnel, cur, link>>
  BY Zenon DEF RemoveApp, HasApp
<1>2. app \in [Apps -> App] /\ appRecs \in [Apps -> AppRec]
  BY DEF IInv, TypeOK
<1>3. NoApp \in App /\ NoApp.on = NoName /\ NoRec \in AppRec /\ NoRec.on = NoName
  BY DEF NoApp, App, NoRec, AppRec
<1>4. m \in Names
  BY <1>1, <1>2 DEF App
<1>5. /\ removed \in [Apps -> App] /\ removed[a].on = NoName
      /\ \A b \in Apps \ {a} : removed[b] = app[b]
  BY <1>2, <1>3
<1>6. /\ appRecs' \in [Apps -> AppRec] /\ appRecs'[a].on = NoName
      /\ \A b \in Apps \ {a} : appRecs'[b] = appRecs[b]
  BY <1>1, <1>2, <1>3
<1> HIDE DEF m, removed
<1>7. Carried' /\ \A b \in Apps : app'[b].on = removed[b].on /\ app'[b].host = removed[b].host
  <2>1. CASE StartTunnel(m, removed)
    <3>1. \A b \in Apps : removed[b].on # m => removed[b] = app[b] \/ removed[b].on = NoName
      BY <1>5, Zenon
    <3> QED
      BY <1>4, <1>5, <2>1, <3>1, StartCarries
  <2>2. CASE app' = removed /\ UNCHANGED <<tunnel, cur, link>>
    <3>1. Links'
      BY <2>2, Zenon DEF IInv, Links
    <3>2. ASSUME NEW b \in Apps, app'[b].on # NoName
          PROVE  Forwarded(b, <<app[b].on, cur[app[b].on]>>)'
      <4>1. app'[b] = app[b] /\ app[b].on # NoName
        BY <1>5, <2>2, <3>2
      <4>2. Forwarded(b, <<app[b].on, cur[app[b].on]>>)
        BY <4>1 DEF IInv, Forwards, HasApp
      <4> QED
        BY <2>2, <4>1, <4>2, Zenon DEF Forwarded
    <3>3. Forwards'
      BY <3>2, Zenon DEF Forwards, HasApp
    <3> QED
      BY <1>5, <2>2, <3>1, <3>3, Zenon DEF Carried, IInv, TypeOK
  <2> QED
    BY <1>1, <2>1, <2>2
<1>8. Recorded'
  <2>1. \A b \in Apps \ {a} : app'[b].on = app[b].on /\ app'[b].host = app[b].host
    BY <1>5, <1>7
  <2>2. app'[a].on = NoName
    BY <1>5, <1>7
  <2> QED
    BY <1>1, <1>6, <2>1, <2>2, RecordedMoves, Zenon
<1> QED
  BY <1>1, <1>6, <1>7, <1>8, AppFrame, Zenon

-----------------------------------------------------------------------------
(* connect: a Machine gets its entry with the key on record, and every App   *)
(* recorded on it; or nothing, for want of a file or a port.                 *)
LEMMA ConnectInv ==
  ASSUME IInv, Connect
  PROVE  IInv'
<1> DEFINE m == adder.name
           mine == {a \in Apps : node = "boot" /\ appRecs[a].on = m}
           back(a) == [NoApp EXCEPT !.on = m, !.host = appRecs[a].host]
           apps == [a \in Apps |-> IF a \in mine THEN back(a) ELSE app[a]]
           q == IF tunnel[<<m, cur[m]>>].pc = "none" THEN cur[m] ELSE 1 - cur[m]
<1>1. /\ adder.pc = "connecting" /\ adder' = Idle
      /\ UNCHANGED <<key, recs, appRecs, node, todo, vms, runner>>
  BY Zenon DEF Connect, Release, stores
<1>2. /\ m \in Names /\ adder.key \in Keys /\ adder.key # NoKey /\ entry[m] = NoKey
      /\ recs[m] = adder.key
      /\ node # "boot" => \A a \in Apps : appRecs[a].on # m
      /\ node # "down" /\ \A n \in todo : n # m
  <2>1. m \in Names /\ adder.key \in Keys /\ entry[m] = NoKey
    BY <1>1, Zenon DEF IInv, Adding
  <2>2. adder.key # NoKey
    BY <2>1, KeysAssumption, Zenon
  <2>3. recs[m] = adder.key /\ (node # "boot" => \A a \in Apps : appRecs[a].on # m)
    BY <1>1, Zenon DEF IInv, Connecting
  <2>4. adder # Idle
    BY <1>1 DEF Idle
  <2>5. node # "down"
    BY <2>4, Zenon DEF IInv, Life
  <2>6. \A n \in todo : n # m
    BY Zenon DEF IInv, Life
  <2> QED
    BY <2>1, <2>2, <2>3, <2>5, <2>6, Zenon
<1>3. Idle \in Adder /\ Idle.pc = "idle" /\ Idle.name = NoName /\ NoName \notin Names
  BY NamesAssumption DEF Idle, Adder, NoName, NoKey
<1>4. Adding' /\ Connecting' /\ \A n \in todo : adder'.name # n
  BY <1>1, <1>3 DEF Adding, Connecting, IInv, TypeOK
<1>5. ASSUME UNCHANGED <<entry, app, tunnel, cur, link>>,
             known' = known \/ known' = Pins(adder.name, adder.key)
      PROVE  IInv'
  <2>1. known' \in [Names -> Keys \cup {NoKey}] /\ Pinned'
    BY <1>1, <1>5, PinsKept
  <2>2. UNCHANGED <<quiet, recs, entry, tunnel, cur, link>>
    BY <1>1, <1>5 DEF quiet
  <2> QED
    BY <1>1, <1>3, <1>4, <2>1, <2>2, AdderFrame
<1>6. ASSUME known' = Pins(m, adder.key), entry' = [entry EXCEPT ![m] = adder.key],
             NEW f \in Injection(mine, FreePorts), app' = WithPorts(apps, f), NewSsh(m, q, f)
      PROVE  IInv'
  <2>1. /\ entry \in [Names -> Keys \cup {NoKey}] /\ app \in [Apps -> App]
        /\ appRecs \in [Apps -> AppRec]
        /\ cur[m] \in Slots
    BY <1>2 DEF IInv, TypeOK
  <2>2. q \in Slots
    BY <2>1 DEF Slots
  <2>3. /\ mine \in SUBSET Apps
        /\ \A a \in Apps : a \in mine <=> node = "boot" /\ appRecs[a].on = m
    OBVIOUS
  <2>4. \A a \in Apps : /\ back(a) \in App /\ back(a).on = m
                        /\ back(a).host = appRecs[a].host
    BY <1>2, <2>1, Zenon DEF App, NoApp, AppRec
  <2> HIDE DEF back
  <2>5. /\ apps \in [Apps -> App]
        /\ \A a \in Apps : (a \in mine => apps[a] = back(a)) /\ (a \notin mine => apps[a] = app[a])
    BY <2>1, <2>4
  <2> HIDE DEF m, mine, apps, q
  <2>6. f \in [mine -> Ports]
    BY PortsChosen, Zenon
  <2>7. Started(m, mine, f)
    BY <1>2, <1>6, <2>2, <2>3, <2>6, NewSshStarts, Zenon
  <2> DEFINE w == WithPorts(apps, f)
  <2>8. /\ w \in [Apps -> App]
        /\ \A a \in Apps : /\ w[a].on = apps[a].on /\ w[a].host = apps[a].host
                           /\ a \in mine => w[a].port = f[a]
                           /\ a \notin mine => w[a] = apps[a]
    BY <2>3, <2>5, <2>6, PortsGiven
  <2>9. app' = w
    BY <1>6
  <2> HIDE DEF w
  <2>10. /\ app' \in [Apps -> App]
         /\ \A a \in mine : /\ app'[a].on = m /\ app'[a].host = appRecs[a].host
                            /\ app'[a].port = f[a]
         /\ \A a \in Apps \ mine : app'[a] = app[a]
    BY <2>3, <2>4, <2>5, <2>8, <2>9
  <2>11. \A a \in Apps : app[a].on # m
    BY <1>2, <1>3, Zenon DEF IInv, Recorded, HasApp
  <2>12. Forwards'
    <3>1. \A a \in Apps : app'[a].on = m => a \in mine /\ app'[a].port = f[a]
      BY <2>10, <2>11
    <3>2. \A a \in Apps : app'[a].on # m => app'[a] = app[a] \/ app'[a].on = NoName
      BY <2>10
    <3>3. m \in Names /\ mine \in SUBSET Apps /\ app' \in [Apps -> App]
      BY <1>2, <2>3, <2>10, Zenon
    <3> QED
      BY <2>6, <2>7, <3>1, <3>2, <3>3, StartForwards, Zenon
  <2>13. Carried'
    BY <2>7, <2>10, <2>12, Zenon DEF Carried, Started
  <2>14. /\ entry' \in [Names -> Keys \cup {NoKey}] /\ entry'[m] = adder.key
         /\ known' = entry' /\ \A n \in Names \ {m} : entry'[n] = entry[n]
    BY <1>2, <1>6, <2>1, Zenon DEF Pins
  <2>15. TypeOK'
    BY <1>1, <1>3, <2>13, <2>14, Zenon DEF IInv, TypeOK, Carried
  <2>16. Life'
    <3>1. todo \subseteq Names /\ Life
      BY Zenon DEF IInv, TypeOK
    <3>2. \A n \in todo : entry'[n] = NoKey /\ recs[n] # NoKey
      BY <1>2, <2>14, <3>1 DEF Life
    <3>3. adder'.pc = "idle"
      BY <1>1, <1>3, Zenon
    <3> QED
      BY <1>1, <1>2, <1>4, <3>1, <3>2, <3>3, Zenon DEF Life
  <2>17. Pinned'
    BY <2>14 DEF Pinned
  <2>18. Recorded'
    <3>1. \A n \in Names : entry'[n] # NoKey => recs'[n] = entry'[n]
      BY <1>1, <1>2, <2>14, Zenon DEF IInv, Recorded
    <3>2. ASSUME NEW a \in Apps, app'[a].on # NoName
          PROVE  /\ appRecs'[a] = [on |-> app'[a].on, host |-> app'[a].host]
                 /\ entry'[app'[a].on] # NoKey
      <4>1. CASE a \in mine
        <5>1. app'[a].on = m /\ app'[a].host = appRecs[a].host /\ appRecs[a].on = m
          BY <2>3, <2>10, <4>1, Zenon
        <5>2. appRecs[a] = [on |-> appRecs[a].on, host |-> appRecs[a].host]
          BY <2>1 DEF AppRec
        <5> QED
          BY <1>1, <1>2, <2>14, <5>1, <5>2, Zenon
      <4>2. CASE a \notin mine
        <5>1. app'[a] = app[a] /\ app[a].on # NoName /\ app[a].on # m
          BY <2>10, <2>11, <3>2, <4>2
        <5>2. /\ appRecs[a] = [on |-> app[a].on, host |-> app[a].host]
              /\ entry[app[a].on] # NoKey /\ app[a].on \in Names
          BY <5>1, OnNames, Zenon DEF IInv, Recorded, HasApp
        <5> QED
          BY <1>1, <2>14, <5>1, <5>2
      <4> QED
        BY <4>1, <4>2
    <3>3. ASSUME NEW a \in Apps, appRecs'[a].on # NoName
          PROVE  /\ recs'[appRecs'[a].on] # NoKey
                 /\ entry'[appRecs'[a].on] # NoKey => app'[a].on = appRecs'[a].on
      <4>1. /\ appRecs' = appRecs /\ recs' = recs /\ recs[appRecs[a].on] # NoKey
            /\ appRecs[a].on \in Names
            /\ entry[appRecs[a].on] # NoKey => app[a].on = appRecs[a].on
        BY <1>1, <3>3, OnNames, Zenon DEF IInv, Recorded
      <4>2. CASE appRecs[a].on = m
        BY <1>2, <2>3, <2>10, <4>1, <4>2, Zenon
      <4>3. CASE appRecs[a].on # m
        BY <2>3, <2>10, <2>14, <4>1, <4>3, Zenon
      <4> QED
        BY <4>2, <4>3
    <3> QED
      BY <3>1, <3>2, <3>3, Zenon DEF Recorded, HasApp
  <2> QED
    BY <1>4, <2>13, <2>15, <2>16, <2>17, <2>18, Zenon DEF IInv, Carried
<1> QED
  BY <1>5, <1>6, Zenon DEF Connect

-----------------------------------------------------------------------------
(* No step of the agent, of an `ssh`, of a Machine or of a client breaks the *)
(* invariant, and neither does a crash.                                      *)
LEMMA NextInv == IInv /\ Next => IInv'
<1> SUFFICES ASSUME IInv, Next PROVE IInv'
  OBVIOUS
<1>1. CASE \E a \in Apps, m \in Names, h \in Hosts : AddApp(a, m, h)
  BY <1>1, AddAppInv, Zenon
<1>2. CASE \E a \in Apps : RemoveApp(a) \/ RemoveVm(a) \/ \E h \in Hosts : RunVm(a, h)
  BY <1>2, RemoveAppInv, VmInv, Zenon
<1>3. CASE \E m \in Names, k \in Keys : AddBegin(m, k)
  BY <1>3, AddBeginInv, Zenon
<1>4. CASE \E m \in Names : Remove(m) \/ Restore(m) \/ KeyChanges(m)
  BY <1>4, RemoveInv, RestoreInv, VmInv, Zenon
<1>5. CASE AdderStep \/ AddCancelled \/ RunVmInsert
  BY <1>5, AdderInv, AddLoginInv, ConnectInv, VmInv, Zenon DEF AdderStep
<1>6. CASE \E t \in Names \X Slots : TunnelStep(t) \/ SshFails(t)
  BY <1>6, TunnelInv, Zenon
<1>7. CASE Shutdown \/ Exit \/ Crash \/ Boot \/ Ready
  BY <1>7, ShutdownInv, DownInv, BootInv, Zenon DEF Exit, Crash
<1> QED
  BY <1>1, <1>2, <1>3, <1>4, <1>5, <1>6, <1>7, Zenon DEF Next

(* Steps that change nothing keep the invariant. *)
LEMMA StutterInv == IInv /\ UNCHANGED vars => IInv'
<1> SUFFICES ASSUME IInv, UNCHANGED vars PROVE IInv'
  OBVIOUS
<1>1. UNCHANGED <<key, known, stores, node, todo, machines, adder, vms, runner>>
  BY DEF vars
<1>2. TypeOK'
  BY <1>1, Zenon DEF stores, machines, IInv, TypeOK
<1> QED
  BY <1>1, <1>2, VmFrame, Zenon

(* The inductive invariant holds whatever may fail. *)
THEOREM Inductive == Spec => []IInv
<1>1. IInv /\ [Next]_vars => IInv'
  BY NextInv, StutterInv, Zenon
<1> QED
  BY InitInv, <1>1, PTL DEF Spec

(* A restart brings back exactly the Machines and Apps the agent had: they   *)
(* are on record as it has them, and no App's record outlives its Machine's, *)
(* through crashes, a shutdown and failures of the database, the disk and    *)
(* the ports.                                                                *)
THEOREM RestartBringsBack == Spec => []OnRecord
<1>1. IInv => OnRecord
  BY Zenon DEF IInv, Recorded, OnRecord
<1> QED
  BY Inductive, <1>1, PTL

(* While a Machine's link is up, the port the edge dials for each of its     *)
(* Apps is forwarded to that App by the `ssh` the link speaks of.            *)
THEOREM DialsForwarded == Spec => []EdgePortForwarded
<1>1. ASSUME IInv PROVE EdgePortForwarded
  <2>1. ASSUME NEW m \in Names
        PROVE  link[<<m, cur[m]>>].up <=> tunnel[<<m, cur[m]>>].log = "read"
    <3>1. <<m, cur[m]>> \in Names \X Slots
      BY <1>1 DEF IInv, TypeOK
    <3>2. /\ link[<<m, cur[m]>>].up \in BOOLEAN
          /\ link[<<m, cur[m]>>].up = TRUE <=> tunnel[<<m, cur[m]>>].log = "read"
      BY <1>1, <3>1 DEF IInv, TypeOK, Link, Links, SoundLink
    <3> QED
      BY <3>2, Zenon
  <2>2. ASSUME NEW a \in Apps, HasApp(a), link[<<app[a].on, cur[app[a].on]>>].up
        PROVE  /\ app[a].port # NoPort
               /\ tunnel[<<app[a].on, cur[app[a].on]>>].fwd[a] = app[a].port
    <3> DEFINE t == <<app[a].on, cur[app[a].on]>>
    <3>1. t \in Names \X Slots
      BY <1>1, <2>2 DEF IInv, TypeOK, App, HasApp
    <3> HIDE DEF t
    <3>2. link[t].up \in BOOLEAN /\ SoundLink(tunnel[t], link[t])
      BY <1>1, <3>1 DEF IInv, TypeOK, Link, Links
    <3>3. link[t].up = TRUE
      BY <2>2, <3>2, Zenon DEF t
    <3>4. link[t].changed # TRUE
      BY <3>2, <3>3, Zenon DEF SoundLink
    <3>5. Forwarded(a, t)
      BY <1>1, <2>2, Zenon DEF IInv, Forwards, t
    <3> QED
      BY <3>4, <3>5, Zenon DEF Forwarded, t
  <2> QED
    BY <2>1, <2>2, Zenon DEF EdgePortForwarded
<1> QED
  BY Inductive, <1>1, PTL

-----------------------------------------------------------------------------
(* start_tunnel puts a new `ssh` that has said nothing in the place of one   *)
(* whose key has not failed, or of none.                                     *)
Replaces(m, q, u) ==
  /\ tunnel' = [tunnel EXCEPT ![<<m, q>>] = u]
  /\ link' = [link EXCEPT ![<<m, q>>] = NewLink]
  /\ cur' = [cur EXCEPT ![m] = q]
  /\ u.log = "quiet"
  /\ entry[m] = NoKey \/ link[<<m, cur[m]>>].changed # TRUE

Replaced == \E m \in Names, q \in Slots : \E u \in Tunnel : Replaces(m, q, u)

(* The `ssh` NewSsh starts. *)
LEMMA NewSshReplaces ==
  ASSUME NEW m \in Names, NEW q \in Slots, NEW S \in SUBSET Apps, NEW f \in [S -> Ports],
         NewSsh(m, q, f), entry[m] = NoKey \/ link[<<m, cur[m]>>].changed # TRUE
  PROVE  Replaced
<1> DEFINE g == [a \in Apps |-> IF a \in DOMAIN f THEN f[a] ELSE NoPort]
           u == [NoTunnel EXCEPT !.pc = "spawn", !.fwd = g]
<1>1. g \in [Apps -> Ports \cup {NoPort}]
  BY Zenon
<1>2. NewSsh(m, q, f) => /\ tunnel' = [tunnel EXCEPT ![<<m, q>>] = u]
                         /\ link' = [link EXCEPT ![<<m, q>>] = NewLink]
                         /\ cur' = [cur EXCEPT ![m] = q]
  BY Zenon DEF NewSsh
<1> HIDE DEF g
<1>3. u \in Tunnel /\ u.log = "quiet"
  BY <1>1, Zenon DEF Tunnel, NoTunnel
<1> HIDE DEF u
<1> QED
  BY <1>2, <1>3, Zenon DEF Replaced, Replaces

(* ... and the one start_tunnel starts, unless the key has failed. *)
LEMMA StartReplaces ==
  ASSUME IInv, NEW m \in Names, NEW S \in SUBSET Apps, NEW f \in Injection(S, FreePorts),
         \/ link[<<m, cur[m]>>].changed /\ UNCHANGED <<tunnel, cur, link>>
         \/ ~link[<<m, cur[m]>>].changed /\ NewSsh(m, 1 - cur[m], f)
  PROVE  UNCHANGED <<tunnel, cur, link>> \/ Replaced
<1>1. f \in [S -> Ports]
  BY PortsChosen, Zenon
<1>2. 1 - cur[m] \in Slots
  BY DEF IInv, TypeOK, Slots
<1>3. ~link[<<m, cur[m]>>].changed => link[<<m, cur[m]>>].changed # TRUE
  BY Zenon
<1> QED
  BY <1>1, <1>2, <1>3, NewSshReplaces, Zenon

(* Every way a step of Next writes tunnels. *)
LEMMA TunnelWrites ==
  ASSUME IInv, Next
  PROVE  \/ UNCHANGED <<tunnel, cur, link>>
         \/ Replaced
         \/ Down
         \/ \E t \in Names \X Slots : TunnelStep(t) \/ SshFails(t)
<1>1. ASSUME NEW m \in Names, NEW apps, StartTunnel(m, apps)
      PROVE  UNCHANGED <<tunnel, cur, link>> \/ Replaced
  <2> DEFINE S == {a \in Apps : apps[a].on = m}
  <2>1. PICK f \in Injection(S, FreePorts) :
          \/ link[<<m, cur[m]>>].changed /\ UNCHANGED <<tunnel, cur, link>>
          \/ ~link[<<m, cur[m]>>].changed /\ NewSsh(m, 1 - cur[m], f)
    BY <1>1, Zenon DEF StartTunnel
  <2>2. S \in SUBSET Apps
    OBVIOUS
  <2> HIDE DEF S
  <2> QED
    BY <2>1, <2>2, StartReplaces, Zenon
<1>2. ASSUME NEW a \in Apps, NEW m \in Names, NEW h \in Hosts, AddApp(a, m, h)
      PROVE  UNCHANGED <<tunnel, cur, link>> \/ Replaced
  <2> DEFINE S == OnMachine(m) \cup {a}
  <2>1. S \in SUBSET Apps
    BY DEF OnMachine
  <2>2. \/ StartTunnel(m, [app EXCEPT ![a] = [NoApp EXCEPT !.on = m, !.host = h]])
        \/ StartTunnel(m, app)
        \/ \E f \in Injection(S, FreePorts) :
             \/ link[<<m, cur[m]>>].changed /\ UNCHANGED <<tunnel, cur, link>>
             \/ ~link[<<m, cur[m]>>].changed /\ NewSsh(m, 1 - cur[m], f)
        \/ UNCHANGED <<tunnel, cur, link>>
    BY <1>2, Zenon DEF AddApp
  <2> HIDE DEF S
  <2> QED
    BY <1>1, <2>1, <2>2, StartReplaces, Zenon
<1>3. ASSUME NEW a \in Apps, RemoveApp(a)
      PROVE  UNCHANGED <<tunnel, cur, link>> \/ Replaced
  <2>1. app[a].on \in Names
    BY <1>3 DEF RemoveApp, HasApp, IInv, TypeOK, App
  <2>2. StartTunnel(app[a].on, [app EXCEPT ![a] = NoApp]) \/ UNCHANGED <<tunnel, cur, link>>
    BY <1>3, Zenon DEF RemoveApp
  <2> QED
    BY <1>1, <2>1, <2>2, Zenon
<1>4. ASSUME Connect PROVE UNCHANGED <<tunnel, cur, link>> \/ Replaced
  <2> DEFINE m == adder.name
             mine == {a \in Apps : node = "boot" /\ appRecs[a].on = m}
             q == IF tunnel[<<m, cur[m]>>].pc = "none" THEN cur[m] ELSE 1 - cur[m]
  <2>1. adder.pc = "connecting"
    BY <1>4, Zenon DEF Connect
  <2>2. m \in Names /\ entry[m] = NoKey
    BY <2>1, Zenon DEF IInv, Adding
  <2>3. q \in Slots
    <3>1. cur[m] \in Slots
      BY <2>2, Zenon DEF IInv, TypeOK
    <3> QED
      BY <3>1 DEF Slots
  <2>4. mine \in SUBSET Apps
    OBVIOUS
  <2>5. (\E f \in Injection(mine, FreePorts) : NewSsh(m, q, f)) \/ UNCHANGED <<tunnel, cur, link>>
    BY <1>4, Zenon DEF Connect
  <2> HIDE DEF m, mine, q
  <2> QED
    BY <2>2, <2>3, <2>4, <2>5, PortsChosen, NewSshReplaces, Zenon
<1>5. CASE \E a \in Apps : RemoveVm(a) \/ \E h \in Hosts : RunVm(a, h)
  BY <1>5, Zenon DEF RemoveVm, RunVm, machines
<1>6. CASE \/ \E m \in Names, k \in Keys : AddBegin(m, k)
           \/ \E m \in Names : Remove(m) \/ Restore(m) \/ KeyChanges(m)
  BY <1>6, Zenon DEF AddBegin, Remove, Restore, KeyChanges, machines
<1>7. CASE \/ AddScan \/ AddPin \/ AddPinned \/ AddLogin \/ AddRefused \/ Unpinned
           \/ AddCancelled \/ RunVmInsert
  BY <1>7, Zenon
     DEF AddScan, AddPin, AddPinned, AddLogin, AddRefused, Unpinned, AddCancelled, RunVmInsert,
         machines
<1>8. CASE Shutdown \/ Exit \/ Crash \/ Boot \/ Ready
  BY <1>8, Zenon DEF Shutdown, Exit, Crash, Boot, Ready, machines
<1> QED
  BY <1>2, <1>3, <1>4, <1>5, <1>6, <1>7, <1>8, Zenon DEF Next, AdderStep

(* An `ssh` the agent owns says that it is logged in only when the Machine   *)
(* presents the key pinned when it was added: even while known_hosts is      *)
(* being rewritten, or was left cut short, no other key is trusted.          *)
THEOREM LogsInToItsOwn == Spec => LogsInToPinned
<1> DEFINE P(t) == tunnel[t].log = "quiet" /\ tunnel'[t].log = "said" /\ Owned(t)
                     => key[t[1]] = entry[t[1]]
<1>1. ASSUME IInv, [Next]_vars, NEW t \in Names \X Slots PROVE P(t)
  <2> SUFFICES ASSUME tunnel[t].log = "quiet", tunnel'[t].log = "said", Owned(t)
               PROVE  key[t[1]] = entry[t[1]]
    BY Zenon
  <2>1. tunnel \in [Names \X Slots -> Tunnel]
    BY <1>1, Zenon DEF IInv, TypeOK
  <2>2. tunnel' # tunnel
    OBVIOUS
  <2>3. Next
    BY <1>1, <2>2, Zenon DEF vars, machines
  <2>4. ~Replaced
    <3> SUFFICES ASSUME NEW m \in Names, NEW q \in Slots, NEW u \in Tunnel, Replaces(m, q, u)
                 PROVE  FALSE
      BY Zenon DEF Replaced
    <3>1. tunnel'[t] = u \/ tunnel'[t] = tunnel[t]
      BY <2>1 DEF Replaces
    <3> QED
      BY <3>1 DEF Replaces
  <2>5. ~Down
    BY DEF Down, NoTunnels, NoTunnel
  <2>6. PICK r \in Names \X Slots : TunnelStep(r) \/ SshFails(r)
    BY <1>1, <2>2, <2>3, <2>4, <2>5, TunnelWrites, Zenon
  <2>7. r = t
    <3>1. \E u : tunnel' = [tunnel EXCEPT ![r] = u]
      BY <2>6, Zenon DEF TunnelStep, SshStart, SshVerify, SshForward, ReadLogin, SshEnded, Retry,
                         Dropped, SshFails, SetTunnel
    <3> QED
      BY <2>1, <3>1
  <2>8. SshVerify(t) /\ known[t[1]] = key[t[1]]
    <3>1. ASSUME NEW u, SetTunnel(t, u) PROVE tunnel'[t] = u
      BY <2>1, <3>1 DEF SetTunnel
    <3>2. tunnel[t] \in Tunnel
      BY <2>1
    <3>3. \A p : [tunnel[t] EXCEPT !.pc = p].log = "quiet"
      BY <3>2 DEF Tunnel
    <3>4. ~SshStart(t) /\ ~SshForward(t) /\ ~Retry(t) /\ ~SshFails(t)
      BY <3>1, <3>3, Zenon DEF SshStart, SshForward, Retry, SshFails
    <3>5. ~ReadLogin(t)
      BY DEF ReadLogin
    <3>6. ~SshEnded(t)
      BY <3>1, <3>2, Zenon DEF SshEnded, Tunnel
    <3>7. ~Dropped(t)
      BY <3>1 DEF Dropped, NoTunnel
    <3>8. SshVerify(t)
      BY <2>6, <2>7, <3>4, <3>5, <3>6, <3>7, Zenon DEF TunnelStep
    <3>9. [tunnel[t] EXCEPT !.pc = "exit", !.bad = TRUE].log = "quiet"
      BY <3>2 DEF Tunnel
    <3> QED
      BY <3>1, <3>8, <3>9, Zenon DEF SshVerify
  <2>9. t[1] \in Names /\ entry[t[1]] # NoKey
    BY DEF Owned
  <2>10. key[t[1]] \in Keys /\ known[t[1]] \in {NoKey, entry[t[1]]}
    BY <1>1, <2>9, Zenon DEF IInv, TypeOK, Pinned
  <2> QED
    BY <2>8, <2>10, KeysAssumption, Zenon
<1>2. IInv /\ [Next]_vars => [\A t \in Names \X Slots : P(t)]_vars
  BY <1>1, Zenon
<1> QED
  BY Inductive, <1>2, PTL DEF LogsInToPinned, Spec

(* A Machine whose key failed gets no other `ssh` and its link goes on       *)
(* saying so, whatever Apps are added or removed, until it is removed or the *)
(* agent ends.                                                               *)
THEOREM FailedKeyStays == Spec => FailedKeyEndsIt
<1> DEFINE P(m) == LET t == <<m, cur[m]>> IN
                   Owned(t) /\ link[t].changed /\ entry'[m] = entry[m] =>
                     cur'[m] = cur[m] /\ link'[t] = link[t] /\ tunnel'[t].pc = "over"
<1>1. ASSUME IInv, [Next]_vars, NEW m \in Names PROVE P(m)
  <2> DEFINE t == <<m, cur[m]>>
  <2> SUFFICES ASSUME Owned(t), link[t].changed, entry'[m] = entry[m]
               PROVE  cur'[m] = cur[m] /\ link'[t] = link[t] /\ tunnel'[t].pc = "over"
    BY Zenon
  <2>1. /\ tunnel \in [Names \X Slots -> Tunnel] /\ link \in [Names \X Slots -> Link]
        /\ cur \in [Names -> Slots]
    BY <1>1 DEF IInv, TypeOK
  <2>2. t \in Names \X Slots /\ entry[m] # NoKey
    BY <2>1 DEF Owned
  <2>3. link[t].changed = TRUE
    <3>1. link[t].changed \in BOOLEAN
      BY <2>1, <2>2 DEF Link
    <3> QED
      BY <3>1, Zenon
  <2>4. tunnel[t].pc = "over" /\ tunnel[t].log = "quiet"
    <3>1. SoundLink(tunnel[t], link[t])
      BY <1>1, <2>2, Zenon DEF IInv, Links
    <3> QED
      BY <2>3, <3>1, Zenon DEF SoundLink
  <2>5. CASE UNCHANGED <<tunnel, cur, link>>
    BY <2>4, <2>5, Zenon
  <2>6. CASE Replaced
    <3>1. PICK n \in Names, q \in Slots : \E u \in Tunnel : Replaces(n, q, u)
      BY <2>6, Zenon DEF Replaced
    <3>2. PICK u \in Tunnel : Replaces(n, q, u)
      BY <3>1, Zenon
    <3>3. n # m
      BY <2>2, <2>3, <3>2, Zenon DEF Replaces
    <3>4. t # <<n, q>>
      BY <3>3
    <3> QED
      BY <2>1, <2>2, <2>4, <3>2, <3>3, <3>4, Zenon DEF Replaces
  <2>7. CASE Down
    BY <2>2, <2>7 DEF Down, NoEntries
  <2>8. ASSUME NEW r \in Names \X Slots, TunnelStep(r) \/ SshFails(r)
        PROVE  cur'[m] = cur[m] /\ link'[t] = link[t] /\ tunnel'[t].pc = "over"
    <3>1. r # t
      <4>1. ~TunnelStep(t)
        BY <2>4 DEF TunnelStep, SshStart, SshVerify, SshForward, ReadLogin, SshEnded, Retry, Dropped
      <4>2. ~SshFails(t)
        BY <2>4 DEF SshFails
      <4> QED
        BY <2>8, <4>1, <4>2, Zenon
    <3>2. /\ \E u : tunnel' = [tunnel EXCEPT ![r] = u]
          /\ link' = link \/ \E l : link' = [link EXCEPT ![r] = l]
          /\ cur' = cur
      BY <2>8, Zenon DEF TunnelStep, SshStart, SshVerify, SshForward, ReadLogin, SshEnded, Retry,
                         Dropped, SshFails, SetTunnel, rest
    <3> QED
      BY <2>1, <2>2, <2>4, <3>1, <3>2
  <2>9. CASE Next
    BY <1>1, <2>5, <2>6, <2>7, <2>8, <2>9, TunnelWrites, Zenon
  <2>10. CASE UNCHANGED vars
    BY <2>5, <2>10, Zenon DEF vars, machines
  <2> QED
    BY <1>1, <2>9, <2>10, Zenon
<1>2. IInv /\ [Next]_vars => [\A m \in Names : P(m)]_vars
  BY <1>1, Zenon
<1> QED
  BY Inductive, <1>2, PTL DEF FailedKeyEndsIt, Spec

-----------------------------------------------------------------------------
(* As long as known_hosts can be written, it holds the pin of every Machine  *)
(* and of the one being added whenever nobody is writing it, however adds,   *)
(* removals and crashes interleave.                                          *)
THEOREM PinsStay ==
  ASSUME "disk" \notin Ops
  PROVE  Spec => []PinsHeld
<1>1. Init => PinsHeld
  BY DEF Init, PinsHeld, NoEntries, Idle
<1>2. ASSUME IInv, PinsHeld, Next PROVE PinsHeld'
  <2>1. entry \in [Names -> Keys \cup {NoKey}] /\ Idle.pc = "idle"
    BY <1>2 DEF IInv, TypeOK, Idle
  <2>2. ASSUME UNCHANGED <<entry, known>>, Unlocked, adder'.pc # "login" \/ adder' = adder
        PROVE  PinsHeld'
    BY <1>2, <2>2, Zenon DEF PinsHeld
  <2>3. ASSUME adder'.pc \in {"pinning", "unpinning", "connecting"} PROVE PinsHeld'
    BY <2>3, Zenon DEF PinsHeld, Unlocked, Writing
  <2>4. ASSUME UNCHANGED <<entry, known, adder>> PROVE PinsHeld'
    BY <1>2, <2>4, Zenon DEF PinsHeld, Unlocked, Writing
  <2>5. ASSUME known' = entry', adder' = Idle PROVE PinsHeld'
    BY <2>1, <2>5 DEF PinsHeld
  <2>6. ASSUME entry' = NoEntries, adder' = Idle \/ (Unlocked /\ UNCHANGED <<known, adder>>)
        PROVE  PinsHeld'
    <3>1. \A m \in Names : entry'[m] = NoKey
      BY <2>6 DEF NoEntries
    <3> QED
      BY <1>2, <2>1, <2>6, <3>1 DEF PinsHeld
  <2>7. ASSUME adder.pc \in {"pinning", "connecting"}, UNCHANGED entry,
               known' = Pins(adder.name, adder.key),
               adder'.pc = "login" => adder'.name = adder.name /\ adder'.key = adder.key
        PROVE  PinsHeld'
    <3>1. adder.name \in Names /\ entry[adder.name] = NoKey
      BY <1>2, <2>7 DEF IInv, Adding
    <3>2. known'[adder.name] = adder.key /\ \A m \in Names \ {adder.name} : known'[m] = entry[m]
      BY <2>1, <2>7, <3>1 DEF Pins
    <3> QED
      BY <2>7, <3>1, <3>2, Zenon DEF PinsHeld
  <2>8. CASE \E a \in Apps : \/ RemoveApp(a) \/ RemoveVm(a)
                             \/ \E h \in Hosts : RunVm(a, h)
                             \/ \E m \in Names, h \in Hosts : AddApp(a, m, h)
    <3>1. UNCHANGED <<entry, known, adder>>
      <4>1. CASE \E a \in Apps : RemoveApp(a) \/ RemoveVm(a) \/ \E h \in Hosts : RunVm(a, h)
        BY <4>1, Zenon DEF RemoveApp, RemoveVm, RunVm, machines
      <4>2. CASE \E a \in Apps, m \in Names, h \in Hosts : AddApp(a, m, h)
        BY <4>2, Zenon DEF AddApp
      <4> QED
        BY <2>8, <4>1, <4>2, Zenon
    <3> QED
      BY <2>4, <3>1, Zenon
  <2>9. CASE \E t \in Names \X Slots : TunnelStep(t) \/ SshFails(t)
    BY <2>4, <2>9, Zenon DEF TunnelStep, SshStart, SshVerify, SshForward, ReadLogin, SshEnded,
                             Retry, Dropped, SshFails, rest
  <2>10. CASE Boot \/ Ready \/ RunVmInsert \/ \E m \in Names : KeyChanges(m)
    BY <2>4, <2>10, Zenon DEF Boot, Ready, RunVmInsert, KeyChanges, machines
  <2>11. CASE Shutdown \/ Exit \/ Crash
    <3>1. entry' = NoEntries /\ (adder' = Idle \/ (Unlocked /\ known' = known /\ adder' = adder))
      <4>1. CASE Shutdown
        BY <4>1 DEF Shutdown
      <4>2. CASE Exit \/ Crash
        BY <4>2 DEF Exit, Crash, Down
      <4> QED
        BY <2>11, <4>1, <4>2, Zenon
    <3> QED
      BY <2>6, <3>1
  <2>12. ASSUME NEW p, Step(p)
         PROVE  adder'.pc = p /\ adder'.name = adder.name /\ adder'.key = adder.key
    BY <1>2, <2>12 DEF Step, IInv, TypeOK, Adder
  <2>13. CASE \E m \in Names, k \in Keys : AddBegin(m, k)
    <3>1. UNCHANGED <<entry, known>> /\ adder = Idle /\ adder'.pc = "scan"
      BY <2>13 DEF AddBegin
    <3> QED
      BY <2>1, <2>2, <3>1 DEF Unlocked, Writing
  <2>14. CASE \E m \in Names : Remove(m) \/ Restore(m)
    <3>1. adder'.pc \in {"unpinning", "connecting"}
      BY <2>12, <2>14 DEF Remove, Restore
    <3> QED
      BY <2>3, <3>1
  <2>15. CASE AddScan \/ AddCancelled
    <3>1. /\ UNCHANGED <<entry, known>> /\ adder.pc \in {"scan", "login"}
          /\ adder'.pc \in {"pin", "idle"}
      BY <2>1, <2>12, <2>15 DEF AddScan, AddCancelled, Release
    <3> QED
      BY <2>2, <3>1 DEF Unlocked, Writing
  <2>16. CASE AddPin \/ AddRefused
    <3>1. adder'.pc \in {"pinning", "unpinning"}
      BY <2>12, <2>16 DEF AddPin, AddRefused, May
    <3> QED
      BY <2>3, <3>1
  <2>17. CASE AddPinned
    BY <2>7, <2>12, <2>17, Zenon DEF AddPinned, May
  <2>18. CASE AddLogin
    <3>1. CASE Step("connecting")
      BY <2>3, <2>12, <3>1
    <3>2. CASE Release /\ UNCHANGED <<recs, known>>
      <4>1. UNCHANGED <<entry, known>> /\ adder.pc = "login" /\ adder'.pc = "idle"
        BY <2>1, <2>18, <3>2, Zenon DEF AddLogin, Release
      <4> QED
        BY <2>2, <4>1 DEF Unlocked, Writing
    <3> QED
      BY <2>18, <3>1, <3>2, Zenon DEF AddLogin
  <2>19. CASE Unpinned
    BY <2>5, <2>19, Zenon DEF Unpinned, May, Release
  <2>20. CASE Connect
    <3>1. /\ adder.pc = "connecting" /\ adder' = Idle /\ known' = Pins(adder.name, adder.key)
          /\ entry' = Pins(adder.name, adder.key) \/ UNCHANGED entry
      BY <2>20, Zenon DEF Connect, Release, Pins, May
    <3> QED
      BY <2>1, <2>5, <2>7, <3>1, Zenon
  <2> QED
    BY <1>2, <2>8, <2>9, <2>10, <2>11, <2>13, <2>14, <2>15, <2>16, <2>17, <2>18, <2>19, <2>20,
       Zenon DEF Next, AdderStep
<1>3. PinsHeld /\ UNCHANGED vars => PinsHeld'
  BY Zenon DEF PinsHeld, Unlocked, Writing, vars, machines
<1>4. IInv /\ PinsHeld /\ [Next]_vars => PinsHeld'
  BY <1>2, <1>3, Zenon
<1> QED
  BY Inductive, <1>1, <1>4, PTL DEF Spec

-----------------------------------------------------------------------------
(* An agent that serves has every App on record: restore brought each back.  *)
LEMMA AllRestored ==
  ASSUME IInv, Owners, node = "up"
  PROVE  \A a \in Apps : appRecs[a].on # NoName =>
           HasApp(a) /\ app[a].on = appRecs[a].on /\ app[a].host = appRecs[a].host
<1> SUFFICES ASSUME NEW a \in Apps, appRecs[a].on # NoName
             PROVE  HasApp(a) /\ app[a].on = appRecs[a].on /\ app[a].host = appRecs[a].host
  BY Zenon
<1> DEFINE m == appRecs[a].on
<1>1. m \in Names /\ recs[m] # NoKey /\ (entry[m] # NoKey => app[a].on = m)
  BY OnNames, Zenon DEF IInv, Recorded
<1>2. node # "boot" /\ node # "down" /\ m \notin todo
  BY Zenon DEF IInv, Life
<1>3. entry[m] # NoKey \/ (adder.pc = "connecting" /\ adder.name = m)
  BY <1>1, <1>2, Zenon DEF Owners, Tried
<1>4. entry[m] # NoKey
  BY <1>2, <1>3, Zenon DEF IInv, Connecting
<1>5. app[a].on = m /\ HasApp(a)
  BY <1>1, <1>4, Zenon DEF HasApp
<1>6. appRecs[a] = [on |-> app[a].on, host |-> app[a].host]
  BY <1>5, Zenon DEF IInv, Recorded
<1>7. appRecs[a].host = app[a].host
  BY <1>6
<1> QED
  BY <1>5, <1>7

(* Without faults of the disk and the ports, restore leaves out no Machine.  *)
LEMMA TriedStays ==
  ASSUME "disk" \notin Ops, "ports" \notin Ops, "shutdown" \notin Ops, IInv, Tried, Next
  PROVE  Tried'
<1>1. ASSUME UNCHANGED <<node, todo, recs, entry, adder>> PROVE Tried'
  BY <1>1, Zenon DEF Tried
<1>2. CASE \E a \in Apps : \/ RemoveApp(a) \/ RemoveVm(a)
                           \/ \E h \in Hosts : RunVm(a, h)
                           \/ \E m \in Names, h \in Hosts : AddApp(a, m, h)
  <2>1. CASE \E a \in Apps : RemoveApp(a) \/ \E m \in Names, h \in Hosts : AddApp(a, m, h)
    <3>1. UNCHANGED <<node, todo, recs, entry, adder>>
      BY <2>1, Zenon DEF RemoveApp, AddApp
    <3> QED
      BY <1>1, <3>1, Zenon
  <2>2. CASE \E a \in Apps : RemoveVm(a) \/ \E h \in Hosts : RunVm(a, h)
    <3>1. UNCHANGED <<node, todo, recs, entry, adder>>
      BY <2>2, Zenon DEF RemoveVm, RunVm, machines, stores
    <3> QED
      BY <1>1, <3>1, Zenon
  <2> QED
    BY <1>2, <2>1, <2>2, Zenon
<1>3. CASE \E t \in Names \X Slots : TunnelStep(t) \/ SshFails(t)
  <2>1. UNCHANGED rest
    BY <1>3, Zenon DEF TunnelStep, SshStart, SshVerify, SshForward, ReadLogin, SshEnded, Retry,
                       Dropped, SshFails
  <2> QED
    BY <1>1, <2>1, Zenon DEF rest, stores
<1>4. CASE RunVmInsert \/ \E m \in Names : KeyChanges(m)
  BY <1>1, <1>4, Zenon DEF RunVmInsert, KeyChanges, machines, stores
<1>5. CASE Shutdown \/ Exit \/ Crash
  BY <1>5 DEF Shutdown, May, Exit, Crash, Down, Tried
<1>6. CASE Boot
  BY <1>6 DEF Boot, stores, Tried
<1>7. CASE Ready
  <2>1. UNCHANGED <<recs, entry, todo, adder>> /\ node = "boot"
    BY <1>7 DEF Ready, stores, machines
  <2> QED
    BY <2>1 DEF Tried
(* `adding` moves while no Machine is being connected. *)
<1>8. ASSUME UNCHANGED <<node, todo, recs, entry>>, adder.pc # "connecting" PROVE Tried'
  BY <1>8, Zenon DEF Tried
<1>9. CASE \/ AddScan \/ AddPin \/ AddPinned \/ AddRefused \/ Unpinned \/ AddCancelled
           \/ \E m \in Names, k \in Keys : AddBegin(m, k)
  <2>1. UNCHANGED <<node, todo, recs, entry>>
    BY <1>9, Zenon
       DEF AddScan, AddPin, AddPinned, AddRefused, Unpinned, AddCancelled, AddBegin, quiet
  <2>2. adder.pc # "connecting"
    <3>1. adder = Idle \/ adder.pc \in {"scan", "pin", "pinning", "login", "unpinning"}
      BY <1>9, Zenon DEF AddScan, AddPin, AddPinned, AddRefused, Unpinned, AddCancelled, AddBegin
    <3> QED
      BY <3>1 DEF Idle
  <2> QED
    BY <1>8, <2>1, <2>2, Zenon
<1>10. CASE AddLogin
  <2>1. UNCHANGED <<node, todo, entry>> /\ adder.pc = "login"
    BY <1>10, Zenon DEF AddLogin, quiet
  <2>2. CASE recs' = recs
    BY <1>8, <2>1, <2>2
  <2>3. CASE recs' = [recs EXCEPT ![adder.name] = adder.key] /\ Step("connecting")
    <3>1. adder'.pc = "connecting" /\ adder'.name = adder.name
      BY <2>3 DEF Step, IInv, TypeOK, Adder
    <3>2. \A m \in Names : m # adder.name => recs'[m] = recs[m]
      BY <2>3 DEF IInv, TypeOK
    <3> QED
      BY <2>1, <3>1, <3>2 DEF Tried
  <2> QED
    BY <1>10, <2>2, <2>3, Zenon DEF AddLogin
<1>11. CASE Connect
  <2>1. /\ UNCHANGED <<node, todo, recs>> /\ entry' = [entry EXCEPT ![adder.name] = adder.key]
        /\ adder.pc = "connecting"
    BY <1>11, Zenon DEF Connect, stores, May
  <2>2. adder.name \in Names /\ adder.key \in Keys
    BY <2>1, Zenon DEF IInv, Adding
  <2>3. entry'[adder.name] # NoKey /\ \A m \in Names : m # adder.name => entry'[m] = entry[m]
    BY <2>1, <2>2, KeysAssumption, Zenon DEF IInv, TypeOK
  <2> QED
    BY <2>1, <2>3, Zenon DEF Tried
<1>12. ASSUME NEW n \in Names, Remove(n) PROVE Tried'
  <2>1. /\ UNCHANGED <<node, todo>> /\ adder.pc = "idle"
        /\ recs' = [recs EXCEPT ![n] = NoKey] /\ entry' = [entry EXCEPT ![n] = NoKey]
    BY <1>12 DEF Remove, quiet, Idle
  <2>2. recs'[n] = NoKey /\ \A m \in Names : m # n => recs'[m] = recs[m] /\ entry'[m] = entry[m]
    <3>1. recs \in [Names -> Keys \cup {NoKey}] /\ entry \in [Names -> Keys \cup {NoKey}]
      BY Zenon DEF IInv, TypeOK
    <3> QED
      BY <2>1, <3>1
  <2> QED
    BY <2>1, <2>2, Zenon DEF Tried
<1>13. ASSUME NEW n \in Names, Restore(n) PROVE Tried'
  <2>1. /\ UNCHANGED <<node, recs, entry>> /\ todo' = todo \ {n} /\ adder.pc = "idle"
        /\ adder'.pc = "connecting" /\ adder'.name = n
    BY <1>13 DEF Restore, stores, machines, Idle
  <2> QED
    BY <2>1, Zenon DEF Tried
<1> QED
  BY <1>2, <1>3, <1>4, <1>5, <1>6, <1>7, <1>9, <1>10, <1>11, <1>12, <1>13, Zenon DEF Next, AdderStep

(* add_app and run_vm's insert look at both tables, under the lock of the    *)
(* VMs'; what they don't find there isn't on record either.                  *)
LEMMA ApartStays ==
  ASSUME IInv, Owners, Next
  PROVE  Apart'
<1>1. appRecs \in [Apps -> AppRec] /\ vms \in [Apps -> Vm] /\ Apart
  BY DEF IInv, TypeOK, Owners
<1>2. ASSUME UNCHANGED <<appRecs, vms>> PROVE Apart'
  BY <1>1, <1>2, Zenon DEF Apart
<1>3. ASSUME NEW a \in Apps, NEW m \in Names, NEW h \in Hosts, AddApp(a, m, h) PROVE Apart'
  <2>1. CASE appRecs' = appRecs
    BY <1>2, <1>3, <2>1, Zenon DEF AddApp
  <2>2. CASE appRecs' = [appRecs EXCEPT ![a] = [on |-> m, host |-> h]]
    <3>1. node = "up" /\ ~AppWithHost(h) /\ FreeOfVms(a, h) /\ vms' = vms
      BY <1>3, Zenon DEF AddApp, Serving, Owners
    <3>2. \A b \in Apps : appRecs[b].on # NoName => appRecs[b].host # h
      BY <3>1, AllRestored, Zenon DEF AppWithHost, HasApp
    <3>3. vms[a] = NoHost /\ \A b \in Apps : vms[b] # h
      BY <3>1, Zenon DEF FreeOfVms
    <3>4. /\ appRecs'[a].on = m /\ appRecs'[a].host = h
          /\ \A b \in Apps \ {a} : appRecs'[b] = appRecs[b]
      BY <1>1, <2>2
    <3>5. ASSUME NEW b \in Apps, NEW c \in Apps, appRecs'[b].on # NoName
          PROVE  /\ vms[b] = NoHost /\ vms[c] # appRecs'[b].host
                 /\ appRecs'[c].on # NoName /\ appRecs'[c].host = appRecs'[b].host => b = c
      <4>1. CASE b = a
        BY <3>2, <3>3, <3>4, <4>1, Zenon
      <4>2. CASE b # a
        <5>1. appRecs'[b] = appRecs[b] /\ appRecs[b].on # NoName
          BY <3>4, <3>5, <4>2
        <5>2. vms[b] = NoHost /\ vms[c] # appRecs[b].host /\ appRecs[b].host # h
          BY <1>1, <3>2, <5>1, Zenon DEF Apart
        <5>3. c # a => (appRecs[c].on # NoName /\ appRecs[c].host = appRecs[b].host => b = c)
          BY <1>1, <5>1, Zenon DEF Apart
        <5> QED
          BY <3>4, <5>1, <5>2, <5>3
      <4> QED
        BY <4>1, <4>2
    <3> QED
      BY <3>1, <3>5, Zenon DEF Apart
  <2> QED
    BY <1>3, <2>1, <2>2, Zenon DEF AddApp
<1>4. ASSUME NEW a \in Apps, RemoveApp(a) PROVE Apart'
  <2>1. vms' = vms /\ appRecs' = [appRecs EXCEPT ![a] = NoRec] /\ NoRec.on = NoName
    BY <1>4 DEF RemoveApp, NoRec
  <2>2. \A b \in Apps : appRecs'[b].on # NoName => appRecs'[b] = appRecs[b]
    BY <1>1, <2>1
  <2> QED
    BY <1>1, <2>1, <2>2 DEF Apart
<1>5. ASSUME NEW a \in Apps, RemoveVm(a) PROVE Apart'
  <2>1. appRecs' = appRecs /\ vms' = [vms EXCEPT ![a] = NoHost]
    BY <1>5 DEF RemoveVm, stores
  <2>2. \A b \in Apps : vms'[b] = NoHost \/ vms'[b] = vms[b]
    BY <1>1, <2>1
  <2>3. \A b \in Apps : appRecs[b].on # NoName => appRecs[b].host # NoHost
    BY <1>1, Zenon DEF Apart
  <2> QED
    BY <1>1, <2>1, <2>2, <2>3 DEF Apart
<1>6. ASSUME RunVmInsert PROVE Apart'
  <2>1. appRecs' = appRecs
    BY <1>6 DEF RunVmInsert, stores
  <2>2. PICK r \in runner :
          \/ vms' = vms
          \/ /\ vms' = [vms EXCEPT ![r.app] = r.host]
             /\ ~HasApp(r.app) /\ ~AppWithHost(r.host)
    BY <1>6, Zenon DEF RunVmInsert
  <2>3. CASE vms' = vms
    BY <1>2, <2>1, <2>3
  <2>4. CASE vms' = [vms EXCEPT ![r.app] = r.host] /\ ~HasApp(r.app) /\ ~AppWithHost(r.host)
    <3>1. node = "up"
      BY <2>2 DEF Owners
    <3>2. \A b \in Apps : appRecs[b].on # NoName => b # r.app /\ appRecs[b].host # r.host
      BY <2>4, <3>1, AllRestored, Zenon DEF AppWithHost, HasApp
    <3>3. \A b \in Apps : vms'[b] = vms[b] \/ (b = r.app /\ vms'[b] = r.host)
      BY <1>1, <2>4
    <3> QED
      BY <1>1, <2>1, <3>2, <3>3 DEF Apart
  <2> QED
    BY <2>2, <2>3, <2>4
<1>7. CASE \/ \E a \in Apps, h \in Hosts : RunVm(a, h)
           \/ \E m \in Names, k \in Keys : AddBegin(m, k)
           \/ \E m \in Names : Remove(m) \/ Restore(m) \/ KeyChanges(m)
           \/ Connect \/ Shutdown \/ Exit \/ Crash \/ Boot \/ Ready
  <2>1. UNCHANGED <<appRecs, vms>>
    BY <1>7, Zenon DEF RunVm, AddBegin, Remove, Restore, KeyChanges, Connect, Shutdown, Exit, Crash,
                       Down, Boot, Ready, stores, quiet
  <2> QED
    BY <1>2, <2>1, Zenon
<1>8. CASE \/ AddScan \/ AddPin \/ AddPinned \/ AddLogin \/ AddRefused \/ Unpinned
           \/ AddCancelled
  <2>1. UNCHANGED <<appRecs, vms>>
    BY <1>8, Zenon
       DEF AddScan, AddPin, AddPinned, AddLogin, AddRefused, Unpinned, AddCancelled, quiet
  <2> QED
    BY <1>2, <2>1, Zenon
<1>9. CASE \E t \in Names \X Slots : TunnelStep(t) \/ SshFails(t)
  <2>1. UNCHANGED rest
    BY <1>9, Zenon DEF TunnelStep, SshStart, SshVerify, SshForward, ReadLogin, SshEnded, Retry,
                       Dropped, SshFails
  <2> QED
    BY <1>2, <2>1, Zenon DEF rest, stores
<1> QED
  BY <1>3, <1>4, <1>5, <1>6, <1>7, <1>8, <1>9, Zenon DEF Next, AdderStep

(* run_vm runs only while the agent serves, and nothing of it outlives the   *)
(* agent.                                                                    *)
LEMMA RunsWhileUp ==
  ASSUME "shutdown" \notin Ops, Owners, Next
  PROVE  node' # "stopping" /\ (runner' # {} => node' = "up")
<1>1. node # "stopping" /\ (runner # {} => node = "up")
  BY DEF Owners
<1>2. ASSUME UNCHANGED node, UNCHANGED runner \/ runner' = {} \/ node = "up"
      PROVE  node' # "stopping" /\ (runner' # {} => node' = "up")
  BY <1>1, <1>2, Zenon
<1>3. CASE \E a \in Apps : \/ RemoveApp(a) \/ RemoveVm(a)
                           \/ \E h \in Hosts : RunVm(a, h)
                           \/ \E m \in Names, h \in Hosts : AddApp(a, m, h)
  <2>1. UNCHANGED node /\ (UNCHANGED runner \/ node = "up")
    <3>1. CASE \E a \in Apps : RemoveApp(a) \/ RemoveVm(a) \/ \E h \in Hosts : RunVm(a, h)
      BY <3>1, Zenon DEF RemoveApp, RemoveVm, RunVm
    <3>2. CASE \E a \in Apps, m \in Names, h \in Hosts : AddApp(a, m, h)
      BY <3>2, Zenon DEF AddApp
    <3> QED
      BY <1>3, <3>1, <3>2, Zenon
  <2> QED
    BY <1>2, <2>1, Zenon
<1>4. CASE \/ \E m \in Names, k \in Keys : AddBegin(m, k)
           \/ \E m \in Names : Remove(m) \/ Restore(m) \/ KeyChanges(m)
           \/ Connect \/ RunVmInsert
  <2>1. UNCHANGED node /\ (UNCHANGED runner \/ runner' = {})
    BY <1>4, Zenon DEF AddBegin, Remove, Restore, KeyChanges, Connect, RunVmInsert, quiet
  <2> QED
    BY <1>2, <2>1, Zenon
<1>5. CASE \/ AddScan \/ AddPin \/ AddPinned \/ AddLogin \/ AddRefused \/ Unpinned
           \/ AddCancelled
  <2>1. UNCHANGED <<node, runner>>
    BY <1>5, Zenon
       DEF AddScan, AddPin, AddPinned, AddLogin, AddRefused, Unpinned, AddCancelled, quiet
  <2> QED
    BY <1>2, <2>1, Zenon
<1>6. CASE \E t \in Names \X Slots : TunnelStep(t) \/ SshFails(t)
  <2>1. UNCHANGED rest
    BY <1>6, Zenon DEF TunnelStep, SshStart, SshVerify, SshForward, ReadLogin, SshEnded, Retry,
                       Dropped, SshFails
  <2> QED
    BY <1>2, <2>1, Zenon DEF rest
<1>7. CASE Shutdown
  BY <1>7 DEF Shutdown, May
<1>8. CASE Exit \/ Crash
  BY <1>8 DEF Exit, Crash, Down
<1>9. CASE Boot \/ Ready
  BY <1>1, <1>9 DEF Boot, Ready
<1> QED
  BY <1>3, <1>4, <1>5, <1>6, <1>7, <1>8, <1>9, Zenon DEF Next, AdderStep

(* As long as every Machine on record can be restored and the agent isn't    *)
(* shut down, a name and a hostname belong to at most one App, in a VM or on *)
(* a Machine, through crashes and failures of the database. The hypothesis   *)
(* is what the code needs: a Machine left out by restore, or dropped by      *)
(* shutdown, keeps its Apps' records while run_vm no longer sees them.       *)
THEOREM NamesApart ==
  ASSUME "disk" \notin Ops, "ports" \notin Ops, "shutdown" \notin Ops
  PROVE  Spec => []OwnedOnce
<1>1. Init => Owners
  BY DEF Init, Owners, Tried, Apart, NoEntries, NoRec
<1>2. ASSUME IInv, Owners, Next PROVE Owners'
  <2>1. Tried'
    BY <1>2, TriedStays DEF Owners
  <2>2. Apart'
    BY <1>2, ApartStays
  <2> QED
    BY <1>2, <2>1, <2>2, RunsWhileUp, Zenon DEF Owners
<1>3. ASSUME Owners, UNCHANGED vars PROVE Owners'
  <2>1. UNCHANGED <<node, runner, recs, appRecs, entry, todo, adder, vms>>
    BY <1>3, Zenon DEF vars, stores, machines
  <2>2. Tried'
    BY <1>3, <2>1, Zenon DEF Owners, Tried
  <2>3. Apart'
    BY <1>3, <2>1, Zenon DEF Owners, Apart
  <2> QED
    BY <1>3, <2>1, <2>2, <2>3, Zenon DEF Owners
<1>4. IInv /\ Owners /\ [Next]_vars => Owners'
  BY <1>2, <1>3, Zenon
<1>5. ASSUME IInv, Owners PROVE OwnedOnce
  <2> SUFFICES ASSUME NEW a \in Apps, NEW b \in Apps, HasApp(a)
               PROVE  /\ vms[a] = NoHost /\ vms[b] # app[a].host
                      /\ HasApp(b) /\ app[b].host = app[a].host => a = b
    BY Zenon DEF OwnedOnce
  <2>1. ASSUME NEW c \in Apps, HasApp(c)
        PROVE  appRecs[c].on # NoName /\ appRecs[c].host = app[c].host
    <3>1. appRecs[c] = [on |-> app[c].on, host |-> app[c].host]
      BY <1>5, <2>1, Zenon DEF IInv, Recorded
    <3> QED
      BY <2>1, <3>1 DEF HasApp
  <2> QED
    BY <1>5, <2>1, Zenon DEF Owners, Apart
<1> QED
  BY Inductive, <1>1, <1>4, <1>5, PTL DEF Spec
=============================================================================
