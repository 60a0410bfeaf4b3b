------------------------------- MODULE EdgeHold -------------------------------
(* The HTTP edge in front of VM-backed Apps: a request for a parked App wakes *)
(* it and is held until it runs, an App without requests is parked, and a    *)
(* request that finds a park under way waits for its end (agent.rs: resolve, *)
(* step_for, Traffic, ParkClaim, InFlight, park_vm, park_idle_apps, wake_vm; *)
(* cirro-edge/src/lib.rs: handle, proxy, connect).                           *)
(*                                                                           *)
(* A request, a park and a wake are tasks of a multi-threaded runtime; the   *)
(* registry's lock makes one step of what each does under it.                *)
EXTENDS Integers, FiniteSets

CONSTANTS
  Apps,   \* Apps, each with a hostname of its own
  Reqs,   \* requests to the edge
  Vms,    \* identities of VMs, each start or wake makes a new one
  Addrs,  \* the VM addresses of the Node subnet
  Parks,  \* bound on the park tasks at one time: their identities
  Ops     \* what may happen besides requests, a subset of OpKinds

(* "park" the operator parks an App    "idle" Apps idle-park                  *)
(* "end" a VM ends or is stopped       "rerun" an Ended App is run again      *)
(* "parkfail" a snapshot fails         "lost" ... and the VM can't be resumed *)
(* "wakefail" a wake or start fails    "timeout" the hold's deadline passes   *)
OpKinds == {"park", "idle", "end", "rerun", "parkfail", "lost", "wakefail", "timeout"}

NoVm   == 0
NoAddr == 0
NoApp  == "none"

ASSUME ReqsAssumption  == IsFiniteSet(Reqs)
ASSUME VmsAssumption   == Vms \subseteq Nat \ {NoVm}
ASSUME ParksAssumption == Parks \subseteq Nat
ASSUME AddrsAssumption == Addrs \subseteq Nat \ {NoAddr}
ASSUME AppsAssumption  == NoApp \notin Apps
ASSUME OpsAssumption   == Ops \subseteq OpKinds

VARIABLES
  app,      \* App -> its registry entry: state, VM, VM address
  vm,       \* VM -> what the Node sees of it: state and VM address
  traffic,  \* VM -> its Traffic
  req,      \* request -> its progress
  park,     \* park task -> its progress
  starter,  \* App -> the task starting or waking it
  parker    \* the idle parker, which holds the registry's lock while it looks

vars == <<app, vm, traffic, req, park, starter, parker>>
-----------------------------------------------------------------------------
AppState == [st : {"parked", "starting", "running", "ended"}, vm : Vms \cup {NoVm},
             addr : Addrs \cup {NoAddr}]
VmState  == [st : {"gone", "live", "paused", "killed"}, addr : Addrs \cup {NoAddr},
             app : Apps \cup {NoApp}]

Gone     == [st |-> "gone", addr |-> NoAddr, app |-> NoApp]

(* `recent`: `last` is less than the App's idle time ago. `finished` is not  *)
(* in the code: a request was over less than the idle time ago.              *)
Traffic    == [inFlight : 0..Cardinality(Reqs), recent : BOOLEAN, parking : BOOLEAN,
               finished : BOOLEAN]
NewTraffic == [inFlight |-> 0, recent |-> TRUE, parking |-> FALSE, finished |-> FALSE]

Req  == [pc : {"new", "look", "holdstart", "holdpark", "callwake", "waking",
               "upstream", "drop", "done"},
         app : Apps \cup {NoApp}, tried : BOOLEAN, told : BOOLEAN, vm : Vms \cup {NoVm},
         addr : Addrs \cup {NoAddr}, out : {"none", "served", "gateway", "unavailable"}]
NewReq == [pc |-> "new", app |-> NoApp, tried |-> FALSE, told |-> FALSE, vm |-> NoVm,
           addr |-> NoAddr, out |-> "none"]

Park   == [pc : {"none", "claimed", "sent", "paused", "over", "notify", "backoff"},
           app : Apps \cup {NoApp}, claim : Vms \cup {NoVm}, target : Vms \cup {NoVm},
           idle : BOOLEAN, ok : BOOLEAN]
NoPark == [pc |-> "none", app |-> NoApp, claim |-> NoVm, target |-> NoVm, idle |-> FALSE,
           ok |-> FALSE]

Starter   == [pc : {"none", "begun", "ok", "failed"}, back : {"parked", "ended"}]
NoStarter == [pc |-> "none", back |-> "parked"]

Parker == [app : Apps \cup {NoApp}, zero : BOOLEAN]
Asleep == [app |-> NoApp, zero |-> FALSE]

TypeOK ==
  /\ app \in [Apps -> AppState]
  /\ vm \in [Vms -> VmState]
  /\ traffic \in [Vms -> Traffic]
  /\ req \in [Reqs -> Req]
  /\ park \in [Parks -> Park]
  /\ starter \in [Apps -> Starter]
  /\ parker \in Parker

Init ==
  /\ app = [x \in Apps |-> [st |-> "parked", vm |-> NoVm, addr |-> NoAddr]]
  /\ vm = [v \in Vms |-> Gone]
  /\ traffic = [v \in Vms |-> NewTraffic]
  /\ req = [r \in Reqs |-> NewReq]
  /\ park = [k \in Parks |-> NoPark]
  /\ starter = [x \in Apps |-> NoStarter]
  /\ parker = Asleep
-----------------------------------------------------------------------------
Unlocked == parker = Asleep
May(op)  == op \in Ops

(* Settled: notify_waiters reaches the requests that already listen, which   *)
(* resolve does before it looks.                                             *)
Listening == {r \in Reqs : req[r].pc \in {"look", "holdstart", "holdpark"}}

(* Mutant of NotifyWaiters: notify_one. *)
BugNotifyWaiters(q) ==
  IF Listening = {} THEN q ELSE [q EXCEPT ![CHOOSE r \in Listening : TRUE].told = TRUE]

NotifyWaiters(q) == [r \in Reqs |-> IF r \in Listening THEN [q[r] EXCEPT !.told = TRUE] ELSE q[r]]

FreeAddr(a) ==
  LET free(b) == \A x \in Apps : app[x].addr # b
  IN  free(a) /\ \A b \in Addrs : free(b) => a <= b

(* A VM nothing refers to any more stands for a new one. *)
FreshVm(v) ==
  LET fresh(w) == /\ vm[w].st = "gone"
                  /\ \A x \in Apps : app[x].vm # w
                  /\ \A r \in Reqs : req[r].vm # w
                  /\ \A k \in Parks : w \notin {park[k].claim, park[k].target}
  IN  fresh(v) /\ \A w \in Vms : fresh(w) => v <= w

BeginStart(x, back) ==
  \E a \in Addrs :
    /\ FreeAddr(a)
    /\ app' = [app EXCEPT ![x] = [st |-> "starting", vm |-> NoVm, addr |-> a]]
    /\ starter' = [starter EXCEPT ![x] = [pc |-> "begun", back |-> back]]
-----------------------------------------------------------------------------
(* A request: handle, resolve and step_for.                                  *)

(* The top of resolve's loop: listening, then looking. *)
Again(r) == [req[r] EXCEPT !.pc = "look", !.told = FALSE]

Arrive(r, x) ==
  /\ req[r].pc = "new"
  /\ req' = [req EXCEPT ![r] = [NewReq EXCEPT !.pc = "look", !.app = x]]
  /\ UNCHANGED <<app, vm, traffic, park, starter, parker>>

Answered(r, out) == [NewReq EXCEPT !.pc = "done", !.app = req[r].app, !.out = out]
Answer(r, out)   == req' = [req EXCEPT ![r] = Answered(r, out)]

(* Mutant of Look: a park under way holds nobody. *)
BugLook(r) ==
  LET x == req[r].app  e == app[x] IN
  /\ req[r].pc = "look"
  /\ Unlocked
  /\ \/ /\ e.st = "running"
        /\ req' = [req EXCEPT ![r].pc = "upstream", ![r].vm = e.vm, ![r].addr = e.addr]
        /\ traffic' = [traffic EXCEPT ![e.vm].inFlight = @ + 1]
     \/ /\ e.st = "parked"
        /\ req' = [req EXCEPT ![r].pc = "callwake"]
        /\ UNCHANGED traffic
  /\ UNCHANGED <<app, vm, park, starter, parker>>

(* step_for, under the registry's lock, and what resolve does with it. *)
Look(r) ==
  LET x == req[r].app  e == app[x] IN
  /\ req[r].pc = "look"
  /\ Unlocked
  /\ \/ /\ e.st = "running" /\ traffic[e.vm].parking
        /\ req' = [req EXCEPT ![r].pc = "holdpark"]
        /\ UNCHANGED traffic
     \/ /\ e.st = "running" /\ ~traffic[e.vm].parking
        /\ req' = [req EXCEPT ![r] = [@ EXCEPT !.pc = "upstream", !.vm = e.vm, !.addr = e.addr]]
        /\ traffic' = [traffic EXCEPT ![e.vm].inFlight = @ + 1]
     \/ /\ e.st = "starting"
        /\ req' = [req EXCEPT ![r] = [@ EXCEPT !.pc = "holdstart", !.tried = TRUE]]
        /\ UNCHANGED traffic
     \/ /\ e.st = "parked" /\ ~req[r].tried
        /\ req' = [req EXCEPT ![r].pc = "callwake"]
        /\ UNCHANGED traffic
     \/ /\ e.st = "ended" \/ (e.st = "parked" /\ req[r].tried)
        /\ Answer(r, "unavailable")
        /\ UNCHANGED traffic
  /\ UNCHANGED <<app, vm, park, starter, parker>>

(* wake_vm, which takes the lock again: another wake may have been first, or *)
(* the subnet may have no address left.                                      *)
CallWake(r) ==
  LET x == req[r].app IN
  /\ req[r].pc = "callwake"
  /\ Unlocked
  /\ \/ /\ app[x].st = "parked"
        /\ BeginStart(x, "parked")
        /\ req' = [req EXCEPT ![r].pc = "waking"]
     \/ /\ app[x].st # "parked"
        /\ req' = [req EXCEPT ![r] = [Again(r) EXCEPT !.tried = TRUE]]
        /\ UNCHANGED <<app, starter>>
     \/ /\ app[x].st = "parked" /\ ~\E a \in Addrs : FreeAddr(a)
        /\ Answer(r, "unavailable")
        /\ UNCHANGED <<app, starter>>
  /\ UNCHANGED <<vm, traffic, park, parker>>

(* A held request is told that something settled, and looks again. *)
Resume(r) ==
  /\ req[r].pc \in {"holdstart", "holdpark"}
  /\ req[r].told
  /\ req' = [req EXCEPT ![r] = Again(r)]
  /\ UNCHANGED <<app, vm, traffic, park, starter, parker>>

Timeout(r) ==
  /\ May("timeout")
  /\ req[r].pc \in {"holdstart", "holdpark", "waking"}
  /\ Answer(r, "unavailable")
  /\ UNCHANGED <<app, vm, traffic, park, starter, parker>>

(* Mutant of Proxy: `last` stays what it was when the VM came up. *)
BugProxyNoLast(r) ==
  /\ req[r].pc = "upstream"
  /\ req' = [req EXCEPT ![r].pc = "drop", ![r].out = "served"]
  /\ UNCHANGED <<app, vm, traffic, park, starter, parker>>

(* proxy: whichever VM has the address by now takes the connection; with     *)
(* none to take it the request fails. Then the lease is dropped: `last`      *)
(* first, the count after it.                                                *)
Proxy(r) ==
  LET there(v) == vm[v].addr = req[r].addr /\ vm[v].st = "live" IN
  /\ req[r].pc = "upstream"
  /\ req' = [req EXCEPT ![r] = [@ EXCEPT !.pc = "drop",
       !.out = IF \E v \in Vms : there(v) THEN "served" ELSE "gateway"]]
  /\ traffic' = [traffic EXCEPT ![req[r].vm].recent = TRUE]
  /\ UNCHANGED <<app, vm, park, starter, parker>>

(* Mutant of DropCount: the lease is given back to the App's VM of now. *)
BugDropCount(r) ==
  LET v == app[req[r].app].vm IN
  /\ req[r].pc = "drop"
  /\ \/ v # NoVm /\ traffic' = [traffic EXCEPT ![v].inFlight = @ - 1]
     \/ v = NoVm /\ UNCHANGED traffic
  /\ Answer(r, req[r].out)
  /\ UNCHANGED <<app, vm, park, starter, parker>>

DropCount(r) ==
  LET v == req[r].vm  t == traffic[v] IN
  /\ req[r].pc = "drop"
  /\ traffic' = [traffic EXCEPT ![v] = [t EXCEPT !.inFlight = t.inFlight - 1,
                                                 !.finished = vm[v].st # "gone"]]
  /\ Answer(r, req[r].out)
  /\ UNCHANGED <<app, vm, park, starter, parker>>
-----------------------------------------------------------------------------
(* A start or wake task, and the Settled it drops last.                      *)

StartOk(x, v) ==
  /\ starter[x].pc = "begun"
  /\ Unlocked
  /\ FreshVm(v)
  /\ vm' = [vm EXCEPT ![v] = [st |-> "live", addr |-> app[x].addr, app |-> x]]
  /\ traffic' = [traffic EXCEPT ![v] = NewTraffic]
  /\ app' = [app EXCEPT ![x] = [@ EXCEPT !.st = "running", !.vm = v]]
  /\ starter' = [starter EXCEPT ![x].pc = "ok"]
  /\ UNCHANGED <<req, park, parker>>

StartFails(x) ==
  /\ May("wakefail")
  /\ starter[x].pc = "begun"
  /\ Unlocked
  /\ app' = [app EXCEPT ![x] = [st |-> starter[x].back, vm |-> NoVm, addr |-> NoAddr]]
  /\ starter' = [starter EXCEPT ![x].pc = "failed"]
  /\ UNCHANGED <<vm, traffic, req, park, parker>>

(* Told to whoever listens, and to the request that asked for the wake. *)
StartSettles(x) ==
  LET asked(r) == req[r].app = x /\ req[r].pc = "waking"
      told == NotifyWaiters(req)
  IN
  /\ starter[x].pc \in {"ok", "failed"}
  /\ req' = [r \in Reqs |->
               IF ~asked(r) THEN told[r]
               ELSE IF starter[x].pc = "ok" THEN Again(r)
               ELSE Answered(r, "unavailable")]
  /\ starter' = [starter EXCEPT ![x] = NoStarter]
  /\ UNCHANGED <<app, vm, traffic, park, parker>>

(* run_vm for an Ended App, by the operator. *)
Rerun(x) ==
  /\ May("rerun")
  /\ app[x].st = "ended" /\ starter[x].pc = "none"
  /\ Unlocked
  /\ BeginStart(x, "ended")
  /\ UNCHANGED <<vm, traffic, req, park, parker>>
-----------------------------------------------------------------------------
(* Parking: the claim, the park task and the supervisor's part in it.        *)

FreshPark(k) ==
  park[k].pc = "none" /\ \A l \in Parks : park[l].pc = "none" => k <= l

Claim(x, idle) ==
  \E k \in Parks :
    /\ FreshPark(k)
    /\ traffic' = [traffic EXCEPT ![app[x].vm].parking = TRUE]
    /\ park' = [park EXCEPT ![k] = [NoPark EXCEPT !.pc = "claimed", !.app = x,
                                                  !.claim = app[x].vm, !.idle = idle]]

(* park_vm's claim_park. *)
ParkVm(x) ==
  /\ May("park")
  /\ app[x].st = "running" /\ ~traffic[app[x].vm].parking
  /\ Unlocked
  /\ Claim(x, FALSE)
  /\ UNCHANGED <<app, vm, req, starter, parker>>

(* park_idle_apps takes the lock; idle_for reads in_flight, then last. *)
IdleRead(x) ==
  /\ May("idle")
  /\ app[x].st = "running"
  /\ Unlocked /\ \E k \in Parks : FreshPark(k)
  /\ parker' = [app |-> x, zero |-> traffic[app[x].vm].inFlight = 0]
  /\ UNCHANGED <<app, vm, traffic, req, park, starter>>

IdleClaim(x) ==
  LET v == app[x].vm IN
  /\ parker.app = x
  /\ \/ /\ parker.zero /\ ~traffic[v].recent /\ ~traffic[v].parking
        /\ Claim(x, TRUE)
     \/ /\ ~parker.zero \/ traffic[v].recent \/ traffic[v].parking
        /\ UNCHANGED <<traffic, park>>
  /\ parker' = Asleep
  /\ UNCHANGED <<app, vm, req, starter>>

(* park: looks the name up again, and sends Stop::Park to the supervisor it  *)
(* finds.                                                                    *)
ParkSend(k) ==
  LET x == park[k].app IN
  /\ park[k].pc = "claimed"
  /\ Unlocked
  /\ \/ /\ app[x].st = "running"
        /\ park' = [park EXCEPT ![k] = [@ EXCEPT !.pc = "sent", !.target = app[x].vm]]
     \/ /\ app[x].st # "running"
        /\ park' = [park EXCEPT ![k].pc = "over"]
  /\ UNCHANGED <<app, vm, traffic, req, starter, parker>>

(* The supervisor pauses the VM. *)
SupPause(k) ==
  LET w == park[k].target IN
  /\ park[k].pc = "sent"
  /\ vm[w].st = "live"
  /\ vm' = [vm EXCEPT ![w].st = "paused"]
  /\ park' = [park EXCEPT ![k].pc = "paused"]
  /\ UNCHANGED <<app, traffic, req, starter, parker>>

(* Mutant of SupKilled: the park task doesn't wait for the recorded end. *)
BugSupKilled(k) ==
  LET w == park[k].target IN
  /\ park[k].pc = "paused" /\ vm[w].st = "paused"
  /\ vm' = [vm EXCEPT ![w] = [@ EXCEPT !.st = "killed", !.addr = NoAddr]]
  /\ park' = [park EXCEPT ![k].pc = "over"]
  /\ UNCHANGED <<app, traffic, req, starter, parker>>

(* It is snapshotted and killed, its host state removed: `done` hears Ok. *)
SupKilled(k) ==
  LET w == park[k].target IN
  /\ park[k].pc = "paused" /\ vm[w].st = "paused"
  /\ vm' = [vm EXCEPT ![w] = [@ EXCEPT !.st = "killed", !.addr = NoAddr]]
  /\ UNCHANGED <<app, traffic, req, park, starter, parker>>

(* record_end. The idle time of a VM that is gone is nobody's to read. *)
Record(w, x, st) ==
  /\ app' = [app EXCEPT ![x] = [st |-> st, vm |-> NoVm, addr |-> NoAddr]]
  /\ vm' = [vm EXCEPT ![w] = Gone]
  /\ traffic' = [traffic EXCEPT ![w] = [@ EXCEPT !.recent = TRUE, !.finished = FALSE]]

(* record_end as parked, then `ended`, which the park task waits for. *)
SupParked(k) ==
  LET w == park[k].target  x == park[k].app IN
  /\ park[k].pc = "paused" /\ vm[w].st = "killed"
  /\ Unlocked
  /\ Record(w, x, "parked")
  /\ park' = [park EXCEPT ![k] = [@ EXCEPT !.pc = "over", !.ok = TRUE]]
  /\ UNCHANGED <<req, starter, parker>>

(* The snapshot fails and the VM carries on. *)
SupResumed(k) ==
  /\ May("parkfail")
  /\ park[k].pc = "paused" /\ vm[park[k].target].st = "paused"
  /\ vm' = [vm EXCEPT ![park[k].target].st = "live"]
  /\ park' = [park EXCEPT ![k].pc = "over"]
  /\ UNCHANGED <<app, traffic, req, starter, parker>>

(* ... or can't be resumed: `done` hears the error, then the VM is killed. *)
SupLost(k) ==
  /\ May("lost")
  /\ park[k].pc = "paused" /\ vm[park[k].target].st = "paused"
  /\ park' = [park EXCEPT ![k].pc = "over"]
  /\ UNCHANGED <<app, vm, traffic, req, starter, parker>>

InPark(w) == \E k \in Parks : park[k].pc = "paused" /\ park[k].target = w

(* The VM dies, is stopped, or is killed after a lost park: teardown. *)
VmEnds(w) ==
  /\ \/ May("end") /\ vm[w].st = "live"
     \/ vm[w].st = "paused" /\ ~InPark(w)
  /\ vm' = [vm EXCEPT ![w] = [@ EXCEPT !.st = "killed", !.addr = NoAddr]]
  /\ UNCHANGED <<app, traffic, req, park, starter, parker>>

(* The supervisor's channel goes with it: a park still queued hears that. *)
ParkUnheard(k) ==
  /\ park[k].pc = "sent"
  /\ vm[park[k].target].st \in {"killed", "gone"}
  /\ park' = [park EXCEPT ![k].pc = "over"]
  /\ UNCHANGED <<app, vm, traffic, req, starter, parker>>

(* record_end of a VM that wasn't parked. *)
RecordEnd(w) ==
  LET x == vm[w].app IN
  /\ vm[w].st = "killed"
  /\ ~InPark(w)
  /\ Unlocked
  /\ Record(w, x, "ended")
  /\ UNCHANGED <<req, park, starter, parker>>

(* The park task ends: the claim is dropped, then Settled. *)
ReleaseClaim(k) ==
  /\ park[k].pc = "over"
  /\ traffic' = [traffic EXCEPT ![park[k].claim].parking = FALSE]
  /\ park' = [park EXCEPT ![k].pc = "notify"]
  /\ UNCHANGED <<app, vm, req, starter, parker>>

ParkSettles(k) ==
  /\ park[k].pc = "notify"
  /\ req' = NotifyWaiters(req)
  /\ park' = [park EXCEPT ![k] = IF park[k].idle /\ ~park[k].ok
                                  THEN [park[k] EXCEPT !.pc = "backoff", !.target = NoVm]
                                  ELSE NoPark]
  /\ UNCHANGED <<app, vm, traffic, starter, parker>>

(* The idle parker's task: a failed park restarts the idle time, however     *)
(* late: the claim is long released.                                         *)
IdleBackoff(k) ==
  /\ park[k].pc = "backoff"
  /\ traffic' = [traffic EXCEPT ![park[k].claim].recent = TRUE]
  /\ park' = [park EXCEPT ![k] = NoPark]
  /\ UNCHANGED <<app, vm, req, starter, parker>>

(* The idle time of a VM elapses. It is seconds, so never within a drop. *)
IdleTimePasses(v) ==
  /\ \A r \in Reqs : req[r].pc = "drop" => req[r].vm # v
  /\ May("idle") /\ vm[v].st # "gone"
  /\ traffic[v].recent \/ traffic[v].finished
  /\ traffic' = [traffic EXCEPT ![v] = [@ EXCEPT !.recent = FALSE, !.finished = FALSE]]
  /\ UNCHANGED <<app, vm, req, park, starter, parker>>
-----------------------------------------------------------------------------
ReqGoesOn(r) ==
  Look(r) \/ CallWake(r) \/ Resume(r) \/ Proxy(r) \/ DropCount(r)

StartGoesOn(x) == (\E v \in Vms : StartOk(x, v)) \/ StartFails(x) \/ StartSettles(x)

ParkGoesOn(k) ==
  \/ ParkSend(k) \/ SupPause(k) \/ SupKilled(k) \/ SupParked(k) \/ SupResumed(k)
  \/ SupLost(k) \/ ParkUnheard(k) \/ ReleaseClaim(k) \/ ParkSettles(k) \/ IdleBackoff(k)

Next ==
  \/ \E r \in Reqs : ReqGoesOn(r) \/ Timeout(r) \/ \E x \in Apps : Arrive(r, x)
  \/ \E x \in Apps : StartGoesOn(x) \/ Rerun(x) \/ ParkVm(x) \/ IdleRead(x) \/ IdleClaim(x)
  \/ \E k \in Parks : ParkGoesOn(k)
  \/ \E v \in Vms : VmEnds(v) \/ RecordEnd(v) \/ IdleTimePasses(v)

Spec == Init /\ [][Next]_vars

(* Every task of the runtime goes on; nobody owes a request or a park. *)
Fairness ==
  /\ \A r \in Reqs : WF_vars(ReqGoesOn(r))
  /\ \A x \in Apps : WF_vars(StartGoesOn(x)) /\ WF_vars(IdleClaim(x))
  /\ \A k \in Parks : WF_vars(ParkGoesOn(k))
  /\ \A v \in Vms : WF_vars(RecordEnd(v))

FairSpec == Spec /\ Fairness
-----------------------------------------------------------------------------
(* An idle park of the very VM it has claimed never touches a VM that a      *)
(* request is in flight to, whatever ends or replaces VMs meanwhile: the     *)
(* claim is taken, and requests are counted, under the registry's lock.      *)
IdleClaimSparesRequests ==
  \A k \in Parks : park[k].idle /\ park[k].pc = "paused" /\ park[k].target = park[k].claim
    => \A r \in Reqs : req[r].vm # park[k].target

(* The idle parker claims a VM only once its idle time has passed since the  *)
(* last request was over, whatever order the two read and write Traffic in.  *)
IdleClaimIsDue ==
  [][\A k \in Parks : park[k].pc = "none" /\ park'[k].pc = "claimed" /\ park'[k].idle =>
       LET t == traffic[park'[k].claim] IN t.inFlight = 0 /\ ~t.finished]_vars

(* While nothing but parks ends a VM, no request is sent to one that a park  *)
(* has paused or killed: the claim outlives the park until it is recorded.   *)
LeaseOnLiveVm ==
  [][\A r \in Reqs : req[r].pc = "look" /\ req'[r].pc = "upstream"
       => vm[req'[r].vm].st = "live"]_vars

(* A request's count is taken back exactly once, also when its VM has been   *)
(* parked or replaced meanwhile.                                             *)
CountsRequests ==
  TypeOK /\ \A v \in Vms : traffic[v].inFlight = Cardinality({r \in Reqs : req[r].vm = v})

(* A held request goes on without its deadline's help: every start, wake or  *)
(* park it may wait for settles, and all who wait are told (Settled).        *)
HeldIsTold ==
  \A r \in Reqs : req[r].pc \in {"holdstart", "holdpark"} ~> req[r].pc \notin {"holdstart", "holdpark"}
=============================================================================
