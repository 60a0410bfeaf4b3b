---------------------------- MODULE EdgeHoldProofs ----------------------------
(* The safety of EdgeHold, for any number of Apps, requests, VMs and parks:   *)
(* the count of a VM's requests is exact, an idle park touches no VM with a   *)
(* request in flight, an idle claim is due, and while only parks end VMs no   *)
(* lease is on one that is gone.                                              *)
EXTENDS EdgeHold, FiniteSetTheorems, TLAPS

(* A request has a lease on a VM from Look to DropCount. *)
SoundReq == {q \in Req : /\ q.vm # NoVm <=> q.pc \in {"upstream", "drop"}
                         /\ q.pc # "new" => q.app \in Apps}

(* An App has a VM exactly while it runs. *)
SoundApp == {e \in AppState : e.st = "running" <=> e.vm # NoVm}

Sound == req \in [Reqs -> SoundReq] /\ app \in [Apps -> SoundApp]

Leased(v) == {r \in Reqs : req[r].vm = v}
Counts    == \A v \in Vms : traffic[v].inFlight = Cardinality(Leased(v))

(* A park task holds its claim until ReleaseClaim, and holds it alone. *)
Held(k) == park[k].pc \in {"claimed", "sent", "paused", "over"}
Claims ==
  /\ \A k \in Parks : Held(k) => park[k].app \in Apps /\ park[k].claim \in Vms
  /\ \A k \in Parks : Held(k) => traffic[park[k].claim].parking = TRUE
  /\ \A k, l \in Parks : Held(k) /\ Held(l) /\ park[k].claim = park[l].claim => k = l

SameClaim(p, k) == p.claim = park[k].claim /\ p.app = park[k].app /\ p.idle = park[k].idle

(* No request comes to a VM between the idle parker's look at its count,     *)
(* which keeps the lock, and the claim ...                                   *)
Looked ==
  /\ parker.app # NoApp => app[parker.app].vm # NoVm
  /\ parker.zero = TRUE =>
       parker.app # NoApp /\ \A r \in Reqs : req[r].vm # app[parker.app].vm

(* ... nor while the claim is held. *)
Spared ==
  \A k \in Parks : Held(k) /\ park[k].idle = TRUE => \A r \in Reqs : req[r].vm # park[k].claim

(* `last` is set before the count goes down. *)
LastFirst ==
  /\ \A r \in Reqs : req[r].pc = "drop" => traffic[req[r].vm].recent = TRUE
  /\ \A v \in Vms : traffic[v].finished = TRUE => traffic[v].recent = TRUE

IInv == TypeOK /\ Sound /\ Counts /\ Claims /\ Looked /\ Spared /\ LastFirst
-----------------------------------------------------------------------------
(* A VM has at most as many requests as there are. *)
LEMMA LeasedFinite ==
  ASSUME NEW S \in SUBSET Reqs
  PROVE  IsFiniteSet(S) /\ Cardinality(S) \in 0 .. Cardinality(Reqs)
<1>1. IsFiniteSet(S) /\ Cardinality(S) <= Cardinality(Reqs)
  BY ReqsAssumption, FS_Subset
<1>2. Cardinality(S) \in Nat /\ Cardinality(Reqs) \in Nat
  BY <1>1, ReqsAssumption, FS_CardinalityType
<1> QED BY <1>1, <1>2

(* What the initial state and the actions put into the variables. *)
LEMMA Types ==
  /\ NewReq \in SoundReq /\ NewReq.vm = NoVm /\ NewReq.pc = "new"
  /\ Gone \in VmState /\ Gone.st = "gone"
  /\ NoPark \in Park /\ NoPark.pc = "none"
  /\ Asleep \in Parker /\ Asleep.app = NoApp /\ Asleep.zero = FALSE
  /\ NoStarter \in Starter
<1>1. NewReq \in Req /\ NewReq.vm = NoVm /\ NewReq.pc = "new"
  BY Zenon DEF NewReq, Req
<1>2. NewReq \in SoundReq
  BY <1>1 DEF SoundReq
<1>3. Gone \in VmState /\ Gone.st = "gone"
  BY Zenon DEF Gone, VmState
<1>4. NoPark \in Park /\ NoPark.pc = "none"
  BY Zenon DEF NoPark, Park
<1>5. Asleep \in Parker /\ Asleep.app = NoApp /\ Asleep.zero = FALSE
  BY Zenon DEF Asleep, Parker
<1>6. NoStarter \in Starter
  BY Zenon DEF NoStarter, Starter
<1> QED BY <1>1, <1>2, <1>3, <1>4, <1>5, <1>6, Zenon

(* A VM that comes up has no requests yet. *)
LEMMA TrafficType ==
  /\ NewTraffic \in Traffic
  /\ NewTraffic.inFlight = 0 /\ NewTraffic.recent = TRUE /\ NewTraffic.parking = FALSE
<1>1. 0 \in 0 .. Cardinality(Reqs)
  BY ReqsAssumption, FS_CardinalityType
<1> QED BY <1>1, Zenon DEF NewTraffic, Traffic

(* The steps that change no count and no claim: requests that wait or are    *)
(* answered, starts and wakes, the progress of a park, the passing of time.  *)
LEMMA CountsAlone ==
  ASSUME IInv, TypeOK', Sound', LastFirst',
         \A r \in Reqs : req'[r].vm = req[r].vm,
         \A v \in Vms : traffic'[v].inFlight = traffic[v].inFlight
                        /\ traffic'[v].parking = traffic[v].parking,
         \A k \in Parks : Held(k)' => Held(k) /\ SameClaim(park'[k], k),
         parker' = parker, app' = app \/ Unlocked
  PROVE  IInv'
<1>1. Counts'
  <2> SUFFICES ASSUME NEW v \in Vms
               PROVE  traffic'[v].inFlight = Cardinality(Leased(v)')
    BY DEF Counts
  <2>1. Leased(v)' = Leased(v)
    BY DEF Leased
  <2> QED BY <2>1 DEF IInv, Counts
<1>2. Claims'
  BY Zenon DEF IInv, Claims, SameClaim
<1>3. Looked'
  <2>1. CASE app' = app
    BY <2>1, Zenon DEF IInv, Looked
  <2>2. CASE Unlocked
    BY <2>2, Types, Zenon DEF Unlocked, Looked
  <2> QED BY <2>1, <2>2
<1>4. Spared'
  BY Zenon DEF IInv, Spared, SameClaim
<1> QED BY <1>1, <1>2, <1>3, <1>4 DEF IInv

(* ... and of these, the steps that leave Traffic alone. *)
LEMMA TrafficAlone ==
  ASSUME IInv, req' \in [Reqs -> SoundReq], app' \in [Apps -> SoundApp],
         vm' \in [Vms -> VmState], park' \in [Parks -> Park], starter' \in [Apps -> Starter],
         \A r \in Reqs : req'[r].vm = req[r].vm /\ (req'[r].pc = "drop" => req[r].pc = "drop"),
         \A k \in Parks : Held(k)' => Held(k) /\ SameClaim(park'[k], k),
         UNCHANGED <<traffic, parker>>, app' = app \/ Unlocked
  PROVE  IInv'
<1>1. req' \in [Reqs -> Req] /\ app' \in [Apps -> AppState]
  BY DEF SoundReq, SoundApp
<1>2. TypeOK' /\ Sound'
  BY <1>1, Zenon DEF IInv, TypeOK, Sound
<1>3. LastFirst'
  BY Zenon DEF IInv, LastFirst
<1> QED BY <1>2, <1>3, CountsAlone, Zenon
-----------------------------------------------------------------------------
Waits == {"look", "holdstart", "holdpark", "callwake", "waking"}

(* A request that waits has no lease, and goes on waiting without one. *)
LEMMA WaitTypes ==
  ASSUME NEW q \in SoundReq, q.pc \in Waits
  PROVE  /\ q.vm = NoVm
         /\ \A p \in Waits : LET w == [q EXCEPT !.pc = p] IN
              w \in SoundReq /\ w.vm = NoVm /\ w.pc = p
         /\ \A b \in BOOLEAN : /\ [q EXCEPT !.tried = b] \in SoundReq
                               /\ [q EXCEPT !.tried = b].vm = NoVm
                               /\ [q EXCEPT !.tried = b].pc = q.pc
         /\ \A b \in BOOLEAN : /\ [q EXCEPT !.told = b] \in SoundReq
                               /\ [q EXCEPT !.told = b].vm = NoVm
                               /\ [q EXCEPT !.told = b].pc = q.pc
<1>1. q \in Req /\ q.vm = NoVm /\ q.app \in Apps
  BY DEF SoundReq, Waits
<1>2. ASSUME NEW p \in Waits
      PROVE  LET w == [q EXCEPT !.pc = p] IN w \in SoundReq /\ w.vm = NoVm /\ w.pc = p
  <2> DEFINE w == [q EXCEPT !.pc = p]
  <2>1. w.vm = q.vm /\ w.pc = p /\ w.app = q.app
    BY <1>1 DEF Req
  <2>2. w \in Req
    BY <1>1, Zenon DEF Req, Waits
  <2> QED BY <1>1, <2>1, <2>2, Zenon DEF SoundReq, Waits
<1>3. ASSUME NEW b \in BOOLEAN
      PROVE  LET w == [q EXCEPT !.tried = b] IN w \in SoundReq /\ w.vm = NoVm /\ w.pc = q.pc
  <2> DEFINE w == [q EXCEPT !.tried = b]
  <2>1. w.vm = q.vm /\ w.pc = q.pc /\ w.app = q.app
    BY <1>1 DEF Req
  <2>2. w \in Req
    BY <1>1, Zenon DEF Req
  <2> QED BY <1>1, <2>1, <2>2, Zenon DEF SoundReq, Waits
<1>4. ASSUME NEW b \in BOOLEAN
      PROVE  LET w == [q EXCEPT !.told = b] IN w \in SoundReq /\ w.vm = NoVm /\ w.pc = q.pc
  <2> DEFINE w == [q EXCEPT !.told = b]
  <2>1. w.vm = q.vm /\ w.pc = q.pc /\ w.app = q.app
    BY <1>1 DEF Req
  <2>2. w \in Req
    BY <1>1, Zenon DEF Req
  <2> QED BY <1>1, <2>1, <2>2, Zenon DEF SoundReq, Waits
<1> QED BY <1>1, <1>2, <1>3, <1>4, Zenon

(* The top of resolve's loop, and an answer: both without a lease. *)
LEMMA LoopTypes ==
  ASSUME IInv, NEW r \in Reqs, req[r].pc \in Waits
  PROVE  /\ req[r].vm = NoVm
         /\ Again(r) \in SoundReq /\ Again(r).vm = NoVm /\ Again(r).pc = "look"
<1>1. req[r] \in SoundReq
  BY DEF IInv, Sound
<1> DEFINE w == [req[r] EXCEPT !.pc = "look"]
<1>2. w \in SoundReq /\ w.vm = NoVm /\ w.pc = "look" /\ "look" \in Waits
  BY <1>1, WaitTypes, Zenon DEF Waits
<1>3. [w EXCEPT !.told = FALSE] \in SoundReq /\ [w EXCEPT !.told = FALSE].vm = NoVm
      /\ [w EXCEPT !.told = FALSE].pc = "look"
  BY <1>2, WaitTypes, Zenon
<1>4. Again(r) = [w EXCEPT !.told = FALSE]
  BY DEF Again
<1> QED BY <1>1, <1>3, <1>4, WaitTypes, Zenon

(* A request that answers keeps a sound record. *)
LEMMA AnsweredType ==
  ASSUME IInv, NEW r \in Reqs, req[r].pc # "new",
         NEW out \in {"none", "served", "gateway", "unavailable"}
  PROVE  /\ Answered(r, out) \in SoundReq
         /\ Answered(r, out).vm = NoVm /\ Answered(r, out).pc = "done"
<1>1. req[r].app \in Apps
  BY DEF IInv, Sound, SoundReq
<1>2. Answered(r, out) \in Req /\ Answered(r, out).vm = NoVm /\ Answered(r, out).pc = "done"
      /\ Answered(r, out).app \in Apps
  BY <1>1, Zenon DEF Answered, NewReq, Req
<1> QED BY <1>2 DEF SoundReq

(* What a step of one request leaves alone. *)
LEMMA ReqSet ==
  ASSUME IInv, NEW r \in Reqs, NEW q \in SoundReq, req' = [req EXCEPT ![r] = q]
  PROVE  /\ req' \in [Reqs -> SoundReq] /\ req'[r] = q
         /\ \A s \in Reqs \ {r} : req'[s] = req[s]
<1>1. req \in [Reqs -> SoundReq]
  BY DEF IInv, Sound
<1> QED BY <1>1, Zenon

(* A request that has no lease takes a step and gets none. *)
LEMMA ReqWaits ==
  ASSUME IInv, NEW r \in Reqs, NEW q \in SoundReq, q.vm = NoVm, req[r].vm = NoVm,
         q.pc # "drop", req' = [req EXCEPT ![r] = q],
         app' \in [Apps -> SoundApp], starter' \in [Apps -> Starter],
         UNCHANGED <<vm, traffic, park, parker>>, app' = app \/ Unlocked
  PROVE  IInv'
<1>1. req' \in [Reqs -> SoundReq]
  BY DEF IInv, Sound
<1>2. \A s \in Reqs : req'[s].vm = req[s].vm /\ (req'[s].pc = "drop" => req[s].pc = "drop")
  BY DEF IInv, Sound
<1>3. \A k \in Parks : Held(k)' => Held(k) /\ SameClaim(park'[k], k)
  BY Zenon DEF Held, SameClaim
<1>4. vm' \in [Vms -> VmState] /\ park' \in [Parks -> Park]
  BY DEF IInv, TypeOK
<1> QED BY <1>1, <1>2, <1>3, <1>4, TrafficAlone, Zenon

(* Nothing but the request itself changes. *)
LEMMA ReqAlone ==
  ASSUME IInv, NEW r \in Reqs, NEW q \in SoundReq, q.vm = NoVm, req[r].vm = NoVm,
         q.pc # "drop", req' = [req EXCEPT ![r] = q],
         UNCHANGED <<app, vm, traffic, park, starter, parker>>
  PROVE  IInv'
<1>1. app' \in [Apps -> SoundApp] /\ starter' \in [Apps -> Starter]
  BY DEF IInv, TypeOK, Sound
<1> QED BY <1>1, ReqWaits, Zenon

(* A request arrives at the edge. *)
LEMMA ArriveInv ==
  ASSUME IInv, NEW r \in Reqs, NEW x \in Apps, Arrive(r, x)
  PROVE  IInv'
<1> DEFINE q == [NewReq EXCEPT !.pc = "look", !.app = x]
<1>1. q \in Req /\ q.vm = NoVm /\ q.pc = "look" /\ q.app = x
  BY Zenon DEF NewReq, Req
<1>2. q \in SoundReq
  BY <1>1, Zenon DEF SoundReq
<1>3. req[r].vm = NoVm
  BY DEF Arrive, IInv, Sound, SoundReq
<1> QED BY <1>1, <1>2, <1>3, ReqAlone, Zenon DEF Arrive

(* A held request looks again once it is woken. *)
LEMMA ResumeInv ==
  ASSUME IInv, NEW r \in Reqs, Resume(r)
  PROVE  IInv'
<1>1. req[r].pc \in Waits
  BY DEF Resume, Waits
<1> QED BY <1>1, LoopTypes, ReqAlone, Zenon DEF Resume

(* HOLD_TIMEOUT answers a held request. *)
LEMMA TimeoutInv ==
  ASSUME IInv, NEW r \in Reqs, Timeout(r)
  PROVE  IInv'
<1>1. req[r].pc \in Waits /\ req[r].pc # "new"
  BY DEF Timeout, Waits
<1>2. req[r].vm = NoVm
  BY <1>1, LoopTypes, Zenon
<1> QED BY <1>1, <1>2, AnsweredType, ReqAlone, Zenon DEF Timeout, Answer

(* Starting an App or waking it gives it an address and no VM yet. *)
LEMMA BeginStartEffect ==
  ASSUME IInv, NEW x \in Apps, NEW back \in {"parked", "ended"}, BeginStart(x, back)
  PROVE  /\ app' \in [Apps -> SoundApp] /\ starter' \in [Apps -> Starter]
         /\ app'[x].vm = NoVm /\ \A y \in Apps \ {x} : app'[y] = app[y]
<1> PICK a \in Addrs : /\ app' = [app EXCEPT ![x] = [st |-> "starting", vm |-> NoVm, addr |-> a]]
                       /\ starter' = [starter EXCEPT ![x] = [pc |-> "begun", back |-> back]]
  BY Zenon DEF BeginStart
<1> DEFINE e == [st |-> "starting", vm |-> NoVm, addr |-> a]
           s == [pc |-> "begun", back |-> back]
<1>1. e \in AppState /\ s \in Starter
  BY Zenon DEF AppState, Starter
<1>2. e \in SoundApp
  BY <1>1 DEF SoundApp
<1>3. app \in [Apps -> SoundApp] /\ starter \in [Apps -> Starter]
  BY DEF IInv, Sound, TypeOK
<1> QED BY <1>1, <1>2, <1>3

(* The edge asks the agent to wake the App. *)
LEMMA CallWakeInv ==
  ASSUME IInv, NEW r \in Reqs, CallWake(r)
  PROVE  IInv'
<1> DEFINE x == req[r].app
<1>1. req[r].pc \in Waits /\ req[r].pc # "new" /\ req[r] \in SoundReq /\ x \in Apps
  BY DEF CallWake, Waits, IInv, Sound, SoundReq
<1>2. req[r].vm = NoVm /\ Unlocked /\ UNCHANGED <<vm, traffic, park, parker>>
  BY <1>1, LoopTypes, Zenon DEF CallWake
<1>3. CASE BeginStart(x, "parked") /\ req' = [req EXCEPT ![r].pc = "waking"]
  <2>1. req' = [req EXCEPT ![r] = [req[r] EXCEPT !.pc = "waking"]]
    BY <1>3
  <2>2. LET q == [req[r] EXCEPT !.pc = "waking"] IN q \in SoundReq /\ q.vm = NoVm /\ q.pc # "drop"
    BY <1>1, WaitTypes, Zenon DEF Waits
  <2>3. app' \in [Apps -> SoundApp] /\ starter' \in [Apps -> Starter]
    BY <1>1, <1>3, BeginStartEffect, Zenon
  <2> QED BY <1>2, <2>1, <2>2, <2>3, ReqWaits, Zenon
<1>4. CASE req' = [req EXCEPT ![r] = [Again(r) EXCEPT !.tried = TRUE]] /\ UNCHANGED <<app, starter>>
  <2>1. Again(r) \in SoundReq /\ Again(r).pc \in Waits
    BY <1>1, LoopTypes, Zenon DEF Waits
  <2> DEFINE q == [Again(r) EXCEPT !.tried = TRUE]
  <2>2. q \in SoundReq /\ q.vm = NoVm /\ q.pc = Again(r).pc
    BY <2>1, WaitTypes, Zenon
  <2>3. q.pc # "drop"
    BY <2>1, <2>2 DEF Waits
  <2> QED BY <1>2, <1>4, <2>2, <2>3, ReqAlone, Zenon
<1>5. CASE Answer(r, "unavailable") /\ UNCHANGED <<app, starter>>
  BY <1>1, <1>2, <1>5, AnsweredType, ReqAlone, Zenon DEF Answer
<1> QED BY <1>3, <1>4, <1>5 DEF CallWake

(* A running App has a VM. *)
LEMMA AppVm ==
  ASSUME IInv, NEW x \in Apps, app[x].st = "running"
  PROVE  app[x].vm \in Vms /\ app[x].vm # NoVm /\ app[x].addr \in Addrs \cup {NoAddr}
BY DEF IInv, Sound, SoundApp, AppState

(* One more request is counted for the VM v, and no other count changes. *)
LEMMA OneMore ==
  ASSUME NEW r \in Reqs, NEW v \in Vms, req[r].vm = NoVm, req'[r].vm = v,
         \A s \in Reqs \ {r} : req'[s].vm = req[s].vm
  PROVE  /\ Cardinality(Leased(v)') = Cardinality(Leased(v)) + 1
         /\ Cardinality(Leased(v)') \in 0 .. Cardinality(Reqs)
         /\ \A w \in Vms \ {v} : Leased(w)' = Leased(w)
<1>1. NoVm \notin Vms
  BY VmsAssumption, Zenon
<1>2. Leased(v)' = Leased(v) \cup {r} /\ r \notin Leased(v)
  BY <1>1 DEF Leased
<1>3. IsFiniteSet(Leased(v))
  BY LeasedFinite DEF Leased
<1>4. Cardinality(Leased(v)') = Cardinality(Leased(v)) + 1
  BY <1>2, <1>3, FS_AddElement, Zenon
<1>5. Leased(v)' \in SUBSET Reqs
  BY DEF Leased
<1>6. ASSUME NEW w \in Vms, w # v
      PROVE  Leased(w)' = Leased(w)
  BY <1>1, <1>6 DEF Leased
<1> QED BY <1>4, <1>5, <1>6, LeasedFinite, Zenon

(* ... which the count has room for. *)
LEMMA OneMoreFits ==
  ASSUME IInv, NEW r \in Reqs, NEW v \in Vms, req[r].vm = NoVm, req'[r].vm = v,
         \A s \in Reqs \ {r} : req'[s].vm = req[s].vm
  PROVE  traffic[v].inFlight + 1 \in 0 .. Cardinality(Reqs)
<1>1. traffic[v].inFlight = Cardinality(Leased(v))
  BY Zenon DEF IInv, Counts
<1> QED BY <1>1, OneMore, Zenon

(* A count that changes changes nothing else about a VM. *)
LEMMA InFlightSet ==
  ASSUME TypeOK, NEW v \in Vms, NEW n \in 0 .. Cardinality(Reqs),
         traffic' = [traffic EXCEPT ![v] = [traffic[v] EXCEPT !.inFlight = n]]
  PROVE  /\ traffic' \in [Vms -> Traffic]
         /\ traffic'[v].inFlight = n
         /\ \A w \in Vms \ {v} : traffic'[w] = traffic[w]
         /\ \A w \in Vms : traffic'[w].parking = traffic[w].parking
         /\ \A w \in Vms : traffic'[w].recent = traffic[w].recent
         /\ \A w \in Vms : traffic'[w].finished = traffic[w].finished
<1> DEFINE u == [traffic[v] EXCEPT !.inFlight = n]
<1>1. traffic \in [Vms -> Traffic]
  BY DEF TypeOK
<1>2. u \in Traffic /\ u.inFlight = n /\ u.parking = traffic[v].parking
      /\ u.recent = traffic[v].recent /\ u.finished = traffic[v].finished
  BY <1>1, Zenon DEF Traffic
<1> HIDE DEF u
<1>3. traffic' = [traffic EXCEPT ![v] = u]
  BY DEF u
<1>4. traffic' \in [Vms -> Traffic] /\ traffic'[v] = u
      /\ \A w \in Vms \ {v} : traffic'[w] = traffic[w]
  BY <1>1, <1>2, <1>3
<1> QED BY <1>2, <1>4, Zenon

(* The record of a request that gets a lease. *)
WithLease(q, v, a) == [q EXCEPT !.pc = "upstream", !.vm = v, !.addr = a]

(* ... and what it holds. *)
LEMMA LeaseType ==
  ASSUME NEW q \in SoundReq, q.pc = "look", NEW v \in Vms, NEW a \in Addrs \cup {NoAddr}
  PROVE  LET u == WithLease(q, v, a) IN u \in SoundReq /\ u.vm = v /\ u.pc = "upstream"
<1> DEFINE u == WithLease(q, v, a)
<1>1. q \in Req /\ q.app \in Apps
  BY DEF SoundReq
<1>2. u \in Req /\ u.vm = v /\ u.pc = "upstream" /\ u.app = q.app
  BY <1>1, Zenon DEF Req, WithLease
<1>3. v # NoVm
  BY VmsAssumption
<1>4. u \in SoundReq
  BY <1>1, <1>2, <1>3, Zenon DEF SoundReq
<1> QED BY <1>2, <1>4, Zenon

(* A request comes to a VM that nobody is parking. *)
LEMMA LeaseGiven ==
  ASSUME IInv, NEW r \in Reqs, NEW v \in Vms, req[r].vm = NoVm, Unlocked,
         ~traffic[v].parking, req' \in [Reqs -> SoundReq],
         req'[r].vm = v, req'[r].pc = "upstream",
         \A s \in Reqs \ {r} : req'[s] = req[s],
         traffic' \in [Vms -> Traffic], traffic'[v].inFlight = traffic[v].inFlight + 1,
         \A w \in Vms \ {v} : traffic'[w] = traffic[w],
         \A w \in Vms : traffic'[w].parking = traffic[w].parking,
         \A w \in Vms : traffic'[w].recent = traffic[w].recent,
         \A w \in Vms : traffic'[w].finished = traffic[w].finished,
         UNCHANGED <<app, vm, park, starter, parker>>
  PROVE  IInv'
<1>1. \A s \in Reqs \ {r} : req'[s].vm = req[s].vm
  OBVIOUS
<1>2. TypeOK' /\ Sound'
  <2>1. req' \in [Reqs -> Req]
    BY DEF SoundReq
  <2> QED BY <2>1, Zenon DEF IInv, TypeOK, Sound
<1>3. Counts'
  <2> SUFFICES ASSUME NEW w \in Vms
               PROVE  traffic'[w].inFlight = Cardinality(Leased(w)')
    BY DEF Counts
  <2>1. traffic[w].inFlight = Cardinality(Leased(w))
    BY Zenon DEF IInv, Counts
  <2>2. CASE w = v
    BY <1>1, <2>1, <2>2, OneMore, Zenon
  <2>3. CASE w # v
    BY <1>1, <2>1, <2>3, OneMore, Zenon
  <2> QED BY <2>2, <2>3
<1>4. \A k \in Parks : Held(k)' <=> Held(k)
  BY Zenon DEF Held
<1>5. Claims'
  BY <1>4, Zenon DEF IInv, Claims
<1>6. Looked'
  BY Types, Zenon DEF Unlocked, Looked
<1>7. Spared'
  <2> SUFFICES ASSUME NEW k \in Parks, Held(k), park[k].idle = TRUE, NEW s \in Reqs
               PROVE  req'[s].vm # park[k].claim
    BY <1>4, Zenon DEF Spared
  <2>1. req[s].vm # park[k].claim
    BY Zenon DEF IInv, Spared
  <2>2. traffic[park[k].claim].parking = TRUE
    BY Zenon DEF IInv, Claims
  <2>3. park[k].claim # v
    BY <2>2, Zenon
  <2> QED BY <1>1, <2>1, <2>3, Zenon
<1>8. LastFirst'
  <2>1. \A s \in Reqs : req[s].pc = "drop" => req[s].vm \in Vms
    BY DEF IInv, Sound, SoundReq, Req
  <2>2. ASSUME NEW s \in Reqs, req'[s].pc = "drop"
        PROVE  traffic'[req'[s].vm].recent = TRUE
    <3>1. s # r
      BY <2>2
    <3>2. req'[s] = req[s] /\ req[s].vm \in Vms
      BY <2>1, <2>2, <3>1, Zenon
    <3>3. traffic[req[s].vm].recent = TRUE
      BY <2>2, <3>2, Zenon DEF IInv, LastFirst
    <3> QED BY <3>2, <3>3, Zenon
  <2> QED BY <2>2, Zenon DEF IInv, LastFirst
<1> QED BY <1>2, <1>3, <1>5, <1>6, <1>7, <1>8, Zenon DEF IInv

(* step_for sends the request to the App's VM and counts it. *)
LEMMA LookLeases ==
  ASSUME IInv, NEW r \in Reqs, NEW v \in Vms, req[r].pc = "look", Unlocked,
         ~traffic[v].parking, NEW q \in SoundReq, q.vm = v, q.pc = "upstream",
         req' = [req EXCEPT ![r] = q], NEW n, n = traffic[v].inFlight + 1,
         traffic' = [traffic EXCEPT ![v] = [traffic[v] EXCEPT !.inFlight = n]],
         UNCHANGED <<app, vm, park, starter, parker>>
  PROVE  IInv'
<1>1. /\ req' \in [Reqs -> SoundReq] /\ req'[r].vm = v /\ req'[r].pc = "upstream"
      /\ \A s \in Reqs \ {r} : req'[s] = req[s]
  BY ReqSet, Zenon
<1>2. req[r].vm = NoVm /\ TypeOK
  BY Zenon DEF IInv, Sound, SoundReq
<1>3. \A s \in Reqs \ {r} : req'[s].vm = req[s].vm
  BY <1>1, Zenon
<1>4. n \in 0 .. Cardinality(Reqs)
  BY <1>1, <1>2, <1>3, OneMoreFits, Zenon
<1>5. /\ traffic' \in [Vms -> Traffic] /\ traffic'[v].inFlight = n
      /\ \A w \in Vms \ {v} : traffic'[w] = traffic[w]
      /\ \A w \in Vms : traffic'[w].parking = traffic[w].parking
      /\ \A w \in Vms : traffic'[w].recent = traffic[w].recent
      /\ \A w \in Vms : traffic'[w].finished = traffic[w].finished
  BY <1>2, <1>4, InFlightSet, Zenon
<1> QED BY <1>1, <1>2, <1>5, LeaseGiven, Zenon

Sends(r, x) ==
  /\ app[x].st = "running" /\ ~traffic[app[x].vm].parking
  /\ req' = [req EXCEPT ![r] = [@ EXCEPT !.pc = "upstream", !.vm = app[x].vm, !.addr = app[x].addr]]
  /\ traffic' = [traffic EXCEPT ![app[x].vm].inFlight = @ + 1]

(* A look that finds the VM running takes its lease: one more in flight. *)
LEMMA LookRunning ==
  ASSUME IInv, NEW r \in Reqs, NEW x \in Apps, req[r].pc = "look", Unlocked, Sends(r, x),
         UNCHANGED <<app, vm, park, starter, parker>>
  PROVE  IInv'
<1> DEFINE v == app[x].vm
           a == app[x].addr
           q == WithLease(req[r], v, a)
           n == traffic[v].inFlight + 1
<1>1. v \in Vms /\ a \in Addrs \cup {NoAddr} /\ ~traffic[v].parking
  BY AppVm, Zenon DEF Sends
<1>2. req' = [req EXCEPT ![r] = q]
      /\ traffic' = [traffic EXCEPT ![v] = [traffic[v] EXCEPT !.inFlight = n]]
  BY Zenon DEF Sends, WithLease
<1> HIDE DEF v, a
<1>3. q \in SoundReq /\ q.vm = v /\ q.pc = "upstream"
  <2>1. req[r] \in SoundReq
    BY Zenon DEF IInv, Sound
  <2> QED BY <1>1, <2>1, LeaseType, Zenon
<1>4. n = traffic[v].inFlight + 1
  OBVIOUS
<1> HIDE DEF q, n
<1> QED BY <1>1, <1>2, <1>3, <1>4, LookLeases, Zenon

(* A request looks, under the lock of the registry. *)
LEMMA LookInv ==
  ASSUME IInv, NEW r \in Reqs, Look(r)
  PROVE  IInv'
<1> DEFINE x == req[r].app
<1>1. req[r].pc = "look" /\ req[r].pc \in Waits /\ req[r].pc # "new" /\ req[r] \in SoundReq
      /\ x \in Apps
  BY Zenon DEF Look, Waits, IInv, Sound, SoundReq
<1>2. req[r].vm = NoVm /\ Unlocked /\ UNCHANGED <<app, vm, park, starter, parker>>
  BY <1>1, LoopTypes, Zenon DEF Look
<1>3. ASSUME NEW p \in {"holdpark", "holdstart", "callwake"}
      PROVE  LET q == [req[r] EXCEPT !.pc = p] IN
             q \in SoundReq /\ q.vm = NoVm /\ q.pc = p /\ q.pc \in Waits /\ q.pc # "drop"
  <2>1. p \in Waits /\ p # "drop"
    BY DEF Waits
  <2> QED BY <1>1, <2>1, WaitTypes, Zenon
<1>4. CASE req' = [req EXCEPT ![r].pc = "holdpark"] /\ UNCHANGED traffic
  <2>1. req' = [req EXCEPT ![r] = [req[r] EXCEPT !.pc = "holdpark"]]
    BY <1>4
  <2> QED BY <1>2, <1>3, <1>4, <2>1, ReqAlone, Zenon
<1>5. CASE req' = [req EXCEPT ![r].pc = "callwake"] /\ UNCHANGED traffic
  <2>1. req' = [req EXCEPT ![r] = [req[r] EXCEPT !.pc = "callwake"]]
    BY <1>5
  <2> QED BY <1>2, <1>3, <1>5, <2>1, ReqAlone, Zenon
<1>6. CASE /\ req' = [req EXCEPT ![r] = [@ EXCEPT !.pc = "holdstart", !.tried = TRUE]]
           /\ UNCHANGED traffic
  <2> DEFINE w == [req[r] EXCEPT !.pc = "holdstart"]
             q == [w EXCEPT !.tried = TRUE]
  <2>1. w \in SoundReq /\ w.pc = "holdstart" /\ w.pc \in Waits
    BY <1>3, Zenon
  <2>2. q \in SoundReq /\ q.vm = NoVm /\ q.pc # "drop"
    BY <2>1, WaitTypes, Zenon
  <2>3. req' = [req EXCEPT ![r] = q]
    BY <1>6 DEF IInv, TypeOK
  <2> QED BY <1>2, <1>6, <2>2, <2>3, ReqAlone, Zenon
<1>7. CASE Answer(r, "unavailable") /\ UNCHANGED traffic
  BY <1>1, <1>2, <1>7, AnsweredType, ReqAlone, Zenon DEF Answer
<1>8. CASE Sends(r, x)
  BY <1>1, <1>2, <1>8, LookRunning, Zenon
<1> QED BY <1>4, <1>5, <1>6, <1>7, <1>8, Zenon DEF Look, Sends

(* A request is over: one less is counted for its VM. *)
LEMMA OneLess ==
  ASSUME IInv, NEW r \in Reqs, NEW v \in Vms, req[r].vm = v, req'[r].vm = NoVm,
         \A s \in Reqs \ {r} : req'[s].vm = req[s].vm
  PROVE  /\ traffic[v].inFlight - 1 = Cardinality(Leased(v)')
         /\ traffic[v].inFlight - 1 \in 0 .. Cardinality(Reqs)
         /\ \A w \in Vms \ {v} : Leased(w)' = Leased(w)
<1>1. NoVm \notin Vms
  BY VmsAssumption, Zenon
<1>2. Leased(v)' = Leased(v) \ {r} /\ r \in Leased(v)
  BY <1>1 DEF Leased
<1>3. IsFiniteSet(Leased(v))
  BY LeasedFinite DEF Leased
<1>4. Cardinality(Leased(v)') = Cardinality(Leased(v)) - 1
  BY <1>2, <1>3, FS_RemoveElement, Zenon
<1>5. Leased(v)' \in SUBSET Reqs
  BY DEF Leased
<1>6. ASSUME NEW w \in Vms, w # v
      PROVE  Leased(w)' = Leased(w)
  BY <1>1, <1>6 DEF Leased
<1>7. traffic[v].inFlight = Cardinality(Leased(v))
  BY Zenon DEF IInv, Counts
<1> QED BY <1>4, <1>5, <1>6, <1>7, LeasedFinite, Zenon

(* What a change to one VM's Traffic leaves alone. *)
LEMMA TrafficSet ==
  ASSUME IInv, NEW v \in Vms, NEW u \in Traffic, traffic' = [traffic EXCEPT ![v] = u]
  PROVE  /\ traffic' \in [Vms -> Traffic] /\ traffic'[v] = u
         /\ \A w \in Vms \ {v} : traffic'[w] = traffic[w]
<1>1. traffic \in [Vms -> Traffic]
  BY Zenon DEF IInv, TypeOK
<1> QED BY <1>1, Zenon

(* A lease on a VM, and `last`, which is set before the lease is dropped. *)
LEMMA LeaseOf ==
  ASSUME IInv, NEW r \in Reqs, req[r].pc \in {"upstream", "drop"}
  PROVE  /\ req[r].vm \in Vms /\ req[r].vm # NoVm /\ req[r].app \in Apps
         /\ req[r].pc = "drop" => traffic[req[r].vm].recent = TRUE
<1>1. req[r].vm \in Vms /\ req[r].vm # NoVm /\ req[r].app \in Apps
  BY DEF IInv, Sound, SoundReq, Req
<1> QED BY <1>1, Zenon DEF IInv, LastFirst

(* Requests go on as they are counted, and a VM's idle time changes. *)
LEMMA ReqsMove ==
  ASSUME IInv, req' \in [Reqs -> SoundReq], \A r \in Reqs : req'[r].vm = req[r].vm,
         traffic' \in [Vms -> Traffic], LastFirst',
         \A v \in Vms : traffic'[v].inFlight = traffic[v].inFlight
                        /\ traffic'[v].parking = traffic[v].parking,
         UNCHANGED <<app, vm, park, starter, parker>>
  PROVE  IInv'
<1>1. req' \in [Reqs -> Req]
  BY DEF SoundReq
<1>2. TypeOK' /\ Sound'
  BY <1>1, Zenon DEF IInv, TypeOK, Sound
<1>3. \A k \in Parks : Held(k)' => Held(k) /\ SameClaim(park'[k], k)
  BY Zenon DEF Held, SameClaim
<1> QED BY <1>2, <1>3, CountsAlone, Zenon

(* What proxying changes about the request. *)
LEMMA ProxyEffect ==
  ASSUME IInv, NEW r \in Reqs, Proxy(r)
  PROVE  /\ req' \in [Reqs -> SoundReq] /\ req'[r].vm = req[r].vm
         /\ \A s \in Reqs \ {r} : req'[s] = req[s]
<1> DEFINE out == IF \E v \in Vms : vm[v].addr = req[r].addr /\ vm[v].st = "live"
                  THEN "served" ELSE "gateway"
           q == [req[r] EXCEPT !.pc = "drop", !.out = out]
<1>1. req' = [req EXCEPT ![r] = q] /\ req[r].pc = "upstream"
  BY Zenon DEF Proxy
<1>2. out \in {"served", "gateway"}
  OBVIOUS
<1> HIDE DEF out
<1>3. req[r] \in Req /\ req[r].vm # NoVm /\ req[r].app \in Apps
  BY <1>1, LeaseOf, Zenon DEF IInv, Sound, SoundReq
<1>4. q \in Req /\ q.vm = req[r].vm /\ q.pc = "drop" /\ q.app = req[r].app
  BY <1>2, <1>3, Zenon DEF Req
<1> HIDE DEF q
<1>5. q \in SoundReq
  BY <1>3, <1>4, Zenon DEF SoundReq
<1> QED BY <1>1, <1>4, <1>5, ReqSet, Zenon

(* The idle time of a VM starts again, or passes: no count or claim changes. *)
LEMMA LastSet ==
  ASSUME IInv, NEW v \in Vms, NEW u \in Traffic, traffic' = [traffic EXCEPT ![v] = u],
         u.inFlight = traffic[v].inFlight, u.parking = traffic[v].parking,
         \/ u.recent = TRUE
         \/ u.finished = FALSE /\ \A r \in Reqs : req'[r].pc = "drop" => req'[r].vm # v,
         \A r \in Reqs : req'[r].vm = req[r].vm,
         \A r \in Reqs : req'[r].pc = "drop" => req[r].pc = "drop" \/ req[r].vm = v
  PROVE  /\ traffic' \in [Vms -> Traffic] /\ LastFirst'
         /\ \A w \in Vms : traffic'[w].inFlight = traffic[w].inFlight
                           /\ traffic'[w].parking = traffic[w].parking
<1>1. /\ traffic' \in [Vms -> Traffic] /\ traffic'[v] = u
      /\ \A w \in Vms \ {v} : traffic'[w] = traffic[w]
  BY TrafficSet, Zenon
<1>2. \A w \in Vms : traffic'[w].inFlight = traffic[w].inFlight
                     /\ traffic'[w].parking = traffic[w].parking
  BY <1>1, Zenon
<1>3. ASSUME NEW r \in Reqs, req'[r].pc = "drop"
      PROVE  traffic'[req'[r].vm].recent = TRUE
  <2>1. CASE req[r].vm = v
    BY <1>1, <1>3, <2>1, Zenon
  <2>2. CASE req[r].vm # v
    <3>1. req[r].vm \in Vms /\ traffic[req[r].vm].recent = TRUE
      BY <1>3, <2>2, LeaseOf, Zenon
    <3> QED BY <1>1, <2>2, <3>1, Zenon
  <2> QED BY <2>1, <2>2, Zenon
<1>4. ASSUME NEW w \in Vms, traffic'[w].finished = TRUE
      PROVE  traffic'[w].recent = TRUE
  <2>1. CASE w = v
    BY <1>1, <1>4, <2>1, Zenon
  <2>2. CASE w # v
    BY <1>1, <1>4, <2>2, Zenon DEF IInv, LastFirst
  <2> QED BY <2>1, <2>2, Zenon
<1> QED BY <1>1, <1>2, <1>3, <1>4, Zenon DEF LastFirst

(* The request has been proxied, and `last` is set. *)
LEMMA ProxyInv ==
  ASSUME IInv, NEW r \in Reqs, Proxy(r)
  PROVE  IInv'
<1> DEFINE v == req[r].vm
           u == [traffic[v] EXCEPT !.recent = TRUE]
<1>1. /\ req' \in [Reqs -> SoundReq] /\ req'[r].vm = v
      /\ \A s \in Reqs \ {r} : req'[s] = req[s]
  BY ProxyEffect, Zenon
<1>2. traffic' = [traffic EXCEPT ![v] = u] /\ req[r].pc = "upstream"
      /\ UNCHANGED <<app, vm, park, starter, parker>>
  BY Zenon DEF Proxy
<1>3. v \in Vms
  BY <1>2, LeaseOf, Zenon
<1>4. u \in Traffic /\ u.inFlight = traffic[v].inFlight /\ u.parking = traffic[v].parking
      /\ u.recent = TRUE
  <2>1. traffic[v] \in Traffic
    BY <1>3, Zenon DEF IInv, TypeOK
  <2> HIDE DEF v
  <2> QED BY <2>1, Zenon DEF Traffic
<1> HIDE DEF u
<1>5. \A s \in Reqs : req'[s].vm = req[s].vm
      /\ (req'[s].pc = "drop" => req[s].pc = "drop" \/ req[s].vm = v)
  BY <1>1, Zenon
<1>6. /\ traffic' \in [Vms -> Traffic] /\ LastFirst'
      /\ \A w \in Vms : traffic'[w].inFlight = traffic[w].inFlight
                        /\ traffic'[w].parking = traffic[w].parking
  BY <1>2, <1>3, <1>4, <1>5, LastSet, Zenon
<1> QED BY <1>1, <1>2, <1>5, <1>6, ReqsMove, Zenon

(* A lease is dropped. *)
LEMMA LeaseEnds ==
  ASSUME IInv, NEW r \in Reqs, NEW v \in Vms, req[r].vm = v, traffic[v].recent = TRUE,
         req' \in [Reqs -> SoundReq], req'[r].vm = NoVm, req'[r].pc = "done",
         \A s \in Reqs \ {r} : req'[s] = req[s],
         traffic' \in [Vms -> Traffic], traffic'[v].inFlight = traffic[v].inFlight - 1,
         traffic'[v].parking = traffic[v].parking, traffic'[v].recent = TRUE,
         \A w \in Vms \ {v} : traffic'[w] = traffic[w],
         UNCHANGED <<app, vm, park, starter, parker>>
  PROVE  IInv'
<1>1. \A s \in Reqs \ {r} : req'[s].vm = req[s].vm
  BY Zenon
<1>2. TypeOK' /\ Sound'
  <2>1. req' \in [Reqs -> Req]
    BY DEF SoundReq
  <2> QED BY <2>1, Zenon DEF IInv, TypeOK, Sound
<1>3. Counts'
  <2> SUFFICES ASSUME NEW w \in Vms
               PROVE  traffic'[w].inFlight = Cardinality(Leased(w)')
    BY Zenon DEF Counts
  <2>1. CASE w = v
    BY <1>1, <2>1, OneLess, Zenon
  <2>2. CASE w # v
    <3>1. traffic[w].inFlight = Cardinality(Leased(w))
      BY Zenon DEF IInv, Counts
    <3> QED BY <1>1, <2>2, <3>1, OneLess, Zenon
  <2> QED BY <2>1, <2>2
<1>4. \A k \in Parks : Held(k)' <=> Held(k)
  BY Zenon DEF Held
<1>5. \A w \in Vms : traffic'[w].parking = traffic[w].parking
  BY Zenon
<1>6. Claims'
  BY <1>4, <1>5, Zenon DEF IInv, Claims
<1>7. NoVm \notin Vms
  BY VmsAssumption, Zenon
<1>8. Looked'
  BY <1>1, Zenon DEF IInv, Looked
<1>9. Spared'
  <2>1. \A k \in Parks : Held(k) => park[k].claim \in Vms
    BY Zenon DEF IInv, Claims
  <2>2. \A k \in Parks : Held(k) => park[k].claim # NoVm
    BY <1>7, <2>1, Zenon
  <2> QED BY <1>1, <1>4, <2>2, Zenon DEF IInv, Spared
<1>10. LastFirst'
  <2> \A w \in Vms : traffic[w].recent = TRUE => traffic'[w].recent = TRUE
    BY Zenon
  <2>1. ASSUME NEW s \in Reqs, req'[s].pc = "drop"
        PROVE  traffic'[req'[s].vm].recent = TRUE
    <3>1. s # r
      BY <2>1
    <3>2. req'[s] = req[s] /\ req[s].vm \in Vms /\ traffic[req[s].vm].recent = TRUE
      BY <2>1, <3>1, LeaseOf, Zenon
    <3> QED BY <3>2, Zenon
  <2>2. ASSUME NEW w \in Vms, traffic'[w].finished = TRUE
        PROVE  traffic'[w].recent = TRUE
    BY <2>2, Zenon DEF IInv, LastFirst
  <2> QED BY <2>1, <2>2, Zenon DEF LastFirst
<1> QED BY <1>2, <1>3, <1>6, <1>8, <1>9, <1>10, Zenon DEF IInv

(* `InFlight` is dropped: the count goes down, after `last` was set. *)
LEMMA DropCountInv ==
  ASSUME IInv, NEW r \in Reqs, DropCount(r)
  PROVE  IInv'
<1> DEFINE v == req[r].vm
           n == traffic[v].inFlight - 1
           b == vm[v].st # "gone"
           u == [traffic[v] EXCEPT !.inFlight = n, !.finished = b]
           q == Answered(r, req[r].out)
<1>1. traffic' = [traffic EXCEPT ![v] = u] /\ req' = [req EXCEPT ![r] = q]
      /\ req[r].pc = "drop" /\ UNCHANGED <<app, vm, park, starter, parker>>
  BY DEF DropCount, Answer
<1>2. v \in Vms /\ traffic[v].recent = TRUE /\ req[r].pc # "new"
  BY <1>1, LeaseOf, Zenon
<1>3. q \in SoundReq /\ q.vm = NoVm /\ q.pc = "done"
  <2>1. req[r].out \in {"none", "served", "gateway", "unavailable"}
    BY DEF IInv, TypeOK, Req
  <2> QED BY <1>2, <2>1, AnsweredType, Zenon
<1> HIDE DEF q, u
<1>4. /\ req' \in [Reqs -> SoundReq] /\ req'[r] = q
      /\ \A s \in Reqs \ {r} : req'[s] = req[s]
  BY <1>1, <1>3, ReqSet, Zenon
<1>5. n \in 0 .. Cardinality(Reqs)
  <2>1. req'[r].vm = NoVm /\ \A s \in Reqs \ {r} : req'[s].vm = req[s].vm
    BY <1>3, <1>4, Zenon
  <2> HIDE DEF v
  <2>2. req[r].vm = v
    BY DEF v
  <2> QED BY <1>2, <2>1, <2>2, OneLess, Zenon
<1>6. b \in BOOLEAN /\ traffic[v] \in Traffic
  BY <1>2, Zenon DEF IInv, TypeOK
<1> HIDE DEF n, b
<1>7. u \in Traffic /\ u.inFlight = n /\ u.parking = traffic[v].parking
      /\ u.recent = traffic[v].recent
  BY <1>5, <1>6, Zenon DEF u, Traffic
<1>8. /\ traffic' \in [Vms -> Traffic] /\ traffic'[v] = u
      /\ \A w \in Vms \ {v} : traffic'[w] = traffic[w]
  BY <1>1, <1>2, <1>7, TrafficSet, Zenon
<1>9. req[r].vm = v /\ UNCHANGED <<app, vm, park, starter, parker>>
  BY <1>1
<1>10. /\ traffic'[v].inFlight = traffic[v].inFlight - 1
       /\ traffic'[v].parking = traffic[v].parking /\ traffic'[v].recent = TRUE
  BY <1>2, <1>7, <1>8, Zenon DEF n
<1>11. req'[r].vm = NoVm /\ req'[r].pc = "done"
  BY <1>3, <1>4, Zenon
<1> HIDE DEF v
<1> QED BY <1>2, <1>4, <1>8, <1>9, <1>10, <1>11, LeaseEnds, Zenon

-----------------------------------------------------------------------------
(* A VM's state changes: it is paused, resumed or killed, or it is gone. *)
LEMMA VmTypes ==
  ASSUME IInv, NEW w
  PROVE  /\ \A st \in {"live", "paused", "killed"} :
              [vm EXCEPT ![w].st = st] \in [Vms -> VmState]
         /\ [vm EXCEPT ![w] = [@ EXCEPT !.st = "killed", !.addr = NoAddr]] \in [Vms -> VmState]
         /\ [vm EXCEPT ![w] = Gone] \in [Vms -> VmState]
<1>1. vm \in [Vms -> VmState]
  BY Zenon DEF IInv, TypeOK
<1>2. \A v \in Vms, st \in {"live", "paused", "killed"} : [vm[v] EXCEPT !.st = st] \in VmState
  BY <1>1, Zenon DEF VmState
<1>3. \A v \in Vms : [vm[v] EXCEPT !.st = "killed", !.addr = NoAddr] \in VmState
  BY <1>1, Zenon DEF VmState
<1>4. \A st \in {"live", "paused", "killed"} : [vm EXCEPT ![w].st = st] \in [Vms -> VmState]
  BY <1>1, <1>2, Zenon
<1>5. [vm EXCEPT ![w] = [@ EXCEPT !.st = "killed", !.addr = NoAddr]] \in [Vms -> VmState]
  BY <1>1, <1>3, Zenon
<1>6. [vm EXCEPT ![w] = Gone] \in [Vms -> VmState]
  BY <1>1, Types, Zenon
<1> QED BY <1>4, <1>5, <1>6, Zenon

(* What a step of a park task may keep. *)
KeepsClaim(p, k) ==
  /\ p \in Park
  /\ p.pc \in {"claimed", "sent", "paused", "over"} =>
       Held(k) /\ SameClaim(p, k)

(* The records of a park that goes on with its claim or after it. *)
LEMMA ParkTypes ==
  ASSUME IInv, NEW k \in Parks, Held(k)
  PROVE  /\ \A pc \in {"sent", "paused", "over", "notify"} :
              KeepsClaim([park[k] EXCEPT !.pc = pc], k)
         /\ \A v \in Vms \cup {NoVm} :
              KeepsClaim([park[k] EXCEPT !.pc = "sent", !.target = v], k)
         /\ KeepsClaim([park[k] EXCEPT !.pc = "over", !.ok = TRUE], k)
<1>1. park[k] \in Park
  BY Zenon DEF IInv, TypeOK
<1>2. ASSUME NEW pc \in {"sent", "paused", "over", "notify"}
      PROVE  KeepsClaim([park[k] EXCEPT !.pc = pc], k)
  BY <1>1, Zenon DEF Park, KeepsClaim, SameClaim
<1>3. ASSUME NEW v \in Vms \cup {NoVm}
      PROVE  KeepsClaim([park[k] EXCEPT !.pc = "sent", !.target = v], k)
  BY <1>1, Zenon DEF Park, KeepsClaim, SameClaim
<1>4. KeepsClaim([park[k] EXCEPT !.pc = "over", !.ok = TRUE], k)
  BY <1>1, Zenon DEF Park, KeepsClaim, SameClaim
<1> QED BY <1>2, <1>3, <1>4, Zenon

(* What a step of one park task leaves alone. *)
LEMMA ParkSet ==
  ASSUME IInv, NEW k \in Parks, NEW p, KeepsClaim(p, k), park' = [park EXCEPT ![k] = p]
  PROVE  /\ park' \in [Parks -> Park]
         /\ \A l \in Parks : Held(l)' => Held(l) /\ SameClaim(park'[l], l)
<1>1. park \in [Parks -> Park] /\ p \in Park
  BY Zenon DEF IInv, TypeOK, KeepsClaim
<1>2. park' \in [Parks -> Park] /\ park'[k] = p /\ \A l \in Parks \ {k} : park'[l] = park[l]
  BY <1>1, Zenon
<1>3. ASSUME NEW l \in Parks, Held(l)'
      PROVE  Held(l) /\ SameClaim(park'[l], l)
  BY <1>2, <1>3, Zenon DEF Held, KeepsClaim, SameClaim
<1> QED BY <1>2, <1>3, Zenon

(* A park task or its VM goes on; nobody else notices. *)
LEMMA ParkMoves ==
  ASSUME IInv, NEW k \in Parks, NEW p, KeepsClaim(p, k), park' = [park EXCEPT ![k] = p],
         vm' \in [Vms -> VmState], UNCHANGED <<app, traffic, req, starter, parker>>
  PROVE  IInv'
<1>1. /\ req' \in [Reqs -> SoundReq] /\ app' \in [Apps -> SoundApp]
      /\ starter' \in [Apps -> Starter]
  BY Zenon DEF IInv, Sound, TypeOK
<1>2. /\ park' \in [Parks -> Park]
      /\ \A l \in Parks : Held(l)' => Held(l) /\ SameClaim(park'[l], l)
  BY ParkSet, Zenon
<1> QED BY <1>1, <1>2, TrafficAlone, Zenon

(* From the claim to the end of the park: the supervisor's steps. *)
LEMMA ParkStepsInv ==
  ASSUME IInv, NEW k \in Parks,
         \/ ParkSend(k) \/ SupPause(k) \/ SupResumed(k) \/ SupLost(k) \/ ParkUnheard(k)
  PROVE  IInv'
<1>1. vm \in [Vms -> VmState]
  BY Zenon DEF IInv, TypeOK
<1>2. CASE ParkSend(k)
  <2>1. Held(k) /\ UNCHANGED <<vm, app, traffic, req, starter, parker>>
    BY <1>2, Zenon DEF ParkSend, Held
  <2>2. CASE app[park[k].app].st = "running"
             /\ park' = [park EXCEPT ![k] = [@ EXCEPT !.pc = "sent", !.target = app[park[k].app].vm]]
    <3> DEFINE v == app[park[k].app].vm
    <3>1. v \in Vms \cup {NoVm}
      <4>1. park[k].app \in Apps
        BY <2>1, Zenon DEF IInv, Claims
      <4> QED BY <4>1 DEF IInv, TypeOK, AppState
    <3> HIDE DEF v
    <3>2. park' = [park EXCEPT ![k] = [park[k] EXCEPT !.pc = "sent", !.target = v]]
      BY <2>2, Zenon DEF v
    <3> QED BY <1>1, <2>1, <3>1, <3>2, ParkTypes, ParkMoves, Zenon
  <2>3. CASE park' = [park EXCEPT ![k].pc = "over"]
    BY <1>1, <2>1, <2>3, ParkTypes, ParkMoves, Zenon
  <2> QED BY <1>2, <2>2, <2>3 DEF ParkSend
<1>3. CASE SupPause(k)
  <2>1. Held(k) /\ park' = [park EXCEPT ![k].pc = "paused"]
        /\ vm' = [vm EXCEPT ![park[k].target].st = "paused"]
        /\ UNCHANGED <<app, traffic, req, starter, parker>>
    BY <1>3, Zenon DEF SupPause, Held
  <2>2. vm' \in [Vms -> VmState]
    BY <2>1, VmTypes, Zenon
  <2> QED BY <2>1, <2>2, ParkTypes, ParkMoves, Zenon
<1>4. CASE SupResumed(k)
  <2>1. Held(k) /\ park' = [park EXCEPT ![k].pc = "over"]
        /\ vm' = [vm EXCEPT ![park[k].target].st = "live"]
        /\ UNCHANGED <<app, traffic, req, starter, parker>>
    BY <1>4, Zenon DEF SupResumed, Held
  <2>2. vm' \in [Vms -> VmState]
    BY <2>1, VmTypes, Zenon
  <2> QED BY <2>1, <2>2, ParkTypes, ParkMoves, Zenon
<1>5. CASE SupLost(k) \/ ParkUnheard(k)
  <2>1. Held(k) /\ park' = [park EXCEPT ![k].pc = "over"]
        /\ UNCHANGED <<vm, app, traffic, req, starter, parker>>
    BY <1>5, Zenon DEF SupLost, ParkUnheard, Held
  <2> QED BY <1>1, <2>1, ParkTypes, ParkMoves, Zenon
<1> QED BY <1>2, <1>3, <1>4, <1>5, Zenon

(* A VM is killed, in a park or by itself. *)
LEMMA KilledInv ==
  ASSUME IInv, NEW w, vm' = [vm EXCEPT ![w] = [@ EXCEPT !.st = "killed", !.addr = NoAddr]],
         UNCHANGED <<app, traffic, req, park, starter, parker>>
  PROVE  IInv'
<1>1. /\ req' \in [Reqs -> SoundReq] /\ app' \in [Apps -> SoundApp]
      /\ starter' \in [Apps -> Starter] /\ park' \in [Parks -> Park]
  BY Zenon DEF IInv, Sound, TypeOK
<1>2. vm' \in [Vms -> VmState]
  BY VmTypes, Zenon
<1>3. \A k \in Parks : Held(k)' => Held(k) /\ SameClaim(park'[k], k)
  BY Zenon DEF Held, SameClaim
<1> QED BY <1>1, <1>2, <1>3, TrafficAlone, Zenon

(* A VM ends by itself, or the Supervisor kills it for a park. *)
LEMMA KillsInv ==
  ASSUME IInv, (\E k \in Parks : SupKilled(k)) \/ (\E w \in Vms : VmEnds(w))
  PROVE  IInv'
<1>1. CASE \E k \in Parks : SupKilled(k)
  BY <1>1, KilledInv, Zenon DEF SupKilled
<1>2. CASE \E w \in Vms : VmEnds(w)
  BY <1>2, KilledInv, Zenon DEF VmEnds
<1> QED BY <1>1, <1>2

(* The end of a VM is recorded, under the lock: the App has none any more,   *)
(* and nobody reads the VM's idle time again.                                *)
LEMMA RecordEffect ==
  ASSUME IInv, NEW w, NEW x, NEW st \in {"parked", "ended"}, Record(w, x, st),
         UNCHANGED req
  PROVE  /\ app' \in [Apps -> SoundApp] /\ vm' \in [Vms -> VmState]
         /\ traffic' \in [Vms -> Traffic] /\ LastFirst'
         /\ \A v \in Vms : traffic'[v].inFlight = traffic[v].inFlight
                           /\ traffic'[v].parking = traffic[v].parking
<1> DEFINE e == [st |-> st, vm |-> NoVm, addr |-> NoAddr]
           u == [traffic[w] EXCEPT !.recent = TRUE, !.finished = FALSE]
<1>1. e \in AppState /\ e.vm = NoVm /\ e.st # "running"
  BY Zenon DEF AppState
<1>2. e \in SoundApp
  BY <1>1, Zenon DEF SoundApp
<1>3. traffic \in [Vms -> Traffic]
  BY Zenon DEF IInv, TypeOK
<1>4. w \in Vms => u \in Traffic /\ u.inFlight = traffic[w].inFlight
                   /\ u.parking = traffic[w].parking /\ u.recent = TRUE
  BY <1>3, Zenon DEF Traffic
<1>5. app' = [app EXCEPT ![x] = e] /\ vm' = [vm EXCEPT ![w] = Gone]
      /\ traffic' = [traffic EXCEPT ![w] = u]
  BY Zenon DEF Record
<1> HIDE DEF e, u
<1>6. app' \in [Apps -> SoundApp]
  BY <1>2, <1>5, Zenon DEF IInv, Sound
<1>7. vm' \in [Vms -> VmState]
  BY <1>5, VmTypes, Zenon
<1>8. (\A r \in Reqs : req'[r].vm = req[r].vm)
      /\ \A r \in Reqs : req'[r].pc = "drop" => req[r].pc = "drop" \/ req[r].vm = w
  BY Zenon
<1>9. CASE w \in Vms
  BY <1>4, <1>5, <1>6, <1>7, <1>8, <1>9, LastSet, Zenon
<1>10. CASE w \notin Vms
  <2>1. traffic' = traffic
    BY <1>3, <1>5, <1>10
  <2>2. LastFirst'
    BY <2>1, Zenon DEF IInv, LastFirst
  <2> QED BY <1>3, <1>6, <1>7, <2>1, <2>2, Zenon
<1> QED BY <1>9, <1>10

(* Under the lock, whatever changes about Apps and VMs: counts and claims    *)
(* stay as they are.                                                         *)
LEMMA LockedMoves ==
  ASSUME IInv, Unlocked, app' \in [Apps -> SoundApp], vm' \in [Vms -> VmState],
         traffic' \in [Vms -> Traffic], LastFirst', park' \in [Parks -> Park],
         \A v \in Vms : traffic'[v].inFlight = traffic[v].inFlight
                        /\ traffic'[v].parking = traffic[v].parking,
         \A k \in Parks : Held(k)' => Held(k) /\ SameClaim(park'[k], k),
         UNCHANGED <<req, starter, parker>>
  PROVE  IInv'
<1>1. app' \in [Apps -> AppState]
  BY DEF SoundApp
<1>2. TypeOK' /\ Sound'
  BY <1>1, Zenon DEF IInv, TypeOK, Sound
<1> QED BY <1>2, CountsAlone, Zenon

(* The Supervisor answers that it parked, and the agent records it. *)
LEMMA SupParkedInv ==
  ASSUME IInv, NEW k \in Parks, SupParked(k)
  PROVE  IInv'
<1>1. Held(k) /\ Unlocked /\ Record(park[k].target, park[k].app, "parked")
      /\ UNCHANGED <<req, starter, parker>>
      /\ park' = [park EXCEPT ![k] = [park[k] EXCEPT !.pc = "over", !.ok = TRUE]]
  BY Zenon DEF SupParked, Held
<1>2. /\ park' \in [Parks -> Park]
      /\ \A l \in Parks : Held(l)' => Held(l) /\ SameClaim(park'[l], l)
  BY <1>1, ParkTypes, ParkSet, Zenon
<1> QED BY <1>1, <1>2, RecordEffect, LockedMoves, Zenon

(* The agent records the end of a VM. *)
LEMMA RecordEndInv ==
  ASSUME IInv, NEW w \in Vms, RecordEnd(w)
  PROVE  IInv'
<1>1. Unlocked /\ Record(w, vm[w].app, "ended") /\ UNCHANGED <<req, starter, parker, park>>
  BY Zenon DEF RecordEnd
<1>2. park' \in [Parks -> Park] /\ \A k \in Parks : Held(k)' => Held(k) /\ SameClaim(park'[k], k)
  BY <1>1, Zenon DEF Held, SameClaim, IInv, TypeOK
<1> QED BY <1>1, <1>2, RecordEffect, LockedMoves, Zenon

(* The claim is dropped. *)
LEMMA ReleaseClaimInv ==
  ASSUME IInv, NEW k \in Parks, ReleaseClaim(k)
  PROVE  IInv'
<1> DEFINE v == park[k].claim
           u == [traffic[v] EXCEPT !.parking = FALSE]
<1>1. Held(k) /\ park' = [park EXCEPT ![k] = [park[k] EXCEPT !.pc = "notify"]]
      /\ traffic' = [traffic EXCEPT ![v] = u] /\ UNCHANGED <<app, vm, req, starter, parker>>
  BY Zenon DEF ReleaseClaim, Held
<1>2. v \in Vms
  BY <1>1, Zenon DEF IInv, Claims
<1>3. traffic[v] \in Traffic
  BY <1>2, Zenon DEF IInv, TypeOK
<1>4. u \in Traffic /\ u.inFlight = traffic[v].inFlight /\ u.recent = traffic[v].recent
      /\ u.finished = traffic[v].finished
  BY <1>3, Zenon DEF Traffic
<1>5. /\ park' \in [Parks -> Park]
      /\ \A l \in Parks : Held(l)' => Held(l) /\ SameClaim(park'[l], l)
  BY <1>1, ParkTypes, ParkSet, Zenon
<1>6. ~Held(k)'
  <2>1. park \in [Parks -> Park]
    BY Zenon DEF IInv, TypeOK
  <2>2. park'[k].pc = "notify"
    BY <1>1, <2>1 DEF Park
  <2> QED BY <2>2 DEF Held
<1> HIDE DEF u
<1>7. /\ traffic' \in [Vms -> Traffic] /\ traffic'[v] = u
      /\ \A w \in Vms \ {v} : traffic'[w] = traffic[w]
  BY <1>1, <1>2, <1>4, TrafficSet, Zenon
<1>8. \A w \in Vms : /\ traffic'[w].inFlight = traffic[w].inFlight
                     /\ traffic'[w].recent = traffic[w].recent
                     /\ traffic'[w].finished = traffic[w].finished
  BY <1>4, <1>7, Zenon
<1>9. TypeOK' /\ Sound'
  BY <1>1, <1>5, <1>7, Zenon DEF IInv, TypeOK, Sound
<1>10. Counts'
  <2> SUFFICES ASSUME NEW w \in Vms PROVE traffic'[w].inFlight = Cardinality(Leased(w)')
    BY Zenon DEF Counts
  <2>1. Leased(w)' = Leased(w)
    BY <1>1, Zenon DEF Leased
  <2> QED BY <1>8, <2>1, Zenon DEF IInv, Counts
<1>11. Claims'
  <2>1. ASSUME NEW l \in Parks, Held(l)'
        PROVE  traffic'[park'[l].claim].parking = TRUE
    <3>1. l # k /\ Held(l) /\ park'[l].claim = park[l].claim
      BY <1>5, <1>6, <2>1, Zenon DEF SameClaim
    <3>2. park[l].claim \in Vms /\ park[l].claim # v /\ traffic[park[l].claim].parking = TRUE
      BY <1>1, <3>1, Zenon DEF IInv, Claims
    <3> QED BY <1>7, <3>1, <3>2, Zenon
  <2> QED BY <1>5, <2>1, Zenon DEF IInv, Claims, SameClaim
<1>12. Looked'
  BY <1>1, Zenon DEF IInv, Looked
<1>13. Spared'
  <2>1. \A l \in Parks : Held(l)' => Held(l) /\ park'[l].claim = park[l].claim
                                   /\ park'[l].idle = park[l].idle
    BY <1>5, Zenon DEF SameClaim
  <2>2. req' = req
    BY <1>1
  <2> QED BY <2>1, <2>2, Zenon DEF IInv, Spared
<1>14. LastFirst'
  <2>1. ASSUME NEW r \in Reqs, req'[r].pc = "drop"
        PROVE  traffic'[req'[r].vm].recent = TRUE
    BY <1>1, <1>8, <2>1, LeaseOf, Zenon
  <2> QED BY <1>8, <2>1, Zenon DEF IInv, LastFirst
<1> QED BY <1>9, <1>10, <1>11, <1>12, <1>13, <1>14, Zenon DEF IInv

(* The idle time passes, or a failed park starts it again. *)
LEMMA IdleTimeInv ==
  ASSUME IInv, NEW v \in Vms, IdleTimePasses(v)
  PROVE  IInv'
<1> DEFINE u == [traffic[v] EXCEPT !.recent = FALSE, !.finished = FALSE]
<1>1. traffic' = [traffic EXCEPT ![v] = u] /\ UNCHANGED <<app, vm, req, park, starter, parker>>
      /\ \A r \in Reqs : req[r].pc = "drop" => req[r].vm # v
  BY Zenon DEF IdleTimePasses
<1>2. traffic[v] \in Traffic
  BY Zenon DEF IInv, TypeOK
<1>3. u \in Traffic /\ u.inFlight = traffic[v].inFlight /\ u.parking = traffic[v].parking
      /\ u.finished = FALSE
  BY <1>2, Zenon DEF Traffic
<1> HIDE DEF u
<1>4. req' \in [Reqs -> SoundReq] /\ \A r \in Reqs : req'[r] = req[r]
  BY <1>1, Zenon DEF IInv, Sound
<1>5. /\ traffic' \in [Vms -> Traffic] /\ LastFirst'
      /\ \A w \in Vms : traffic'[w].inFlight = traffic[w].inFlight
                        /\ traffic'[w].parking = traffic[w].parking
  BY <1>1, <1>3, <1>4, LastSet, Zenon
<1> QED BY <1>1, <1>4, <1>5, ReqsMove, Zenon

(* An idle park that failed is not tried again at once. *)
LEMMA IdleBackoffInv ==
  ASSUME IInv, NEW k \in Parks, IdleBackoff(k)
  PROVE  IInv'
<1> DEFINE v == park[k].claim
           u == [traffic[v] EXCEPT !.recent = TRUE]
<1>1. park' = [park EXCEPT ![k] = NoPark] /\ traffic' = [traffic EXCEPT ![v] = u]
      /\ UNCHANGED <<app, vm, req, starter, parker>>
  BY Zenon DEF IdleBackoff
<1>2. KeepsClaim(NoPark, k)
  BY Types DEF KeepsClaim
<1>3. /\ park' \in [Parks -> Park]
      /\ \A l \in Parks : Held(l)' => Held(l) /\ SameClaim(park'[l], l)
  BY <1>1, <1>2, ParkSet, Zenon
<1>4. traffic \in [Vms -> Traffic]
  BY Zenon DEF IInv, TypeOK
<1>5. v \in Vms => u \in Traffic /\ u.inFlight = traffic[v].inFlight
                   /\ u.parking = traffic[v].parking /\ u.recent = TRUE
  BY <1>4, Zenon DEF Traffic
<1> HIDE DEF u
<1>6. \A r \in Reqs : req'[r].vm = req[r].vm
  BY <1>1, Zenon
<1>7. \A r \in Reqs : req'[r].pc = "drop" => req[r].pc = "drop" \/ req[r].vm = v
  BY <1>1, Zenon
<1>8. /\ traffic' \in [Vms -> Traffic] /\ LastFirst'
      /\ \A w \in Vms : traffic'[w].inFlight = traffic[w].inFlight
                        /\ traffic'[w].parking = traffic[w].parking
  <2>1. CASE v \in Vms
    BY <1>1, <1>5, <1>6, <1>7, <2>1, LastSet, Zenon
  <2>2. CASE v \notin Vms
    <3>1. traffic' = traffic
      BY <1>1, <1>4, <2>2
    <3> QED BY <1>1, <1>4, <3>1, Zenon DEF IInv, LastFirst
  <2> QED BY <2>1, <2>2
<1>9. TypeOK' /\ Sound'
  BY <1>1, <1>3, <1>8, Zenon DEF IInv, TypeOK, Sound
<1> QED BY <1>1, <1>3, <1>6, <1>8, <1>9, CountsAlone, Zenon

(* Whoever waits is told. *)
LEMMA Told ==
  ASSUME IInv, NEW r \in Reqs
  PROVE  LET q == NotifyWaiters(req)[r] IN q \in SoundReq /\ q.vm = req[r].vm /\ q.pc = req[r].pc
<1>1. req[r] \in SoundReq
  BY Zenon DEF IInv, Sound
<1>2. CASE r \in Listening
  <2>1. req[r].pc \in Waits
    BY <1>2 DEF Listening, Waits
  <2>2. NotifyWaiters(req)[r] = [req[r] EXCEPT !.told = TRUE]
    BY <1>2, Zenon DEF NotifyWaiters
  <2> DEFINE q == [req[r] EXCEPT !.told = TRUE]
  <2>3. q \in SoundReq /\ q.vm = NoVm /\ q.pc = req[r].pc /\ req[r].vm = NoVm
    BY <1>1, <2>1, WaitTypes, Zenon
  <2> QED BY <2>2, <2>3, Zenon
<1>3. CASE r \notin Listening
  <2>1. NotifyWaiters(req)[r] = req[r]
    BY <1>3, Zenon DEF NotifyWaiters
  <2> QED BY <1>1, <2>1, Zenon
<1> QED BY <1>2, <1>3

(* A park ends, and releases its claim. *)
LEMMA ParkSettlesInv ==
  ASSUME IInv, NEW k \in Parks, ParkSettles(k)
  PROVE  IInv'
<1> DEFINE p == IF park[k].idle /\ ~park[k].ok
                THEN [park[k] EXCEPT !.pc = "backoff", !.target = NoVm] ELSE NoPark
<1>1. park' = [park EXCEPT ![k] = p] /\ req' = NotifyWaiters(req)
      /\ UNCHANGED <<app, vm, traffic, starter, parker>>
  BY Zenon DEF ParkSettles
<1>2. KeepsClaim(p, k)
  <2>1. park[k] \in Park
    BY Zenon DEF IInv, TypeOK
  <2>2. [park[k] EXCEPT !.pc = "backoff", !.target = NoVm] \in Park
        /\ [park[k] EXCEPT !.pc = "backoff", !.target = NoVm].pc = "backoff"
    BY <2>1, Zenon DEF Park
  <2>3. p \in Park /\ p.pc \in {"none", "backoff"}
    BY <2>2, Types, Zenon
  <2> QED BY <2>3 DEF KeepsClaim
<1> HIDE DEF p
<1>3. /\ park' \in [Parks -> Park]
      /\ \A l \in Parks : Held(l)' => Held(l) /\ SameClaim(park'[l], l)
  BY <1>1, <1>2, ParkSet, Zenon
<1>4. req' \in [Reqs -> SoundReq]
  <2>1. req' = [r \in Reqs |-> req'[r]]
    BY <1>1, Zenon DEF NotifyWaiters
  <2> QED BY <1>1, <2>1, Told, Zenon
<1>5. \A r \in Reqs : req'[r].vm = req[r].vm /\ (req'[r].pc = "drop" => req[r].pc = "drop")
  BY <1>1, Told, Zenon
<1>6. app' \in [Apps -> SoundApp] /\ vm' \in [Vms -> VmState] /\ starter' \in [Apps -> Starter]
  BY <1>1, Zenon DEF IInv, TypeOK, Sound
<1> QED BY <1>1, <1>3, <1>4, <1>5, <1>6, TrafficAlone, Zenon

(* A start or wake settles: told too is the request that asked for it. *)
LEMMA StartSettlesInv ==
  ASSUME IInv, NEW x \in Apps, StartSettles(x)
  PROVE  IInv'
<1> DEFINE asked(r) == req[r].app = x /\ req[r].pc = "waking"
           new(r) == IF ~asked(r) THEN NotifyWaiters(req)[r]
                     ELSE IF starter[x].pc = "ok" THEN Again(r) ELSE Answered(r, "unavailable")
<1>1. req' = [r \in Reqs |-> new(r)] /\ starter' = [starter EXCEPT ![x] = NoStarter]
      /\ UNCHANGED <<app, vm, traffic, park, parker>>
  BY Zenon DEF StartSettles
<1>2. ASSUME NEW r \in Reqs
      PROVE  new(r) \in SoundReq /\ new(r).vm = req[r].vm
             /\ (new(r).pc = "drop" => req[r].pc = "drop")
  <2>1. CASE ~asked(r)
    BY <2>1, Told, Zenon
  <2>2. CASE asked(r)
    <3>1. req[r].pc \in Waits /\ req[r].pc # "new"
      BY <2>2 DEF Waits
    <3> QED BY <2>2, <3>1, LoopTypes, AnsweredType, Zenon
  <2> QED BY <2>1, <2>2
<1> HIDE DEF new
<1>3. req' \in [Reqs -> SoundReq]
  BY <1>1, <1>2, Zenon
<1>4. \A r \in Reqs : req'[r].vm = req[r].vm /\ (req'[r].pc = "drop" => req[r].pc = "drop")
  BY <1>1, <1>2, Zenon
<1>5. starter' \in [Apps -> Starter]
  BY <1>1, Types, Zenon DEF IInv, TypeOK
<1>6. app' \in [Apps -> SoundApp] /\ vm' \in [Vms -> VmState] /\ park' \in [Parks -> Park]
  BY <1>1, Zenon DEF IInv, TypeOK, Sound
<1>7. \A k \in Parks : Held(k)' => Held(k) /\ SameClaim(park'[k], k)
  BY <1>1, Zenon DEF Held, SameClaim
<1> QED BY <1>1, <1>3, <1>4, <1>5, <1>6, <1>7, TrafficAlone, Zenon

(* A start or wake ends with a VM nobody refers to. *)
LEMMA StartOkInv ==
  ASSUME IInv, NEW x \in Apps, NEW v \in Vms, StartOk(x, v)
  PROVE  IInv'
<1> DEFINE e == [app[x] EXCEPT !.st = "running", !.vm = v]
           n == [st |-> "live", addr |-> app[x].addr, app |-> x]
           s == [starter[x] EXCEPT !.pc = "ok"]
<1>1. /\ Unlocked /\ app' = [app EXCEPT ![x] = e] /\ vm' = [vm EXCEPT ![v] = n]
      /\ traffic' = [traffic EXCEPT ![v] = NewTraffic] /\ starter' = [starter EXCEPT ![x] = s]
      /\ UNCHANGED <<req, park, parker>>
  BY Zenon DEF StartOk
<1>2. (\A r \in Reqs : req[r].vm # v) /\ (\A k \in Parks : park[k].claim # v)
  BY DEF StartOk, FreshVm
<1>3. app[x] \in AppState /\ starter[x] \in Starter
  BY Zenon DEF IInv, TypeOK
<1>4. e \in AppState /\ e.vm = v /\ e.st = "running" /\ n \in VmState /\ s \in Starter
  BY <1>3, Zenon DEF AppState, VmState, Starter
<1>5. v # NoVm
  BY VmsAssumption, Zenon
<1> HIDE DEF e, n, s
<1>6. e \in SoundApp
  BY <1>4, <1>5, Zenon DEF SoundApp
<1>7. app' \in [Apps -> SoundApp] /\ app' \in [Apps -> AppState]
  BY <1>1, <1>4, <1>6, Zenon DEF IInv, Sound, TypeOK
<1>8. vm' \in [Vms -> VmState] /\ starter' \in [Apps -> Starter]
  BY <1>1, <1>4, Zenon DEF IInv, TypeOK
<1>9. /\ traffic' \in [Vms -> Traffic] /\ traffic'[v] = NewTraffic
      /\ \A w \in Vms \ {v} : traffic'[w] = traffic[w]
  BY <1>1, TrafficType, TrafficSet, Zenon
<1>10. TypeOK' /\ Sound'
  BY <1>1, <1>7, <1>8, <1>9, Zenon DEF IInv, TypeOK, Sound
<1>11. Counts'
  <2> SUFFICES ASSUME NEW w \in Vms PROVE traffic'[w].inFlight = Cardinality(Leased(w)')
    BY Zenon DEF Counts
  <2>1. Leased(w)' = Leased(w)
    BY <1>1, Zenon DEF Leased
  <2>2. CASE w = v
    <3>1. Leased(v) = {}
      BY <1>2 DEF Leased
    <3> QED BY <1>9, <2>1, <2>2, <3>1, TrafficType, FS_EmptySet, Zenon
  <2>3. CASE w # v
    BY <1>9, <2>1, <2>3, Zenon DEF IInv, Counts
  <2> QED BY <2>2, <2>3
<1>12. Claims'
  <2>1. \A k \in Parks : Held(k)' <=> Held(k)
    BY <1>1, Zenon DEF Held
  <2>2. ASSUME NEW k \in Parks, Held(k)
        PROVE  traffic'[park[k].claim].parking = TRUE
    <3>1. park[k].claim \in Vms \ {v} /\ traffic[park[k].claim].parking = TRUE
      BY <1>2, <2>2, Zenon DEF IInv, Claims
    <3> QED BY <1>9, <3>1, Zenon
  <2> QED BY <1>1, <2>1, <2>2, Zenon DEF IInv, Claims
<1>13. Looked'
  BY <1>1, Types, Zenon DEF Unlocked, Looked
<1>14. Spared'
  BY <1>1, Zenon DEF IInv, Spared, Held
<1>15. LastFirst'
  <2>1. ASSUME NEW r \in Reqs, req[r].pc = "drop"
        PROVE  traffic'[req[r].vm].recent = TRUE
    <3>1. req[r].vm \in Vms \ {v} /\ traffic[req[r].vm].recent = TRUE
      BY <1>2, <2>1, LeaseOf, Zenon
    <3> QED BY <1>9, <3>1, Zenon
  <2>2. ASSUME NEW w \in Vms, traffic'[w].finished = TRUE
        PROVE  traffic'[w].recent = TRUE
    BY <1>9, <2>2, TrafficType, Zenon DEF IInv, LastFirst
  <2> QED BY <1>1, <2>1, <2>2, Zenon DEF LastFirst
<1> QED BY <1>10, <1>11, <1>12, <1>13, <1>14, <1>15, Zenon DEF IInv

(* A start or wake fails, or the operator runs an Ended App again. *)
LEMMA StartFailsInv ==
  ASSUME IInv, NEW x \in Apps, StartFails(x) \/ Rerun(x)
  PROVE  IInv'
<1>1. req' \in [Reqs -> SoundReq] /\ vm' \in [Vms -> VmState] /\ park' \in [Parks -> Park]
  BY Zenon DEF StartFails, Rerun, IInv, TypeOK, Sound
<1>2. Unlocked /\ UNCHANGED <<req, park, traffic, parker>>
  BY Zenon DEF StartFails, Rerun
<1>3. app' \in [Apps -> SoundApp] /\ starter' \in [Apps -> Starter]
  <2>1. CASE Rerun(x)
    BY <2>1, BeginStartEffect, Zenon DEF Rerun
  <2>2. CASE StartFails(x)
    <3> DEFINE e == [st |-> starter[x].back, vm |-> NoVm, addr |-> NoAddr]
               s == [starter[x] EXCEPT !.pc = "failed"]
    <3>1. app' = [app EXCEPT ![x] = e] /\ starter' = [starter EXCEPT ![x] = s]
      BY <2>2, Zenon DEF StartFails
    <3>2. starter[x] \in Starter
      BY Zenon DEF IInv, TypeOK
    <3>3. s \in Starter /\ starter[x].back \in {"parked", "ended"}
      BY <3>2, Zenon DEF Starter
    <3>4. e \in AppState /\ e.vm = NoVm /\ e.st # "running"
      BY <3>3 DEF AppState
    <3> HIDE DEF e, s
    <3>5. e \in SoundApp
      BY <3>4, Zenon DEF SoundApp
    <3> QED BY <3>1, <3>3, <3>5, Zenon DEF IInv, TypeOK, Sound
  <2> QED BY <2>1, <2>2
<1>4. \A k \in Parks : Held(k)' => Held(k) /\ SameClaim(park'[k], k)
  BY <1>2, Zenon DEF Held, SameClaim
<1>5. \A r \in Reqs : req'[r].vm = req[r].vm /\ (req'[r].pc = "drop" => req[r].pc = "drop")
  BY <1>2, Zenon
<1> QED BY <1>1, <1>2, <1>3, <1>4, <1>5, TrafficAlone, Zenon

(* A VM that nobody is parking is claimed. *)
LEMMA ClaimInv ==
  ASSUME IInv, NEW x \in Apps, NEW idle \in BOOLEAN, Claim(x, idle),
         app[x].vm \in Vms, ~traffic[app[x].vm].parking,
         idle = TRUE => \A r \in Reqs : req[r].vm # app[x].vm,
         parker' \in {parker, Asleep}, UNCHANGED <<app, vm, req, starter>>
  PROVE  IInv'
<1> DEFINE v == app[x].vm
           u == [traffic[v] EXCEPT !.parking = TRUE]
           p == [NoPark EXCEPT !.pc = "claimed", !.app = x, !.claim = v, !.idle = idle]
<1>1. PICK k \in Parks : /\ FreshPark(k) /\ traffic' = [traffic EXCEPT ![v] = u]
                         /\ park' = [park EXCEPT ![k] = p]
  BY Zenon DEF Claim
<1>2. traffic[v] \in Traffic /\ park \in [Parks -> Park]
  BY Zenon DEF IInv, TypeOK
<1>3. u \in Traffic /\ u.inFlight = traffic[v].inFlight /\ u.recent = traffic[v].recent
      /\ u.finished = traffic[v].finished /\ u.parking = TRUE
  BY <1>2, Zenon DEF Traffic
<1>4. p \in Park /\ p.pc = "claimed" /\ p.app = x /\ p.claim = v /\ p.idle = idle
  BY Zenon DEF NoPark, Park
<1> HIDE DEF u, p
<1>5. /\ traffic' \in [Vms -> Traffic] /\ traffic'[v] = u
      /\ \A w \in Vms \ {v} : traffic'[w] = traffic[w]
  BY <1>1, <1>3, TrafficSet, Zenon
<1>6. park' \in [Parks -> Park] /\ park'[k] = p /\ \A l \in Parks \ {k} : park'[l] = park[l]
  BY <1>1, <1>2, <1>4, Zenon
<1>7. \A w \in Vms : /\ traffic'[w].inFlight = traffic[w].inFlight
                     /\ traffic'[w].recent = traffic[w].recent
                     /\ traffic'[w].finished = traffic[w].finished
                     /\ traffic[w].parking = TRUE => traffic'[w].parking = TRUE
  BY <1>3, <1>5, Zenon
<1>8. \A l \in Parks \ {k} : Held(l)' <=> Held(l)
  BY <1>6, Zenon DEF Held
<1>9. \A l \in Parks \ {k} : Held(l) => park[l].claim # v
  BY Zenon DEF IInv, Claims
<1>10. TypeOK' /\ Sound'
  BY <1>5, <1>6, Types, Zenon DEF IInv, TypeOK, Sound
<1>11. Counts'
  <2> SUFFICES ASSUME NEW w \in Vms PROVE traffic'[w].inFlight = Cardinality(Leased(w)')
    BY Zenon DEF Counts
  <2>1. Leased(w)' = Leased(w)
    BY Zenon DEF Leased
  <2>2. traffic[w].inFlight = Cardinality(Leased(w))
    BY Zenon DEF IInv, Counts
  <2> QED BY <1>7, <2>1, <2>2, Zenon
<1>12. Claims'
  <2>1. ASSUME NEW l \in Parks, Held(l)'
        PROVE  park'[l].app \in Apps /\ park'[l].claim \in Vms
               /\ traffic'[park'[l].claim].parking = TRUE
    <3>1. CASE l = k
      BY <1>3, <1>4, <1>5, <1>6, <3>1, Zenon
    <3>2. CASE l # k
      <4>1. Held(l) /\ park'[l] = park[l]
        BY <1>6, <1>8, <2>1, <3>2, Zenon
      <4>2. park[l].app \in Apps /\ park[l].claim \in Vms /\ traffic[park[l].claim].parking = TRUE
        BY <4>1, Zenon DEF IInv, Claims
      <4> QED BY <1>7, <4>1, <4>2, Zenon
    <3> QED BY <3>1, <3>2, Zenon
  <2>2. ASSUME NEW l \in Parks, NEW m \in Parks, Held(l)', Held(m)',
               park'[l].claim = park'[m].claim
        PROVE  l = m
    <3>1. park'[k].claim = v
      BY <1>4, <1>6, Zenon
    <3>2. CASE l # k /\ m # k
      BY <1>6, <1>8, <2>2, <3>2, Zenon DEF IInv, Claims
    <3>3. CASE l = k \/ m = k
      BY <1>6, <1>8, <1>9, <2>2, <3>1, <3>3, Zenon
    <3> QED BY <3>2, <3>3, Zenon
  <2> QED BY <2>1, <2>2, Zenon DEF Claims
<1>13. Looked'
  BY Types, Zenon DEF IInv, Looked
<1>14. Spared'
  <2> SUFFICES ASSUME NEW l \in Parks, Held(l)', park'[l].idle = TRUE, NEW r \in Reqs
               PROVE  req[r].vm # park'[l].claim
    BY Zenon DEF Spared
  <2>1. CASE l = k
    BY <1>4, <1>6, <2>1, Zenon
  <2>2. CASE l # k
    BY <1>6, <1>8, <2>2, Zenon DEF IInv, Spared
  <2> QED BY <2>1, <2>2, Zenon
<1>15. LastFirst'
  <2>1. ASSUME NEW r \in Reqs, req[r].pc = "drop"
        PROVE  traffic'[req[r].vm].recent = TRUE
    BY <1>7, <2>1, LeaseOf, Zenon
  <2> QED BY <1>7, <2>1, Zenon DEF IInv, LastFirst
<1> QED BY <1>10, <1>11, <1>12, <1>13, <1>14, <1>15, Zenon DEF IInv

(* The operator's park claims the VM. *)
LEMMA ParkVmInv ==
  ASSUME IInv, NEW x \in Apps, ParkVm(x)
  PROVE  IInv'
<1>1. app[x].vm \in Vms
  BY AppVm, Zenon DEF ParkVm
<1> QED BY <1>1, ClaimInv, Zenon DEF ParkVm

(* What the idle parker saw still holds when it claims: it has the lock. *)
LEMMA IdleSaw ==
  ASSUME IInv, NEW x \in Apps, parker.app = x
  PROVE  /\ app[x].vm \in Vms
         /\ parker.zero => \A r \in Reqs : req[r].vm # app[x].vm
<1>1. x # NoApp
  BY AppsAssumption
<1>2. app[x].vm # NoVm
  BY <1>1, Zenon DEF IInv, Looked
<1>3. app[x].vm \in Vms
  BY <1>2 DEF IInv, TypeOK, AppState
<1>4. parker.zero \in BOOLEAN
  BY DEF IInv, TypeOK, Parker
<1> QED BY <1>3, <1>4, Zenon DEF IInv, Looked

(* The idle parker's two steps: the look at the count, and the claim. *)
LEMMA IdleInv ==
  ASSUME IInv, NEW x \in Apps, IdleRead(x) \/ IdleClaim(x)
  PROVE  IInv'
<1>1. CASE IdleRead(x)
  <2> DEFINE v == app[x].vm
             z == traffic[v].inFlight = 0
  <2>1. /\ parker' = [app |-> x, zero |-> z] /\ app[x].st = "running"
        /\ UNCHANGED <<app, vm, traffic, req, park, starter>>
    BY <1>1, Zenon DEF IdleRead
  <2>2. v \in Vms /\ v # NoVm
    BY <2>1, AppVm, Zenon
  <2>3. parker'.app = x /\ parker'.zero = z /\ parker' \in Parker
    BY <2>1, Zenon DEF Parker
  <2>4. z => \A r \in Reqs : req[r].vm # v
    <3> SUFFICES ASSUME z PROVE Leased(v) = {}
      BY DEF Leased
    <3>1. IsFiniteSet(Leased(v))
      BY LeasedFinite DEF Leased
    <3>2. Cardinality(Leased(v)) = 0
      BY <2>2, Zenon DEF IInv, Counts
    <3> QED BY <3>1, <3>2, FS_EmptySet, Zenon
  <2>5. x # NoApp
    BY AppsAssumption
  <2> HIDE DEF z
  <2>6. Looked'
    BY <2>1, <2>2, <2>3, <2>4, <2>5, Zenon DEF Looked
  <2>7. TypeOK' /\ Sound' /\ Counts' /\ Claims' /\ Spared' /\ LastFirst'
    BY <2>1, <2>3, Zenon
       DEF IInv, TypeOK, Sound, Counts, Leased, Claims, Held, Spared, LastFirst
  <2> QED BY <2>6, <2>7, Zenon DEF IInv
<1>2. CASE IdleClaim(x)
  <2>1. parker.app = x /\ parker' = Asleep /\ UNCHANGED <<app, vm, req, starter>>
    BY <1>2, Zenon DEF IdleClaim
  <2>2. CASE parker.zero /\ ~traffic[app[x].vm].parking /\ Claim(x, TRUE)
    BY <2>1, <2>2, IdleSaw, ClaimInv, Zenon
  <2>3. CASE UNCHANGED <<traffic, park>>
    <3>1. TypeOK' /\ Sound' /\ Counts' /\ Claims' /\ Spared' /\ LastFirst'
      BY <2>1, <2>3, Types, Zenon
         DEF IInv, TypeOK, Sound, Counts, Leased, Claims, Held, Spared, LastFirst
    <3>2. Looked'
      BY <2>1, Types, Zenon DEF Looked
    <3> QED BY <3>1, <3>2, Zenon DEF IInv
  <2> QED BY <1>2, <2>2, <2>3, Zenon DEF IdleClaim
<1> QED BY <1>1, <1>2

-----------------------------------------------------------------------------
(* At first every App is parked and nothing is under way. *)
LEMMA InitInv == Init => IInv
<1> SUFFICES ASSUME Init PROVE IInv
  OBVIOUS
<1> DEFINE e == [st |-> "parked", vm |-> NoVm, addr |-> NoAddr]
<1>1. e \in AppState /\ e.vm = NoVm /\ e.st # "running"
  BY Zenon DEF AppState
<1>2. e \in SoundApp
  BY <1>1, Zenon DEF SoundApp
<1>3. app = [x \in Apps |-> e]
  BY DEF Init
<1> HIDE DEF e
<1>4. Sound
  BY <1>2, <1>3, Types, Zenon DEF Init, Sound
<1>5. TypeOK
  <2>1. req \in [Reqs -> Req]
    BY <1>4 DEF Sound, SoundReq
  <2> QED BY <1>1, <1>3, <2>1, Types, TrafficType, Zenon DEF Init, TypeOK
<1>6. Counts
  <2> SUFFICES ASSUME NEW v \in Vms PROVE traffic[v].inFlight = Cardinality(Leased(v))
    BY Zenon DEF Counts
  <2>1. v # NoVm
    BY VmsAssumption, Zenon
  <2>2. \A r \in Reqs : req[r].vm = NoVm
    BY Types, Zenon DEF Init
  <2>3. Leased(v) = {}
    BY <2>1, <2>2 DEF Leased
  <2>4. traffic[v].inFlight = 0
    BY TrafficType, Zenon DEF Init
  <2> QED BY <2>3, <2>4, FS_EmptySet, Zenon
<1>7. \A k \in Parks : ~Held(k)
  BY Types DEF Init, Held
<1>8. Claims /\ Spared
  BY <1>7, Zenon DEF Claims, Spared
<1>9. Looked
  BY Types, Zenon DEF Init, Looked
<1>10. LastFirst
  <2>1. \A r \in Reqs : req[r].pc # "drop"
    BY Types DEF Init
  <2>2. \A v \in Vms : traffic[v].recent = TRUE
    BY TrafficType, Zenon DEF Init
  <2> QED BY <2>1, <2>2, Zenon DEF LastFirst
<1> QED BY <1>4, <1>5, <1>6, <1>8, <1>9, <1>10, Zenon DEF IInv

(* Every step of requests, starts, parks and VMs keeps all of it. *)
LEMMA NextInv == IInv /\ [Next]_vars => IInv'
<1> SUFFICES ASSUME IInv, [Next]_vars PROVE IInv'
  OBVIOUS
<1>1. ASSUME NEW r \in Reqs, ReqGoesOn(r) \/ Timeout(r) \/ \E x \in Apps : Arrive(r, x)
      PROVE  IInv'
  BY <1>1, LookInv, CallWakeInv, ResumeInv, ProxyInv, DropCountInv, TimeoutInv, ArriveInv, Zenon
     DEF ReqGoesOn
<1>2. ASSUME NEW x \in Apps,
             StartGoesOn(x) \/ Rerun(x) \/ ParkVm(x) \/ IdleRead(x) \/ IdleClaim(x)
      PROVE  IInv'
  BY <1>2, StartOkInv, StartFailsInv, StartSettlesInv, ParkVmInv, IdleInv, Zenon DEF StartGoesOn
<1>3. ASSUME NEW k \in Parks, ParkGoesOn(k)
      PROVE  IInv'
  BY <1>3, ParkStepsInv, KillsInv, SupParkedInv, ReleaseClaimInv, ParkSettlesInv,
     IdleBackoffInv, Zenon DEF ParkGoesOn
<1>4. ASSUME NEW v \in Vms, VmEnds(v) \/ RecordEnd(v) \/ IdleTimePasses(v)
      PROVE  IInv'
  BY <1>4, KillsInv, RecordEndInv, IdleTimeInv, Zenon
<1>5. CASE UNCHANGED vars
  BY <1>5, Zenon
     DEF vars, IInv, TypeOK, Sound, Counts, Leased, Claims, Held, Looked, Spared, LastFirst
<1> QED BY <1>1, <1>2, <1>3, <1>4, <1>5, Zenon DEF Next

(* The inductive invariant, whatever may fail. *)
THEOREM Inductive == Spec => []IInv
BY InitInv, NextInv, PTL DEF Spec

(* CountsRequests holds for any requests, Apps and VMs: every lease that     *)
(* resolve hands out is taken back once, from the VM it was given for.       *)
THEOREM CountExact == Spec => []CountsRequests
<1>1. IInv => CountsRequests
  BY Zenon DEF IInv, Counts, Leased, CountsRequests
<1> QED BY <1>1, Inductive, PTL

(* IdleClaimSparesRequests holds: park_idle_apps never parks a VM under a    *)
(* request, whatever happens between its look and the park.                  *)
THEOREM IdleSpares == Spec => []IdleClaimSparesRequests
<1>1. IInv => IdleClaimSparesRequests
  <2> SUFFICES ASSUME IInv, NEW k \in Parks, park[k].idle, park[k].pc = "paused",
                      park[k].target = park[k].claim, NEW r \in Reqs
               PROVE  req[r].vm # park[k].target
    BY Zenon DEF IdleClaimSparesRequests
  <2>1. Held(k) /\ park[k].idle \in BOOLEAN
    BY DEF Held, IInv, TypeOK, Park
  <2> QED BY <2>1, Zenon DEF IInv, Spared
<1> QED BY <1>1, Inductive, PTL

(* Only a claim makes a park task begin. *)
LEMMA Begins ==
  ASSUME IInv, Next, NEW k \in Parks, park[k].pc = "none", park'[k].pc = "claimed"
  PROVE  \E x \in Apps : \/ ParkVm(x) /\ Claim(x, FALSE)
                         \/ IdleClaim(x) /\ Claim(x, TRUE) /\ parker.zero /\ ~traffic[app[x].vm].recent
<1> SUFFICES ASSUME ~\E x \in Apps :
                      \/ ParkVm(x) /\ Claim(x, FALSE)
                      \/ /\ IdleClaim(x) /\ Claim(x, TRUE)
                         /\ parker.zero /\ ~traffic[app[x].vm].recent
             PROVE  FALSE
  BY Zenon
<1>1. park' # park
  OBVIOUS
<1>2. ASSUME NEW l \in Parks, NEW p, park' = [park EXCEPT ![l] = p], park[l].pc # "none"
      PROVE  FALSE
  <2>1. park'[k] = park[k]
    BY <1>2, Zenon DEF IInv, TypeOK
  <2> QED BY <2>1
<1>3. ASSUME NEW l \in Parks, ParkGoesOn(l)
      PROVE  FALSE
  <2>1. CASE SupKilled(l)
    BY <1>1, <2>1, Zenon DEF SupKilled
  <2>2. CASE ParkSend(l)
    BY <1>2, <2>2 DEF ParkSend
  <2>3. CASE SupPause(l) \/ SupResumed(l) \/ SupLost(l) \/ ParkUnheard(l)
    BY <1>2, <2>3 DEF SupPause, SupResumed, SupLost, ParkUnheard
  <2>4. CASE SupParked(l) \/ ReleaseClaim(l)
    BY <1>2, <2>4 DEF SupParked, ReleaseClaim
  <2>5. CASE ParkSettles(l) \/ IdleBackoff(l)
    BY <1>2, <2>5 DEF ParkSettles, IdleBackoff
  <2> QED BY <1>3, <2>1, <2>2, <2>3, <2>4, <2>5, Zenon DEF ParkGoesOn
<1>4. ASSUME NEW x \in Apps, ParkVm(x) \/ IdleRead(x) \/ IdleClaim(x)
      PROVE  FALSE
  BY <1>1, <1>4, Zenon DEF ParkVm, IdleRead, IdleClaim
<1>5. ASSUME NEW x \in Apps, StartGoesOn(x) \/ Rerun(x)
      PROVE  FALSE
  BY <1>1, <1>5, Zenon DEF StartGoesOn, StartOk, StartFails, StartSettles, Rerun
<1>6. ASSUME NEW r \in Reqs, ReqGoesOn(r) \/ Timeout(r) \/ \E x \in Apps : Arrive(r, x)
      PROVE  FALSE
  BY <1>1, <1>6, Zenon
     DEF ReqGoesOn, Look, CallWake, Resume, Proxy, DropCount, Timeout, Arrive
<1>7. ASSUME NEW v \in Vms, VmEnds(v) \/ RecordEnd(v) \/ IdleTimePasses(v)
      PROVE  FALSE
  BY <1>1, <1>7, Zenon DEF VmEnds, RecordEnd, IdleTimePasses
<1> QED BY <1>3, <1>4, <1>5, <1>6, <1>7, Zenon DEF Next

(* The park task that begins has claimed the App's VM. *)
LEMMA ClaimedBy ==
  ASSUME IInv, NEW x \in Apps, NEW idle \in BOOLEAN, Claim(x, idle),
         NEW k \in Parks, park[k].pc = "none", park'[k].pc = "claimed"
  PROVE  park'[k].claim = app[x].vm /\ park'[k].idle = idle
<1> DEFINE p == [NoPark EXCEPT !.pc = "claimed", !.app = x, !.claim = app[x].vm, !.idle = idle]
<1>1. PICK l \in Parks : park' = [park EXCEPT ![l] = p]
  BY Zenon DEF Claim
<1>2. p.claim = app[x].vm /\ p.idle = idle
  BY Zenon DEF NoPark
<1> HIDE DEF p
<1>3. park \in [Parks -> Park]
  BY Zenon DEF IInv, TypeOK
<1>4. l = k
  BY <1>1, <1>3
<1>5. park'[k] = p
  BY <1>1, <1>3, <1>4, Zenon
<1> QED BY <1>2, <1>5, Zenon

(* IdleClaimIsDue holds: idle_for reads the count before `last`, and a       *)
(* request that is dropped sets `last` before the count goes down, so the    *)
(* idle parker never sees one without the other.                             *)
THEOREM IdleDue == Spec => IdleClaimIsDue
<1> DEFINE Due == \A k \in Parks : park[k].pc = "none" /\ park'[k].pc = "claimed" /\ park'[k].idle =>
                    LET t == traffic[park'[k].claim] IN t.inFlight = 0 /\ ~t.finished
<1>1. IInv /\ [Next]_vars => [Due]_vars
  <2> SUFFICES ASSUME IInv, Next, NEW k \in Parks, park[k].pc = "none",
                      park'[k].pc = "claimed", park'[k].idle
               PROVE  traffic[park'[k].claim].inFlight = 0 /\ ~traffic[park'[k].claim].finished
    BY Zenon
  <2>1. PICK x \in Apps : \/ ParkVm(x) /\ Claim(x, FALSE)
                          \/ /\ IdleClaim(x) /\ Claim(x, TRUE)
                             /\ parker.zero /\ ~traffic[app[x].vm].recent
    BY Begins, Zenon
  <2>2. ~Claim(x, FALSE)
    BY ClaimedBy, Zenon
  <2>3. parker.app = x /\ parker.zero /\ ~traffic[app[x].vm].recent /\ park'[k].claim = app[x].vm
    BY <2>1, <2>2, ClaimedBy, Zenon DEF IdleClaim
  <2> DEFINE v == app[x].vm
  <2>4. v \in Vms /\ \A r \in Reqs : req[r].vm # v
    BY <2>3, IdleSaw, Zenon
  <2>5. Leased(v) = {}
    BY <2>4 DEF Leased
  <2>6. traffic[v].inFlight = 0
    BY <2>4, <2>5, FS_EmptySet, Zenon DEF IInv, Counts
  <2>7. traffic[v].finished \in BOOLEAN
    BY <2>4 DEF IInv, TypeOK, Traffic
  <2>8. ~traffic[v].finished
    BY <2>3, <2>4, <2>7, Zenon DEF IInv, LastFirst
  <2> QED BY <2>3, <2>6, <2>8, Zenon
<1> QED BY <1>1, Inductive, PTL DEF Spec, IdleClaimIsDue

-----------------------------------------------------------------------------
(* While only parks end VMs: the VM of an App is its own and is there; a     *)
(* park goes on with the VM that it has claimed, which stays its App's until *)
(* the end is recorded; and a VM is paused or killed by a park only.         *)
Parking(k) == park[k].pc \in {"claimed", "sent", "paused"}

OwnVm ==
  \A x \in Apps : app[x].vm # NoVm => vm[app[x].vm].app = x /\ vm[app[x].vm].st # "gone"

ClaimKept ==
  \A k \in Parks : Parking(k) =>
    /\ app[park[k].app].vm = park[k].claim
    /\ park[k].pc # "claimed" => park[k].target = park[k].claim

DownInPark == \A v \in Vms : vm[v].st \in {"paused", "killed"} => InPark(v)

BegunStarting == \A x \in Apps : starter[x].pc = "begun" => app[x].st = "starting"

LiveInv == OwnVm /\ ClaimKept /\ DownInPark /\ BegunStarting

(* What a park that goes on has claimed. *)
LEMMA ParkingClaim ==
  ASSUME IInv, LiveInv, NEW k \in Parks, Parking(k)
  PROVE  /\ park[k].app \in Apps /\ park[k].claim \in Vms /\ park[k].claim # NoVm
         /\ app[park[k].app].vm = park[k].claim
         /\ \A l \in Parks : Parking(l) /\ park[l].claim = park[k].claim => l = k
<1>1. \A l \in Parks : Parking(l) => Held(l)
  BY Zenon DEF Parking, Held
<1>2. /\ park[k].app \in Apps /\ park[k].claim \in Vms
      /\ \A l \in Parks : Parking(l) /\ park[l].claim = park[k].claim => l = k
  BY <1>1, Zenon DEF IInv, Claims
<1>3. app[park[k].app].vm = park[k].claim
  BY Zenon DEF LiveInv, ClaimKept
<1>4. park[k].claim # NoVm
  BY <1>2, VmsAssumption, Zenon
<1> QED BY <1>2, <1>3, <1>4, Zenon

(* A park that has stopped its VM has stopped the VM of its own App. *)
LEMMA PausedVm ==
  ASSUME IInv, LiveInv, NEW k \in Parks, park[k].pc \in {"sent", "paused"}
  PROVE  /\ park[k].target \in Vms /\ park[k].app \in Apps
         /\ app[park[k].app].vm = park[k].target /\ vm[park[k].target].app = park[k].app
         /\ vm[park[k].target].st # "gone"
         /\ \A l \in Parks : park[l].pc = "paused" /\ park[l].target = park[k].target => l = k
         /\ \A l \in Parks : Parking(l) /\ park[l].app = park[k].app => l = k
<1>1. Parking(k) /\ park[k].pc # "claimed"
  BY DEF Parking
<1>2. park[k].target = park[k].claim
  BY <1>1, Zenon DEF LiveInv, ClaimKept
<1>3. /\ park[k].app \in Apps /\ park[k].claim \in Vms
      /\ app[park[k].app].vm = park[k].claim
      /\ \A l \in Parks : Parking(l) /\ park[l].claim = park[k].claim => l = k
  BY <1>1, ParkingClaim, Zenon
<1>4. park[k].claim # NoVm
  BY <1>1, ParkingClaim, Zenon
<1>5. vm[park[k].target].app = park[k].app /\ vm[park[k].target].st # "gone"
  BY <1>2, <1>3, <1>4, Zenon DEF LiveInv, OwnVm
<1>6. \A l \in Parks : park[l].pc = "paused" => Parking(l) /\ park[l].target = park[l].claim
  BY Zenon DEF Parking, LiveInv, ClaimKept
<1>7. \A l \in Parks : Parking(l) => app[park[l].app].vm = park[l].claim
  BY Zenon DEF LiveInv, ClaimKept
<1>8. \A l \in Parks : Parking(l) /\ park[l].app = park[k].app => l = k
  BY <1>3, <1>7, Zenon
<1> QED BY <1>2, <1>3, <1>5, <1>6, <1>8, Zenon

(* Requests, the passing of time and the idle parker's look: Apps, VMs,      *)
(* parks and starts stay what they are.                                      *)
LEMMA LiveFrame ==
  ASSUME LiveInv, UNCHANGED <<app, vm, park, starter>>
  PROVE  LiveInv'
BY Zenon DEF LiveInv, OwnVm, ClaimKept, Parking, DownInPark, InPark, BegunStarting

(* An App without a VM gets none: a start begins, or fails. *)
LEMMA LiveNoVm ==
  ASSUME IInv, LiveInv, NEW x \in Apps, app[x].vm = NoVm, app'[x].vm = NoVm,
         \A y \in Apps \ {x} : app'[y] = app[y] /\ starter'[y] = starter[y],
         starter'[x].pc = "begun" => app'[x].st = "starting", UNCHANGED <<vm, park>>
  PROVE  LiveInv'
<1>1. OwnVm' /\ DownInPark'
  BY Zenon DEF LiveInv, OwnVm, DownInPark, InPark
<1>2. BegunStarting'
  BY Zenon DEF LiveInv, BegunStarting
<1>3. ASSUME NEW k \in Parks, Parking(k)
      PROVE  app'[park[k].app].vm = park[k].claim
  <2>1. park[k].app \in Apps /\ app[park[k].app].vm = park[k].claim /\ park[k].claim # NoVm
    BY <1>3, ParkingClaim, Zenon
  <2>2. park[k].app # x
    BY <2>1, Zenon
  <2> QED BY <2>1, <2>2, Zenon
<1>4. ClaimKept'
  BY <1>3, Zenon DEF LiveInv, ClaimKept, Parking
<1> QED BY <1>1, <1>2, <1>4, Zenon DEF LiveInv

(* A start or wake begins. *)
LEMMA BeginStartLive ==
  ASSUME IInv, LiveInv, NEW x \in Apps, NEW back, BeginStart(x, back), app[x].st # "running",
         UNCHANGED <<vm, park>>
  PROVE  LiveInv'
<1> PICK a \in Addrs : /\ app' = [app EXCEPT ![x] = [st |-> "starting", vm |-> NoVm, addr |-> a]]
                       /\ starter' = [starter EXCEPT ![x] = [pc |-> "begun", back |-> back]]
  BY Zenon DEF BeginStart
<1>1. app \in [Apps -> SoundApp] /\ starter \in [Apps -> Starter]
  BY Zenon DEF IInv, Sound, TypeOK
<1>2. app[x].vm = NoVm
  BY <1>1 DEF SoundApp
<1>3. app'[x].st = "starting" /\ app'[x].vm = NoVm
      /\ \A y \in Apps \ {x} : app'[y] = app[y] /\ starter'[y] = starter[y]
  BY <1>1
<1> QED BY <1>2, <1>3, LiveNoVm, Zenon

(* A start or wake settles: nothing waits for it any more. *)
LEMMA StartSettlesLive ==
  ASSUME IInv, LiveInv, NEW x \in Apps, StartSettles(x)
  PROVE  LiveInv'
<1>1. UNCHANGED <<app, vm, park>> /\ starter' = [starter EXCEPT ![x] = NoStarter]
  BY Zenon DEF StartSettles
<1>2. NoStarter.pc # "begun"
  BY DEF NoStarter
<1>3. starter \in [Apps -> Starter]
  BY DEF IInv, TypeOK
<1>4. BegunStarting'
  BY <1>1, <1>2, <1>3, Zenon DEF LiveInv, BegunStarting
<1> QED BY <1>1, <1>4, Zenon DEF LiveInv, OwnVm, ClaimKept, Parking, DownInPark, InPark

(* A start or wake fails: the App has no VM, as before. *)
LEMMA StartFailsLive ==
  ASSUME IInv, LiveInv, NEW x \in Apps, StartFails(x)
  PROVE  LiveInv'
<1> DEFINE e == [st |-> starter[x].back, vm |-> NoVm, addr |-> NoAddr]
<1>1. /\ starter[x].pc = "begun" /\ app' = [app EXCEPT ![x] = e]
      /\ starter' = [starter EXCEPT ![x] = [starter[x] EXCEPT !.pc = "failed"]]
      /\ UNCHANGED <<vm, park>>
  BY Zenon DEF StartFails
<1>2. app \in [Apps -> SoundApp] /\ starter \in [Apps -> Starter]
  BY Zenon DEF IInv, Sound, TypeOK
<1>3. app[x].st = "starting"
  BY <1>1, Zenon DEF LiveInv, BegunStarting
<1>4. app[x].vm = NoVm
  BY <1>2, <1>3 DEF SoundApp
<1>5. app'[x].vm = NoVm /\ \A y \in Apps \ {x} : app'[y] = app[y] /\ starter'[y] = starter[y]
  BY <1>1, <1>2
<1>6. [starter[x] EXCEPT !.pc = "failed"].pc = "failed"
  BY <1>2 DEF Starter
<1>7. starter'[x].pc # "begun"
  BY <1>1, <1>2, <1>6
<1> QED BY <1>1, <1>4, <1>5, <1>7, LiveNoVm, Zenon

(* A start or wake ends with a VM that is no other App's. *)
LEMMA StartOkLive ==
  ASSUME IInv, LiveInv, NEW x \in Apps, NEW v \in Vms, StartOk(x, v)
  PROVE  LiveInv'
<1> DEFINE e == [app[x] EXCEPT !.st = "running", !.vm = v]
           n == [st |-> "live", addr |-> app[x].addr, app |-> x]
           s == [starter[x] EXCEPT !.pc = "ok"]
<1>1. /\ starter[x].pc = "begun" /\ app' = [app EXCEPT ![x] = e] /\ vm' = [vm EXCEPT ![v] = n]
      /\ starter' = [starter EXCEPT ![x] = s] /\ UNCHANGED park
  BY Zenon DEF StartOk
<1>2. \A y \in Apps : app[y].vm # v
  BY DEF StartOk, FreshVm
<1>3. /\ app \in [Apps -> SoundApp] /\ starter \in [Apps -> Starter] /\ vm \in [Vms -> VmState]
      /\ app[x] \in AppState /\ starter[x] \in Starter
  BY Zenon DEF IInv, Sound, TypeOK
<1>4. e.vm = v /\ s.pc = "ok" /\ n.st = "live" /\ n.app = x
  BY <1>3, Zenon DEF AppState, Starter
<1> HIDE DEF e, n, s
<1>5. /\ app'[x].vm = v /\ vm'[v].st = "live" /\ vm'[v].app = x /\ starter'[x].pc = "ok"
      /\ \A y \in Apps \ {x} : app'[y] = app[y] /\ starter'[y] = starter[y]
      /\ \A w \in Vms \ {v} : vm'[w] = vm[w]
  BY <1>1, <1>3, <1>4, Zenon
<1>6. app[x].vm = NoVm
  <2>1. app[x].st = "starting"
    BY <1>1, Zenon DEF LiveInv, BegunStarting
  <2> QED BY <1>3, <2>1 DEF SoundApp
<1>7. OwnVm'
  <2> SUFFICES ASSUME NEW y \in Apps, app'[y].vm # NoVm
               PROVE  vm'[app'[y].vm].app = y /\ vm'[app'[y].vm].st # "gone"
    BY Zenon DEF OwnVm
  <2>1. CASE y = x
    BY <1>5, <2>1
  <2>2. CASE y # x
    <3>1. app'[y] = app[y] /\ app[y].vm # v
      BY <1>2, <1>5, <2>2, Zenon
    <3>2. app[y].vm \in Vms
      BY <1>3, <3>1 DEF SoundApp, AppState
    <3>3. vm[app[y].vm].app = y /\ vm[app[y].vm].st # "gone"
      BY <3>1, Zenon DEF LiveInv, OwnVm
    <3>4. vm'[app[y].vm] = vm[app[y].vm]
      BY <1>5, <3>1, <3>2, Zenon
    <3> QED BY <3>1, <3>3, <3>4, Zenon
  <2> QED BY <2>1, <2>2
<1>8. ASSUME NEW k \in Parks, Parking(k)
      PROVE  app'[park[k].app].vm = park[k].claim
  <2>1. park[k].app \in Apps /\ app[park[k].app].vm = park[k].claim /\ park[k].claim # NoVm
    BY <1>8, ParkingClaim, Zenon
  <2>2. park[k].app # x
    BY <1>6, <2>1, Zenon
  <2> QED BY <1>5, <2>1, <2>2, Zenon
<1>9. ClaimKept'
  BY <1>1, <1>8, Zenon DEF LiveInv, ClaimKept, Parking
<1>10. DownInPark'
  <2> SUFFICES ASSUME NEW w \in Vms, vm'[w].st \in {"paused", "killed"}
               PROVE  InPark(w)
    BY <1>1, Zenon DEF DownInPark, InPark
  <2>1. w # v
    BY <1>5, Zenon
  <2> QED BY <1>5, <2>1, Zenon DEF LiveInv, DownInPark
<1>11. BegunStarting'
  BY <1>5, Zenon DEF LiveInv, BegunStarting
<1> QED BY <1>7, <1>9, <1>10, <1>11, Zenon DEF LiveInv

(* A park task ends, or moves on without having stopped a VM. *)
LEMMA ParkLeaves ==
  ASSUME IInv, LiveInv, NEW k \in Parks, NEW p, park' = [park EXCEPT ![k] = p],
         p.pc \notin {"claimed", "sent", "paused"}, park[k].pc # "paused",
         UNCHANGED <<app, vm, starter>>
  PROVE  LiveInv'
<1>1. park'[k] = p /\ \A l \in Parks \ {k} : park'[l] = park[l]
  BY Zenon DEF IInv, TypeOK
<1>2. ClaimKept'
  BY <1>1, Zenon DEF LiveInv, ClaimKept, Parking
<1>3. ASSUME NEW v \in Vms, InPark(v)
      PROVE  InPark(v)'
  BY <1>1, <1>3, Zenon DEF InPark
<1>4. DownInPark'
  BY <1>3, Zenon DEF LiveInv, DownInPark
<1> QED BY <1>2, <1>4, Zenon DEF LiveInv, OwnVm, BegunStarting

(* The ends of a park that stop no VM: nothing to park, nobody to hear of    *)
(* it, the claim given back, the waiting told, the idle time restarted.      *)
LEMMA ParkEndsLive ==
  ASSUME IInv, LiveInv, NEW k \in Parks,
         \/ ParkUnheard(k) \/ ReleaseClaim(k) \/ ParkSettles(k) \/ IdleBackoff(k)
         \/ ParkSend(k) /\ app[park[k].app].st # "running"
  PROVE  LiveInv'
<1>1. park[k] \in Park
  BY Zenon DEF IInv, TypeOK
<1>2. \A c \in {"over", "notify"} : [park[k] EXCEPT !.pc = c].pc = c
  BY <1>1, Zenon DEF Park
<1>3. [park[k] EXCEPT !.pc = "backoff", !.target = NoVm].pc = "backoff" /\ NoPark.pc = "none"
  BY <1>1, Types, Zenon DEF Park
<1>4. CASE ParkUnheard(k) \/ ReleaseClaim(k) \/ (ParkSend(k) /\ app[park[k].app].st # "running")
  <2>1. /\ UNCHANGED <<app, vm, starter>> /\ park[k].pc # "paused"
        /\ \E c \in {"over", "notify"} : park' = [park EXCEPT ![k] = [park[k] EXCEPT !.pc = c]]
    BY <1>4 DEF ParkUnheard, ReleaseClaim, ParkSend
  <2> QED BY <1>2, <2>1, ParkLeaves, Zenon
<1>5. CASE ParkSettles(k) \/ IdleBackoff(k)
  <2>1. /\ UNCHANGED <<app, vm, starter>> /\ park[k].pc # "paused"
        /\ \E p \in {[park[k] EXCEPT !.pc = "backoff", !.target = NoVm], NoPark} :
             park' = [park EXCEPT ![k] = p]
    BY <1>5, Zenon DEF ParkSettles, IdleBackoff
  <2> QED BY <1>3, <2>1, ParkLeaves, Zenon
<1> QED BY <1>4, <1>5, Zenon

(* The Stop::Park goes to the VM that was claimed. *)
LEMMA ParkSendLive ==
  ASSUME IInv, LiveInv, NEW k \in Parks, ParkSend(k), app[park[k].app].st = "running"
  PROVE  LiveInv'
<1> DEFINE p == [park[k] EXCEPT !.pc = "sent", !.target = app[park[k].app].vm]
<1>1. park' = [park EXCEPT ![k] = p] /\ park[k].pc = "claimed" /\ UNCHANGED <<app, vm, starter>>
  BY Zenon DEF ParkSend
<1>2. park[k] \in Park /\ park \in [Parks -> Park]
  BY Zenon DEF IInv, TypeOK
<1>3. /\ p.pc = "sent" /\ p.target = app[park[k].app].vm
      /\ p.claim = park[k].claim /\ p.app = park[k].app
  BY <1>2, Zenon DEF Park
<1> HIDE DEF p
<1>4. park'[k] = p /\ \A l \in Parks \ {k} : park'[l] = park[l]
  BY <1>1, <1>2, Zenon
<1>5. Parking(k)
  BY <1>1, Zenon DEF Parking
<1>6. p.target = p.claim /\ app[p.app].vm = p.claim
  BY <1>3, <1>5, ParkingClaim, Zenon
<1>7. ClaimKept'
  BY <1>1, <1>4, <1>6, Zenon DEF LiveInv, ClaimKept, Parking
<1>8. ASSUME NEW v \in Vms, InPark(v)
      PROVE  InPark(v)'
  BY <1>1, <1>4, <1>8, Zenon DEF InPark
<1>9. DownInPark'
  BY <1>1, <1>8, Zenon DEF LiveInv, DownInPark
<1> QED BY <1>1, <1>7, <1>9, Zenon DEF LiveInv, OwnVm, BegunStarting

(* The supervisor pauses the VM, resumes it or kills it for its park k; only *)
(* a resumed one is let go.                                                  *)
LEMMA SupMoves ==
  ASSUME IInv, LiveInv, NEW k \in Parks, park[k].pc \in {"sent", "paused"},
         NEW u, u.app = vm[park[k].target].app, u.st # "gone",
         vm' = [vm EXCEPT ![park[k].target] = u],
         park'[k].pc \in {"paused", "over"}, park'[k].pc = "paused" \/ u.st = "live",
         park'[k].app = park[k].app, park'[k].claim = park[k].claim,
         park'[k].target = park[k].target, \A l \in Parks \ {k} : park'[l] = park[l],
         UNCHANGED <<app, starter>>
  PROVE  LiveInv'
<1> DEFINE w == park[k].target
<1>1. /\ w \in Vms /\ vm \in [Vms -> VmState]
      /\ \A l \in Parks : park[l].pc = "paused" /\ park[l].target = w => l = k
  BY PausedVm, Zenon DEF IInv, TypeOK
<1>2. vm'[w] = u /\ \A v \in Vms \ {w} : vm'[v] = vm[v]
  BY <1>1, Zenon
<1>3. OwnVm'
  <2> SUFFICES ASSUME NEW y \in Apps, app[y].vm # NoVm
               PROVE  vm'[app[y].vm].app = y /\ vm'[app[y].vm].st # "gone"
    BY Zenon DEF OwnVm
  <2>1. vm[app[y].vm].app = y /\ vm[app[y].vm].st # "gone"
    BY Zenon DEF LiveInv, OwnVm
  <2>2. app[y].vm \in Vms
    BY DEF IInv, TypeOK, AppState
  <2> QED BY <1>2, <2>1, <2>2, Zenon
<1>4. ClaimKept'
  <2>1. Parking(k) /\ park[k].pc # "claimed"
    BY DEF Parking
  <2>2. app[park[k].app].vm = park[k].claim /\ park[k].target = park[k].claim
    BY <2>1, Zenon DEF LiveInv, ClaimKept
  <2>3. ASSUME NEW l \in Parks, Parking(l)'
        PROVE  Parking(l) /\ park'[l].app = park[l].app /\ park'[l].claim = park[l].claim
               /\ park'[l].target = park[l].target /\ (park[l].pc = "claimed" => park'[l].pc = "claimed")
    BY <2>1, <2>3, Zenon DEF Parking
  <2> QED BY <2>3, Zenon DEF LiveInv, ClaimKept
<1>5. DownInPark'
  <2> SUFFICES ASSUME NEW v \in Vms, vm'[v].st \in {"paused", "killed"}
               PROVE  InPark(v)'
    BY Zenon DEF DownInPark
  <2>1. CASE v = w
    <3>1. park'[k].pc = "paused"
      BY <1>2, <2>1
    <3> QED BY <2>1, <3>1, Zenon DEF InPark
  <2>2. CASE v # w
    <3>1. InPark(v)
      BY <1>2, <2>2, Zenon DEF LiveInv, DownInPark
    <3> QED BY <2>2, <3>1, Zenon DEF InPark
  <2> QED BY <2>1, <2>2
<1> QED BY <1>3, <1>4, <1>5, Zenon DEF LiveInv, BegunStarting

(* The supervisor's part in a park up to the kill, and the VM's return to    *)
(* its App when the snapshot fails.                                          *)
LEMMA SupStepsLive ==
  ASSUME IInv, LiveInv, NEW k \in Parks, SupPause(k) \/ SupKilled(k) \/ SupResumed(k)
  PROVE  LiveInv'
<1> DEFINE w == park[k].target
<1>1. park[k].pc \in {"sent", "paused"} /\ UNCHANGED <<app, starter>>
  BY DEF SupPause, SupKilled, SupResumed
<1>2. w \in Vms
  BY <1>1, PausedVm, Zenon
<1>3. vm[w] \in VmState /\ park[k] \in Park /\ park \in [Parks -> Park]
  BY <1>2, Zenon DEF IInv, TypeOK
<1>4. \A c \in {"paused", "live"} : LET u == [vm[w] EXCEPT !.st = c] IN
        u.st = c /\ u.app = vm[w].app /\ u.st # "gone"
  BY <1>3 DEF VmState
<1>5. \A c \in {"paused", "over"} : LET p == [park[k] EXCEPT !.pc = c] IN
        p.pc = c /\ p.app = park[k].app /\ p.claim = park[k].claim /\ p.target = w
  BY <1>3, Zenon DEF Park
<1>6. ASSUME NEW p, park' = [park EXCEPT ![k] = p]
      PROVE  park'[k] = p /\ \A l \in Parks \ {k} : park'[l] = park[l]
  BY <1>3, <1>6, Zenon
<1>7. CASE SupKilled(k)
  <2> DEFINE u == [vm[w] EXCEPT !.st = "killed", !.addr = NoAddr]
  <2>1. vm' = [vm EXCEPT ![w] = u] /\ park' = park /\ park[k].pc = "paused"
    BY <1>7, Zenon DEF SupKilled
  <2>2. u.st # "gone" /\ u.app = vm[w].app
    BY <1>3 DEF VmState
  <2> HIDE DEF u
  <2> QED BY <1>1, <2>1, <2>2, SupMoves, Zenon
<1>8. CASE SupPause(k)
  <2> DEFINE u == [vm[w] EXCEPT !.st = "paused"]
             p == [park[k] EXCEPT !.pc = "paused"]
  <2>1. vm' = [vm EXCEPT ![w] = u] /\ park' = [park EXCEPT ![k] = p]
    BY <1>8, Zenon DEF SupPause
  <2>2. u.st # "gone" /\ u.app = vm[w].app
    BY <1>4, Zenon
  <2>3. p.pc = "paused" /\ p.app = park[k].app /\ p.claim = park[k].claim /\ p.target = w
    BY <1>5, Zenon
  <2> HIDE DEF u, p
  <2>4. park'[k] = p /\ \A l \in Parks \ {k} : park'[l] = park[l]
    BY <1>6, <2>1, Zenon
  <2>5. /\ park'[k].pc = "paused" /\ park'[k].app = park[k].app
        /\ park'[k].claim = park[k].claim /\ park'[k].target = w
    BY <2>3, <2>4, Zenon
  <2> QED BY <1>1, <2>1, <2>2, <2>4, <2>5, SupMoves, Zenon
<1>9. CASE SupResumed(k)
  <2> DEFINE u == [vm[w] EXCEPT !.st = "live"]
             p == [park[k] EXCEPT !.pc = "over"]
  <2>1. vm' = [vm EXCEPT ![w] = u] /\ park' = [park EXCEPT ![k] = p]
    BY <1>9, Zenon DEF SupResumed
  <2>2. u.st # "gone" /\ u.app = vm[w].app /\ u.st = "live"
    BY <1>4, Zenon
  <2>3. p.pc = "over" /\ p.app = park[k].app /\ p.claim = park[k].claim /\ p.target = w
    BY <1>5, Zenon
  <2> HIDE DEF u, p
  <2>4. park'[k] = p /\ \A l \in Parks \ {k} : park'[l] = park[l]
    BY <1>6, <2>1, Zenon
  <2>5. /\ park'[k].pc = "over" /\ park'[k].app = park[k].app
        /\ park'[k].claim = park[k].claim /\ park'[k].target = w
    BY <2>3, <2>4, Zenon
  <2> QED BY <1>1, <2>1, <2>2, <2>4, <2>5, SupMoves, Zenon
<1> QED BY <1>7, <1>8, <1>9, Zenon

(* A park is recorded: its App's VM goes with it, and nobody else's. *)
LEMMA SupParkedLive ==
  ASSUME IInv, LiveInv, NEW k \in Parks, SupParked(k)
  PROVE  LiveInv'
<1> DEFINE w == park[k].target
           x == park[k].app
           e == [st |-> "parked", vm |-> NoVm, addr |-> NoAddr]
           p == [park[k] EXCEPT !.pc = "over", !.ok = TRUE]
<1>1. /\ park[k].pc = "paused" /\ app' = [app EXCEPT ![x] = e] /\ vm' = [vm EXCEPT ![w] = Gone]
      /\ park' = [park EXCEPT ![k] = p] /\ UNCHANGED starter
  BY Zenon DEF SupParked, Record
<1>2. park[k].pc \in {"sent", "paused"}
  BY <1>1, Zenon
<1>3. /\ w \in Vms /\ x \in Apps /\ app[x].vm = w /\ vm[w].app = x
      /\ \A l \in Parks : park[l].pc = "paused" /\ park[l].target = w => l = k
      /\ \A l \in Parks : Parking(l) /\ park[l].app = x => l = k
  BY <1>2, PausedVm, Zenon
<1>4. /\ app \in [Apps -> SoundApp] /\ vm \in [Vms -> VmState]
      /\ park \in [Parks -> Park] /\ park[k] \in Park
  BY Zenon DEF IInv, TypeOK, Sound
<1>5. p.pc = "over" /\ e.vm = NoVm
  BY <1>4, Zenon DEF Park
<1> HIDE DEF p, e
<1>6. /\ app'[x].vm = NoVm /\ \A y \in Apps \ {x} : app'[y] = app[y]
      /\ park'[k].pc = "over" /\ \A l \in Parks \ {k} : park'[l] = park[l]
  BY <1>1, <1>3, <1>4, <1>5, Zenon
<1>7. vm'[w].st = "gone" /\ \A v \in Vms \ {w} : vm'[v] = vm[v]
  BY <1>1, <1>3, <1>4, Types, Zenon
<1>8. OwnVm'
  <2> SUFFICES ASSUME NEW y \in Apps, app'[y].vm # NoVm
               PROVE  vm'[app'[y].vm].app = y /\ vm'[app'[y].vm].st # "gone"
    BY Zenon DEF OwnVm
  <2>1. y # x /\ app'[y] = app[y]
    BY <1>6, Zenon
  <2>2. vm[app[y].vm].app = y /\ vm[app[y].vm].st # "gone"
    BY <2>1, Zenon DEF LiveInv, OwnVm
  <2>3. app[y].vm \in Vms /\ app[y].vm # w
    <3>1. app[y].vm # w
      BY <1>3, <2>1, <2>2, Zenon
    <3>2. app[y].vm \in Vms
      BY <1>4, <2>1 DEF SoundApp, AppState
    <3> QED BY <3>1, <3>2
  <2>4. vm'[app[y].vm] = vm[app[y].vm]
    BY <1>7, <2>3, Zenon
  <2> QED BY <2>1, <2>2, <2>4, Zenon
<1>9. ClaimKept'
  <2> SUFFICES ASSUME NEW l \in Parks, Parking(l)'
               PROVE  /\ app'[park'[l].app].vm = park'[l].claim
                      /\ park'[l].pc # "claimed" => park'[l].target = park'[l].claim
    BY Zenon DEF ClaimKept
  <2>1. ~Parking(k)'
    BY <1>6 DEF Parking
  <2>2. l # k /\ park'[l] = park[l]
    BY <1>6, <2>1, Zenon
  <2>3. Parking(l)
    BY <2>2, Zenon DEF Parking
  <2>4. park[l].app \in Apps /\ park[l].app # x
    BY <1>3, <2>2, <2>3, ParkingClaim, Zenon
  <2>5. app'[park[l].app] = app[park[l].app]
    BY <1>6, <2>4, Zenon
  <2> QED BY <2>2, <2>3, <2>5, Zenon DEF LiveInv, ClaimKept
<1>10. DownInPark'
  <2> SUFFICES ASSUME NEW v \in Vms, vm'[v].st \in {"paused", "killed"}
               PROVE  InPark(v)'
    BY Zenon DEF DownInPark
  <2>1. v # w
    BY <1>7, Zenon
  <2>2. InPark(v)
    BY <1>7, <2>1, Zenon DEF LiveInv, DownInPark
  <2> QED BY <1>6, <2>1, <2>2, Zenon DEF InPark
<1>11. BegunStarting'
  <2>1. starter[x].pc # "begun"
    <3>1. app[x].st = "running"
      BY <1>3, <1>4, VmsAssumption DEF SoundApp
    <3> QED BY <1>3, <3>1, Zenon DEF LiveInv, BegunStarting
  <2> QED BY <1>1, <1>6, <2>1, Zenon DEF LiveInv, BegunStarting
<1> QED BY <1>8, <1>9, <1>10, <1>11, Zenon DEF LiveInv

(* A park claims the App's VM of now. *)
LEMMA ClaimLive ==
  ASSUME IInv, LiveInv, NEW x \in Apps, NEW idle, Claim(x, idle), UNCHANGED <<app, vm, starter>>
  PROVE  LiveInv'
<1> DEFINE p == [NoPark EXCEPT !.pc = "claimed", !.app = x, !.claim = app[x].vm, !.idle = idle]
<1>1. PICK k \in Parks : FreshPark(k) /\ park' = [park EXCEPT ![k] = p]
  BY Zenon DEF Claim
<1>2. p.pc = "claimed" /\ p.app = x /\ p.claim = app[x].vm
  BY Zenon DEF NoPark
<1> HIDE DEF p
<1>3. park'[k] = p /\ \A l \in Parks \ {k} : park'[l] = park[l]
  BY <1>1, Zenon DEF IInv, TypeOK
<1>4. park[k].pc # "paused"
  BY <1>1 DEF FreshPark
<1>5. ClaimKept'
  BY <1>2, <1>3, Zenon DEF LiveInv, ClaimKept, Parking
<1>6. ASSUME NEW v \in Vms, InPark(v)
      PROVE  InPark(v)'
  BY <1>3, <1>4, <1>6, Zenon DEF InPark
<1>7. DownInPark'
  BY <1>6, Zenon DEF LiveInv, DownInPark
<1> QED BY <1>5, <1>7, Zenon DEF LiveInv, OwnVm, BegunStarting

(* Nothing else ends a VM. *)
LEMMA NothingEnds ==
  ASSUME LiveInv, "end" \notin Ops, "lost" \notin Ops
  PROVE  /\ \A v \in Vms : ~VmEnds(v) /\ ~RecordEnd(v)
         /\ \A k \in Parks : ~SupLost(k)
<1>1. \A v \in Vms : ~VmEnds(v) /\ ~RecordEnd(v)
  BY DEF LiveInv, DownInPark, VmEnds, RecordEnd, May
<1>2. \A k \in Parks : ~SupLost(k)
  BY DEF SupLost, May
<1> QED BY <1>1, <1>2

(* No step but a park's ends a VM or takes one from its App. *)
LEMMA LiveNext ==
  ASSUME IInv, LiveInv, [Next]_vars, "end" \notin Ops, "lost" \notin Ops
  PROVE  LiveInv'
<1>1. ASSUME NEW r \in Reqs, ReqGoesOn(r) \/ Timeout(r) \/ \E x \in Apps : Arrive(r, x)
      PROVE  LiveInv'
  <2>1. CASE CallWake(r)
    <3>1. UNCHANGED <<vm, park>> /\ (UNCHANGED <<app, starter>>
            \/ (app[req[r].app].st = "parked" /\ BeginStart(req[r].app, "parked")))
      BY <2>1, Zenon DEF CallWake
    <3>2. req[r].app \in Apps
      BY <2>1 DEF CallWake, IInv, Sound, SoundReq
    <3> QED BY <3>1, <3>2, LiveFrame, BeginStartLive
  <2>2. CASE ~CallWake(r)
    <3>1. UNCHANGED <<app, vm, park, starter>>
      BY <1>1, <2>2, Zenon DEF ReqGoesOn, Look, Resume, Proxy, DropCount, Timeout, Arrive
    <3> QED BY <3>1, LiveFrame, Zenon
  <2> QED BY <2>1, <2>2
<1>2. ASSUME NEW x \in Apps, StartGoesOn(x) \/ Rerun(x)
      PROVE  LiveInv'
  <2>1. CASE Rerun(x)
    BY <2>1, BeginStartLive DEF Rerun
  <2> QED BY <1>2, <2>1, StartOkLive, StartFailsLive, StartSettlesLive, Zenon DEF StartGoesOn
<1>3. ASSUME NEW x \in Apps, ParkVm(x) \/ IdleRead(x) \/ IdleClaim(x)
      PROVE  LiveInv'
  <2>1. UNCHANGED <<app, vm, starter>> /\ (UNCHANGED park \/ \E idle \in BOOLEAN : Claim(x, idle))
    BY <1>3, Zenon DEF ParkVm, IdleRead, IdleClaim
  <2> QED BY <2>1, LiveFrame, ClaimLive, Zenon
<1>4. ASSUME NEW k \in Parks, ParkGoesOn(k)
      PROVE  LiveInv'
  BY <1>4, NothingEnds, ParkSendLive, ParkEndsLive, SupStepsLive, SupParkedLive, Zenon
     DEF ParkGoesOn
<1>5. ASSUME NEW v \in Vms, VmEnds(v) \/ RecordEnd(v) \/ IdleTimePasses(v)
      PROVE  LiveInv'
  <2>1. UNCHANGED <<app, vm, park, starter>>
    BY <1>5, NothingEnds, Zenon DEF IdleTimePasses
  <2> QED BY <2>1, LiveFrame, Zenon
<1>6. CASE UNCHANGED vars
  BY <1>6, LiveFrame, Zenon DEF vars
<1> QED BY <1>1, <1>2, <1>3, <1>4, <1>5, <1>6, Zenon DEF Next

(* At first there are no VMs, no parks and no starts. *)
LEMMA LiveInit == Init => LiveInv
<1> SUFFICES ASSUME Init PROVE LiveInv
  OBVIOUS
<1>1. \A x \in Apps : app[x].vm = NoVm
  BY DEF Init
<1>2. \A v \in Vms : vm[v].st = "gone"
  BY Types, Zenon DEF Init
<1>3. \A k \in Parks : park[k].pc = "none"
  BY Types, Zenon DEF Init
<1>4. \A x \in Apps : starter[x].pc = "none"
  BY DEF Init, NoStarter
<1>5. DownInPark /\ ClaimKept
  BY <1>2, <1>3 DEF DownInPark, ClaimKept, Parking
<1> QED BY <1>1, <1>4, <1>5 DEF LiveInv, OwnVm, BegunStarting

(* A request is given the App's VM only while that VM is live: one that a    *)
(* park has stopped is still claimed.                                        *)
LEMMA LookLive ==
  ASSUME IInv, LiveInv, NEW r \in Reqs, Look(r), req'[r].pc = "upstream"
  PROVE  vm[req'[r].vm].st = "live"
<1> DEFINE x == req[r].app
           v == app[x].vm
           q == [req[r] EXCEPT !.pc = "upstream", !.vm = v, !.addr = app[x].addr]
<1>1. req[r].pc = "look" /\ req \in [Reqs -> SoundReq] /\ req[r] \in Req /\ x \in Apps
  <2>1. req[r].pc = "look" /\ req \in [Reqs -> SoundReq] /\ req[r] \in SoundReq
    BY Zenon DEF Look, IInv, Sound
  <2> QED BY <2>1 DEF SoundReq
<1>2. \A c \in {"holdpark", "callwake"} : [req[r] EXCEPT !.pc = c].pc = c
  BY <1>1 DEF Req
<1>3. [req[r] EXCEPT !.pc = "holdstart", !.tried = TRUE].pc = "holdstart"
  BY <1>1 DEF Req
<1>4. Answered(r, "unavailable").pc = "done"
  BY <1>1, AnsweredType, Zenon
<1>5. ASSUME NEW c, req' = [req EXCEPT ![r] = c]
      PROVE  req'[r] = c
  BY <1>1, <1>5, Zenon
<1>6. app[x].st = "running" /\ ~traffic[v].parking /\ req' = [req EXCEPT ![r] = q]
  <2>1. \/ app[x].st = "running" /\ ~traffic[v].parking /\ req' = [req EXCEPT ![r] = q]
        \/ req' = [req EXCEPT ![r] = [req[r] EXCEPT !.pc = "holdpark"]]
        \/ req' = [req EXCEPT ![r] = [req[r] EXCEPT !.pc = "holdstart", !.tried = TRUE]]
        \/ req' = [req EXCEPT ![r] = [req[r] EXCEPT !.pc = "callwake"]]
        \/ req' = [req EXCEPT ![r] = Answered(r, "unavailable")]
    BY Zenon DEF Look, Answer
  <2> HIDE DEF q
  <2>2. req' # [req EXCEPT ![r] = Answered(r, "unavailable")]
    BY <1>4, <1>5, Zenon
  <2>3. req' # [req EXCEPT ![r] = [req[r] EXCEPT !.pc = "holdpark"]]
    BY <1>2, <1>5, Zenon
  <2>4. req' # [req EXCEPT ![r] = [req[r] EXCEPT !.pc = "callwake"]]
    BY <1>2, <1>5, Zenon
  <2>5. req' # [req EXCEPT ![r] = [req[r] EXCEPT !.pc = "holdstart", !.tried = TRUE]]
    BY <1>3, <1>5, Zenon
  <2> QED BY <2>1, <2>2, <2>3, <2>4, <2>5, Zenon
<1>7. req'[r].vm = v
  <2>1. q.vm = v
    BY <1>1 DEF Req
  <2> HIDE DEF q
  <2> QED BY <1>5, <1>6, <2>1, Zenon
<1>8. v \in Vms /\ v # NoVm
  BY <1>1, <1>6, AppVm, Zenon
<1>9. ~InPark(v)
  <2> SUFFICES ASSUME NEW k \in Parks, park[k].pc = "paused", park[k].target = v
               PROVE  FALSE
    BY Zenon DEF InPark
  <2>1. Held(k) /\ Parking(k) /\ park[k].pc # "claimed"
    BY DEF Held, Parking
  <2>2. park[k].claim = v
    BY <2>1, Zenon DEF LiveInv, ClaimKept
  <2> QED BY <1>6, <2>1, <2>2, Zenon DEF IInv, Claims
<1>10. vm[v].st # "gone" /\ vm[v].st \notin {"paused", "killed"}
  BY <1>1, <1>8, <1>9, Zenon DEF LiveInv, OwnVm, DownInPark
<1>11. vm[v].st \in {"gone", "live", "paused", "killed"}
  BY <1>8 DEF IInv, TypeOK, VmState
<1> QED BY <1>7, <1>10, <1>11, Zenon

(* Only Look sends a request on to a VM. *)
LEMMA OnlyLookSends ==
  ASSUME IInv, Next, NEW r \in Reqs, req[r].pc = "look", req'[r].pc = "upstream"
  PROVE  Look(r)
<1> SUFFICES ASSUME ~Look(r) PROVE FALSE
  OBVIOUS
<1>1. req' # req
  OBVIOUS
<1>2. ASSUME NEW s \in Reqs, s # r, NEW q, req' = [req EXCEPT ![s] = q]
      PROVE  FALSE
  <2>1. req'[r] = req[r]
    BY <1>2, Zenon DEF IInv, TypeOK
  <2> QED BY <2>1
<1>3. ASSUME NEW s \in Reqs, ReqGoesOn(s) \/ Timeout(s) \/ \E x \in Apps : Arrive(s, x)
      PROVE  FALSE
  <2>1. CASE s = r
    BY <1>3, <2>1, Zenon DEF ReqGoesOn, CallWake, Resume, Proxy, DropCount, Timeout, Arrive
  <2>2. CASE s # r
    <3>1. CASE Look(s) \/ CallWake(s)
      <4>1. \E q : req' = [req EXCEPT ![s] = q]
        BY <3>1, Zenon DEF Look, CallWake, Answer
      <4> QED BY <1>2, <2>2, <4>1, Zenon
    <3>2. CASE ~Look(s) /\ ~CallWake(s)
      <4>1. \E q : req' = [req EXCEPT ![s] = q]
        BY <1>3, <3>2, Zenon DEF ReqGoesOn, Resume, Proxy, DropCount, Timeout, Arrive, Answer
      <4> QED BY <1>2, <2>2, <4>1, Zenon
    <3> QED BY <3>1, <3>2
  <2> QED BY <2>1, <2>2
<1>4. ASSUME NEW q \in SoundReq, req'[r] = q, q.vm = NoVm
      PROVE  FALSE
  BY <1>4 DEF SoundReq
<1>5. NotifyWaiters(req)[r] \in SoundReq /\ NotifyWaiters(req)[r].vm = NoVm
      /\ Again(r).pc = "look" /\ Answered(r, "unavailable").pc = "done"
  <2>1. req[r].pc \in Waits /\ req[r].pc # "new"
    BY DEF Waits
  <2> QED BY <2>1, Told, LoopTypes, AnsweredType, Zenon
<1>6. ASSUME NEW x \in Apps, StartSettles(x)
      PROVE  FALSE
  <2>1. req'[r] \in {NotifyWaiters(req)[r], Again(r), Answered(r, "unavailable")}
    BY <1>6 DEF StartSettles
  <2> QED BY <1>4, <1>5, <2>1
<1>7. ASSUME NEW k \in Parks, ParkSettles(k)
      PROVE  FALSE
  BY <1>4, <1>5, <1>7 DEF ParkSettles
<1>8. ASSUME NEW x \in Apps, StartGoesOn(x) \/ Rerun(x) \/ ParkVm(x) \/ IdleRead(x) \/ IdleClaim(x)
      PROVE  FALSE
  BY <1>1, <1>6, <1>8, Zenon
     DEF StartGoesOn, StartOk, StartFails, Rerun, ParkVm, IdleRead, IdleClaim
<1>9. ASSUME NEW k \in Parks, ParkGoesOn(k)
      PROVE  FALSE
  BY <1>1, <1>7, <1>9, Zenon
     DEF ParkGoesOn, ParkSend, SupPause, SupKilled, SupParked, SupResumed, SupLost,
         ParkUnheard, ReleaseClaim, IdleBackoff
<1>10. ASSUME NEW v \in Vms, VmEnds(v) \/ RecordEnd(v) \/ IdleTimePasses(v)
       PROVE  FALSE
  BY <1>1, <1>10, Zenon DEF VmEnds, RecordEnd, IdleTimePasses
<1> QED BY <1>3, <1>8, <1>9, <1>10, Zenon DEF Next

(* LeaseOnLiveVm holds while nothing but parks ends a VM, for any requests,  *)
(* Apps, VMs and parks, idle ones too, and whatever wakes, parks and holds   *)
(* fail: step_for looks at the claim under the registry's lock, and the park *)
(* task gives it back only after record_end.                                 *)
THEOREM LeasesLive ==
  ASSUME "end" \notin Ops, "lost" \notin Ops
  PROVE  Spec => LeaseOnLiveVm
<1> DEFINE Live == \A r \in Reqs : req[r].pc = "look" /\ req'[r].pc = "upstream"
                     => vm[req'[r].vm].st = "live"
<1>1. IInv /\ LiveInv /\ [Next]_vars => LiveInv'
  BY LiveNext
<1>2. IInv /\ LiveInv /\ [Next]_vars => [Live]_vars
  BY OnlyLookSends, LookLive, Zenon
<1> QED BY <1>1, <1>2, LiveInit, Inductive, PTL DEF Spec, LeaseOnLiveVm
=============================================================================
