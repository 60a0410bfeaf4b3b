------------------------------ MODULE Supervisor ------------------------------
(* The supervisor task of one running VM, and the clients that ask it to     *)
(* stop or park the VM over a bounded channel (vm.rs: supervise,             *)
(* run_until_ended, graceful_stop, park; agent.rs: start_supervising,        *)
(* record_end, running, stop_vm, park, ended_info).                          *)
(*                                                                           *)
(* The VMM runs beside the supervisor: the guest may exit, panic or be       *)
(* killed for want of memory between any two of its steps.                   *)
EXTENDS Integers, Sequences, FiniteSets

CONSTANTS
  Clients,   \* the requests that may come in
  Kinds,     \* the kinds of request that come, a subset of RequestKinds
  Cap,       \* capacity of the channel, 4 in the code
  Adopted,   \* the values of `adopted` a behaviour may start with
  Faults     \* what may go wrong, a subset of FaultKinds

RequestKinds == {"graceful", "force", "park"}

(* "end" the guest exits, panics or runs out of memory                        *)
(* "api" a call of Firecracker's API is refused      "disk" a move fails      *)
FaultKinds == {"end", "api", "disk"}

NoClient == "none"

ASSUME KindsAssumption   == Kinds \subseteq RequestKinds
ASSUME CapAssumption     == Cap \in Nat \ {0}
ASSUME AdoptedAssumption == Adopted \subseteq BOOLEAN
ASSUME ClientsAssumption == NoClient \notin Clients
ASSUME FaultsAssumption  == Faults \subseteq FaultKinds

VARIABLES
  adopted,  \* whether an earlier agent started the VMM
  vmm,      \* the VMM: running, paused, or how it ended
  pc,       \* where the supervisor is
  parking,  \* the client whose park it is busy with
  stops,    \* the channel's queue, clients in the order they sent
  open,     \* the channel's receiver is there
  reason,   \* the end reason supervise returns
  into,     \* the snapshot directory
  entry,    \* the registry's entry of the VM
  told,     \* the `ended` watch holds true
  client,   \* client -> its request's progress
  asked     \* not in the code: why the VM had to end, as the requests put it

vars == <<adopted, vmm, pc, parking, stops, open, reason, into, entry, told, client, asked>>
-----------------------------------------------------------------------------
OwnEnds == {"exited", "panicked", "oom"}
Gone    == vmm \in OwnEnds \cup {"killed"}
Reasons == {"none", "graceful", "forced", "exited", "crashed", "parked"}

Client    == [kind : RequestKinds, pc : {"new", "sending", "sent", "ending", "done"},
              ans : {"none", "ok", "failed", "conflict", "ended", "gone"}]

TypeOK ==
  /\ adopted \in BOOLEAN
  /\ vmm \in {"live", "paused", "killed"} \cup OwnEnds
  /\ pc \in {"watch", "park", "snapshot", "resume", "parkkill", "move", "lost", "ask", "grace",
             "kill", "teardown", "close", "record", "tell", "over"}
  /\ parking \in Clients \cup {NoClient}
  /\ stops \in Seq(Clients) /\ Len(stops) <= Cap
  /\ open \in BOOLEAN /\ told \in BOOLEAN
  /\ reason \in Reasons
  /\ into \in {"none", "made", "full"}
  /\ entry \in {"running", "ended", "gone"}
  /\ client \in [Clients -> Client]
  /\ asked \subseteq {"force", "deadline", "own"}

Init ==
  /\ adopted \in Adopted
  /\ vmm = "live" /\ pc = "watch" /\ parking = NoClient
  /\ stops = <<>> /\ open = TRUE
  /\ reason = "none" /\ into = "none"
  /\ entry = "running" /\ told = FALSE
  /\ client \in [Clients -> {[kind |-> k, pc |-> "new", ans |-> "none"] : k \in Kinds}]
  /\ asked = {}
-----------------------------------------------------------------------------
May(fault) == fault \in Faults

Go(to)       == pc' = to
End(why, to) == reason' = why /\ pc' = to
Killed       == IF Gone THEN vmm ELSE "killed"

Answered(c, ans) == [client[c] EXCEPT !.pc = "done", !.ans = ans]

(* `done` of a park: an error answers the client, a success makes it wait    *)
(* for the end.                                                              *)
ParkFailed == client' = [client EXCEPT ![parking] = Answered(parking, "failed")]
ParkDone   == client' = [client EXCEPT ![parking].pc = "ending", ![parking].ans = "ok"]

(* natural_end, from the exit status and the console. The status of an       *)
(* adopted VMM is lost.                                                      *)
NaturalEnd ==
  IF vmm = "panicked" \/ (vmm = "oom" /\ ~adopted) THEN "crashed" ELSE "exited"

(* vmm_natural_end also looks for an OOM kill in an adopted VMM's cgroup. *)
VmmNaturalEnd == IF adopted /\ vmm = "oom" THEN "crashed" ELSE NaturalEnd

GracefulEnd == IF NaturalEnd = "crashed" THEN "crashed" ELSE "graceful"
-----------------------------------------------------------------------------
(* The guest and the VMM.                                                    *)
VmmEnds(how) ==
  /\ May("end")
  /\ ~Gone
  /\ vmm = "paused" => how = "oom"
  /\ vmm' = how
  /\ asked' = IF asked = {} /\ pc = "watch" THEN {"own"} ELSE asked
  /\ UNCHANGED <<adopted, pc, parking, stops, open, reason, into, entry, told, client>>

(* guest-init shuts the guest down after Ctrl-Alt-Del. *)
GuestStops ==
  /\ pc = "grace" /\ vmm = "live"
  /\ vmm' = "exited"
  /\ UNCHANGED <<adopted, pc, parking, stops, open, reason, into, entry, told, client, asked>>
-----------------------------------------------------------------------------
(* Clients: stop_vm and park.                                                *)

(* running: only a running VM's channel is handed out. *)
Ask(c) ==
  /\ client[c].pc = "new"
  /\ entry = "running"
  /\ client' = [client EXCEPT ![c].pc = "sending"]
  /\ UNCHANGED <<adopted, vmm, pc, parking, stops, open, reason, into, entry, told, asked>>

(* send waits for room. Without a receiver a park fails, and a stop waits    *)
(* for the end all the same.                                                 *)
Send(c) ==
  /\ client[c].pc = "sending"
  /\ \/ /\ open /\ Len(stops) < Cap
        /\ stops' = Append(stops, c)
        /\ client' = [client EXCEPT ![c].pc = IF client[c].kind = "park" THEN "sent" ELSE "ending"]
     \/ /\ ~open
        /\ client' = [client EXCEPT ![c] = IF client[c].kind = "park"
                                            THEN Answered(c, "conflict")
                                            ELSE [client[c] EXCEPT !.pc = "ending"]]
        /\ UNCHANGED stops
  /\ UNCHANGED <<adopted, vmm, pc, parking, open, reason, into, entry, told, asked>>

(* ended.wait_for, then ended_info of whatever has the name by then. *)
HearEnd(c) ==
  /\ client[c].pc = "ending"
  /\ told
  /\ client' = [client EXCEPT ![c] = Answered(c, IF entry # "ended" THEN "gone"
                                                  ELSE IF client[c].ans = "ok" THEN "ok"
                                                  ELSE "ended")]
  /\ UNCHANGED <<adopted, vmm, pc, parking, stops, open, reason, into, entry, told, asked>>

(* Another client's rm, run or wake takes the Ended VM away. *)
Replaced ==
  /\ entry = "ended"
  /\ entry' = "gone"
  /\ UNCHANGED <<adopted, vmm, pc, parking, stops, open, reason, into, told, client, asked>>
-----------------------------------------------------------------------------
(* run_until_ended.                                                          *)

NoticeEnd ==
  /\ pc = "watch" /\ Gone
  /\ End(VmmNaturalEnd, "teardown")
  /\ UNCHANGED <<adopted, vmm, parking, stops, open, into, entry, told, client, asked>>

(* Mutant of Recv: the select isn't biased. *)
BugRecv ==
  /\ pc = "watch"
  /\ stops # <<>>
  /\ client[Head(stops)].kind = "force" /\ Go("kill")
  /\ stops' = Tail(stops)
  /\ asked' = asked \cup {"force"}
  /\ UNCHANGED <<adopted, vmm, parking, open, reason, into, entry, told, client>>

(* The select is biased to the VMM's end, which a child's exit shows at      *)
(* once and an adopted VMM's at the next poll only.                          *)
Recv ==
  /\ pc = "watch"
  /\ stops # <<>>
  /\ Gone => adopted
  /\ stops' = Tail(stops)
  /\ LET c == Head(stops) IN
     \/ client[c].kind = "park" /\ Go("park") /\ parking' = c /\ UNCHANGED asked
     \/ client[c].kind = "graceful" /\ Go("ask") /\ UNCHANGED <<parking, asked>>
     \/ client[c].kind = "force" /\ Go("kill") /\ asked' = asked \cup {"force"} /\ UNCHANGED parking
  /\ UNCHANGED <<adopted, vmm, open, reason, into, entry, told, client>>

Kill ==
  /\ pc = "kill"
  /\ vmm' = Killed
  /\ End("forced", "teardown")
  /\ UNCHANGED <<adopted, parking, stops, open, into, entry, told, client, asked>>

(* park_steps: the directory and the pause. Whatever fails, the directory    *)
(* goes again.                                                               *)
Pause ==
  /\ pc = "park"
  /\ \/ /\ vmm = "live" /\ vmm' = "paused"
        /\ into' = "made" /\ Go("snapshot")
        /\ UNCHANGED <<client, parking>>
     \/ /\ Gone \/ May("api") \/ May("disk")
        /\ ParkFailed /\ parking' = NoClient
        /\ into' = "none" /\ Go("watch")
        /\ UNCHANGED vmm
  /\ UNCHANGED <<adopted, stops, open, reason, entry, told, asked>>

Snapshot ==
  /\ pc = "snapshot"
  /\ \/ vmm = "paused" /\ Go("parkkill")
     \/ (Gone \/ May("api")) /\ Go("resume")
  /\ UNCHANGED <<adopted, vmm, parking, stops, open, reason, into, entry, told, client, asked>>

Resume ==
  /\ pc = "resume"
  /\ \/ vmm = "paused" /\ vmm' = "live" /\ Go("watch")
     \/ (Gone \/ May("api")) /\ Go("lost") /\ UNCHANGED vmm
  /\ ParkFailed /\ parking' = NoClient /\ into' = "none"
  /\ UNCHANGED <<adopted, stops, open, reason, entry, told, asked>>

ParkKill ==
  /\ pc = "parkkill"
  /\ vmm' = Killed /\ Go("move")
  /\ UNCHANGED <<adopted, parking, stops, open, reason, into, entry, told, client, asked>>

(* Mutant of Move: `done` hears Ok whether or not the files made it. *)
BugMove ==
  /\ pc = "move"
  /\ ParkDone /\ parking' = NoClient
  /\ \/ into' = "full" /\ End("parked", "teardown")
     \/ May("disk") /\ into' = "none" /\ Go("lost") /\ UNCHANGED reason
  /\ UNCHANGED <<adopted, vmm, stops, open, entry, told, asked>>

(* move_files: three renames, tried one by one. *)
Move ==
  /\ pc = "move"
  /\ \/ /\ into' = "full" /\ ParkDone
        /\ End("parked", "teardown")
     \/ /\ May("disk")
        /\ into' = "none" /\ ParkFailed
        /\ Go("lost") /\ UNCHANGED reason
  /\ parking' = NoClient
  /\ UNCHANGED <<adopted, vmm, stops, open, entry, told, asked>>

(* Parking::Lost, once `done` has heard the error. *)
Lost ==
  /\ pc = "lost"
  /\ vmm' = Killed
  /\ End("forced", "teardown")
  /\ UNCHANGED <<adopted, parking, stops, open, into, entry, told, client, asked>>
-----------------------------------------------------------------------------
(* graceful_stop.                                                            *)

CtrlAltDel ==
  /\ pc = "ask"
  /\ \/ vmm = "live" /\ Go("grace") /\ UNCHANGED reason
     \/ Gone /\ End(VmmNaturalEnd, "teardown")
     \/ ~Gone /\ May("api") /\ Go("kill") /\ UNCHANGED reason
  /\ asked' = IF pc' = "kill" THEN asked \cup {"deadline"} ELSE asked
  /\ UNCHANGED <<adopted, vmm, parking, stops, open, into, entry, told, client>>

GraceEnd ==
  /\ pc = "grace" /\ Gone
  /\ End(GracefulEnd, "teardown")
  /\ UNCHANGED <<adopted, vmm, parking, stops, open, into, entry, told, client, asked>>

Deadline ==
  /\ pc = "grace"
  /\ Gone => adopted
  /\ Go("kill")
  /\ asked' = asked \cup {"deadline"}
  /\ UNCHANGED <<adopted, vmm, parking, stops, open, reason, into, entry, told, client>>

(* Mutant of GraceRecv: any further stop is ignored. *)
BugGraceRecv ==
  /\ pc = "grace"
  /\ stops # <<>>
  /\ stops' = Tail(stops)
  /\ UNCHANGED <<adopted, vmm, pc, parking, open, reason, into, entry, told, client, asked>>

GraceRecv ==
  /\ pc = "grace"
  /\ stops # <<>>
  /\ Gone => adopted
  /\ stops' = Tail(stops)
  /\ LET c == Head(stops) IN
     \/ client[c].kind = "graceful" /\ UNCHANGED <<pc, client, asked>>
     \/ /\ client[c].kind = "park"
        /\ client' = [client EXCEPT ![c] = Answered(c, "failed")]
        /\ UNCHANGED <<pc, asked>>
     \/ /\ client[c].kind = "force"
        /\ Go("kill") /\ asked' = asked \cup {"force"}
        /\ UNCHANGED client
  /\ UNCHANGED <<adopted, vmm, parking, open, reason, into, entry, told>>
-----------------------------------------------------------------------------
(* The end: teardown, the receiver dropped, record_end, the watch.           *)

Teardown ==
  /\ pc = "teardown"
  /\ Go("close")
  /\ vmm' = Killed
  /\ UNCHANGED <<adopted, parking, stops, open, reason, into, entry, told, client, asked>>

(* Mutant of Close: the queue outlives the supervisor. *)
BugClose ==
  /\ pc = "close"
  /\ Go("record")
  /\ UNCHANGED <<adopted, vmm, parking, stops, open, reason, into, entry, told, client, asked>>

(* supervise returns: a park still queued loses its `done`. *)
Close ==
  /\ pc = "close"
  /\ Go("record")
  /\ open' = FALSE /\ stops' = <<>>
  /\ client' = [c \in Clients |-> IF client[c].pc = "sent" THEN Answered(c, "conflict") ELSE client[c]]
  /\ UNCHANGED <<adopted, vmm, parking, reason, into, entry, told, asked>>

RecordEnd ==
  /\ pc = "record"
  /\ Go("tell")
  /\ entry' = "ended"
  /\ UNCHANGED <<adopted, vmm, parking, stops, open, reason, into, told, client, asked>>

Tell ==
  /\ pc = "tell"
  /\ Go("over")
  /\ told' = TRUE
  /\ UNCHANGED <<adopted, vmm, parking, stops, open, reason, into, entry, client, asked>>
-----------------------------------------------------------------------------
SupStep ==
  \/ NoticeEnd \/ Recv \/ Kill \/ Pause \/ Snapshot \/ Resume \/ ParkKill \/ Move \/ Lost
  \/ CtrlAltDel \/ GraceEnd \/ GraceRecv \/ Teardown \/ Close \/ RecordEnd \/ Tell

ClientStep(c) == Send(c) \/ HearEnd(c)

Next ==
  \/ SupStep \/ Deadline \/ GuestStops \/ Replaced
  \/ \E how \in OwnEnds : VmmEnds(how)
  \/ \E c \in Clients : Ask(c) \/ ClientStep(c)

Spec == Init /\ [][Next]_vars

(* The supervisor and the clients go on. No guest owes its own end, no       *)
(* operator a request, and a deadline may be as long as it likes.            *)
Fairness ==
  /\ WF_vars(SupStep)
  /\ \A c \in Clients : WF_vars(ClientStep(c))

FairSpec == Spec /\ Fairness
-----------------------------------------------------------------------------
(* The agent's own child that ended by itself while its supervisor watched   *)
(* is recorded as exited or crashed, whatever stops are queued               *)
(* (run_until_ended's biased select), and one that crashes after it was      *)
(* asked to stop never as gracefully ended (graceful_end). An adopted VMM is *)
(* only polled and has no exit status to tell.                               *)
OwnEndRecorded ==
  ~adopted /\ reason # "none" =>
    /\ "own" \in asked => reason \in {"exited", "crashed"}
    /\ reason = "graceful" => vmm \notin {"panicked", "oom"}

(* Whoever hears that a park worked finds the VM parked, with a complete     *)
(* snapshot, and nobody hears it of a VM that ended any other way. An Ended  *)
(* VM that isn't parked has no snapshot directory: nothing would own it.     *)
ParkAnswerTrue ==
  /\ TypeOK
  /\ \A c \in Clients : client[c].ans = "ok" => reason = "parked" /\ into = "full"
  /\ entry = "ended" => (into # "none" <=> reason = "parked")

(* Every client that was let in is answered, also with the channel full, the *)
(* VM ending and the supervisor gone (stop_vm and park), when deadlines pass. *)
EveryoneAnswered ==
  WF_vars(Deadline) => \A c \in Clients : client[c].pc = "sending" ~> client[c].pc = "done"

(* A forced stop overtakes a graceful one that is waiting for its deadline,  *)
(* however long that is (graceful_stop keeps receiving).                     *)
ForceOvertakes ==
  \A c \in Clients : client[c].kind = "force" /\ client[c].pc = "ending" ~> Gone
=============================================================================
