--------------------------- MODULE SupervisorProofs --------------------------
(* The safety of Supervisor, for any number of clients, any capacity of the  *)
(* channel and whatever goes wrong: what a client hears of a park, and what  *)
(* is recorded of a VM that ended by itself.                                 *)
EXTENDS Supervisor, SequenceTheorems, TLAPS

(* Where park_steps has a client to answer, where it has a directory, and    *)
(* where run_until_ended has returned.                                       *)
ParkPcs == {"park", "snapshot", "resume", "parkkill", "move"}
DirPcs  == ParkPcs \ {"park"}
EndPcs  == {"teardown", "close", "record", "tell", "over"}

(* The reason is set exactly once run_until_ended has returned, and the      *)
(* entry is the supervisor's own until record_end.                           *)
Phases ==
  /\ pc \in EndPcs <=> reason # "none"
  /\ pc \in ParkPcs => parking \in Clients
  /\ entry # "running" => pc \in {"tell", "over"}

(* A directory is there during a park, and after it only when it worked. *)
SnapshotKept ==
  /\ pc \notin EndPcs => into # "full" /\ (into = "made" => pc \in DirPcs)
  /\ pc \in EndPcs => into = IF reason = "parked" THEN "full" ELSE "none"

ParkHeard == \A c \in Clients : client[c].ans = "ok" => reason = "parked"

(* The agent's own child that ended by itself is still to be noticed, or was *)
(* recorded as that.                                                         *)
OwnEnd ==
  adopted = FALSE =>
    /\ "own" \in asked /\ reason = "none" => pc = "watch" /\ vmm \in OwnEnds
    /\ "own" \in asked /\ reason # "none" => reason \in {"exited", "crashed"}
    /\ reason = "graceful" => vmm \in {"exited", "killed"}

IInv == TypeOK /\ Phases /\ SnapshotKept /\ ParkHeard /\ OwnEnd
-----------------------------------------------------------------------------
Answers == {"none", "ok", "failed", "conflict", "ended", "gone"}
ClientPcs == {"new", "sending", "sent", "ending", "done"}

(* What answering a client, or moving its request on, makes of it. *)
LEMMA ClientUpdates ==
  ASSUME TypeOK, NEW c \in Clients
  PROVE  /\ client[c] \in Client
         /\ \A a \in Answers : Answered(c, a) \in Client /\ Answered(c, a).ans = a
         /\ \A p \in ClientPcs : /\ [client[c] EXCEPT !.pc = p] \in Client
                                 /\ [client[c] EXCEPT !.pc = p].ans = client[c].ans
BY Zenon DEF TypeOK, Client, Answered, Answers, ClientPcs

(* A step that changes one client's request, the answer "ok" only once the   *)
(* VM is parked, keeps what is said of the clients.                          *)
LEMMA ClientStepKeeps ==
  ASSUME TypeOK, ParkHeard, NEW c \in Clients, NEW r \in Client,
         client' = [client EXCEPT ![c] = r],
         reason = "parked" => reason' = "parked",
         r.ans = "ok" => client[c].ans = "ok" \/ reason' = "parked"
  PROVE  client' \in [Clients -> Client] /\ ParkHeard'
BY DEF TypeOK, ParkHeard

(* A Supervisor that just started has answered nobody. *)
LEMMA InitInv == Init => IInv
<1> SUFFICES ASSUME Init PROVE IInv
  OBVIOUS
<1>1. client \in [Clients -> Client]
  <2>1. \A k \in Kinds : [kind |-> k, pc |-> "new", ans |-> "none"] \in Client
    BY KindsAssumption DEF Client
  <2> QED BY <2>1 DEF Init
<1>2. stops \in Seq(Clients) /\ Len(stops) <= Cap
  BY CapAssumption DEF Init
<1>3. adopted \in BOOLEAN
  BY AdoptedAssumption, Zenon DEF Init
<1>4. TypeOK
  BY <1>1, <1>2, <1>3, Zenon DEF Init, TypeOK, Reasons
<1>5. ParkHeard
  BY DEF Init, ParkHeard
<1>6. Phases /\ SnapshotKept /\ OwnEnd
  BY DEF Init, Phases, SnapshotKept, OwnEnd, EndPcs, ParkPcs, DirPcs
<1> QED BY <1>4, <1>5, <1>6 DEF IInv

(* A step that leaves the clients and their channel alone. *)
LEMMA AloneInv ==
  ASSUME IInv, \/ NoticeEnd \/ Kill \/ Snapshot \/ ParkKill \/ Lost
               \/ CtrlAltDel \/ GraceEnd \/ Teardown \/ RecordEnd \/ Tell
               \/ Deadline \/ GuestStops \/ Replaced
               \/ \E how \in OwnEnds : VmmEnds(how)
  PROVE  IInv'
<1> USE DEF IInv, TypeOK, Phases, SnapshotKept, ParkHeard, OwnEnd, EndPcs, ParkPcs, DirPcs
<1>1. CASE NoticeEnd
  BY <1>1 DEF NoticeEnd, End, VmmNaturalEnd, NaturalEnd, Reasons, Gone, OwnEnds
<1>2. CASE Kill
  BY <1>2 DEF Kill, End, Killed, Reasons, Gone, OwnEnds
<1>3. CASE Snapshot
  BY <1>3 DEF Snapshot, Go
<1>4. CASE ParkKill
  BY <1>4 DEF ParkKill, Go, Killed, Reasons, Gone, OwnEnds
<1>5. CASE Lost
  BY <1>5 DEF Lost, End, Killed, Reasons, Gone, OwnEnds
<1>6. CASE CtrlAltDel
  BY <1>6 DEF CtrlAltDel, Go, End, VmmNaturalEnd, NaturalEnd, Reasons, Gone, OwnEnds
<1>7. CASE GraceEnd
  BY <1>7 DEF GraceEnd, End, GracefulEnd, NaturalEnd, Reasons, Gone, OwnEnds
<1>8. CASE Teardown
  BY <1>8 DEF Teardown, Go, Killed, Reasons, Gone, OwnEnds
<1>9. CASE RecordEnd
  BY <1>9 DEF RecordEnd, Go
<1>10. CASE Tell
  BY <1>10 DEF Tell, Go
<1>11. CASE Replaced
  BY <1>11 DEF Replaced
<1>12. CASE Deadline
  BY <1>12 DEF Deadline, Go
<1>13. CASE GuestStops
  BY <1>13, Zenon DEF GuestStops, OwnEnds
<1>14. CASE \E how \in OwnEnds : VmmEnds(how)
  BY <1>14 DEF VmmEnds, OwnEnds, Gone
<1> QED BY <1>1, <1>2, <1>3, <1>4, <1>5, <1>6, <1>7, <1>8, <1>9, <1>10, <1>11, <1>12, <1>13,
           <1>14, Zenon

(* Taking the head of the queue. *)
LEMMA Received ==
  ASSUME TypeOK, stops # <<>>
  PROVE  /\ Head(stops) \in Clients
         /\ Tail(stops) \in Seq(Clients) /\ Len(Tail(stops)) <= Cap
<1>1. stops \in Seq(Clients) /\ Len(stops) <= Cap
  BY DEF TypeOK
<1>2. /\ Head(stops) \in Clients /\ Tail(stops) \in Seq(Clients)
      /\ Len(Tail(stops)) = Len(stops) - 1 /\ Len(stops) \in Nat
  BY <1>1, HeadTailProperties, LenProperties
<1> QED BY <1>1, <1>2, CapAssumption

(* A request's own steps leave the supervisor and the VMM alone. *)
LEMMA RequestInv ==
  ASSUME IInv, NEW c \in Clients, Ask(c) \/ Send(c) \/ HearEnd(c)
  PROVE  IInv'
<1>1. PICK r \in Client : /\ client' = [client EXCEPT ![c] = r]
                          /\ r.ans = "ok" => client[c].ans = "ok"
  <2>1. CASE \E p \in ClientPcs : client' = [client EXCEPT ![c] = [client[c] EXCEPT !.pc = p]]
    <3>1. PICK p \in ClientPcs : client' = [client EXCEPT ![c] = [client[c] EXCEPT !.pc = p]]
      BY <2>1, Zenon
    <3>2. /\ [client[c] EXCEPT !.pc = p] \in Client
          /\ [client[c] EXCEPT !.pc = p].ans = client[c].ans
      BY ClientUpdates, Zenon DEF IInv
    <3> QED BY <3>1, <3>2, Zenon
  <2>2. CASE client' = [client EXCEPT ![c] = Answered(c, "conflict")]
    BY <2>2, ClientUpdates, Zenon DEF IInv, Answers
  <2>3. CASE Ask(c)
    BY <2>1, <2>3, Zenon DEF Ask, ClientPcs, IInv, TypeOK
  <2>4. CASE Send(c)
    BY <2>1, <2>2, <2>4, Zenon DEF Send, ClientPcs, IInv, TypeOK
  <2>5. CASE HearEnd(c)
    BY <2>5, ClientUpdates, Zenon DEF HearEnd, IInv, Answers
  <2> QED BY <2>3, <2>4, <2>5
<1>2. UNCHANGED <<adopted, vmm, pc, parking, open, reason, into, entry, told, asked>>
  BY DEF Ask, Send, HearEnd
<1>3. stops' \in Seq(Clients) /\ Len(stops') <= Cap
  <2>1. CASE stops' = stops
    BY <2>1 DEF IInv, TypeOK
  <2>2. CASE stops' = Append(stops, c) /\ Len(stops) < Cap
    BY <2>2, AppendProperties, LenProperties, CapAssumption DEF IInv, TypeOK
  <2> QED BY <2>1, <2>2 DEF Ask, Send, HearEnd
<1>4. client' \in [Clients -> Client] /\ ParkHeard'
  BY <1>1, <1>2, ClientStepKeeps, Zenon DEF IInv
<1>5. TypeOK'
  BY <1>2, <1>3, <1>4 DEF IInv, TypeOK
<1>6. Phases' /\ SnapshotKept' /\ OwnEnd'
  BY <1>2, Zenon DEF IInv, Phases, SnapshotKept, OwnEnd
<1> QED BY <1>4, <1>5, <1>6 DEF IInv

(* run_until_ended takes a request: the VM goes on until the next step. *)
LEMMA RecvInv ==
  ASSUME IInv, Recv
  PROVE  IInv'
<1>1. Head(stops) \in Clients /\ stops' \in Seq(Clients) /\ Len(stops') <= Cap
  BY Received DEF IInv, Recv
<1>2. /\ pc = "watch" /\ pc' \in {"park", "ask", "kill"}
      /\ pc' = "park" => parking' \in Clients
      /\ parking' \in Clients \cup {NoClient}
      /\ asked' \in {asked, asked \cup {"force"}}
  BY <1>1 DEF IInv, TypeOK, Recv, Go
<1>3. UNCHANGED <<adopted, vmm, open, reason, into, entry, told, client>>
  BY DEF Recv
<1>4. TypeOK'
  BY <1>1, <1>2, <1>3 DEF IInv, TypeOK
<1>5. adopted = FALSE => ~Gone
  BY Zenon DEF Recv
<1>6. Phases' /\ SnapshotKept' /\ ParkHeard'
  BY <1>2, <1>3 DEF IInv, Phases, SnapshotKept, ParkHeard, EndPcs, ParkPcs, DirPcs
<1>7. OwnEnd'
  BY <1>2, <1>3, <1>5 DEF IInv, OwnEnd, Phases, EndPcs, Gone
<1> QED BY <1>4, <1>6, <1>7 DEF IInv

(* park_steps, where it gives up or is done: the client whose park it is     *)
(* hears of it.                                                              *)
LEMMA ParkInv ==
  ASSUME IInv, Pause \/ Resume \/ Move
  PROVE  IInv'
<1>1. parking \in Clients /\ pc \in ParkPcs /\ reason = "none"
  BY DEF IInv, Phases, ParkPcs, EndPcs, Pause, Resume, Move
<1>2. /\ UNCHANGED <<adopted, stops, open, entry, told, asked>>
      /\ parking' \in Clients \cup {NoClient}
  BY <1>1 DEF Pause, Resume, Move
<1>3. client' \in [Clients -> Client] /\ ParkHeard'
  <2>1. CASE ParkFailed
    BY <1>1, <2>1, ClientUpdates, ClientStepKeeps, Zenon DEF ParkFailed, Answers, IInv
  <2>2. CASE ParkDone /\ reason' = "parked"
    <3>1. client' = [client EXCEPT ![parking] =
                      [client[parking] EXCEPT !.pc = "ending", !.ans = "ok"]]
      BY <1>1, <2>2, Zenon DEF ParkDone, IInv, TypeOK
    <3>2. [client[parking] EXCEPT !.pc = "ending", !.ans = "ok"] \in Client
      BY <1>1, Zenon DEF IInv, TypeOK, Client
    <3> QED BY <1>1, <2>2, <3>1, <3>2, ClientStepKeeps, Zenon DEF IInv
  <2>3. CASE UNCHANGED <<client, reason>>
    BY <2>3, Zenon DEF IInv, TypeOK, ParkHeard
  <2> QED BY <2>1, <2>2, <2>3 DEF Pause, Resume, Move, End
<1>4. vmm' \in {"live", "paused", "killed"} \cup OwnEnds
  BY DEF Pause, Resume, Move, IInv, TypeOK
<1>5. TypeOK'
  <2>1. /\ pc' \in {"snapshot", "watch", "lost", "teardown"}
        /\ into' \in {"none", "made", "full"} /\ reason' \in Reasons
    BY <1>1 DEF Pause, Resume, Move, Go, End, Reasons
  <2> QED BY <1>2, <1>3, <1>4, <2>1, Zenon DEF IInv, TypeOK
<1>6. Phases' /\ SnapshotKept'
  BY <1>1, <1>2 DEF IInv, Phases, SnapshotKept, EndPcs, ParkPcs, DirPcs, Pause, Resume, Move,
                    Go, End
<1>7. OwnEnd'
  BY <1>1, <1>2 DEF IInv, OwnEnd, ParkPcs, Pause, Resume, Move, Go, End
<1> QED BY <1>3, <1>5, <1>6, <1>7 DEF IInv

(* graceful_stop keeps receiving. *)
LEMMA GraceRecvInv ==
  ASSUME IInv, GraceRecv
  PROVE  IInv'
<1>1. Head(stops) \in Clients /\ stops' \in Seq(Clients) /\ Len(stops') <= Cap
  BY Received DEF IInv, GraceRecv
<1>2. /\ pc = "grace" /\ pc' \in {"grace", "kill"}
      /\ asked' \in {asked, asked \cup {"force"}}
      /\ UNCHANGED <<adopted, vmm, parking, open, reason, into, entry, told>>
  BY DEF GraceRecv, Go
<1>3. client' \in [Clients -> Client] /\ ParkHeard'
  <2>1. CASE client' = [client EXCEPT ![Head(stops)] = Answered(Head(stops), "failed")]
    BY <1>1, <1>2, <2>1, ClientUpdates, ClientStepKeeps, Zenon DEF Answers, IInv
  <2>2. CASE client' = client
    BY <1>2, <2>2, Zenon DEF IInv, TypeOK, ParkHeard
  <2> QED BY <2>1, <2>2 DEF GraceRecv
<1>4. TypeOK'
  BY <1>1, <1>2, <1>3 DEF IInv, TypeOK
<1>5. Phases' /\ SnapshotKept' /\ OwnEnd'
  BY <1>2 DEF IInv, Phases, SnapshotKept, OwnEnd, EndPcs, ParkPcs, DirPcs
<1> QED BY <1>3, <1>4, <1>5 DEF IInv

(* supervise returns. *)
LEMMA CloseInv ==
  ASSUME IInv, Close
  PROVE  IInv'
<1>1. stops' \in Seq(Clients) /\ Len(stops') <= Cap
  BY CapAssumption DEF Close
<1>2. /\ pc = "close" /\ pc' = "record" /\ open' = FALSE
      /\ UNCHANGED <<adopted, vmm, parking, reason, into, entry, told, asked>>
  BY DEF Close, Go
<1>3. client' \in [Clients -> Client] /\ ParkHeard'
  <2>1. ASSUME NEW c \in Clients
        PROVE  client'[c] \in Client /\ client'[c].ans \in {client[c].ans, "conflict"}
    BY ClientUpdates DEF Close, Answers, IInv
  <2>2. client' = [c \in Clients |-> client'[c]]
    BY DEF Close
  <2> QED BY <1>2, <2>1, <2>2 DEF IInv, ParkHeard
<1>4. TypeOK'
  BY <1>1, <1>2, <1>3, Zenon DEF IInv, TypeOK
<1>5. Phases' /\ SnapshotKept' /\ OwnEnd'
  BY <1>2 DEF IInv, Phases, SnapshotKept, OwnEnd, EndPcs, ParkPcs, DirPcs
<1> QED BY <1>3, <1>4, <1>5 DEF IInv

(* The state ParkAnswerTrue and OwnEndRecorded rest on, after any sequence   *)
(* of requests, ends and failures.                                           *)
THEOREM Inductive == Spec => []IInv
<1>1. IInv /\ [Next]_vars => IInv'
  <2> SUFFICES ASSUME IInv, [Next]_vars PROVE IInv'
    OBVIOUS
  <2>1. CASE SupStep
    BY <2>1, AloneInv, RecvInv, ParkInv, GraceRecvInv, CloseInv DEF SupStep
  <2>2. CASE Deadline \/ GuestStops \/ Replaced \/ \E how \in OwnEnds : VmmEnds(how)
    BY <2>2, AloneInv
  <2>3. CASE \E c \in Clients : Ask(c) \/ ClientStep(c)
    BY <2>3, RequestInv DEF ClientStep
  <2>4. CASE UNCHANGED vars
    BY <2>4 DEF vars, IInv, TypeOK, Phases, SnapshotKept, ParkHeard, OwnEnd, Gone
  <2> QED BY <2>1, <2>2, <2>3, <2>4, Zenon DEF Next
<1> QED BY <1>1, InitInv, PTL DEF Spec

(* A client that hears of a parked VM finds it parked, with its snapshot,    *)
(* and an Ended VM has a snapshot directory only if it parked (park_steps,   *)
(* move_files, record_end).                                                  *)
THEOREM ParkAnswers == Spec => []ParkAnswerTrue
<1>1. IInv => ParkAnswerTrue
  <2> SUFFICES ASSUME IInv PROVE ParkAnswerTrue
    OBVIOUS
  <2>1. reason = "parked" => into = "full"
    BY DEF IInv, Phases, SnapshotKept
  <2>2. entry = "ended" => (into # "none" <=> reason = "parked")
    BY DEF IInv, Phases, SnapshotKept, EndPcs
  <2> QED BY <2>1, <2>2, Zenon DEF IInv, ParkHeard, ParkAnswerTrue
<1> QED BY <1>1, Inductive, PTL

(* The end of the agent's own child is recorded as what it was, whatever is  *)
(* queued, and a crash after a graceful stop as a crash (run_until_ended's   *)
(* biased select, graceful_end).                                             *)
THEOREM OwnEndKept == Spec => []OwnEndRecorded
<1>1. IInv => OwnEndRecorded
  <2> SUFFICES ASSUME IInv, adopted = FALSE, reason # "none" PROVE OwnEndRecorded
    BY Zenon DEF OwnEndRecorded, IInv, TypeOK
  <2> QED BY DEF IInv, OwnEnd, OwnEndRecorded
<1> QED BY <1>1, Inductive, PTL
=============================================================================
