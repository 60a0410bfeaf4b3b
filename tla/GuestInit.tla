----------------------------- MODULE GuestInit ------------------------------
(* guest-init (guest-init/src/main.rs), PID 1 of a guest: main's steps, the  *)
(* SIGINT handler that may run between any two of them, and the app with the *)
(* orphans it leaves.                                                        *)
EXTENDS Sequences

VARIABLE guest   \* one guest: main, its statics, the app and its connections

(* pc is main's next step, "off" when no guest runs, "bad" after a panic     *)
(* over the config and "panic" after any other.                              *)
MainPcs == {"mount", "handler", "listen", "accept", "fork", "setpid", "check", "reap", "clear",
            "shutdown"}

Guest == [pc      : MainPcs \cup {"off", "bad", "panic"},
          conns   : Seq({"whole", "cut"}),  \* connections nobody has accepted
          pid     : BOOLEAN,                \* APP_PID isn't 0
          pending : BOOLEAN,                \* SHUTDOWN_PENDING
          sigint  : BOOLEAN,                \* a SIGINT to be handled
          app     : {"none", "runs", "ended", "reaped"},
          orphans : BOOLEAN,
          termed  : BOOLEAN]                \* the app has been sent SIGTERM

Off == [pc |-> "off", conns |-> <<>>, pid |-> FALSE, pending |-> FALSE, sigint |-> FALSE,
        app |-> "none", orphans |-> FALSE, termed |-> FALSE]

PowerOn == guest' = [Off EXCEPT !.pc = "mount"]

At(pc)      == guest.pc = pc
Listening   == At("accept")
Connect(c)  == Listening /\ guest' = [guest EXCEPT !.conns = Append(@, c)]

(* forward_shutdown: a signal to an app that is gone does nothing. *)
Forwarded(g) == [g EXCEPT !.termed = @ \/ g.app = "runs"]

(* Ctrl-Alt-Del resets a guest that hasn't asked for a SIGINT instead. *)
Press == [guest EXCEPT !.pc = IF @ \in {"mount", "handler"} THEN "shutdown" ELSE @,
                       !.sigint = TRUE]

Mount   == At("mount") /\ guest' = [guest EXCEPT !.pc = "handler"]
Handler == At("handler") /\ guest' = [guest EXCEPT !.pc = "listen"]
Listen  == At("listen") /\ guest' = [guest EXCEPT !.pc = "accept"]

(* read_config_from_vsock: what was cut short doesn't parse. *)
ReadConfig ==
  /\ At("accept") /\ guest.conns # <<>>
  /\ guest' = [guest EXCEPT !.conns = Tail(@),
                            !.pc = IF Head(guest.conns) = "whole" THEN "fork" ELSE "bad"]

SpawnApp == At("fork") /\ guest' = [guest EXCEPT !.pc = "setpid", !.app = "runs"]
StorePid == At("setpid") /\ guest' = [guest EXCEPT !.pc = "check", !.pid = TRUE]

(* main doesn't look for an earlier request. *)
BugCheckPending == At("check") /\ guest' = [guest EXCEPT !.pc = "reap"]

CheckPending ==
  /\ At("check")
  /\ guest' = [IF guest.pending THEN Forwarded(guest) ELSE guest EXCEPT !.pc = "reap"]

(* reap_until_no_children *)
ReapApp    == /\ At("reap") /\ guest.app = "ended"
              /\ guest' = [guest EXCEPT !.app = "reaped", !.pc = "clear"]
ClearPid   == At("clear") /\ guest' = [guest EXCEPT !.pid = FALSE, !.pc = "reap"]
NoChildren == /\ At("reap") /\ guest.app = "reaped" /\ ~guest.orphans
              /\ guest' = [guest EXCEPT !.pc = "shutdown"]

(* handle_sigint, which also interrupts an accept that waits; waitpid and    *)
(* read go on.                                                               *)
HandleSigint ==
  /\ guest.sigint /\ guest.pc \in MainPcs
  /\ LET g == [guest EXCEPT !.sigint = FALSE,
                            !.pc = IF @ = "accept" /\ guest.conns = <<>> THEN "panic" ELSE @]
     IN  guest' = IF guest.pid THEN Forwarded(g) ELSE [g EXCEPT !.pending = TRUE]

(* The app ends, told to or not, and may leave children; those end, too. *)
AppEnds    == /\ guest.app = "runs" /\ guest.pc \in MainPcs
              /\ \E o \in BOOLEAN : guest' = [guest EXCEPT !.app = "ended", !.orphans = o]
OrphansEnd == /\ guest.orphans /\ guest.pc \in MainPcs
              /\ guest' = [guest EXCEPT !.orphans = FALSE]

MainStep ==
  \/ Mount \/ Handler \/ Listen \/ ReadConfig \/ SpawnApp \/ StorePid \/ CheckPending
  \/ ReapApp \/ ClearPid \/ NoChildren

GuestStep == MainStep \/ HandleSigint \/ AppEnds \/ OrphansEnd

(* The guest has reset itself, or its kernel has panicked. *)
GuestOver == guest.pc \in {"shutdown", "bad", "panic"}
-----------------------------------------------------------------------------
(* PID 1 never panics but over a config that was cut short: a shutdown       *)
(* request never finds it waiting for a connection (accept is not restarted).*)
InitSurvives == guest.pc # "panic"

(* A shutdown request reaches the app, wherever in main it comes, unless the *)
(* app or the guest ends first (handle_sigint, SHUTDOWN_PENDING).            *)
ShutdownReachesApp ==
  guest.sigint \/ guest.pending ~>
    guest.termed \/ guest.app \in {"ended", "reaped"} \/ guest.pc = "off"
=============================================================================
