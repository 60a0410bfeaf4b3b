----------------------------- MODULE ImageCache -----------------------------
(* The image cache (cirro-image/src/cache.rs): a directory that any number   *)
(* of cirro commands pull images into and remove them from at once, with no  *)
(* lock between them, and each of which may be interrupted at any step.      *)

CONSTANTS
  Refs,      \* image references, such as docker.io/library/nginx:alpine
  Digests,   \* manifest digests
  Procs,     \* cirro commands at work at once
  NoRecord, NoDigest, NoRef, Unread

ASSUME RecordsAssumption ==
  NoRecord # Unread /\ \A refs \in SUBSET Refs : refs # NoRecord /\ refs # Unread
ASSUME NamesAssumption == NoRef \notin Refs /\ NoDigest \notin Digests

VARIABLES
  json,      \* <digest>.json: the references on record, or NoRecord
  ext4,      \* the digests with a rootfs
  proc,      \* each command
  since      \* history: what has happened since each command began

vars == <<json, ext4, proc, since>>

PullPcs   == {"resolve", "index", "manifest", "build", "rename", "list", "write", "check"}
RemovePcs == {"rmlist", "rmrootfs", "rmrecord"}

Cmd == [pc   : PullPcs \cup RemovePcs \cup {"idle"},
        ref  : Refs \cup {NoRef},
        dig  : Digests \cup {NoDigest},
        seen : [Digests -> (SUBSET Refs) \cup {NoRecord, Unread}]]

Fresh == [d \in Digests |-> Unread]
Idle  == [pc |-> "idle", ref |-> NoRef, dig |-> NoDigest, seen |-> Fresh]

TypeOK ==
  /\ json \in [Digests -> (SUBSET Refs) \cup {NoRecord}]
  /\ ext4 \subseteq Digests
  /\ proc \in [Procs -> Cmd]
  /\ since \in [Procs -> [alone : BOOLEAN, removed : BOOLEAN]]

(* cached: a record without a rootfs is a pull that didn't finish. *)
Cached(d) == json[d] # NoRecord /\ d \in ext4

Init ==
  /\ json = [d \in Digests |-> NoRecord]
  /\ ext4 = {}
  /\ proc = [p \in Procs |-> Idle]
  /\ since = [p \in Procs |-> [alone |-> TRUE, removed |-> FALSE]]
-----------------------------------------------------------------------------
Removing(q) == proc[q].pc \in RemovePcs

(* p takes a step: the others are not alone any more. *)
Stepped(p, removes) ==
  since' = [q \in Procs |->
              IF q = p THEN since[q]
              ELSE [since[q] EXCEPT !.alone = FALSE, !.removed = @ \/ removes]]

Began(p, removes) ==
  since' = [q \in Procs |->
              IF q = p
              THEN [since[q] EXCEPT !.alone = \A o \in Procs \ {p} : proc[o].pc = "idle",
                                    !.removed = \E o \in Procs \ {p} : Removing(o)]
              ELSE [since[q] EXCEPT !.alone = FALSE, !.removed = @ \/ removes]]

Goes(p, c) == proc' = [proc EXCEPT ![p] = c] /\ Stepped(p, Removing(p))

To(p, pc) == Goes(p, [proc[p] EXCEPT !.pc = pc])

(* The command ends, with its answer or an error. *)
Over(p) == Goes(p, Idle)

Begin(p, c) == proc[p].pc = "idle" /\ proc' = [proc EXCEPT ![p] = c]

(* cirro run or cirro image pull of r. *)
Pull(p, r) ==
  /\ Begin(p, [Idle EXCEPT !.pc = "resolve", !.ref = r])
  /\ Began(p, FALSE)
  /\ UNCHANGED <<json, ext4>>

(* fetch: the manifest that the registry names by r now, or an index with it.*)
Resolve(p) ==
  /\ proc[p].pc = "resolve"
  /\ \E pc \in {"index", "manifest"}, d \in Digests :
       Goes(p, [proc[p] EXCEPT !.pc = pc, !.dig = d])
  /\ UNCHANGED <<json, ext4>>

(* An index costs a second request only when its image isn't cached. *)
FollowIndex(p) ==
  /\ proc[p].pc = "index"
  /\ To(p, IF Cached(proc[p].dig) THEN "list" ELSE "manifest")
  /\ UNCHANGED <<json, ext4>>

(* The image is cached, or is built in a scratch directory of the pull's own.*)
Fetch(p) ==
  /\ proc[p].pc = "manifest"
  /\ To(p, IF Cached(proc[p].dig) THEN "list" ELSE "build")
  /\ UNCHANGED <<json, ext4>>

(* write_record renames a whole new file into place. *)
WriteRecord(d, refs) == json' = [json EXCEPT ![d] = refs]

(* Once it is built: its record, without references, then its rootfs. *)
WriteFirstRecord(p) ==
  /\ proc[p].pc = "build"
  /\ WriteRecord(proc[p].dig, {})
  /\ To(p, "rename")
  /\ UNCHANGED ext4

RenameRootfs(p) ==
  /\ proc[p].pc = "rename"
  /\ ext4' = ext4 \cup {proc[p].dig}
  /\ To(p, "list")
  /\ UNCHANGED json

(* list: one image of the directory is read. *)
ListOne(p, d) ==
  /\ proc[p].pc \in {"list", "rmlist"} /\ proc[p].seen[d] = Unread
  /\ Goes(p, [proc[p] EXCEPT !.seen[d] = IF Cached(d) THEN json[d] ELSE NoRecord])
  /\ UNCHANGED <<json, ext4>>

Listed(p) == \A d \in Digests : proc[p].seen[d] # Unread

RememberList(p) ==
  /\ proc[p].pc = "list" /\ Listed(p)
  /\ To(p, "write")
  /\ UNCHANGED <<json, ext4>>

(* remember: every image listed that has the reference and shouldn't, or     *)
(* should have it, is rewritten from what was listed; images without         *)
(* references come first in the list.                                        *)
Left(p) == {d \in Digests : proc[p].seen[d] # NoRecord}

Rewrites(p, d) == d = proc[p].dig \/ proc[p].ref \in proc[p].seen[d]

(* The images that had the reference keep it. *)
BugNewRefs(p, d) ==
  proc[p].seen[d] \cup (IF d = proc[p].dig THEN {proc[p].ref} ELSE {})

NewRefs(p, d) ==
  (proc[p].seen[d] \ {proc[p].ref}) \cup (IF d = proc[p].dig THEN {proc[p].ref} ELSE {})

RememberOne(p, d) ==
  /\ proc[p].pc = "write" /\ d \in Left(p)
  /\ proc[p].seen[d] = {} \/ \A e \in Left(p) : proc[p].seen[e] # {}
  /\ IF Rewrites(p, d) THEN WriteRecord(d, NewRefs(p, d)) ELSE UNCHANGED json
  /\ Goes(p, [proc[p] EXCEPT !.seen[d] = NoRecord])
  /\ UNCHANGED ext4

RememberDone(p) ==
  /\ proc[p].pc = "write" /\ Left(p) = {}
  /\ To(p, "check")
  /\ UNCHANGED <<json, ext4>>

(* Its end: the image, or an error that it has vanished. *)
Answer(p) ==
  /\ proc[p].pc = "check"
  /\ Over(p)
  /\ UNCHANGED <<json, ext4>>

(* A rename that fails takes the record back. *)
BugPullFails(p) ==
  /\ proc[p].pc \in PullPcs \ {"check"}
  /\ Over(p)
  /\ json' = IF proc[p].pc = "rename" THEN [json EXCEPT ![proc[p].dig] = NoRecord] ELSE json
  /\ UNCHANGED ext4

(* The registry can't be reached or hasn't a linux/amd64 image that can be   *)
(* built, mke2fs fails, or a file can't be written or renamed.               *)
PullFails(p) ==
  /\ proc[p].pc \in PullPcs \ {"check"}
  /\ Over(p)
  /\ UNCHANGED <<json, ext4>>
-----------------------------------------------------------------------------
(* cirro image rm, of what may be a reference, (the start of) a digest or    *)
(* both.                                                                     *)
RemoveImage(p, r, d) ==
  /\ r # NoRef \/ d # NoDigest
  /\ Begin(p, [Idle EXCEPT !.pc = "rmlist", !.ref = r, !.dig = d])
  /\ Began(p, TRUE)
  /\ UNCHANGED <<json, ext4>>

Matches(p) ==
  {d \in Digests : /\ proc[p].seen[d] # NoRecord
                   /\ proc[p].ref \in proc[p].seen[d] \/ proc[p].dig = d}

(* One image must match; none and several are errors. *)
RemoveMatch(p) ==
  /\ proc[p].pc = "rmlist" /\ Listed(p)
  /\ \/ \E d \in Digests : Matches(p) = {d} /\ Goes(p, [Idle EXCEPT !.pc = "rmrootfs", !.dig = d])
     \/ (\A d \in Digests : Matches(p) # {d}) /\ Over(p)
  /\ UNCHANGED <<json, ext4>>

(* The rootfs goes first.  A file that is gone already, or can't be removed, *)
(* ends the command.                                                         *)
RemoveRootfs(p) ==
  /\ proc[p].pc = "rmrootfs"
  /\ \/ /\ proc[p].dig \in ext4
        /\ ext4' = ext4 \ {proc[p].dig}
        /\ To(p, "rmrecord")
     \/ Over(p) /\ UNCHANGED ext4
  /\ UNCHANGED json

RemoveRecord(p) ==
  /\ proc[p].pc = "rmrecord"
  /\ json' = [json EXCEPT ![proc[p].dig] = NoRecord] \/ UNCHANGED json
  /\ Over(p)
  /\ UNCHANGED ext4

(* The command is killed. *)
Killed(p) ==
  /\ proc[p].pc # "idle"
  /\ Goes(p, Idle)
  /\ UNCHANGED <<json, ext4>>

PullGoesOn(p) ==
  \/ Resolve(p) \/ FollowIndex(p) \/ Fetch(p) \/ WriteFirstRecord(p) \/ RenameRootfs(p)
  \/ RememberList(p) \/ RememberDone(p) \/ Answer(p) \/ PullFails(p)
  \/ \E d \in Digests : ListOne(p, d) \/ RememberOne(p, d)

Next ==
  \/ \E p \in Procs :
       \/ PullGoesOn(p) \/ RemoveMatch(p) \/ RemoveRootfs(p) \/ RemoveRecord(p) \/ Killed(p)
       \/ \E r \in Refs : Pull(p, r)
       \/ \E r \in Refs \cup {NoRef}, d \in Digests \cup {NoDigest} : RemoveImage(p, r, d)

Spec == Init /\ [][Next]_vars
-----------------------------------------------------------------------------
(* The cached images that a reference finds. *)
Named(r) == {d \in Digests : Cached(d) /\ r \in json[d]}

(* A pull that nobody disturbed leaves its reference naming its image and    *)
(* no other, whatever interrupted or racing commands left in the cache       *)
(* before it: half-removed images, unfinished pulls, a reference on two      *)
(* images (remember, fetch).                                                 *)
AlonePullNames ==
  \A p \in Procs :
    proc[p].pc = "check" /\ since[p].alone => Named(proc[p].ref) = {proc[p].dig}

(* A pull whose image isn't there at its end has met a removal; other pulls, *)
(* and interrupted ones, can't make it answer that it vanished (remember's   *)
(* last line).                                                               *)
OnlyRemovalVanishes ==
  TypeOK /\ \A p \in Procs :
    proc[p].pc \in {"list", "write", "check"} /\ ~since[p].removed => Cached(proc[p].dig)
=============================================================================
