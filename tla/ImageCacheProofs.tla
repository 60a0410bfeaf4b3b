-------------------------- MODULE ImageCacheProofs --------------------------
(* Proofs about the image cache (cirro-image/src/cache.rs), for any number   *)
(* of commands, references and images.                                       *)
EXTENDS ImageCache, TLAPS

(* What a command knows at each of its steps. *)
SoundCmd ==
  {c \in Cmd :
     /\ c.pc \in PullPcs => c.ref \in Refs
     /\ c.pc \in (PullPcs \ {"resolve"}) \cup {"rmrootfs", "rmrecord"} => c.dig \in Digests
     /\ c.pc \in {"write"} => \A d \in Digests : c.seen[d] # Unread
     /\ c.pc \in PullPcs \ {"list", "write", "check"} => c.seen = Fresh}

Sound == \A p \in Procs : proc[p] \in SoundCmd

(* A pull met no removal as long as it was alone. *)
AloneMet == \A p \in Procs : since[p].alone = TRUE => since[p].removed # TRUE

(* The record a pull has written stays, and so does the image it found or    *)
(* built, until somebody removes it: j and e are the records and rootfs's.   *)
Has(j, e, d) == j[d] # NoRecord /\ d \in e

Stays(j, e, c) ==
  /\ c.pc = "rename" => j[c.dig] # NoRecord
  /\ c.pc \in {"list", "write", "check"} => Has(j, e, c.dig)

Kept == \A p \in Procs : since[p].removed # TRUE => Stays(json, ext4, proc[p])

(* What a pull that is alone has listed is what there is; what it has dealt  *)
(* with names its image by its reference, and no other image.                *)
Settled(j, e, c, d) == Has(j, e, d) => (c.ref \in j[d] <=> d = c.dig)

Knows(j, e, c) ==
  /\ c.pc = "list" => \A d \in Digests :
       c.seen[d] = Unread \/ c.seen[d] = IF Has(j, e, d) THEN j[d] ELSE NoRecord
  /\ c.pc = "write" => \A d \in Digests :
       IF c.seen[d] # NoRecord THEN Has(j, e, d) /\ j[d] = c.seen[d] ELSE Settled(j, e, c, d)
  /\ c.pc = "check" => \A d \in Digests : Settled(j, e, c, d)

Known == \A p \in Procs : since[p].alone = TRUE => Knows(json, ext4, proc[p])

IInv == TypeOK /\ Sound /\ AloneMet /\ Kept /\ Known

-----------------------------------------------------------------------------
(* An empty cache, and no command yet. *)
LEMMA InitInv == Init => IInv
<1> SUFFICES ASSUME Init PROVE IInv
  OBVIOUS
<1>1. Idle \in Cmd /\ Idle.pc = "idle"
  BY DEF Idle, Cmd, Fresh
<1>2. Idle \in SoundCmd
  BY <1>1 DEF SoundCmd, PullPcs
<1>3. TypeOK
  BY <1>1 DEF Init, TypeOK
<1>4. Sound /\ AloneMet
  BY <1>2, Zenon DEF Init, Sound, AloneMet
<1>5. Kept /\ Known
  BY <1>1, Zenon DEF Init, Kept, Known, Stays, Knows
<1> QED
  BY <1>3, <1>4, <1>5 DEF IInv

-----------------------------------------------------------------------------
(* The histories after a step of p: another command isn't alone any more,    *)
(* and has met a removal if this was one.                                    *)
Met(p, removes) ==
  /\ since' \in [Procs -> [alone : BOOLEAN, removed : BOOLEAN]]
  /\ \A q \in Procs \ {p} :
       /\ since'[q].alone # TRUE
       /\ since'[q].removed # TRUE => since[q].removed # TRUE /\ ~removes

(* ... which a step leaves p's own as it was ... *)
LEMMA SteppedMet ==
  ASSUME TypeOK, NEW p \in Procs, NEW removes \in BOOLEAN, Stepped(p, removes)
  PROVE  Met(p, removes) /\ since'[p] = since[p]
<1> DEFINE H == [alone : BOOLEAN, removed : BOOLEAN]
           next(q) == [since[q] EXCEPT !.alone = FALSE, !.removed = since[q].removed \/ removes]
<1>1. ASSUME NEW q \in Procs
      PROVE  /\ next(q) \in H /\ since[q] \in H /\ next(q).alone = FALSE
             /\ next(q).removed = (since[q].removed \/ removes)
  BY Zenon DEF TypeOK
<1>2. since' = [q \in Procs |-> IF q = p THEN since[q] ELSE next(q)]
  BY Zenon DEF Stepped
<1> HIDE DEF next
<1>3. since' \in [Procs -> H]
  BY <1>1, <1>2, Zenon
<1>4. since'[p] = since[p] /\ \A q \in Procs \ {p} : since'[q] = next(q)
  BY <1>2
<1>5. ASSUME NEW q \in Procs \ {p}
      PROVE  /\ since'[q].alone # TRUE
             /\ since'[q].removed # TRUE => since[q].removed # TRUE /\ ~removes
  <2>1. since'[q].alone = FALSE /\ since'[q].removed = (since[q].removed \/ removes)
    BY <1>1, <1>4, Zenon
  <2>2. since[q].removed \in BOOLEAN
    BY <1>1, Zenon
  <2> QED
    BY <2>1, <2>2, Zenon
<1> QED
  BY <1>3, <1>4, <1>5, Zenon DEF Met

(* ... and a beginning tells whether the others are idle, or remove. *)
LEMMA BeganMet ==
  ASSUME TypeOK, NEW p \in Procs, NEW removes \in BOOLEAN, Began(p, removes)
  PROVE  Met(p, FALSE) /\ (since'[p].alone = TRUE => since'[p].removed # TRUE)
<1> DEFINE H == [alone : BOOLEAN, removed : BOOLEAN]
           idle == \A o \in Procs \ {p} : proc[o].pc = "idle"
           busy == \E o \in Procs \ {p} : Removing(o)
           mine == [since[p] EXCEPT !.alone = idle, !.removed = busy]
           next(q) == [since[q] EXCEPT !.alone = FALSE, !.removed = since[q].removed \/ removes]
<1>1. ~(idle /\ busy)
  BY DEF Removing, RemovePcs
<1>2. since' = [q \in Procs |-> IF q = p THEN mine ELSE next(q)]
  BY Zenon DEF Began
<1>3. idle \in BOOLEAN /\ busy \in BOOLEAN
  BY Zenon
<1> HIDE DEF idle, busy
<1>4. mine \in H /\ mine.alone = idle /\ mine.removed = busy
  BY <1>3, Zenon DEF TypeOK
<1>5. ASSUME NEW q \in Procs
      PROVE  /\ next(q) \in H /\ since[q] \in H /\ next(q).alone = FALSE
             /\ next(q).removed = (since[q].removed \/ removes)
  BY Zenon DEF TypeOK
<1> HIDE DEF next, mine
<1>6. since' \in [Procs -> H]
  BY <1>2, <1>4, <1>5, Zenon
<1>7. since'[p] = mine /\ \A q \in Procs \ {p} : since'[q] = next(q)
  BY <1>2
<1>8. ASSUME NEW q \in Procs \ {p}
      PROVE  since'[q].alone # TRUE /\ (since'[q].removed # TRUE => since[q].removed # TRUE)
  <2>1. since'[q].alone = FALSE /\ since'[q].removed = (since[q].removed \/ removes)
    BY <1>5, <1>7, Zenon
  <2>2. since[q].removed \in BOOLEAN
    BY <1>5, Zenon
  <2> QED
    BY <2>1, <2>2, Zenon
<1>9. since'[p].alone = TRUE => since'[p].removed # TRUE
  BY <1>1, <1>3, <1>4, <1>7, Zenon
<1> QED
  BY <1>6, <1>8, <1>9, Zenon DEF Met

-----------------------------------------------------------------------------
(* Nothing is taken from the cache. *)
Grows == \A d \in Digests : (json[d] # NoRecord => json'[d] # NoRecord) /\ (d \in ext4 => d \in ext4')

(* A step of one command, which takes nothing from the cache unless it       *)
(* removes an image.                                                         *)
LEMMA CmdInv ==
  ASSUME IInv, NEW p \in Procs, NEW c \in SoundCmd, NEW removes \in BOOLEAN, Met(p, removes),
         proc' = [proc EXCEPT ![p] = c],
         json' \in [Digests -> (SUBSET Refs) \cup {NoRecord}], ext4' \subseteq Digests,
         removes \/ Grows,
         since'[p].alone = TRUE => since'[p].removed # TRUE /\ Knows(json', ext4', c),
         since'[p].removed # TRUE => Stays(json', ext4', c)
  PROVE  IInv'
<1>1. proc \in [Procs -> Cmd]
  BY Zenon DEF IInv, TypeOK
<1>2. proc'[p] = c /\ \A q \in Procs \ {p} : proc'[q] = proc[q]
  BY <1>1, Zenon
<1>3. c \in Cmd
  BY DEF SoundCmd
<1>4. TypeOK'
  <2>1. proc' \in [Procs -> Cmd]
    BY <1>1, <1>3
  <2> QED
    BY <2>1, Zenon DEF TypeOK, Met
<1>5. Sound'
  BY <1>2, Zenon DEF IInv, Sound
<1>6. AloneMet'
  BY Zenon DEF Met, AloneMet
<1>7. Kept'
  <2> SUFFICES ASSUME NEW q \in Procs \ {p}, since'[q].removed # TRUE
               PROVE  Stays(json', ext4', proc'[q])
    BY <1>2, Zenon DEF Kept
  <2>1. since[q].removed # TRUE /\ Grows
    BY Zenon DEF Met
  <2>2. Stays(json, ext4, proc[q]) /\ proc[q] \in SoundCmd
    BY <2>1, Zenon DEF IInv, Kept, Sound
  <2>3. proc[q].pc \in {"rename", "list", "write", "check"} => proc[q].dig \in Digests
    BY <2>2 DEF SoundCmd, PullPcs
  <2> QED
    BY <1>2, <2>1, <2>2, <2>3 DEF Stays, Has, Grows
<1>8. Known'
  BY <1>2, Zenon DEF Known, Met
<1> QED
  BY <1>4, <1>5, <1>6, <1>7, <1>8, Zenon DEF IInv

(* A step within a command. *)
LEMMA GoesInv ==
  ASSUME IInv, NEW p \in Procs, NEW c \in SoundCmd, Goes(p, c),
         json' \in [Digests -> (SUBSET Refs) \cup {NoRecord}], ext4' \subseteq Digests,
         Removing(p) \/ Grows,
         since[p].alone = TRUE => Knows(json', ext4', c),
         since[p].removed # TRUE => Stays(json', ext4', c)
  PROVE  IInv'
<1>1. Removing(p) \in BOOLEAN
  BY DEF Removing
<1>2. TypeOK /\ (since[p].alone = TRUE => since[p].removed # TRUE)
  BY Zenon DEF IInv, AloneMet
<1>3. Stepped(p, Removing(p)) /\ proc' = [proc EXCEPT ![p] = c]
  BY Zenon DEF Goes
<1>4. Met(p, Removing(p)) /\ since'[p] = since[p]
  BY <1>1, <1>2, <1>3, SteppedMet, Zenon
<1> QED
  BY <1>1, <1>2, <1>3, <1>4, CmdInv, Zenon

(* The cache as it is has its types, and a step that leaves it so only adds. *)
LEMMA CacheAlone ==
  ASSUME IInv
  PROVE  /\ json \in [Digests -> (SUBSET Refs) \cup {NoRecord}] /\ ext4 \subseteq Digests
         /\ UNCHANGED <<json, ext4>> =>
              json' \in [Digests -> (SUBSET Refs) \cup {NoRecord}] /\ ext4' \subseteq Digests /\ Grows
BY Zenon DEF IInv, TypeOK, Grows

(* A command that is over knows nothing and needs nothing. *)
LEMMA IdleSound == /\ Idle \in SoundCmd /\ \A j, e : Stays(j, e, Idle) /\ Knows(j, e, Idle)
<1>1. Idle \in Cmd /\ Idle.pc = "idle"
  BY DEF Idle, Cmd, Fresh
<1>2. Idle \in SoundCmd
  BY <1>1 DEF SoundCmd, PullPcs
<1> QED
  BY <1>1, <1>2 DEF Stays, Knows

(* A command ends: its answer, an error, or killed. *)
LEMMA OverInv ==
  ASSUME IInv, NEW p \in Procs, Over(p),
         json' \in [Digests -> (SUBSET Refs) \cup {NoRecord}], ext4' \subseteq Digests,
         Removing(p) \/ Grows
  PROVE  IInv'
BY IdleSound, GoesInv, Zenon DEF Over

(* A pull or a removal begins. *)
LEMMA BeginInv ==
  ASSUME IInv, NEW p \in Procs,
         \/ \E r \in Refs : Pull(p, r)
         \/ \E r \in Refs \cup {NoRef}, d \in Digests \cup {NoDigest} : RemoveImage(p, r, d)
  PROVE  IInv'
<1>1. ASSUME NEW c \in SoundCmd, c.pc \in {"resolve", "rmlist"}, NEW removes \in BOOLEAN,
             Begin(p, c), Began(p, removes), UNCHANGED <<json, ext4>>
      PROVE  IInv'
  <2>1. Met(p, FALSE) /\ (since'[p].alone = TRUE => since'[p].removed # TRUE)
    BY <1>1, BeganMet, Zenon DEF IInv
  <2>2. Stays(json', ext4', c) /\ Knows(json', ext4', c)
    BY <1>1 DEF Stays, Knows
  <2>3. proc' = [proc EXCEPT ![p] = c]
    BY <1>1, Zenon DEF Begin
  <2> QED
    BY <1>1, <2>1, <2>2, <2>3, CacheAlone, CmdInv, Zenon
<1>2. ASSUME NEW r \in Refs, Pull(p, r) PROVE IInv'
  <2> DEFINE c == [Idle EXCEPT !.pc = "resolve", !.ref = r]
  <2>1. c \in Cmd /\ c.pc = "resolve" /\ c.ref = r /\ c.seen = Fresh
    BY Zenon DEF Idle, Cmd, Fresh, PullPcs
  <2>2. Begin(p, c) /\ Began(p, FALSE) /\ UNCHANGED <<json, ext4>>
    BY <1>2, Zenon DEF Pull
  <2> HIDE DEF c
  <2>3. c \in SoundCmd
    BY <2>1 DEF SoundCmd, PullPcs
  <2>4. c.pc \in {"resolve", "rmlist"}
    BY <2>1
  <2> QED
    BY <1>1, <2>2, <2>3, <2>4, Zenon
<1>3. ASSUME NEW r \in Refs \cup {NoRef}, NEW d \in Digests \cup {NoDigest}, RemoveImage(p, r, d)
      PROVE  IInv'
  <2> DEFINE c == [Idle EXCEPT !.pc = "rmlist", !.ref = r, !.dig = d]
  <2>1. c \in Cmd /\ c.pc = "rmlist"
    BY Zenon DEF Idle, Cmd, Fresh, RemovePcs
  <2>2. Begin(p, c) /\ Began(p, TRUE) /\ UNCHANGED <<json, ext4>>
    BY <1>3, Zenon DEF RemoveImage
  <2> HIDE DEF c
  <2>3. c \in SoundCmd
    BY <2>1 DEF SoundCmd, PullPcs
  <2>4. c.pc \in {"resolve", "rmlist"}
    BY <2>1
  <2> QED
    BY <1>1, <2>2, <2>3, <2>4, Zenon
<1> QED
  BY <1>2, <1>3, Zenon

-----------------------------------------------------------------------------
(* What each command is. *)
LEMMA CmdSound ==
  ASSUME IInv, NEW p \in Procs
  PROVE  /\ proc[p] \in SoundCmd /\ proc[p] \in Cmd
         /\ since[p].removed # TRUE => Stays(json, ext4, proc[p])
         /\ since[p].alone = TRUE => since[p].removed # TRUE /\ Knows(json, ext4, proc[p])
<1>1. proc[p] \in SoundCmd
  BY Zenon DEF IInv, Sound
<1>2. proc[p] \in Cmd
  BY <1>1 DEF SoundCmd
<1> QED
  BY <1>1, <1>2, Zenon DEF IInv, Kept, Known, AloneMet

(* A command with another step to take. *)
LEMMA Moved ==
  ASSUME NEW c \in Cmd, NEW pc \in PullPcs \cup RemovePcs
  PROVE  LET n == [c EXCEPT !.pc = pc]
         IN  n \in Cmd /\ n.pc = pc /\ n.ref = c.ref /\ n.dig = c.dig /\ n.seen = c.seen
BY DEF Cmd

(* The registry's answer: nothing is known of its image yet. *)
LEMMA ResolveInv == ASSUME IInv, NEW p \in Procs, Resolve(p) PROVE IInv'
<1>1. PICK pc \in {"index", "manifest"}, d \in Digests :
        Goes(p, [proc[p] EXCEPT !.pc = pc, !.dig = d])
  BY Zenon DEF Resolve
<1> DEFINE c == [proc[p] EXCEPT !.pc = pc, !.dig = d]
<1>2. proc[p].pc = "resolve" /\ UNCHANGED <<json, ext4>>
  BY Zenon DEF Resolve
<1>3. c \in Cmd /\ c.pc = pc /\ c.dig = d /\ c.ref = proc[p].ref /\ c.seen = proc[p].seen
  BY <1>1, CmdSound, Zenon DEF Cmd, PullPcs
<1>4. Goes(p, c)
  BY <1>1, Zenon
<1> HIDE DEF c
<1>5. c \in SoundCmd
  BY <1>2, <1>3, CmdSound, Zenon DEF SoundCmd, PullPcs
<1>6. Stays(json', ext4', c) /\ Knows(json', ext4', c)
  BY <1>3 DEF Stays, Knows
<1> QED
  BY <1>2, <1>4, <1>5, <1>6, CacheAlone, GoesInv, Zenon

(* A pull that finds its image cached goes on to its references, having read *)
(* nothing yet.                                                              *)
LEMMA FoundInv ==
  ASSUME IInv, NEW p \in Procs, proc[p].pc \in {"index", "manifest"},
         NEW pc \in {"manifest", "build"},
         To(p, IF Cached(proc[p].dig) THEN "list" ELSE pc), UNCHANGED <<json, ext4>>
  PROVE  IInv'
<1> DEFINE to == IF Cached(proc[p].dig) THEN "list" ELSE pc
           c == [proc[p] EXCEPT !.pc = to]
<1>1. to \in PullPcs \cup RemovePcs /\ to \in {"list", "manifest", "build"}
  BY DEF PullPcs
<1>2. to = "list" => Has(json, ext4, proc[p].dig)
  BY DEF Cached, Has
<1>3. Goes(p, c)
  BY Zenon DEF To
<1> HIDE DEF to
<1>4. c \in Cmd /\ c.pc = to /\ c.ref = proc[p].ref /\ c.dig = proc[p].dig /\ c.seen = proc[p].seen
  BY <1>1, CmdSound, Moved, Zenon
<1> HIDE DEF c
<1>5. proc[p].seen = Fresh /\ proc[p].dig \in Digests /\ proc[p].ref \in Refs
  BY CmdSound, Zenon DEF SoundCmd, PullPcs
<1>6. c \in SoundCmd
  BY <1>1, <1>4, <1>5 DEF SoundCmd, PullPcs
<1>7. Stays(json', ext4', c)
  BY <1>1, <1>2, <1>4 DEF Stays
<1>8. Knows(json', ext4', c)
  BY <1>1, <1>4, <1>5 DEF Knows, Fresh
<1> QED
  BY <1>3, <1>6, <1>7, <1>8, CacheAlone, GoesInv, Zenon

(* The index's image, and the manifest's. *)
LEMMA LookedInv == ASSUME IInv, NEW p \in Procs, FollowIndex(p) \/ Fetch(p) PROVE IInv'
<1>1. CASE FollowIndex(p)
  BY <1>1, FoundInv, Zenon DEF FollowIndex
<1>2. CASE Fetch(p)
  BY <1>2, FoundInv, Zenon DEF Fetch
<1> QED
  BY <1>1, <1>2, Zenon

(* The record of a new image, which is not an image without its rootfs; or   *)
(* one without references, when somebody has pulled the same meanwhile.      *)
LEMMA FirstRecordInv == ASSUME IInv, NEW p \in Procs, WriteFirstRecord(p) PROVE IInv'
<1> DEFINE c == [proc[p] EXCEPT !.pc = "rename"]
<1>1. /\ c \in Cmd /\ c.pc = "rename"
      /\ c.ref = proc[p].ref /\ c.dig = proc[p].dig /\ c.seen = proc[p].seen
  <2>1. "rename" \in PullPcs \cup RemovePcs
    BY DEF PullPcs
  <2> QED
    BY <2>1, CmdSound, Moved, Zenon
<1>2. /\ proc[p].pc = "build" /\ Goes(p, c) /\ ext4' = ext4
      /\ json' = [json EXCEPT ![proc[p].dig] = {}]
  BY Zenon DEF WriteFirstRecord, To, WriteRecord
<1> HIDE DEF c
<1>3. proc[p].seen = Fresh /\ proc[p].dig \in Digests /\ proc[p].ref \in Refs
  BY <1>2, CmdSound, Zenon DEF SoundCmd, PullPcs
<1>4. c \in SoundCmd
  BY <1>1, <1>3 DEF SoundCmd, PullPcs
<1>5. {} # NoRecord
  BY RecordsAssumption
<1>6. json' \in [Digests -> (SUBSET Refs) \cup {NoRecord}] /\ ext4' \subseteq Digests /\ Grows
  BY <1>2, <1>3, <1>5, CacheAlone DEF Grows
<1>7. Stays(json', ext4', c) /\ Knows(json', ext4', c)
  BY <1>1, <1>2, <1>3, <1>5, CacheAlone DEF Stays, Knows
<1> QED
  BY <1>2, <1>4, <1>6, <1>7, GoesInv, Zenon

(* Its rootfs: the image is there, unless its record was removed. *)
LEMMA RenameInv == ASSUME IInv, NEW p \in Procs, RenameRootfs(p) PROVE IInv'
<1> DEFINE c == [proc[p] EXCEPT !.pc = "list"]
<1>1. /\ c \in Cmd /\ c.pc = "list"
      /\ c.ref = proc[p].ref /\ c.dig = proc[p].dig /\ c.seen = proc[p].seen
  <2>1. "list" \in PullPcs \cup RemovePcs
    BY DEF PullPcs
  <2> QED
    BY <2>1, CmdSound, Moved, Zenon
<1>2. proc[p].pc = "rename" /\ Goes(p, c) /\ ext4' = ext4 \cup {proc[p].dig} /\ json' = json
  BY Zenon DEF RenameRootfs, To
<1> HIDE DEF c
<1>3. proc[p].seen = Fresh /\ proc[p].dig \in Digests /\ proc[p].ref \in Refs
  BY <1>2, CmdSound, Zenon DEF SoundCmd, PullPcs
<1>4. c \in SoundCmd
  BY <1>1, <1>3 DEF SoundCmd, PullPcs
<1>5. json' \in [Digests -> (SUBSET Refs) \cup {NoRecord}] /\ ext4' \subseteq Digests /\ Grows
  BY <1>2, <1>3, CacheAlone DEF Grows
<1>6. since[p].removed # TRUE => Stays(json', ext4', c)
  BY <1>1, <1>2, CmdSound, Zenon DEF Stays, Has
<1>7. Knows(json', ext4', c)
  BY <1>1, <1>3 DEF Knows, Fresh
<1> QED
  BY <1>2, <1>4, <1>5, <1>6, <1>7, GoesInv, Zenon

-----------------------------------------------------------------------------
(* What a command has read of one image. *)
LEMMA SeenMoved ==
  ASSUME NEW c \in Cmd, NEW d \in Digests, NEW refs \in (SUBSET Refs) \cup {NoRecord, Unread}
  PROVE  LET n == [c EXCEPT !.seen[d] = refs]
         IN  /\ n \in Cmd /\ n.pc = c.pc /\ n.ref = c.ref /\ n.dig = c.dig
             /\ n.seen[d] = refs /\ \A o \in Digests \ {d} : n.seen[o] = c.seen[o]
BY DEF Cmd

(* list reads an image as it is. *)
LEMMA ListInv == ASSUME IInv, NEW p \in Procs, NEW d \in Digests, ListOne(p, d) PROVE IInv'
<1> DEFINE read == IF Cached(d) THEN json[d] ELSE NoRecord
           c == [proc[p] EXCEPT !.seen[d] = read]
<1>1. read = IF Has(json, ext4, d) THEN json[d] ELSE NoRecord
  BY Zenon DEF Cached, Has
<1>2. read \in (SUBSET Refs) \cup {NoRecord, Unread}
  BY CacheAlone
<1>3. proc[p].pc \in {"list", "rmlist"} /\ Goes(p, c) /\ UNCHANGED <<json, ext4>>
  BY Zenon DEF ListOne
<1> HIDE DEF read
<1>4. /\ c \in Cmd /\ c.pc = proc[p].pc /\ c.ref = proc[p].ref /\ c.dig = proc[p].dig
      /\ c.seen[d] = read /\ \A o \in Digests \ {d} : c.seen[o] = proc[p].seen[o]
  <2>1. proc[p] \in Cmd
    BY CmdSound, Zenon
  <2> QED
    BY <1>2, <2>1 DEF Cmd
<1>5. c \in SoundCmd
  BY <1>3, <1>4, CmdSound, Zenon DEF SoundCmd, PullPcs
<1>6. since[p].removed # TRUE => Stays(json', ext4', c)
  BY <1>3, <1>4, CmdSound, Zenon DEF Stays
<1>7. since[p].alone = TRUE => Knows(json', ext4', c)
  <2> SUFFICES ASSUME Knows(json, ext4, proc[p]), c.pc = "list", NEW o \in Digests
               PROVE  \/ c.seen[o] = Unread
                      \/ c.seen[o] = IF Has(json, ext4, o) THEN json[o] ELSE NoRecord
    BY <1>3, <1>4, CmdSound, Zenon DEF Knows
  <2>1. CASE o = d
    BY <1>1, <1>4, <2>1, Zenon
  <2>2. CASE o # d
    BY <1>4, <2>2, Zenon DEF Knows
  <2> QED
    BY <2>1, <2>2, Zenon
<1> QED
  BY <1>3, <1>5, <1>6, <1>7, CacheAlone, GoesInv, Zenon

(* All of it is read: an image that isn't on the list isn't there. *)
LEMMA RememberListInv == ASSUME IInv, NEW p \in Procs, RememberList(p) PROVE IInv'
<1> DEFINE c == [proc[p] EXCEPT !.pc = "write"]
<1>1. /\ c \in Cmd /\ c.pc = "write"
      /\ c.ref = proc[p].ref /\ c.dig = proc[p].dig /\ c.seen = proc[p].seen
  <2>1. "write" \in PullPcs \cup RemovePcs
    BY DEF PullPcs
  <2> QED
    BY <2>1, CmdSound, Moved, Zenon
<1>2. /\ proc[p].pc = "list" /\ Goes(p, c) /\ UNCHANGED <<json, ext4>>
      /\ \A d \in Digests : proc[p].seen[d] # Unread
  BY Zenon DEF RememberList, Listed, To
<1> HIDE DEF c
<1>3. c \in SoundCmd
  BY <1>1, <1>2, CmdSound, Zenon DEF SoundCmd, PullPcs
<1>4. since[p].removed # TRUE => Stays(json', ext4', c)
  BY <1>1, <1>2, CmdSound, Zenon DEF Stays
<1>5. since[p].alone = TRUE => Knows(json', ext4', c)
  <2> SUFFICES ASSUME Knows(json, ext4, proc[p]), NEW d \in Digests
               PROVE  IF c.seen[d] # NoRecord THEN Has(json, ext4, d) /\ json[d] = c.seen[d]
                      ELSE Settled(json, ext4, c, d)
    BY <1>1, <1>2, CmdSound, Zenon DEF Knows
  <2>1. c.seen[d] = IF Has(json, ext4, d) THEN json[d] ELSE NoRecord
    BY <1>1, <1>2, Zenon DEF Knows
  <2> QED
    BY <2>1, Zenon DEF Settled, Has
<1> QED
  BY <1>2, <1>3, <1>4, <1>5, CacheAlone, GoesInv, Zenon

(* remember deals with one image of the list: the pull's own has the         *)
(* reference after it, any other hasn't.  A record is only replaced, so that *)
(* no other pull loses its image.                                            *)
LEMMA RememberOneInv == ASSUME IInv, NEW p \in Procs, NEW d \in Digests, RememberOne(p, d) PROVE IInv'
<1> DEFINE c == [proc[p] EXCEPT !.seen[d] = NoRecord]
<1>1. /\ c \in Cmd /\ c.pc = proc[p].pc /\ c.ref = proc[p].ref /\ c.dig = proc[p].dig
      /\ c.seen[d] = NoRecord /\ \A o \in Digests \ {d} : c.seen[o] = proc[p].seen[o]
  <2>1. proc[p] \in Cmd /\ NoRecord \in (SUBSET Refs) \cup {NoRecord, Unread}
    BY CmdSound, Zenon
  <2> QED
    BY <2>1, SeenMoved
<1>2. /\ proc[p].pc = "write" /\ Goes(p, c) /\ ext4' = ext4 /\ proc[p].seen[d] # NoRecord
      /\ IF Rewrites(p, d) THEN json' = [json EXCEPT ![d] = NewRefs(p, d)] ELSE json' = json
  BY Zenon DEF RememberOne, WriteRecord, Left
<1> HIDE DEF c
<1>3. /\ proc[p].seen[d] \subseteq Refs /\ proc[p].ref \in Refs /\ proc[p].dig \in Digests
      /\ \A o \in Digests : proc[p].seen[o] # Unread
  BY <1>2, CmdSound, Zenon DEF SoundCmd, Cmd, PullPcs
<1>4. c \in SoundCmd
  BY <1>1, <1>2, <1>3, RecordsAssumption DEF SoundCmd, PullPcs
<1>5. NewRefs(p, d) \in SUBSET Refs
  BY <1>3 DEF NewRefs
<1>6. NewRefs(p, d) # NoRecord
  BY <1>5, RecordsAssumption, Zenon
<1>7. proc[p].ref \in NewRefs(p, d) <=> d = proc[p].dig
  BY DEF NewRefs
<1>8. /\ json'[d] = IF Rewrites(p, d) THEN NewRefs(p, d) ELSE json[d]
      /\ \A o \in Digests \ {d} : json'[o] = json[o]
      /\ json' \in [Digests -> (SUBSET Refs) \cup {NoRecord}]
  BY <1>2, <1>5, CacheAlone
<1>9. ext4' \subseteq Digests /\ Grows
  BY <1>2, <1>6, <1>8, CacheAlone, Zenon DEF Grows
<1>10. since[p].removed # TRUE => Stays(json', ext4', c)
  BY <1>1, <1>2, <1>3, <1>9, CmdSound, Zenon DEF Stays, Has, Grows
<1>11. since[p].alone = TRUE => Knows(json', ext4', c)
  <2> SUFFICES ASSUME Knows(json, ext4, proc[p]), NEW o \in Digests
               PROVE  IF c.seen[o] # NoRecord THEN Has(json', ext4', o) /\ json'[o] = c.seen[o]
                      ELSE Settled(json', ext4', c, o)
    BY <1>1, <1>2, CmdSound, Zenon DEF Knows
  <2>1. IF proc[p].seen[o] # NoRecord THEN Has(json, ext4, o) /\ json[o] = proc[p].seen[o]
        ELSE Settled(json, ext4, proc[p], o)
    BY <1>2, Zenon DEF Knows
  <2>2. CASE o = d
    <3>1. json[d] = proc[p].seen[d]
      BY <1>2, <2>1, <2>2, Zenon
    <3>2. proc[p].ref \in json'[d] <=> d = proc[p].dig
      <4>1. CASE Rewrites(p, d)
        BY <1>7, <1>8, <4>1, Zenon
      <4>2. CASE ~Rewrites(p, d)
        BY <1>8, <3>1, <4>2, Zenon DEF Rewrites
      <4> QED
        BY <4>1, <4>2, Zenon
    <3> QED
      BY <1>1, <2>2, <3>2, Zenon DEF Settled
  <2>3. CASE o # d
    BY <1>1, <1>2, <1>8, <2>1, <2>3, Zenon DEF Settled, Has
  <2> QED
    BY <2>2, <2>3, Zenon
<1> QED
  BY <1>2, <1>4, <1>8, <1>9, <1>10, <1>11, GoesInv, Zenon

(* All of the list is dealt with. *)
LEMMA RememberDoneInv == ASSUME IInv, NEW p \in Procs, RememberDone(p) PROVE IInv'
<1> DEFINE c == [proc[p] EXCEPT !.pc = "check"]
<1>1. /\ c \in Cmd /\ c.pc = "check"
      /\ c.ref = proc[p].ref /\ c.dig = proc[p].dig /\ c.seen = proc[p].seen
  <2>1. "check" \in PullPcs \cup RemovePcs
    BY DEF PullPcs
  <2> QED
    BY <2>1, CmdSound, Moved, Zenon
<1>2. /\ proc[p].pc = "write" /\ Goes(p, c) /\ UNCHANGED <<json, ext4>>
      /\ \A d \in Digests : proc[p].seen[d] = NoRecord
  BY Zenon DEF RememberDone, Left, To
<1> HIDE DEF c
<1>3. c \in SoundCmd
  BY <1>1, <1>2, CmdSound, Zenon DEF SoundCmd, PullPcs
<1>4. since[p].removed # TRUE => Stays(json', ext4', c)
  BY <1>1, <1>2, CmdSound, Zenon DEF Stays
<1>5. since[p].alone = TRUE => Knows(json', ext4', c)
  <2> SUFFICES ASSUME Knows(json, ext4, proc[p]), NEW d \in Digests
               PROVE  Settled(json, ext4, c, d)
    BY <1>1, <1>2, CmdSound, Zenon DEF Knows
  <2>1. Settled(json, ext4, proc[p], d)
    BY <1>2, Zenon DEF Knows
  <2> QED
    BY <1>1, <2>1, Zenon DEF Settled
<1> QED
  BY <1>2, <1>3, <1>4, <1>5, CacheAlone, GoesInv, Zenon

-----------------------------------------------------------------------------
(* The ends of a command that leave the cache alone. *)
LEMMA EndInv == ASSUME IInv, NEW p \in Procs, Answer(p) \/ PullFails(p) \/ Killed(p) PROVE IInv'
<1>1. Over(p) /\ UNCHANGED <<json, ext4>>
  BY Zenon DEF Answer, PullFails, Killed, Over
<1> QED
  BY <1>1, CacheAlone, OverInv, Zenon

(* A removal finds its image, or ends. *)
LEMMA RemoveMatchInv == ASSUME IInv, NEW p \in Procs, RemoveMatch(p) PROVE IInv'
<1>1. UNCHANGED <<json, ext4>>
  BY Zenon DEF RemoveMatch
<1>2. ASSUME NEW d \in Digests, Goes(p, [Idle EXCEPT !.pc = "rmrootfs", !.dig = d]) PROVE IInv'
  <2> DEFINE c == [Idle EXCEPT !.pc = "rmrootfs", !.dig = d]
  <2>1. c \in Cmd /\ c.pc = "rmrootfs" /\ c.dig = d
    BY Zenon DEF Idle, Cmd, Fresh, RemovePcs
  <2>2. Goes(p, c)
    BY <1>2, Zenon
  <2> HIDE DEF c
  <2>3. c \in SoundCmd
    BY <2>1 DEF SoundCmd, PullPcs
  <2>4. Stays(json', ext4', c) /\ Knows(json', ext4', c)
    BY <2>1 DEF Stays, Knows
  <2> QED
    BY <1>1, <2>2, <2>3, <2>4, CacheAlone, GoesInv, Zenon
<1>3. CASE Over(p)
  BY <1>1, <1>3, CacheAlone, OverInv, Zenon
<1> QED
  BY <1>2, <1>3, Zenon DEF RemoveMatch

(* A removal takes the rootfs. *)
LEMMA RemoveRootfsInv == ASSUME IInv, NEW p \in Procs, RemoveRootfs(p) PROVE IInv'
<1>1. proc[p].pc = "rmrootfs" /\ json' = json
  BY Zenon DEF RemoveRootfs
<1>2. CASE To(p, "rmrecord") /\ ext4' = ext4 \ {proc[p].dig}
  <2> DEFINE c == [proc[p] EXCEPT !.pc = "rmrecord"]
  <2>1. "rmrecord" \in PullPcs \cup RemovePcs /\ Removing(p)
    BY <1>1 DEF RemovePcs, Removing
  <2>2. c \in Cmd /\ c.pc = "rmrecord" /\ c.dig = proc[p].dig
    BY <2>1, CmdSound, Moved, Zenon
  <2>3. Goes(p, c)
    BY <1>2, Zenon DEF To
  <2> HIDE DEF c
  <2>4. c \in SoundCmd
    BY <1>1, <2>2, CmdSound, Zenon DEF SoundCmd, PullPcs
  <2>5. Stays(json', ext4', c) /\ Knows(json', ext4', c)
    BY <2>2 DEF Stays, Knows
  <2>6. json' \in [Digests -> (SUBSET Refs) \cup {NoRecord}] /\ ext4' \subseteq Digests
    BY <1>1, <1>2, CacheAlone
  <2> QED
    BY <2>1, <2>3, <2>4, <2>5, <2>6, GoesInv, Zenon
<1>3. CASE Over(p) /\ UNCHANGED ext4
  BY <1>1, <1>3, CacheAlone, OverInv, Zenon
<1> QED
  BY <1>2, <1>3, Zenon DEF RemoveRootfs

(* And the record. *)
LEMMA RemoveRecordInv == ASSUME IInv, NEW p \in Procs, RemoveRecord(p) PROVE IInv'
<1>1. /\ proc[p].pc = "rmrecord" /\ Over(p) /\ ext4' = ext4
      /\ json' = [json EXCEPT ![proc[p].dig] = NoRecord] \/ json' = json
  BY Zenon DEF RemoveRecord
<1>2. Removing(p)
  BY <1>1 DEF RemovePcs, Removing
<1>3. json' \in [Digests -> (SUBSET Refs) \cup {NoRecord}] /\ ext4' \subseteq Digests
  BY <1>1, CacheAlone
<1> QED
  BY <1>1, <1>2, <1>3, OverInv, Zenon

(* Every step keeps IInv. *)
LEMMA NextInv == IInv /\ [Next]_vars => IInv'
<1> SUFFICES ASSUME IInv, [Next]_vars PROVE IInv'
  OBVIOUS
<1>1. CASE Next
  <2>1. PICK p \in Procs :
          \/ PullGoesOn(p) \/ RemoveMatch(p) \/ RemoveRootfs(p) \/ RemoveRecord(p) \/ Killed(p)
          \/ \E r \in Refs : Pull(p, r)
          \/ \E r \in Refs \cup {NoRef}, d \in Digests \cup {NoDigest} : RemoveImage(p, r, d)
    BY <1>1, Zenon DEF Next
  <2>2. CASE PullGoesOn(p)
    BY <2>2, ResolveInv, LookedInv, FirstRecordInv, RenameInv, ListInv, RememberListInv,
       RememberOneInv, RememberDoneInv, EndInv, Zenon DEF PullGoesOn
  <2> QED
    BY <2>1, <2>2, BeginInv, RemoveMatchInv, RemoveRootfsInv, RemoveRecordInv, EndInv, Zenon
<1>2. CASE UNCHANGED vars
  BY <1>2, Zenon DEF vars, IInv, TypeOK, Sound, AloneMet, Kept, Known
<1> QED
  BY <1>1, <1>2, Zenon

(* The image cache's inductive invariant. *)
THEOREM Inductive == Spec => []IInv
BY InitInv, NextInv, PTL DEF Spec

(* A pull that nobody disturbed leaves its reference naming its image and no *)
(* other, whatever the commands before it left in the cache (remember).      *)
THEOREM AloneNames == Spec => []AlonePullNames
<1>1. IInv => AlonePullNames
  <2> SUFFICES ASSUME IInv, NEW p \in Procs, proc[p].pc = "check", since[p].alone
               PROVE  Named(proc[p].ref) = {proc[p].dig}
    BY Zenon DEF AlonePullNames
  <2>1. since[p].alone = TRUE
    BY Zenon DEF IInv, TypeOK
  <2>2. Stays(json, ext4, proc[p]) /\ Knows(json, ext4, proc[p]) /\ proc[p] \in SoundCmd
    BY <2>1, CmdSound, Zenon
  <2>3. proc[p].dig \in Digests
    BY <2>2 DEF SoundCmd, PullPcs
  <2>4. Has(json, ext4, proc[p].dig)
    BY <2>2 DEF Stays
  <2>5. \A d \in Digests : Has(json, ext4, d) => (proc[p].ref \in json[d] <=> d = proc[p].dig)
    BY <2>2 DEF Knows, Settled
  <2> QED
    BY <2>3, <2>4, <2>5 DEF Named, Cached, Has
<1> QED
  BY <1>1, Inductive, PTL

(* A pull answers that its image has vanished only when somebody removed an  *)
(* image meanwhile: no other pull, and no interrupted one, takes it away.    *)
THEOREM RemovalVanishes == Spec => []OnlyRemovalVanishes
<1>1. IInv => OnlyRemovalVanishes
  <2> SUFFICES ASSUME IInv, NEW p \in Procs, proc[p].pc \in {"list", "write", "check"},
                      ~since[p].removed
               PROVE  Cached(proc[p].dig)
    BY Zenon DEF OnlyRemovalVanishes, IInv
  <2>1. Stays(json, ext4, proc[p])
    BY CmdSound, Zenon
  <2> QED
    BY <2>1, Zenon DEF Stays, Has, Cached
<1> QED
  BY <1>1, Inductive, PTL
=============================================================================
