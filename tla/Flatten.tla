------------------------------- MODULE Flatten -------------------------------
(* Flattened (cirro-image/src/lib.rs): an image's layers, bottom first, are  *)
(* merged into one tree, which is written as a tar for mke2fs.               *)
(*                                                                           *)
(* A path is the sequence of its components.  An entry of a layer's tar is   *)
(* [path, kind, target], target being a hard link's and <<>> for the rest:   *)
(*   "dir"   a directory        "wh"   .wh.<name>, hiding path               *)
(*   "link"  a hard link        "opq"  .wh..wh..opq in the directory path    *)
(*   "file"  any other entry that the code takes                             *)
(*   "odd"   a type it does not take, or a link out of the image root        *)
(*   "escape" a path out of the image root                                   *)
EXTENDS Naturals, SequencesExt

CONSTANTS
  Entries,      \* what the layers may hold
  GuestFiles,   \* paths of the files every guest gets: init, etc/hosts, ...
  GuestDirs,    \* its mountpoints: proc, sys, dev
  MaxEntries,   \* bound on the entries of all layers together
  MaxLayers,    \* bound on the layers
  Unlisted      \* whether a layer may leave out its entries' directories

Whiteouts == {"wh", "opq"}

ASSUME EntriesAssumption ==
  \A e \in Entries : e.kind \in Whiteouts \cup {"dir", "link", "file", "odd", "escape"}

VARIABLES
  pc,       \* "read", "built" or "failed"
  read,     \* the entries of the layer being read
  layers,   \* the layers applied so far
  tree,     \* Flattened::tree: each path's Source
  tar       \* what write_tar wrote

vars == <<pc, read, layers, tree, tar>>
-----------------------------------------------------------------------------
(* Where an entry of the tree comes from: entry j of layer i.  A guest file  *)
(* (Entry::Guest) and a directory no layer lists (Entry::Dir) have layer 0.  *)
Source(i, j, e) == [layer |-> i, at |-> j, kind |-> e.kind, target |-> e.target]
Guest == [layer |-> 0, at |-> 0, kind |-> "guest", target |-> <<>>]
Dir   == [layer |-> 0, at |-> 0, kind |-> "dir", target |-> <<>>]

RemoveChildren(t, dir) == Restrict(t, {p \in DOMAIN t : ~IsStrictPrefix(dir, p)})

RemovePath(t, path) == Restrict(t, {p \in DOMAIN t : ~IsPrefix(path, p)})

(* apply's first pass over a layer: its whiteouts. *)
Hide(t, e) ==
  CASE e.kind = "opq" -> RemoveChildren(t, e.path)
    [] e.kind = "wh"  -> RemovePath(t, e.path)
    [] OTHER          -> t

(* Its second: anything but a directory over a directory replaces what was   *)
(* in it.  The root itself is never an entry of the tree.                    *)
Put(t, e, i, j) ==
  LET wasDir == e.path \in DOMAIN t /\ t[e.path].kind = "dir"
      kept   == IF e.kind # "dir" \/ ~wasDir THEN RemoveChildren(t, e.path) ELSE t
  IN  IF e.kind \in Whiteouts \/ e.path = <<>> THEN t
      ELSE (e.path :> Source(i, j, e)) @@ kept

Puts(t, es, i) ==
  LET put(u, j) == Put(u, es[j], i, j) IN FoldLeftDomain(put, t, es)

(* The whiteouts come after the layer's own entries. *)
HideLast(t, es, i) == FoldLeft(Hide, Puts(t, es, i), es)

Apply(t, es, i) == Puts(FoldLeft(Hide, t, es), es, i)

(* with_guest_files: the guest's files replace the image's, and every        *)
(* directory that is missing is added.                                       *)
Ancestors(p) == {SubSeq(p, 1, k) : k \in 1 .. Len(p) - 1}

WithGuestFiles(t) ==
  LET g    == [p \in GuestFiles |-> Guest] @@ t @@ [p \in GuestDirs |-> Dir]
      dirs == UNION {Ancestors(p) : p \in DOMAIN g}
  IN  g @@ [p \in dirs |-> Dir]

(* BTreeMap's order: a directory comes before what is in it. *)
PathLess(p, q) ==
  \/ IsStrictPrefix(p, q)
  \/ \E k \in 1 .. Len(p) :
       /\ k <= Len(q) /\ p[k] < q[k]
       /\ SubSeq(p, 1, k - 1) = SubSeq(q, 1, k - 1)

(* write_tar: in path order, hard links last.  A link to nothing, or to a    *)
(* directory no layer lists, fails it.                                       *)
Links(t) == {p \in DOMAIN t : t[p].kind = "link"}

Written(t, paths) ==
  LET order == SetToSortSeq(paths, PathLess)
  IN  [k \in DOMAIN order |-> [path |-> order[k], src |-> t[order[k]]]]

Unlinkable(t) ==
  \E p \in Links(t) : t[p].target \notin DOMAIN t \/ t[t[p].target] = Dir

(* Hard links come where their paths do. *)
WriteTarInOrder(t) == Written(t, DOMAIN t)

WriteTar(t) == Written(t, DOMAIN t \ Links(t)) \o Written(t, Links(t))
-----------------------------------------------------------------------------
Init == pc = "read" /\ read = <<>> /\ layers = <<>> /\ tree = <<>> /\ tar = <<>>

(* The directory that holds e is in the layer's tar before it, as in every   *)
(* tar made by walking a tree.                                               *)
Listed(e) ==
  LET up == Front(e.path)
      at == {j \in DOMAIN read : read[j].path = up /\ read[j].kind \notin Whiteouts}
  IN  e.kind \in Whiteouts \/ Len(e.path) < 2
        \/ \E j \in at : read[j].kind = "dir" /\ \A k \in at : k <= j

Size == LET add(n, es) == n + Len(es) IN FoldLeft(add, Len(read), layers)

(* apply's loop over the tar's entries; normalise refuses a path. *)
ReadEntry(e) ==
  /\ pc = "read" /\ Len(layers) < MaxLayers /\ Size < MaxEntries
  /\ Unlisted \/ Listed(e)
  /\ IF e.kind = "escape" THEN pc' = "failed" /\ UNCHANGED read
     ELSE read' = Append(read, e) /\ UNCHANGED pc
  /\ UNCHANGED <<layers, tree, tar>>

(* The rest of apply, once a layer has been read. *)
ApplyLayer ==
  /\ pc = "read" /\ read # <<>>
  /\ IF \E j \in DOMAIN read : read[j].kind = "odd"
     THEN pc' = "failed" /\ UNCHANGED <<read, layers, tree>>
     ELSE /\ tree' = Apply(tree, read, Len(layers) + 1)
          /\ layers' = Append(layers, read)
          /\ read' = <<>>
          /\ UNCHANGED pc
  /\ UNCHANGED tar

(* build_ext4: the tar, for mke2fs to turn into ext4. *)
BuildExt4 ==
  LET t == WithGuestFiles(tree) IN
  /\ pc = "read" /\ read = <<>> /\ layers # <<>>
  /\ IF Unlinkable(t) THEN pc' = "failed" /\ UNCHANGED tar
     ELSE pc' = "built" /\ tar' = WriteTar(t)
  /\ UNCHANGED <<read, layers, tree>>

(* A layer that is unreadable or compressed with zstd (decompress), a full   *)
(* disk, or an mke2fs that is missing, too old or fails: nothing is built.   *)
OpenOrBuildFails ==
  /\ pc = "read"
  /\ pc' = "failed"
  /\ UNCHANGED <<read, layers, tree, tar>>

Next == (\E e \in Entries : ReadEntry(e)) \/ ApplyLayer \/ BuildExt4 \/ OpenOrBuildFails

Spec == Init /\ [][Next]_vars
-----------------------------------------------------------------------------
(* The same tree by the rules of layers rather than by their order of work:  *)
(* an entry is seen unless a later layer's whiteout covers it, or an entry   *)
(* that comes later has its path, or is not a directory and has a path above.*)
WhitesOut(e, p) ==
  \/ e.kind = "wh" /\ IsPrefix(e.path, p)
  \/ e.kind = "opq" /\ IsStrictPrefix(e.path, p)

Replaces(e, p) ==
  /\ e.kind \notin Whiteouts
  /\ e.path = p \/ (e.kind # "dir" /\ e.path # <<>> /\ IsStrictPrefix(e.path, p))

Places == UNION {{<<i, j>> : j \in DOMAIN layers[i]} : i \in DOMAIN layers}

At(x) == layers[x[1]][x[2]]

Seen(x) ==
  /\ At(x).kind \notin Whiteouts /\ At(x).path # <<>>
  /\ \A y \in Places :
       /\ y[1] > x[1] => ~WhitesOut(At(y), At(x).path)
       /\ y[1] > x[1] \/ (y[1] = x[1] /\ y[2] > x[2]) => ~Replaces(At(y), At(x).path)

Overlay ==
  LET seen == {x \in Places : Seen(x)}
  IN  [p \in {At(x).path : x \in seen} |->
         LET x == CHOOSE x \in seen : At(x).path = p IN Source(x[1], x[2], At(x))]

(* The merged tree holds exactly what the layers' rules leave to be seen,    *)
(* each path from its topmost layer, whatever whiteouts, replacements and    *)
(* merged directories the layers stack up (apply).                           *)
FlattenedIsOverlay == tree = Overlay

(* mke2fs can unpack the tar in one pass: each path is in it once, after all *)
(* its directories, and each hard link after the file it names, unless the   *)
(* image puts something of its own where the guest's files go.               *)
TarUnpacks ==
  \A k \in DOMAIN tar :
    LET e == tar[k]
        before == {tar[l].path : l \in 1 .. k - 1}
    IN  /\ e.path \notin before
        /\ Ancestors(e.path) \subseteq before
        /\ \A l \in 1 .. k - 1 :
             /\ IsStrictPrefix(tar[l].path, e.path) /\ {tar[l].path, e.path} \cap GuestFiles = {}
             => tar[l].src.kind = "dir"
        /\ e.src.kind = "link" =>
             \/ e.src.target \in before
             \/ \E l \in DOMAIN tar : tar[l].path = e.src.target /\ tar[l].src.kind = "link"
=============================================================================
