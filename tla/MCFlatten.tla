------------------------------ MODULE MCFlatten ------------------------------
(* Layers over etc (1), etc/hosts (1, 1), another file in etc (1, 2) and     *)
(* init (2); dev is 3.                                                       *)
EXTENDS Flatten

Plain(kind, paths) == {[path |-> p, kind |-> kind, target |-> <<>>] : p \in paths}

MCEntries ==
  Plain("file", {<<1>>, <<1, 1>>, <<1, 2>>, <<2>>})
    \cup Plain("dir", {<<>>, <<1>>, <<2>>})
    \cup Plain("wh", {<<1>>, <<1, 2>>, <<2>>})
    \cup Plain("opq", {<<>>, <<1>>})
    \cup Plain("odd", {<<2>>}) \cup Plain("escape", {<<2>>})
    \cup {[path |-> <<1, 2>>, kind |-> "link", target |-> <<2>>],
          [path |-> <<2>>, kind |-> "link", target |-> <<1, 2>>]}

MCGuestFiles == {<<2>>, <<1, 1>>}
MCGuestDirs == {<<3>>}
=============================================================================
