---------------------------- MODULE MCImageCache ----------------------------
EXTENDS ImageCache, TLC

Symmetry == Permutations(Refs) \cup Permutations(Digests) \cup Permutations(Procs)
=============================================================================
