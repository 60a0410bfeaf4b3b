\* Two commands on two references that move between two images.
CONSTANTS
  Refs = {r1, r2}
  Digests = {d1, d2}
  Procs = {p1, p2}
  r1 = r1
  r2 = r2
  d1 = d1
  d2 = d2
  p1 = p1
  p2 = p2
  NoRecord = NoRecord
  NoDigest = NoDigest
  NoRef = NoRef
  Unread = Unread
SPECIFICATION Spec
SYMMETRY Symmetry
INVARIANTS
  AlonePullNames
  OnlyRemovalVanishes
