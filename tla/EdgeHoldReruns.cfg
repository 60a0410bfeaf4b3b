\* Two requests for one App, which is parked when idle, ends and is run again.
CONSTANTS
  Apps = {"a"}
  Reqs = {r1, r2}
  r1 = r1
  r2 = r2
  Vms = {1, 2}
  Addrs = {1}
  Parks = {1, 2}
  Ops = {"idle", "end", "rerun", "lost"}
CHECK_DEADLOCK FALSE
SPECIFICATION Spec
SYMMETRY Symmetry
INVARIANTS
  CountsRequests
  IdleClaimSparesRequests
PROPERTIES
  IdleClaimIsDue
