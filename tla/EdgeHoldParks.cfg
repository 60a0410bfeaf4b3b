\* Two requests for one App; nothing but parks ends a VM.
CONSTANTS
  Apps = {"a"}
  Reqs = {r1, r2}
  r1 = r1
  r2 = r2
  Vms = {1, 2}
  Addrs = {1}
  Parks = {1, 2}
  Ops = {"park", "parkfail", "wakefail", "timeout"}
CHECK_DEADLOCK FALSE
SPECIFICATION FairSpec
PROPERTIES
  LeaseOnLiveVm
  HeldIsTold
