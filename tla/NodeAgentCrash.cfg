\* Two VMs on two addresses through starts, wakes, ends, failures and crashes.
CONSTANTS
  Names = {1, 2}
  Addrs = {1, 2}
  Hosts = {}
  NoRoute = NoRoute
  Pids = {1, 2, 3}
  MaxLog = 2
  Faults = {"start", "guest", "load", "store", "crash", "undo", "disk"}
SPECIFICATION Spec
INVARIANTS
  AddressHeldOnce
  HostStateOwned
  RunningIsRecorded
  RecordedLiveIsManaged
  RecordedLogKept
PROPERTIES
  LiveRecordKept
  SweepSparesRecorded
