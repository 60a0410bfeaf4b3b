\* Parks and wakes of two Apps that share an address and a hostname; no crash.
CONSTANTS
  Names = {1, 2}
  Addrs = {1}
  Hosts = {7}
  NoRoute = NoRoute
  Pids = {1, 2}
  MaxLog = 3
  Faults = {"guest", "park", "resume", "load", "reply"}
SPECIFICATION FairSpec
INVARIANTS
  ParkedHoldsSnapshot
  

  
  
  
