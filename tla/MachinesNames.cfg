\* Two Machines, Apps on them and in VMs, across crashes of the agent.
CONSTANTS
  Names = {1, 2}
  Apps = {a1, a2}
  Hosts = {h1, h2}
  NoHost = NoHost
  Ports = {p1, p2}
  NoPort = NoPort
  a1 = a1
  a2 = a2
  h1 = h1
  h2 = h2
  p1 = p1
  p2 = p2
  Keys = {1}
  Ops = {"crash", "vm", "store", "net"}
SPECIFICATION Spec
SYMMETRY Symmetry
INVARIANTS
  PinsHeld
  OnRecord
  OwnedOnce
