\* One Machine with two Apps, whose connection, key, disk and ports fail.
CONSTANTS
  Names = {1}
  Apps = {a1, a2}
  Hosts = {h1, h2}
  NoHost = NoHost
  Ports = {p1, p2}
  NoPort = NoPort
  a1 = a1
  a2 = a2
  h1 = h1
  h2 = h2
  p1 = p1
  p2 = p2
  Keys = {1, 2}
  Ops = {"ssh", "net", "key", "ports", "store", "disk", "shutdown"}
SPECIFICATION Spec
SYMMETRY Symmetry

  
PROPERTIES
  LogsInToPinned
  FailedKeyEndsIt
