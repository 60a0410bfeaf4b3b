\* Two hostnames, two calls at once, and two failures or stops.
CONSTANTS
  Hosts = {h1, h2}
  Tasks = {1, 2}
  h1 = h1
  h2 = h2
  MaxCerts = 1
  MaxTrouble = 2
  Stops = TRUE
CHECK_DEADLOCK FALSE
SPECIFICATION FairSpec
INVARIANTS
  OrdersKeepApart
  NeverServesOlder
  AccountMadeOnce
  CaKeyKept
PROPERTIES
  CertificateRenewed
