SPECIFICATION Spec
CONSTANTS
  m1 = m1
  m2 = m2
  s1 = s1
  s2 = s2
  s3 = s3
  api = api
  web = web
  alice = alice
  bob = bob
  tok = tok
  None = None
  Names = {api, web}
  Owners = {alice, bob, tok}
  EphemeralOwners = {tok}
  Sockets = {s1, s2, s3}
  ClaimTtlHours = 1
  Nodes = {m1, m2}
  NodeOf <- MCNodeOf
  Handshakes <- MCHandshakes
  MaxFaults = 0
INVARIANTS
  LoserIsRefused

CHECK_DEADLOCK FALSE
