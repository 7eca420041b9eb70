SPECIFICATION Spec
CONSTANTS
  api = api
  web = web
  www = www
  hapi = hapi
  hweb = hweb
  hwww = hwww
  legacy = legacy
  alice = alice
  bob = bob
  tok = tok
  anon = anon
  None = None
  Names <- MCNames
  Owners = {alice, bob, tok}
  EphemeralOwners = {tok}
  Hosts <- MCHosts
  Keys <- MCKeys
  Labels <- MCLabels
  Anonymous = anon
  NameOf <- MCNameOf
  HostFor <- MCHostFor
  ReservedNames = {www}
  MaxPerClient = 2
  ClaimTtlHours = 1
  Sockets = {s1, s2, s3, s4}
  Handshakes <- DisjointHandshakes
  AdminKeys = {hapi, hweb}
  AdminLabels = {}
INVARIANTS
  VisitorsReachTheirTunnel
  LiveCount
\* Also true of this instance, and not repeated in every check of the project:
\*   OneSocketPerHost
