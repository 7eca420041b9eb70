SPECIFICATION Spec
CONSTANTS
  api = api
  web = web
  hapi = hapi
  hweb = hweb
  legacy = legacy
  alice = alice
  bob = bob
  anon = anon
  None = None
  Names <- MCNames
  Owners = {alice, bob}
  EphemeralOwners = {}
  Hosts <- MCHosts
  Keys <- MCKeys
  Labels <- MCLabels
  Anonymous = anon
  NameOf <- MCNameOf
  HostFor <- MCHostFor
  hostSlot <- MChostSlot
  ReservedNames = {}
  MaxPerClient = 2
  ClaimTtlHours = 1
  Slots = {1, 2}
  Sockets = {s1, s2}
  Workers = {w1, w2, w3}
  Handshakes <- CrashHandshakes
  AdminKeys = {hapi}
  AdminLabels = {bob}
  MaxRemovals = 1
  LateMessages = FALSE
  Stops = FALSE
INVARIANTS
  ClaimsTraced
  NoStaleRoutes
PROPERTIES
  RemovalsTakeEffect
\* Also true of this instance, and not repeated in every check of the project:
\*   TypeOK
