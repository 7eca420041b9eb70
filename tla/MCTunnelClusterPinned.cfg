SPECIFICATION Spec
CONSTANTS
  api = api
  web = web
  hapi = hapi
  hweb = hweb
  legacy = legacy
  alice = alice
  bob = bob
  anon = anon
  None = None
  Names <- MCNames
  Owners = {alice, bob}
  EphemeralOwners = {}
  Hosts <- MCHosts
  Keys <- MCKeys
  Labels <- MCLabels
  Anonymous = anon
  NameOf <- MCNameOf
  HostFor <- MCHostFor
  hostSlot <- MChostSlot
  ReservedNames = {}
  MaxPerClient = 2
  ClaimTtlHours = 1
  Slots = {1, 2}
  Sockets = {s1}
  Workers = {w1, w2}
  Handshakes <- CrashHandshakes
  AdminKeys = {}
  AdminLabels = {}
  MaxRemovals = 0
  LateMessages = FALSE
  Stops = FALSE
PROPERTIES
  GoneOwnersDropped
