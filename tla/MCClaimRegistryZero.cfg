SPECIFICATION Spec
CONSTANTS
  Names = {n1}
  Owners = {alice, tok}
  EphemeralOwners = {tok}
  Sockets = {s1, s2}
  None = None
  ClaimTtlHours = 0
PROPERTIES
  ZeroTtlReleasesAtOnce
