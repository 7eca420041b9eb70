SPECIFICATION Spec
CONSTANTS
  Names = {n1, n2}
  Owners = {alice, bob, tok}
  EphemeralOwners = {tok}
  Sockets = {s1, s2, s3}
  None = None
  ClaimTtlHours = 1
INVARIANTS
  ClaimsBacked
PROPERTIES
  HeldNamesKept
  ReservationHonoured
  ReservationEnds
  OwnershipSpec
\* Also true of this instance, and not repeated in every check of the project:
\*   TypeOK
