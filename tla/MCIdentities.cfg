SPECIFICATION Spec
CONSTANTS
  p1 = p1
  p2 = p2
  Profiles = {p1, p2}
  Operators = {p2}
  Nodes = {"n1", "n2"}
  Names = {"a"}
  Uuids = {"u1", "u2"}
  MaxAsks = 2
  MaxFaults = 1
INVARIANTS
  IssuedIdsProtected
PROPERTIES
  IdentityKept
  ForcedInitYields
CHECK_DEADLOCK FALSE
\* Also true of this instance, and not repeated in every check of the project:
\*   TypeOK
