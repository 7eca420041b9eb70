SPECIFICATION Spec
CONSTANTS
  p1 = p1
  p2 = p2
  Profiles = {p1, p2}
  Operators = {}
  Nodes = {"n1", "n2"}
  Names = {"a"}
  Uuids = {"u1", "u2"}
  MaxAsks = 2
  MaxFaults = 0
PROPERTIES
  NoLandGrab
CHECK_DEADLOCK FALSE
