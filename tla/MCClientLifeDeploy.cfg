SPECIFICATION Spec
CONSTANTS
  Servers = {1, 2, 3}
  Domain <- Nested
  Tries = 3
  Patience = 4
  MaxFaults = 3
INVARIANT SurvivesDeploys
CHECK_DEADLOCK FALSE
