SPECIFICATION Spec
CONSTANTS
  Servers = {1, 2, 3}
  Domain <- Nested
  Tries = 3
  Patience = 4
  MaxFaults = 3
PROPERTIES
  EndsConnected
  HealthyServerKept
CHECK_DEADLOCK FALSE
\* Also true of this instance, and not repeated in every check of the project:
\*   TypeOK
\*   GoneIsFinal
