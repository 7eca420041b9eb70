SPECIFICATION Spec
CONSTANTS
  s1 = s1
  s2 = s2
  Streams = {s1, s2}
  Sizes = {1, 2}
  HighWater = 2
  MaxWrites = 3
INVARIANTS
  CallbackOnce
  NoIdleWait
PROPERTIES
  WritesResume
CHECK_DEADLOCK FALSE
\* Also true of this instance, and not repeated in every check of the project:
\*   TypeOK
\*   CountCovers
\*   BacklogBounded
