SPECIFICATION Spec
CONSTANTS
  MaxAttempts = 2
  Window = 1
  MaxTokens = 2
  MaxTries = 4
  MaxRemovals = 2
  MaxStale = 0
INVARIANTS
  AttemptsLimited
PROPERTIES
  SessionKept
  ListsNeverOlder
CHECK_DEADLOCK FALSE
\* Also true with MaxRemovals = 1, and not repeated in every check of the project:
\*   TypeOK
\*   SignedInHasToken
\*   RemovalShown
\*   LockoutEnds
