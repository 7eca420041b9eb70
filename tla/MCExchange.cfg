SPECIFICATION Spec
CONSTANTS
  page = page
  Ids = {page}
  MaxChunks = 3
  MaxConns = 3
INVARIANTS
  CleanEndIsComplete
  NothingLeftBehind
  TrafficFinal
PROPERTIES
  AnswerArrives
  LocalPullStops
CHECK_DEADLOCK FALSE
\* Also true of this instance, and not repeated in every check of the project:
\*   TypeOK
