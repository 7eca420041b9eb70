SPECIFICATION Spec
CONSTANTS
  page = page
  Ids = {page}
  MaxChunks = 1
  MaxConns = 1
PROPERTIES
  PullStopsForAll
CHECK_DEADLOCK FALSE
