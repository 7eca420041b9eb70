SPECIFICATION Spec
CONSTANTS
  h1 = h1
  h2 = h2
  c1 = c1
  Nodes = {"n1"}
  Hosts = {h1}
  Clients = {c1}
  Client <- OneOwner
  RequeueLimit = 1
  MaxHits = 2
  MaxFaults = 2
  MaxAdmin = 1
  MaxConnects = 2
INVARIANTS
  CountsAddUp
  RowsAgree
PROPERTIES
  PhantomsExpire
  CountsArrive
CHECK_DEADLOCK FALSE
\* Also true of this instance, and not repeated in every check of the project:
\*   TypeOK
\*   BufferIsScheduled
\*   PrimaryIsTold
\*   ReadSeesOwn
