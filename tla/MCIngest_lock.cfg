\* A crash while a delivery is in flight.
CONSTANTS
  h1 = h1
  h2 = h2
  h3 = h3
  server = server
  cli1 = cli1
  cli2 = cli2
  Handlers = {h1, h2}
  Procs = {server}
  ProcOf <- OnServer
  AdminProcs = {}
  Reports <- RetriedReports
  ReceiptIds = {r1, r2}
  MayIssue <- MCMayIssue
  IssuerOf <- MCIssuerOf
  FreeOfferings = {"o3"}
  AccountOf <- MCAccountOf
  MailFailures = {"refused"}
  MaxAttempts = 2
  MaxFaults = 1
  Null = Null
  Nobody = Nobody
SYMMETRY Symmetry
SPECIFICATION Spec
INVARIANT LockMeansSentOrInFlight
\* Reports and attempts run out.
CHECK_DEADLOCK FALSE
