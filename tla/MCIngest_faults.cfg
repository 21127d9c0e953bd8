\* Webhooks redelivered across crashes of the server and failed writes.
CONSTANTS
  h1 = h1
  h2 = h2
  h3 = h3
  server = server
  cli1 = cli1
  cli2 = cli2
  Handlers = {h1, h2}
  Procs = {server}
  ProcOf <- OnServer
  AdminProcs = {}
  Reports <- WebhookReports
  ReceiptIds = {r1, r2, r3}
  MayIssue <- MCMayIssue
  IssuerOf <- MCIssuerOf
  FreeOfferings = {"o3"}
  AccountOf <- MCAccountOf
  MailFailures = {"refused", "unacknowledged", "unrecorded"}
  MaxAttempts = 2
  MaxFaults = 2
  Null = Null
  Nobody = Nobody
SYMMETRY Symmetry
SPECIFICATION Spec
INVARIANTS RecordedMeansProcessed DeliveredMeansMailed OneReceiptPerPayment
\* Reports and attempts run out.
CHECK_DEADLOCK FALSE
