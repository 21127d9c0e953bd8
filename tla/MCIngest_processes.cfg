\* One invoice through the server and two admin commands at a time, one of which may die.
CONSTANTS
  h1 = h1
  h2 = h2
  h3 = h3
  server = server
  cli1 = cli1
  cli2 = cli2
  Handlers = {h1, h2, h3}
  Procs = {server, cli1, cli2}
  ProcOf <- Everywhere
  AdminProcs = {cli1, cli2}
  Reports <- InvoiceReports
  ReceiptIds = {r1, r2}
  MayIssue <- MCMayIssue
  IssuerOf <- MCIssuerOf
  FreeOfferings = {"o3"}
  AccountOf <- MCAccountOf
  MailFailures = {"refused"}
  MaxAttempts = 1
  MaxFaults = 1
  Null = Null
  Nobody = Nobody
SPECIFICATION FairSpec
INVARIANT IngestInv
PROPERTIES ImplementsReviewRight LedgerStepsLegal LocksSettle HandlersReturn
\* Reports and attempts run out.
CHECK_DEADLOCK FALSE
