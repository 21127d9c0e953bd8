\* Agreeing and disagreeing reports of a card sale and a cash sale, two at a time.
CONSTANTS
  h1 = h1
  h2 = h2
  h3 = h3
  server = server
  cli1 = cli1
  cli2 = cli2
  Handlers = {h1, h2}
  Procs = {server}
  ProcOf <- OnServer
  AdminProcs = {}
  Reports <- ServerReports
  ReceiptIds = {r1, r2, r3, r4}
  MayIssue <- MCMayIssue
  IssuerOf <- MCIssuerOf
  FreeOfferings = {"o3"}
  AccountOf <- MCAccountOf
  MailFailures = {"refused"}
  MaxAttempts = 1
  MaxFaults = 0
  Null = Null
  Nobody = Nobody
SYMMETRY Symmetry
SPECIFICATION Spec
INVARIANTS OneRightPerSale OneLinkPerSale LinksWork CorroborationsAgree NearMatchesQuarantined RefundsGrantNothing
\* Reports and attempts run out.
CHECK_DEADLOCK FALSE
