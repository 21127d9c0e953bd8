\* Two offering-versions of two issuers, paid or free; two holders; wrong callers of
\* every kind; histories of three receipts, two purchases and two reviews, or of
\* one receipt and one event.
CONSTANTS
  Issuers = {i1, i2}
  Holders = {h1, h2}
  Entities = {e1, e2}
  OfferingRefs = {o1, o2}
  Prices <- MCPrices
  LevelInputs = {1, 2, 3, 5}
  Scores = {0, 3}
  Coattests = {FALSE}
  Times = {0}
  TxIds = {t1, t2}
  ReceiptIds = {r1, r2, r3}
  ReviewIds = {v1, v2}
  MaxEvents = 1
  NoReceipt = NoReceipt
  NoScore = NoScore
SYMMETRY Symmetry
CONSTRAINT HistoryBound
SPECIFICATION Spec
INVARIANTS TypeOK NoOrphans Reconciles ChainsAscend ChainsLinear IssuerBinding
  OneVoicePerStanding RolesRespected FreeMeansNoPurchase HealthCheckSilent
\* A ledger whose ids are used up takes no further step.
CHECK_DEADLOCK FALSE
