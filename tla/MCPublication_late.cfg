\* A purchase reported late, dated inside a window whose score was signed.
CONSTANTS
  Issuers = {i1}
  Holders = {h1}
  Entities = {e1}
  OfferingRefs = {o1}
  Prices = {5}
  LevelInputs = {3}
  Scores = {3}
  Coattests = {FALSE}
  MaxTime = 1
  Times <- MCTimes
  TxIds = {t1, t2}
  ReceiptIds = {r1, r2}
  ReviewIds = {v1}
  NoReceipt = NoReceipt
  NoScore = NoScore
  MaxEvents = 0
  K = 1
  NoValue = NoValue
  MaxPublications = 1
  Sources = {}
  MaxManifests = 1
  MaxLog = 0
SYMMETRY Symmetry
SPECIFICATION PilotSpec
INVARIANT ClosedWindowsRecompute
\* Ids, instants and scores run out.
CHECK_DEADLOCK FALSE
