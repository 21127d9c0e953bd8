\* A receipt issued after the window of a published score.
CONSTANTS
  Issuers = {i1}
  Holders = {h1, h2}
  Entities = {e1}
  OfferingRefs = {o1}
  Prices = {5}
  LevelInputs = {2, 3}
  Scores = {3, 5}
  Coattests = {FALSE}
  MaxTime = 1
  Times <- MCTimes
  TxIds = {t1, t2}
  ReceiptIds = {r1, r2, r3}
  ReviewIds = {v1, v2}
  NoReceipt = NoReceipt
  NoScore = NoScore
  MaxEvents = 0
  K = 2
  NoValue = NoValue
  MaxPublications = 1
  Sources = {}
  MaxManifests = 1
  MaxLog = 0
SYMMETRY Symmetry
SPECIFICATION PilotSpec
INVARIANT OfferingScoresRecompute
\* Ids, instants and publications run out.
CHECK_DEADLOCK FALSE
