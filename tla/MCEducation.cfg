\* A paid and a free course, one learner, every event in any order, repeated at will.
CONSTANTS
  e1 = e1
  o1 = o1
  o2 = o2
  Issuers = {i1, i2}
  Provider = i1
  Catalog <- MCCatalog
  Percentages = {59, 60}
  NotANumber = NotANumber
  Holders = {h1}
  Entities = {e1}
  OfferingRefs = {o1, o2}
  Prices = {0, 5}
  LevelInputs = {2, 3}
  Scores = {3}
  Coattests = {FALSE}
  Times = {0}
  TxIds = {t1, t2}
  ReceiptIds = {r1, r2, r3}
  ReviewIds = {v1}
  NoReceipt = NoReceipt
  NoScore = NoScore
  MaxEvents = 0
SYMMETRY Symmetry
SPECIFICATION EduSpec
INVARIANTS LedgerInv StandingsFollowEvents RoutesMatchStore
\* Once the ids are used up and no event is new, nothing happens.
CHECK_DEADLOCK FALSE
