\* Two holders review one offering-version; what is published and signed of them, later
\* purchases, attestations, events and corroborations.
CONSTANTS
  Issuers = {i1}
  Holders = {h1, h2}
  Entities = {e1}
  OfferingRefs = {o1}
  Prices = {5}
  LevelInputs = {3}
  Scores = {3}
  Coattests = {FALSE}
  MaxTime = 1
  Times <- MCTimes
  TxIds = {t1}
  ReceiptIds = {r1, r2}
  ReviewIds = {v1, v2}
  NoReceipt = NoReceipt
  NoScore = NoScore
  MaxEvents = 1
  K = 2
  NoValue = NoValue
  MaxPublications = 1
  Sources = {p1}
  MaxManifests = 1
  MaxLog = 1
SYMMETRY Symmetry
CONSTRAINT PublicationBound
SPECIFICATION PilotSpec
INVARIANTS SignedScoresRecompute PublishedScoresRecompute PublishedMeansKStandings
PROPERTIES EntityHistoryKept AppendOnly
\* Ids, instants and publications run out.
CHECK_DEADLOCK FALSE
