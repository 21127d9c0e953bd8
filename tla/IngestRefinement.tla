-------------------------- MODULE IngestRefinement --------------------------
(***************************************************************************)
(* Ingestion seen from the two sides it touches: it implements the review  *)
(* right it promises (ReviewRight), and it writes to the ledger only as    *)
(* the ledger allows (Ledger).                                             *)
(***************************************************************************)
EXTENDS Ingest

\* The registry is the record of rights, the mailbox of links.
Right == INSTANCE ReviewRight WITH
  Sales <- SaleKeys,
  Rights <- ReceiptIds,
  Links <- Tokens,
  granted <- {[sale |-> e.key, right |-> e.receipt] : e \in registry},
  sent <- {[sale |-> m.key, right |-> m.receipt, link |-> m.token] : m \in mailbox}

\* addOffering declared the active offerings in the ledger beforehand.
DeclaredOfferings ==
  {[ref |-> o, issuer |-> IssuerOf[o], components |-> {"component"},
    price |-> IF o \in FreeOfferings THEN 0 ELSE 1, at |-> 0] : o \in DOMAIN IssuerOf}

\* The ledger ingestion writes to: no reviews, no protocol events.
Store == INSTANCE Ledger WITH
  Issuers <- {IssuerOf[o] : o \in DOMAIN IssuerOf},
  Holders <- ReceiptIds,
  Entities <- {"component"},
  OfferingRefs <- DOMAIN IssuerOf,
  Prices <- {0, 1},
  LevelInputs <- {},
  Scores <- {},
  Coattests <- {FALSE},
  Times <- {r.at : r \in Reports},
  TxIds <- SaleKeys,
  ReviewIds <- {},
  NoReceipt <- Null,
  NoScore <- Null,
  MaxEvents <- 0,
  offerings <- DeclaredOfferings,
  reviews <- {},
  events <- <<>>

\* Ingestion implements the review right: a step grants a sale its only right,
\* sends the only link to it, or does neither.
ImplementsReviewRight == Right!Spec

\* Every step of ingestion that touches the ledger is a legal step of the ledger:
\* its transaction and its receipt appear together, under a fresh tx_id, signed by
\* the offering's declared issuer.
LedgerStepsLegal == [][Store!IssuanceStep]_(Store!vars)

=============================================================================
