------------------------------ MODULE MCLedger ------------------------------
(***************************************************************************)
(* Finite instances of Ledger and its health check.  Ids and actors are    *)
(* interchangeable model values: no definition orders or names one.        *)
(***************************************************************************)
EXTENDS HealthCheck, TLC

\* A caller may offer a negative price; the store refuses it.
MCPrices == {-1, 0, 5}

\* Events stand beside the other tables: one is enough, in short histories.
HistoryBound == Cardinality(receipts) + 2 * Len(events) <= 3

Symmetry ==
  Permutations(Issuers) \cup Permutations(Holders) \cup Permutations(Entities)
    \cup Permutations(OfferingRefs) \cup Permutations(TxIds)
    \cup Permutations(ReceiptIds) \cup Permutations(ReviewIds)

=============================================================================
