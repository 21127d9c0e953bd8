---------------------------- MODULE MCEducation ----------------------------
(***************************************************************************)
(* A catalog of a paid and a free course; a second issuer in the store.    *)
(***************************************************************************)
EXTENDS Education, TLC

CONSTANTS e1, o1, o2

MCCatalog ==
  <<[ref |-> o1, components |-> {e1}, price |-> 5, threshold |-> 60],
    [ref |-> o2, components |-> {e1}, price |-> 0, threshold |-> 60]>>

Symmetry ==
  Permutations(Holders) \cup Permutations(TxIds) \cup Permutations(ReceiptIds)

=============================================================================
