------------------------- MODULE HealthCheck_proofs -------------------------
(***************************************************************************)
(* What the health check is worth, for every value of the constants: it    *)
(* raises no false alarm, and its silence about a seeded storage says of   *)
(* that storage what its checks are meant to guarantee.                    *)
(***************************************************************************)
EXTENDS HealthCheck, Ledger_proofs

\* The inductive invariant of the ledger leaves no check anything to report.
LEMMA InvIsSilent == LedgerInv => HealthCheckSilent
<1> SUFFICES ASSUME LedgerInv PROVE HealthCheckSilent
  OBVIOUS
<1>1. OrphanReviews = {} /\ OrphanReceipts = {}
  BY DEF LedgerInv, NoOrphans, OrphanReviews, OrphanReceipts
<1>2. Unreconciled = {}
  <2> SUFFICES ASSUME NEW pair \in ReconciledPairs
               PROVE  Cardinality(L1Receipts(pair[1], pair[2]))
                        = Cardinality(TransactionsOf(pair[1], pair[2]))
    BY DEF Unreconciled
  <2>1. pair[1] \in Issuers /\ pair[2] \in OfferingRefs
    BY DEF ReconciledPairs, LedgerInv, TypeOK, TransactionRow, ReceiptRow
  <2> QED
    BY <2>1 DEF LedgerInv, Reconciles
<1>3. BrokenChains = {}
  BY DEF LedgerInv, ChainsAscend, BrokenChains, AscendsFrom
<1>4. InvalidFacets = {}
  <2> SUFFICES ASSUME NEW v \in InvalidFacets PROVE FALSE
    OBVIOUS
  <2>1. v \in reviews /\ DOMAIN v.facets # {}
    BY DEF InvalidFacets
  <2>2. PICK r \in receipts : r.offering = v.offering
    BY <2>1 DEF LedgerInv, NoOrphans
  <2>3. PICK o \in OfferingRows(v.offering) : TRUE
    BY <2>2 DEF LedgerInv, NoOrphans
  <2>4. (v.role = "payer" => DOMAIN v.facets = {}) /\ DOMAIN v.facets \subseteq o.components
    BY <2>1, <2>3 DEF LedgerInv, RolesRespected
  <2> QED
    BY <2>1, <2>3, <2>4 DEF InvalidFacets
<1>5. ForeignReceipts = {}
  BY DEF LedgerInv, IssuerBinding, ForeignReceipts
<1> QED
  BY <1>1, <1>2, <1>3, <1>4, <1>5 DEF HealthCheckSilent

\* No false alarm: whatever the store's operations did, in whatever order, the
\* health check returns no violation.
THEOREM NoFalseAlarm == Spec => []HealthCheckSilent
  BY InvIsSilent, LedgerInvariant, PTL

\* No missed case among those the register names: in any storage,
\* however its rows got there, a silent health check means that the books
\* balance, that every chain ascends within one standing, that every review has a
\* receipt and every receipt a declared offering of its own issuer, and that facets
\* are scored against declared components and by participants only.
THEOREM SilenceMeansSound ==
  ASSUME HealthCheckSilent
  PROVE  /\ Reconciles
         /\ ChainsAscend
         /\ \A v \in reviews : \E r \in receipts : r.id = v.receipt
         /\ \A r \in receipts : \E o \in OfferingRows(r.offering) : r.issuer = o.issuer
         /\ \A v \in reviews : \A e \in DOMAIN v.facets :
              /\ v.role # "payer"
              /\ \E o \in OfferingRows(v.offering) : e \in o.components
<1>1. Reconciles
  <2> SUFFICES ASSUME NEW issuer \in Issuers, NEW ref \in OfferingRefs
               PROVE  Cardinality(L1Receipts(issuer, ref))
                        = Cardinality(TransactionsOf(issuer, ref))
    BY DEF Reconciles
  <2>1. CASE <<issuer, ref>> \in ReconciledPairs
    BY <2>1 DEF HealthCheckSilent, Unreconciled
  <2>2. CASE <<issuer, ref>> \notin ReconciledPairs
    <3>1. L1Receipts(issuer, ref) = {} /\ TransactionsOf(issuer, ref) = {}
      BY <2>2 DEF ReconciledPairs, L1Receipts, TransactionsOf
    <3> QED
      BY <3>1
  <2> QED
    BY <2>1, <2>2
<1>2. ChainsAscend
  BY DEF HealthCheckSilent, BrokenChains, AscendsFrom, ChainsAscend
<1>3. \A v \in reviews : \E r \in receipts : r.id = v.receipt
  BY DEF HealthCheckSilent, OrphanReviews
<1>4. \A r \in receipts : \E o \in OfferingRows(r.offering) : r.issuer = o.issuer
  <2> SUFFICES ASSUME NEW r \in receipts
               PROVE  \E o \in OfferingRows(r.offering) : r.issuer = o.issuer
    OBVIOUS
  <2>1. OfferingRows(r.offering) # {}
    BY DEF HealthCheckSilent, OrphanReceipts
  <2> QED
    BY <2>1 DEF HealthCheckSilent, ForeignReceipts
<1>5. ASSUME NEW v \in reviews, NEW e \in DOMAIN v.facets
      PROVE  v.role # "payer" /\ \E o \in OfferingRows(v.offering) : e \in o.components
  BY DEF HealthCheckSilent, InvalidFacets
<1> QED
  BY <1>1, <1>2, <1>3, <1>4, <1>5

=============================================================================
