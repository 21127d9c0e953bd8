---------------------------- MODULE HealthCheck ----------------------------
(***************************************************************************)
(* The invariant register of v02/invariants.js, as far as it reads the     *)
(* ledger tables (I-1, I-2, I-3, I-6 and issuer binding).                  *)
(*                                                                         *)
(* The checks read storage and assume nothing of how a row got there; each *)
(* yields the rows it reports.  I-4 and I-7 read the publications and are  *)
(* with them (Publication); I-5 looks for the append-only triggers in the  *)
(* schema, which no operation of the store creates or drops.               *)
(***************************************************************************)
EXTENDS Ledger

\* checkI1NoOrphans
OrphanReviews == {v \in reviews : \A r \in receipts : r.id # v.receipt}

OrphanReceipts == {r \in receipts : OfferingRows(r.offering) = {}}

\* checkI2Reconciliation looks at the pairs some row of either table names.
ReconciledPairs ==
  {<<t.issuer, t.offering>> : t \in transactions} \cup
  {<<r.issuer, r.offering>> : r \in {r \in receipts : r.level = 1}}

Unreconciled ==
  {pair \in ReconciledPairs :
     Cardinality(L1Receipts(pair[1], pair[2]))
       # Cardinality(TransactionsOf(pair[1], pair[2]))}

\* A Slip... is a wrong form of the definition that follows, as in Ledger.
SlipAscendsFrom(r, p) ==
  /\ p.holder = r.holder /\ p.offering = r.offering /\ p.role = r.role
  /\ p.level + 1 = r.level

\* The comparisons of one receipt with the receipt its prev names.
AscendsFrom(r, p) ==
  /\ p.holder = r.holder /\ p.offering = r.offering /\ p.role = r.role
  /\ p.level < r.level

\* checkI3Monotonicity: the receipt named is missing, of another standing, or not below.
BrokenChains ==
  {r \in receipts : r.prev # NoReceipt /\
     ~\E p \in receipts : p.id = r.prev /\ AscendsFrom(r, p)}

\* checkI6FacetValidity
InvalidFacets ==
  {v \in reviews : DOMAIN v.facets # {} /\
     \/ v.role = "payer"
     \/ \E e \in DOMAIN v.facets : \A o \in OfferingRows(v.offering) : e \notin o.components}

\* checkIssuerBinding: receipts only; a transaction's issuer is not looked at.
ForeignReceipts ==
  {r \in receipts : \E o \in OfferingRows(r.offering) : r.issuer # o.issuer}

-----------------------------------------------------------------------------
(* Properties *)

\* healthCheck returns no violation: it never raises a false alarm about a ledger
\* that only the store's own operations wrote, whatever order they came in.
HealthCheckSilent ==
  /\ OrphanReviews = {} /\ OrphanReceipts = {}
  /\ Unreconciled = {}
  /\ BrokenChains = {}
  /\ InvalidFacets = {}
  /\ ForeignReceipts = {}

=============================================================================
