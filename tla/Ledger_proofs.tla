---------------------------- MODULE Ledger_proofs ----------------------------
(***************************************************************************)
(* Proofs about Ledger for every value of its constants: LedgerInv is      *)
(* inductive, hence every invariant of the ledger holds in every reachable *)
(* state, and no operation rewrites history.                               *)
(*                                                                         *)
(* One lemma per operation shows that it preserves LedgerInv; the four     *)
(* operations that only append a protocol event share one.                 *)
(***************************************************************************)
EXTENDS Ledger, FiniteSetTheorems, TLAPS

\* The ledger starts empty, where every part of the invariant holds.
LEMMA InitInv == Init => LedgerInv
<1> SUFFICES ASSUME Init PROVE LedgerInv
  OBVIOUS
<1>1. TypeOK
  BY LedgerAssumption DEF Init, TypeOK
<1>2. TablesFinite
  BY FS_EmptySet DEF Init, TablesFinite
<1>3. Reconciles
  <2>1. \A i, o : L1Receipts(i, o) = {} /\ TransactionsOf(i, o) = {}
    BY DEF Init, L1Receipts, TransactionsOf
  <2> QED
    BY <2>1 DEF Reconciles
<1> QED
  BY <1>1, <1>2, <1>3 DEF Init, LedgerInv, KeysUnique, NoOrphans, ChainsAscend,
     ChainsLinear, IssuerBinding, OneVoicePerStanding, RolesRespected, FreeMeansNoPurchase

\* Operations that only append a protocol event leave every table alone.
LEMMA EventOnlyInv ==
  ASSUME LedgerInv, UNCHANGED <<offerings, transactions, receipts, reviews>>,
         NEW e \in EventRow, LogEvent(e)
  PROVE  LedgerInv'
<1>1. TypeOK'
  <2>1. events \in Seq(EventRow) /\ Len(events) < MaxEvents /\ events' = Append(events, e)
    BY DEF LedgerInv, TypeOK, LogEvent
  <2>2. events' \in Seq(EventRow) /\ Len(events') = Len(events) + 1
    BY <2>1, e \in EventRow
  <2>3. Len(events') <= MaxEvents
    BY <2>1, <2>2, LedgerAssumption
  <2> QED
    BY <2>2, <2>3 DEF LedgerInv, TypeOK
<1>2. Reconciles'
  BY DEF LedgerInv, Reconciles, L1Receipts, TransactionsOf
<1>3. (KeysUnique /\ TablesFinite /\ NoOrphans)'
  BY DEF LedgerInv, KeysUnique, TablesFinite, NoOrphans, OfferingRows
<1>4. (ChainsAscend /\ ChainsLinear /\ OneVoicePerStanding)'
  BY DEF LedgerInv, ChainsAscend, ChainsLinear, OneVoicePerStanding
<1>5. (IssuerBinding /\ RolesRespected /\ FreeMeansNoPurchase)'
  BY DEF LedgerInv, IssuerBinding, RolesRespected, FreeMeansNoPurchase, OfferingRows
<1> QED
  BY <1>1, <1>2, <1>3, <1>4, <1>5 DEF LedgerInv

\* New catalog rows name offering-versions nothing refers to yet.
LEMMA OfferingsAdded ==
  ASSUME LedgerInv, NEW rows \in SUBSET OfferingRow,
         \A o \in offerings, p \in rows : o.ref # p.ref,
         \A o, p \in rows : o.ref = p.ref => o = p,
         offerings' = offerings \cup rows,
         UNCHANGED <<transactions, receipts, reviews, events>>
  PROVE  LedgerInv'
<1>1. \A p \in rows : /\ \A r \in receipts \cup transactions : r.offering # p.ref
                      /\ \A v \in reviews : v.offering # p.ref
  BY DEF LedgerInv, NoOrphans, OfferingRows
<1>2. (TypeOK /\ KeysUnique /\ TablesFinite)'
  BY DEF LedgerInv, TypeOK, KeysUnique, TablesFinite
<1>3. NoOrphans'
  BY DEF LedgerInv, NoOrphans, OfferingRows
<1>4. Reconciles'
  BY DEF LedgerInv, Reconciles, L1Receipts, TransactionsOf
<1>5. (ChainsAscend /\ ChainsLinear /\ OneVoicePerStanding)'
  BY DEF LedgerInv, ChainsAscend, ChainsLinear, OneVoicePerStanding
<1>6. (IssuerBinding /\ RolesRespected)'
  BY <1>1 DEF LedgerInv, IssuerBinding, RolesRespected, OfferingRows
<1>7. FreeMeansNoPurchase'
  BY <1>1 DEF LedgerInv, FreeMeansNoPurchase
<1> QED
  BY <1>2, <1>3, <1>4, <1>5, <1>6, <1>7 DEF LedgerInv

LEMMA DeclareOfferingInv ==
  ASSUME LedgerInv, NEW ref \in OfferingRefs, NEW issuer \in Issuers,
         NEW components \in SUBSET Entities, NEW price \in Prices, NEW at \in Times,
         DeclareOffering(ref, issuer, components, price, at)
  PROVE  LedgerInv'
<1> DEFINE row == [ref |-> ref, issuer |-> issuer, components |-> components,
                   price |-> price, at |-> at]
<1>1. /\ offerings' = offerings \cup {row}
      /\ UNCHANGED <<transactions, receipts, reviews, events>>
      /\ \A o \in offerings : o.ref # ref
      /\ row \in OfferingRow
  BY LedgerAssumption DEF DeclareOffering, OfferingRows, OfferingRow
<1>2. row.ref = ref
  OBVIOUS
<1> HIDE DEF row
<1>3. {row} \in SUBSET OfferingRow /\ (\A o, p \in {row} : o.ref = p.ref => o = p)
      /\ \A o \in offerings, p \in {row} : o.ref # p.ref
  BY <1>1, <1>2
<1> QED
  BY <1>1, <1>3, OfferingsAdded

\* What a new receipt with a fresh id, under the declared issuer of its offering,
\* leaves intact whether a purchase or an attestation brings it.
LEMMA ReceiptAdded ==
  ASSUME LedgerInv, NEW rc \in ReceiptRow, NEW o \in offerings,
         o.ref = rc.offering, o.issuer = rc.issuer, FreshReceipt(rc.id),
         rc.role = "payer" => rc.level = 1,
         UNCHANGED <<offerings, reviews>>, receipts' = receipts \cup {rc}
  PROVE  /\ \A r, s \in receipts' : r.id = s.id => r = s
         /\ IsFiniteSet(receipts')
         /\ \A r \in receipts' : OfferingRows(r.offering)' # {}
         /\ \A r \in receipts' : \A p \in OfferingRows(r.offering)' : r.issuer = p.issuer
         /\ OneVoicePerStanding'
         /\ RolesRespected'
<1>1. \A r, s \in receipts' : r.id = s.id => r = s
  BY DEF LedgerInv, KeysUnique, FreshReceipt
<1>2. IsFiniteSet(receipts')
  BY FS_AddElement DEF LedgerInv, TablesFinite
<1>3. \A r \in receipts' : OfferingRows(r.offering)' # {}
  BY DEF LedgerInv, NoOrphans, OfferingRows
<1>4. \A r \in receipts' : \A p \in OfferingRows(r.offering)' : r.issuer = p.issuer
  BY DEF LedgerInv, IssuerBinding, OfferingRows, KeysUnique
<1>5. \A v \in reviews : v.receipt # rc.id
  BY DEF LedgerInv, NoOrphans, FreshReceipt
<1>6. OneVoicePerStanding'
  BY <1>5 DEF LedgerInv, OneVoicePerStanding
<1>7. RolesRespected'
  BY DEF LedgerInv, RolesRespected, OfferingRows
<1> QED
  BY <1>1, <1>2, <1>3, <1>4, <1>6, <1>7

\* A purchase adds one transaction and one L1 receipt of the same issuer and
\* offering, so the two sides of I-2 move together.
LEMMA RecordTransactionInv ==
  ASSUME LedgerInv, NEW issuer \in Issuers, NEW holder \in Holders,
         NEW role \in RoleInputs, NEW ref \in OfferingRefs, NEW txId \in TxIds,
         NEW id \in ReceiptIds, NEW coattested \in BOOLEAN, NEW at \in Times,
         RecordTransaction(issuer, holder, role, ref, txId, id, coattested, at)
  PROVE  LedgerInv'
<1> DEFINE tx == [id |-> txId, issuer |-> issuer, offering |-> ref, at |-> at]
           rc == [id |-> id, issuer |-> issuer, holder |-> holder, role |-> role,
                  offering |-> ref, level |-> 1, prev |-> NoReceipt,
                  coattested |-> coattested, at |-> at]
<1>1. /\ transactions' = transactions \cup {tx}
      /\ receipts' = receipts \cup {rc}
      /\ UNCHANGED <<offerings, reviews, events>>
      /\ \A t \in transactions : t.id # txId
      /\ FreshReceipt(id)
  BY DEF RecordTransaction
<1>2. tx \in TransactionRow /\ rc \in ReceiptRow
  BY LedgerAssumption DEF RecordTransaction, TransactionRow, ReceiptRow, Levels
<1>3. /\ rc.id = id /\ rc.issuer = issuer /\ rc.offering = ref /\ rc.level = 1
      /\ rc.prev = NoReceipt
      /\ tx.id = txId /\ tx.issuer = issuer /\ tx.offering = ref
  OBVIOUS
<1> HIDE DEF tx, rc
<1>4. PICK o \in offerings : o.ref = ref /\ o.issuer = issuer /\ o.price # 0
  BY DEF RecordTransaction, OfferingRows, DeclaredIssuer
<1>5. /\ \A r, s \in receipts' : r.id = s.id => r = s
      /\ IsFiniteSet(receipts')
      /\ \A r \in receipts' : OfferingRows(r.offering)' # {}
      /\ \A r \in receipts' : \A p \in OfferingRows(r.offering)' : r.issuer = p.issuer
      /\ OneVoicePerStanding' /\ RolesRespected'
  BY <1>1, <1>2, <1>3, <1>4, ReceiptAdded
<1>6. (TypeOK /\ KeysUnique)'
  BY <1>1, <1>2, <1>3, <1>5 DEF LedgerInv, TypeOK, KeysUnique
<1>7. TablesFinite'
  BY <1>1, <1>5, FS_AddElement DEF LedgerInv, TablesFinite
<1>8. (NoOrphans /\ IssuerBinding)'
  <2>1. /\ OfferingRows(tx.offering)' # {}
        /\ \A p \in OfferingRows(tx.offering)' : tx.issuer = p.issuer
    BY <1>1, <1>3, <1>4 DEF OfferingRows, LedgerInv, KeysUnique
  <2>2. \A t \in transactions : OfferingRows(t.offering)' = OfferingRows(t.offering)
    BY <1>1 DEF OfferingRows
  <2> QED
    BY <1>1, <1>5, <2>1, <2>2 DEF LedgerInv, NoOrphans, IssuerBinding
<1>9. Reconciles'
  <2> SUFFICES ASSUME NEW i \in Issuers, NEW f \in OfferingRefs
               PROVE  Cardinality(L1Receipts(i, f)') = Cardinality(TransactionsOf(i, f)')
    BY DEF Reconciles
  <2>1. /\ IsFiniteSet(L1Receipts(i, f)) /\ IsFiniteSet(TransactionsOf(i, f))
        /\ Cardinality(L1Receipts(i, f)) = Cardinality(TransactionsOf(i, f))
    <3>1. L1Receipts(i, f) \subseteq receipts /\ TransactionsOf(i, f) \subseteq transactions
      BY DEF L1Receipts, TransactionsOf
    <3> QED
      BY <3>1, FS_Subset DEF LedgerInv, TablesFinite, Reconciles
  <2>2. CASE i = issuer /\ f = ref
    <3>1. /\ L1Receipts(i, f)' = L1Receipts(i, f) \cup {rc}
          /\ TransactionsOf(i, f)' = TransactionsOf(i, f) \cup {tx}
      BY <1>1, <1>3, <2>2 DEF L1Receipts, TransactionsOf
    <3>2. rc \notin L1Receipts(i, f) /\ tx \notin TransactionsOf(i, f)
      BY <1>1, <1>3 DEF L1Receipts, TransactionsOf, FreshReceipt
    <3>3. /\ Cardinality(L1Receipts(i, f) \cup {rc}) = Cardinality(L1Receipts(i, f)) + 1
          /\ Cardinality(TransactionsOf(i, f) \cup {tx}) = Cardinality(TransactionsOf(i, f)) + 1
      BY <2>1, <3>2, FS_AddElement
    <3> QED
      BY <2>1, <3>1, <3>3
  <2>3. CASE ~(i = issuer /\ f = ref)
    <3>1. /\ L1Receipts(i, f)' = L1Receipts(i, f)
          /\ TransactionsOf(i, f)' = TransactionsOf(i, f)
      BY <1>1, <1>3, <2>3 DEF L1Receipts, TransactionsOf
    <3> QED
      BY <2>1, <3>1
  <2> QED
    BY <2>2, <2>3
<1>10. (ChainsAscend /\ ChainsLinear)'
  BY <1>1, <1>3 DEF LedgerInv, ChainsAscend, ChainsLinear
<1>11. FreeMeansNoPurchase'
  BY <1>1, <1>3, <1>4 DEF LedgerInv, FreeMeansNoPurchase, KeysUnique
<1> QED
  BY <1>5, <1>6, <1>7, <1>8, <1>9, <1>10, <1>11 DEF LedgerInv

\* An attestation stands above its whole standing and chains to a receipt at the
\* top of it, which therefore had no successor before.
LEMMA IssueAttestationInv ==
  ASSUME LedgerInv, NEW issuer \in Issuers, NEW holder \in Holders,
         NEW role \in RoleInputs, NEW ref \in OfferingRefs, NEW level,
         NEW id \in ReceiptIds, NEW coattested \in BOOLEAN, NEW at \in Times,
         IssueAttestation(issuer, holder, role, ref, level, id, coattested, at)
  PROVE  LedgerInv'
<1> DEFINE chain == Standing(holder, ref, role)
<1>1. PICK prev \in PrevOf(chain) :
        receipts' = receipts \cup
          {[id |-> id, issuer |-> issuer, holder |-> holder, role |-> role,
            offering |-> ref, level |-> level, prev |-> prev,
            coattested |-> coattested, at |-> at]}
  BY DEF IssueAttestation
<1> DEFINE rc == [id |-> id, issuer |-> issuer, holder |-> holder, role |-> role,
                  offering |-> ref, level |-> level, prev |-> prev,
                  coattested |-> coattested, at |-> at]
<1>2. /\ receipts' = receipts \cup {rc}
      /\ UNCHANGED <<offerings, transactions, reviews, events>>
      /\ FreshReceipt(id)
      /\ level \in 2..4 /\ role \in Roles
      /\ role # "payer"
      /\ \A r \in chain : level > r.level
  BY <1>1 DEF IssueAttestation, AttestableLevel, AscensionAllowed, PayerMaxLevel
<1>3. prev \in ReceiptIds \cup {NoReceipt}
  BY <1>1 DEF PrevOf, Latest, Standing, LedgerInv, TypeOK, ReceiptRow
<1>4. rc \in ReceiptRow
  BY <1>2, <1>3, LedgerAssumption DEF ReceiptRow, Levels
<1>5. /\ rc.id = id /\ rc.issuer = issuer /\ rc.offering = ref /\ rc.level = level
      /\ rc.prev = prev /\ rc.holder = holder /\ rc.role = role
  OBVIOUS
<1> HIDE DEF rc
<1>6. PICK o \in offerings : o.ref = ref /\ o.issuer = issuer
  BY DEF IssueAttestation, OfferingRows, DeclaredIssuer
<1>7. /\ \A r, s \in receipts' : r.id = s.id => r = s
      /\ IsFiniteSet(receipts')
      /\ \A r \in receipts' : OfferingRows(r.offering)' # {}
      /\ \A r \in receipts' : \A p \in OfferingRows(r.offering)' : r.issuer = p.issuer
      /\ OneVoicePerStanding' /\ RolesRespected'
  BY <1>2, <1>4, <1>5, <1>6, ReceiptAdded
<1>8. (TypeOK /\ KeysUnique /\ TablesFinite)'
  BY <1>2, <1>4, <1>7 DEF LedgerInv, TypeOK, KeysUnique, TablesFinite
<1>9. (NoOrphans /\ IssuerBinding)'
  <2>1. \A t \in transactions : OfferingRows(t.offering)' = OfferingRows(t.offering)
    BY <1>2 DEF OfferingRows
  <2> QED
    BY <1>2, <1>7, <2>1 DEF LedgerInv, NoOrphans, IssuerBinding
<1>10. Reconciles'
  <2>1. \A i, f : /\ L1Receipts(i, f)' = L1Receipts(i, f)
                  /\ TransactionsOf(i, f)' = TransactionsOf(i, f)
    BY <1>2, <1>5 DEF L1Receipts, TransactionsOf
  <2> QED
    BY <2>1 DEF LedgerInv, Reconciles
<1>11. CASE chain = {}
  <2>1. prev = NoReceipt
    BY <1>1, <1>11 DEF PrevOf
  <2>2. \A r \in receipts : ~(r.holder = holder /\ r.offering = ref /\ r.role = role)
    BY <1>11 DEF Standing
  <2>3. (ChainsAscend /\ ChainsLinear)'
    BY <1>2, <1>5, <2>1, <2>2 DEF LedgerInv, ChainsAscend, ChainsLinear
  <2> QED
    BY <1>2, <1>5, <1>7, <1>8, <1>9, <1>10, <2>3 DEF LedgerInv, FreeMeansNoPurchase
<1>12. CASE chain # {}
  <2>1. PICK top \in chain : top.id = prev /\ \A s \in chain : s.level <= top.level
    BY <1>1, <1>12 DEF PrevOf, Latest
  <2>2. top \in receipts /\ top.holder = holder /\ top.offering = ref /\ top.role = role
    BY <2>1 DEF Standing
  <2>3. top.level < level /\ prev # NoReceipt
    BY <1>2, <2>1, <2>2, LedgerAssumption DEF LedgerInv, TypeOK, ReceiptRow, Levels
  <2>4. \A r \in receipts : r.prev # prev
    <3> SUFFICES ASSUME NEW r \in receipts, r.prev = prev PROVE FALSE
      OBVIOUS
    <3>1. r.holder = holder /\ r.offering = ref /\ r.role = role /\ top.level < r.level
      BY <2>1, <2>2, <2>3 DEF LedgerInv, ChainsAscend, KeysUnique
    <3>2. r \in chain /\ r.level <= top.level
      BY <2>1, <3>1 DEF Standing
    <3> QED
      BY <2>2, <3>1, <3>2 DEF LedgerInv, TypeOK, ReceiptRow, Levels
  <2>5. ChainsAscend'
    BY <1>2, <1>5, <2>1, <2>2, <2>3 DEF LedgerInv, ChainsAscend
  <2>6. \A r \in receipts : (r.holder = holder /\ r.offering = ref /\ r.role = role)
          => r.level # level
    BY <1>2 DEF Standing, LedgerInv, TypeOK, ReceiptRow, Levels
  <2>7. ChainsLinear'
    BY <1>2, <1>5, <2>4, <2>6 DEF LedgerInv, ChainsLinear
  <2> QED
    BY <1>2, <1>5, <1>7, <1>8, <1>9, <1>10, <2>5, <2>7 DEF LedgerInv, FreeMeansNoPurchase
<1> QED
  BY <1>11, <1>12

\* An admitted review is the first of its standing and carries its receipt's facts.
LEMMA SubmitReviewInv ==
  ASSUME LedgerInv, NEW id \in ReviewIds, NEW receiptId \in ReceiptIds,
         NEW ref \in OfferingRefs, NEW overall \in Scores,
         NEW facets \in FacetMaps(Scores), NEW at \in Times,
         SubmitReview(id, receiptId, ref, overall, facets, at)
  PROVE  LedgerInv'
<1>1. PICK rc \in receipts, o \in OfferingRows(ref) :
        /\ rc.id = receiptId
        /\ BindsTo(rc, ref)
        /\ DeclaredIssuer(o, rc.issuer)
        /\ ValidScore(overall)
        /\ FacetsAllowed(rc.role, facets, o)
        /\ ~Reviewed(rc)
        /\ reviews' = reviews \cup
             {[id |-> id, receipt |-> receiptId, offering |-> ref,
               overall |-> overall, facets |-> facets, role |-> rc.role,
               level |-> rc.level, class |-> ReviewClass(o), at |-> at]}
  BY DEF SubmitReview
<1> DEFINE v == [id |-> id, receipt |-> receiptId, offering |-> ref,
                 overall |-> overall, facets |-> facets, role |-> rc.role,
                 level |-> rc.level, class |-> ReviewClass(o), at |-> at]
<1>2. /\ reviews' = reviews \cup {v}
      /\ UNCHANGED <<offerings, transactions, receipts, events>>
      /\ \A w \in reviews : w.id # id
      /\ o \in offerings /\ o.ref = ref /\ rc.offering = ref
  BY <1>1 DEF SubmitReview, OfferingRows, BindsTo
<1>3. facets \in FacetMaps(1..5)
  BY <1>1 DEF FacetMaps, FacetsAllowed, ValidScore
<1>4. v \in ReviewRow
  BY <1>1, <1>3 DEF ReviewRow, ValidScore, ReviewClass, ReviewClasses,
     LedgerInv, TypeOK, ReceiptRow
<1>5. /\ v.id = id /\ v.receipt = receiptId /\ v.offering = ref /\ v.facets = facets
      /\ v.role = rc.role /\ v.level = rc.level /\ v.class = ReviewClass(o)
  OBVIOUS
<1> HIDE DEF v
<1>6. (TypeOK /\ KeysUnique /\ TablesFinite)'
  BY <1>2, <1>4, <1>5 DEF LedgerInv, TypeOK, KeysUnique, TablesFinite
<1>7. \A r : OfferingRows(r)' = OfferingRows(r)
  BY <1>2 DEF OfferingRows
<1>8. (NoOrphans /\ IssuerBinding)'
  BY <1>1, <1>2, <1>5, <1>7 DEF LedgerInv, NoOrphans, IssuerBinding
<1>9. Reconciles'
  BY <1>2 DEF LedgerInv, Reconciles, L1Receipts, TransactionsOf
<1>10. (ChainsAscend /\ ChainsLinear)'
  BY <1>2 DEF LedgerInv, ChainsAscend, ChainsLinear
<1>11. OneVoicePerStanding'
  <2>1. \A r \in receipts : r.id = receiptId => r = rc
    BY <1>1 DEF LedgerInv, KeysUnique
  <2>2. \A w \in reviews, s \in receipts :
          ~(/\ w.receipt = s.id
            /\ s.holder = rc.holder /\ s.offering = rc.offering /\ s.role = rc.role)
    BY <1>1 DEF Reviewed, Standing
  <2> QED
    BY <1>2, <1>5, <2>1, <2>2 DEF LedgerInv, OneVoicePerStanding
<1>12. RolesRespected'
  BY <1>1, <1>2, <1>5, <1>7 DEF LedgerInv, RolesRespected, FacetsAllowed,
     OfferingRows, KeysUnique
<1>13. FreeMeansNoPurchase'
  BY <1>2, <1>5 DEF LedgerInv, FreeMeansNoPurchase, ReviewClass, KeysUnique
<1> QED
  BY <1>6, <1>8, <1>9, <1>10, <1>11, <1>12, <1>13 DEF LedgerInv

LEMMA StepInv == LedgerInv /\ [Next]_vars => LedgerInv'
<1> SUFFICES ASSUME LedgerInv, [Next]_vars PROVE LedgerInv'
  OBVIOUS
<1>1. CASE UNCHANGED vars
  BY <1>1 DEF vars, LedgerInv, TypeOK, KeysUnique, TablesFinite, NoOrphans, Reconciles,
     L1Receipts, TransactionsOf, ChainsAscend, ChainsLinear, IssuerBinding,
     OneVoicePerStanding, RolesRespected, FreeMeansNoPurchase, OfferingRows
<1>2. CASE CatalogStep
  <2> PICK ref \in OfferingRefs, at \in Times :
        \/ \E issuer \in Issuers, components \in SUBSET Entities, price \in Prices :
             DeclareOffering(ref, issuer, components, price, at)
        \/ RetireOffering(ref, at)
    BY <1>2 DEF CatalogStep
  <2>1. CASE RetireOffering(ref, at)
    <3> DEFINE e == [type |-> "offering_retired", offering |-> ref, at |-> at]
    <3>1. e \in EventRow
      BY DEF EventRow
    <3> QED
      BY <2>1, <3>1, EventOnlyInv DEF RetireOffering
  <2> QED
    BY <2>1, DeclareOfferingInv
<1>3. CASE IssuanceStep
  BY <1>3, RecordTransactionInv, IssueAttestationInv, LedgerAssumption DEF IssuanceStep
<1>4. CASE DisputeStep
  <2> PICK ref \in OfferingRefs, at \in Times :
        \/ RequestAttestation(ref, at)
        \/ \E issuer \in Issuers : RefuseAttestation(issuer, ref, at)
    BY <1>4 DEF DisputeStep
  <2>1. CASE RequestAttestation(ref, at)
    <3> DEFINE e == [type |-> "attestation_requested", offering |-> ref, at |-> at]
    <3>1. e \in EventRow
      BY DEF EventRow
    <3> QED
      BY <2>1, <3>1, EventOnlyInv DEF RequestAttestation
  <2>2. ASSUME NEW issuer \in Issuers, RefuseAttestation(issuer, ref, at)
        PROVE  LedgerInv'
    <3> DEFINE e == [type |-> "attestation_refused", issuer |-> issuer, offering |-> ref,
                     at |-> at]
    <3>1. e \in EventRow
      BY DEF EventRow
    <3> QED
      BY <2>2, <3>1, EventOnlyInv DEF RefuseAttestation
  <2> QED
    BY <2>1, <2>2
<1>5. CASE ReviewStep
  <2> PICK id \in ReviewIds, at \in Times :
        \/ \E receiptId \in ReceiptIds, ref \in OfferingRefs, overall \in Scores,
              facets \in FacetMaps(Scores) :
             SubmitReview(id, receiptId, ref, overall, facets, at)
        \/ \E overall \in Scores \cup {NoScore} : AppendReviewEdit(id, overall, at)
    BY <1>5 DEF ReviewStep
  <2>1. ASSUME NEW overall \in Scores \cup {NoScore}, AppendReviewEdit(id, overall, at)
        PROVE  LedgerInv'
    <3> DEFINE e == [type |-> "review_edited", review |-> id,
                     overall |-> overall, at |-> at]
    <3>1. e \in EventRow
      BY <2>1 DEF EventRow, AppendReviewEdit, ValidScore
    <3> QED
      BY <2>1, <3>1, EventOnlyInv DEF AppendReviewEdit
  <2> QED
    BY <2>1, SubmitReviewInv
<1> QED
  BY <1>1, <1>2, <1>3, <1>4, <1>5 DEF Next

\* What a step may do to history: add to it, and at most one event at its end.
Grows ==
  /\ offerings \subseteq offerings'
  /\ transactions \subseteq transactions'
  /\ receipts \subseteq receipts'
  /\ reviews \subseteq reviews'
  /\ Len(events) <= Len(events')
  /\ \A i \in 1..Len(events) : events'[i] = events[i]

LEMMA StepGrows == TypeOK /\ Next => Grows /\ Len(events') <= Len(events) + 1
<1> SUFFICES ASSUME TypeOK, Next PROVE Grows /\ Len(events') <= Len(events) + 1
  OBVIOUS
<1>1. events \in Seq(EventRow) /\ Len(events) \in Nat
  BY DEF TypeOK
<1>2. ASSUME NEW e, LogEvent(e)
      PROVE  /\ Len(events) <= Len(events') /\ Len(events') <= Len(events) + 1
             /\ \A i \in 1..Len(events) : events'[i] = events[i]
  BY <1>1, <1>2 DEF LogEvent
<1>3. CASE CatalogStep
  BY <1>1, <1>2, <1>3 DEF CatalogStep, DeclareOffering, RetireOffering, Grows
<1>4. CASE IssuanceStep
  BY <1>1, <1>4 DEF IssuanceStep, RecordTransaction, IssueAttestation, Grows
<1>5. CASE DisputeStep
  BY <1>2, <1>5 DEF DisputeStep, RequestAttestation, RefuseAttestation, Grows
<1>6. CASE ReviewStep
  <2>1. ASSUME NEW id, NEW receiptId, NEW ref, NEW overall, NEW facets, NEW at,
               SubmitReview(id, receiptId, ref, overall, facets, at)
        PROVE  Grows /\ Len(events') <= Len(events) + 1
    <3>1. reviews \subseteq reviews' /\ UNCHANGED <<offerings, transactions, receipts, events>>
      BY <2>1 DEF SubmitReview
    <3> QED
      BY <1>1, <3>1 DEF Grows
  <2>2. ASSUME NEW id, NEW overall, NEW at, AppendReviewEdit(id, overall, at)
        PROVE  Grows /\ Len(events') <= Len(events) + 1
    BY <1>2, <2>2 DEF AppendReviewEdit, Grows
  <2> QED
    BY <1>6, <2>1, <2>2 DEF ReviewStep
<1> QED
  BY <1>3, <1>4, <1>5, <1>6 DEF Next

\* The inductive invariant holds in every reachable state of the store, for any
\* number of issuers, holders, offerings, receipts and reviews.
THEOREM LedgerInvariant == Spec => []LedgerInv
  BY InitInv, StepInv, PTL DEF Spec

\* Type correctness of the store: no illegal role, level, score or facet is stored.
THEOREM TypeCorrect == Spec => []TypeOK
<1>1. LedgerInv => TypeOK
  BY DEF LedgerInv
<1> QED
  BY <1>1, LedgerInvariant, PTL

\* I-2, the ledger balances: the store never holds an L1 receipt without its
\* transaction nor a transaction without its L1 receipt.
THEOREM Reconciliation == Spec => []Reconciles
<1>1. LedgerInv => Reconciles
  BY DEF LedgerInv
<1> QED
  BY <1>1, LedgerInvariant, PTL

\* I-3: an attestation continues a receipt of its own standing, and ascends.
THEOREM ChainsOnlyAscend == Spec => []ChainsAscend
<1>1. LedgerInv => ChainsAscend
  BY DEF LedgerInv
<1> QED
  BY <1>1, LedgerInvariant, PTL

\* D-5: no interleaving of purchases and attestations forks a chain.
THEOREM ChainsNeverFork == Spec => []ChainsLinear
<1>1. LedgerInv => ChainsLinear
  BY DEF LedgerInv
<1> QED
  BY <1>1, LedgerInvariant, PTL

\* One voice per standing: no sequence of purchases, attestations and submissions
\* gives one (holder, offering-version, role) two reviews.
THEOREM OneVoice == Spec => []OneVoicePerStanding
<1>1. LedgerInv => OneVoicePerStanding
  BY DEF LedgerInv
<1> QED
  BY <1>1, LedgerInvariant, PTL

\* I-1: no review without its receipt, whatever receipt was presented.
THEOREM EveryReviewHasItsReceipt == Spec => []NoOrphans
<1>1. LedgerInv => NoOrphans
  BY DEF LedgerInv
<1> QED
  BY <1>1, LedgerInvariant, PTL

\* D-12: nobody but the declared issuer sells or attests an offering-version.
THEOREM OnlyTheDeclaredIssuer == Spec => []IssuerBinding
<1>1. LedgerInv => IssuerBinding
  BY DEF LedgerInv
<1> QED
  BY <1>1, LedgerInvariant, PTL

\* F1 and I-6: payers gain no standing and rate no component.
THEOREM PayersKeepToTheirRole == Spec => []RolesRespected
<1>1. LedgerInv => RolesRespected
  BY DEF LedgerInv
<1> QED
  BY <1>1, LedgerInvariant, PTL

\* F2: where no value moves there is no purchase, no L1 and no purchaser's voice.
THEOREM FreeOfferingsSellNothing == Spec => []FreeMeansNoPurchase
<1>1. LedgerInv => FreeMeansNoPurchase
  BY DEF LedgerInv
<1> QED
  BY <1>1, LedgerInvariant, PTL

\* I-5: every operation extends the tables and the event log and rewrites nothing.
THEOREM NeverRewritten == Spec => AppendOnly
<1>1. TypeOK /\ [Next]_vars => [Grows]_vars
  BY StepGrows
<1> QED
  BY <1>1, TypeCorrect, PTL DEF Spec, AppendOnly, Grows

=============================================================================
