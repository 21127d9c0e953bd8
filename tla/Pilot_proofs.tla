---------------------------- MODULE Pilot_proofs ----------------------------
(***************************************************************************)
(* Proofs about publishing and signing scores, for every ledger, catalog   *)
(* and clock.  A step only adds rows, dated as their callers say, so what a *)
(* score was rendered from is what a snapshot reads as long as no row of   *)
(* its offerings is recorded with a date inside its window: nothing else   *)
(* but the issuance statistics and the catalog reaches the snapshot.  And  *)
(* as a standing has one voice, K reviews are K standings.                 *)
(***************************************************************************)
EXTENDS Pilot, HealthCheck_proofs

\* What is one to one and onto keeps the count.
LEMMA Counted ==
  ASSUME NEW S, IsFiniteSet(S), NEW T, NEW f \in [S -> T],
         \A t \in T : \E s \in S : f[s] = t
  PROVE  /\ IsFiniteSet(T) /\ Cardinality(T) <= Cardinality(S)
         /\ (\A a, b \in S : f[a] = f[b] => a = b) => Cardinality(T) = Cardinality(S)
<1>1. f \in Surjection(S, T)
  BY DEF Surjection
<1>2. (\A a, b \in S : f[a] = f[b] => a = b) => f \in Injection(S, T)
  BY DEF Injection, IsInjective
<1> QED
  BY <1>1, <1>2, FS_Surjection

\* Two snapshots that differ in the issuance statistics render alike, disclosures aside.
LEMMA RenderedAlike ==
  ASSUME NEW a, NEW b, a.offering = b.offering, a.window = b.window,
         a.reviews = b.reviews, a.standings = b.standings
  PROVE  Undisclosed(RenderOffering(a)) = Undisclosed(RenderOffering(b))
<1> DEFINE m == RenderOffering(a)
           n == RenderOffering(b)
           Same(f) == m[f] = n[f]
<1>1. /\ m = [f \in DOMAIN m |-> m[f]] /\ n = [f \in DOMAIN n |-> n[f]]
      /\ DOMAIN m = {"window", "published", "receipts", "purchaseGate", "allVerified",
            "completers", "completionRate", "byLevel", "byRole", "byClass", "coattested",
            "facets", "disclosures"}
      /\ DOMAIN n = DOMAIN m
  BY DEF RenderOffering
<1>2. Same("window") /\ Same("published") /\ Same("receipts") /\ Same("purchaseGate")
  BY DEF RenderOffering
<1>3. Same("allVerified") /\ Same("completers") /\ Same("completionRate")
  BY DEF RenderOffering
<1>4. Same("byLevel") /\ Same("byRole") /\ Same("byClass") /\ Same("coattested")
  BY DEF RenderOffering
<1>5. Same("facets")
  BY DEF RenderOffering
<1> HIDE DEF m, n
<1>6. [m EXCEPT !.disclosures = NoValue] = [n EXCEPT !.disclosures = NoValue]
  BY <1>1, <1>2, <1>3, <1>4, <1>5
<1> QED
  BY <1>6 DEF m, n, Undisclosed

\* Two snapshots of an entity with the same reviews of the same offerings do, but for the
\* list of offerings.
UsedOf(input) == UNION {{<<o.offering, r>> : r \in o.reviews} : o \in input.offerings}

LEMMA EntityRenderedAlike ==
  ASSUME NEW a, NEW b, a.entity = b.entity, a.window = b.window, UsedOf(a) = UsedOf(b)
  PROVE  Unlisted(RenderEntity(a)) = Unlisted(RenderEntity(b))
<1> DEFINE m == RenderEntity(a)
           n == RenderEntity(b)
           Same(f) == m[f] = n[f]
<1>1. /\ m = [f \in DOMAIN m |-> m[f]] /\ n = [f \in DOMAIN n |-> n[f]]
      /\ DOMAIN m = {"window", "published", "receipts", "score", "offerings"}
      /\ DOMAIN n = DOMAIN m
  BY DEF RenderEntity
<1>2. ASSUME NEW input
      PROVE  /\ RenderEntity(input).window = input.window
             /\ RenderEntity(input).published = Publishable(Cardinality(UsedOf(input)))
             /\ RenderEntity(input).receipts = Cardinality(UsedOf(input))
             /\ RenderEntity(input).score =
                  IF Publishable(Cardinality(UsedOf(input)))
                  THEN EntityScore(input.entity, UsedOf(input)) ELSE NoValue
  BY DEF RenderEntity, UsedOf
<1>3. Same("window") /\ Same("published") /\ Same("receipts") /\ Same("score")
  BY <1>2
<1> HIDE DEF m, n
<1>4. [m EXCEPT !.offerings = {}] = [n EXCEPT !.offerings = {}]
  BY <1>1, <1>3
<1> QED
  BY <1>4 DEF m, n, Unlisted

-----------------------------------------------------------------------------
(* The pilot writes the ledger as the ledger allows *)

\* Every step of the pilot is a step of the ledger, or none.
LEMMA PilotWrites == LedgerInv /\ [PilotNext]_pilotVars => [Next]_vars
<1> SUFFICES ASSUME LedgerInv, [PilotNext]_pilotVars PROVE [Next]_vars
  OBVIOUS
<1>1. CASE UNCHANGED pubVars
  BY <1>1 DEF pubVars
<1>2. CASE PubNext
  BY <1>2 DEF PubNext, Write, Publish
<1>3. CASE PilotReview
  <2>1. PICK id \in ReviewIds, overall \in Scores, facets \in FacetMaps(Scores),
             at \in Times, presented \in receipts :
          SubmitReview(id, presented.id, presented.offering, overall, facets, at)
    BY <1>3 DEF PilotReview, SubmitReviewWithClaim, SubmitReviewWithReceipt, MatchesLedger
  <2>2. presented.id \in ReceiptIds /\ presented.offering \in OfferingRefs
    BY DEF LedgerInv, TypeOK, ReceiptRow
  <2>3. ReviewStep
    BY <2>1, <2>2 DEF ReviewStep
  <2> QED
    BY <2>3 DEF Next
<1>4. CASE Tick \/ \E ref \in OfferingRefs, window \in Times : SignScore(ref, window)
  BY <1>1, <1>4 DEF Tick, SignScore
<1>5. CASE \E receiptId \in ReceiptIds, source \in Sources, kind \in CorroborationKinds :
             Corroborate(receiptId, source, kind)
  BY <1>1, <1>5 DEF Corroborate
<1> QED
  BY <1>1, <1>2, <1>3, <1>4, <1>5 DEF PilotNext, pilotVars

LEMMA PilotLedger == PilotSpec => []LedgerInv
<1>1. PilotInit => LedgerInv
  BY InitInv DEF PilotInit, PubInit
<1> QED
  BY <1>1, PilotWrites, StepInv, PTL DEF PilotSpec

LEMMA PilotGrows ==
  ASSUME LedgerInv, [PilotNext]_pilotVars
  PROVE  Grows
<1>1. TypeOK /\ Len(events) \in Nat
  BY DEF LedgerInv, TypeOK
<1>2. CASE UNCHANGED vars
  BY <1>1, <1>2 DEF vars, Grows
<1> QED
  BY <1>1, <1>2, PilotWrites, StepGrows

\* What the server dates itself, it dates now.
LEMMA PilotClock ==
  ASSUME now \in Times, [PilotNext]_pilotVars
  PROVE  /\ now' \in Times /\ now <= now'
         /\ corroborations \subseteq corroborations'
         /\ \A c \in corroborations' : c \in corroborations \/ c.at = now
<1>1. now \in Int /\ now <= now
  BY PilotAssumption
<1>2. CASE UNCHANGED <<now, corroborations>>
  BY <1>1, <1>2
<1>3. CASE Tick
  <2>1. UNCHANGED corroborations /\ now' = now + 1 /\ now < MaxTime
    BY <1>3 DEF Tick
  <2>2. now' \in Times /\ now <= now'
    BY <2>1, PilotAssumption
  <2> QED
    BY <2>1, <2>2
<1>4. CASE \E receiptId \in ReceiptIds, source \in Sources, kind \in CorroborationKinds :
             Corroborate(receiptId, source, kind)
  BY <1>1, <1>4 DEF Corroborate
<1>5. CASE PilotReview
  BY <1>2, <1>5 DEF PilotReview, SubmitReviewWithClaim, SubmitReviewWithReceipt
<1>6. CASE \E ref \in OfferingRefs, window \in Times : SignScore(ref, window)
  <2>1. UNCHANGED <<now, corroborations>>
    BY <1>6 DEF SignScore
  <2> QED
    BY <1>2, <2>1
<1>7. CASE UNCHANGED pilotVars \/ (PubNext /\ UNCHANGED <<now, corroborations, signed>>)
  BY <1>2, <1>7 DEF pilotVars
<1> QED
  BY <1>3, <1>4, <1>5, <1>6, <1>7 DEF PilotNext

-----------------------------------------------------------------------------
(* What a snapshot reads *)

\* What a stored review leads to is there for ever.
RowsKept ==
  \A v \in reviews :
    /\ ReceiptOf(v)' = ReceiptOf(v)
    /\ ReviewWithId(v.id)' = ReviewWithId(v.id) /\ ReviewWithId(v.id) = v
    /\ OfferingRows(v.offering)' = OfferingRows(v.offering)

\* The receipts and reviews of an offering dated by w are what they were.
Unchanged(ref, w) ==
  /\ AsOf({rc \in receipts : rc.offering = ref}, w)'
     = AsOf({rc \in receipts : rc.offering = ref}, w)
  /\ Posted(ref, w)' = Posted(ref, w)

\* The receipt a review hangs off.
LEMMA ReceiptFound ==
  ASSUME LedgerInv, NEW v \in reviews
  PROVE  /\ ReceiptOf(v) \in receipts /\ ReceiptOf(v).id = v.receipt
         /\ ReceiptOf(v).offering = v.offering /\ ReceiptOf(v).role = v.role
         /\ OfferingRows(v.offering) # {}
         /\ \A rc \in receipts : rc.id = v.receipt => rc = ReceiptOf(v)
<1>1. PICK rc \in receipts : rc.id = v.receipt /\ rc.offering = v.offering /\ rc.role = v.role
  BY DEF LedgerInv, NoOrphans
<1>2. \A r \in receipts : r.id = v.receipt => r = rc
  BY <1>1 DEF LedgerInv, KeysUnique
<1>3. ReceiptOf(v) = rc
  BY <1>1, <1>2 DEF ReceiptOf
<1> QED
  BY <1>1, <1>2, <1>3 DEF LedgerInv, NoOrphans

LEMMA GrowingKeepsRows ==
  ASSUME LedgerInv, LedgerInv', Grows
  PROVE  RowsKept
<1> SUFFICES ASSUME NEW v \in reviews
             PROVE  /\ ReceiptOf(v)' = ReceiptOf(v)
                    /\ ReviewWithId(v.id)' = ReviewWithId(v.id) /\ ReviewWithId(v.id) = v
                    /\ OfferingRows(v.offering)' = OfferingRows(v.offering)
  BY DEF RowsKept
<1>1. v \in reviews' /\ receipts \subseteq receipts' /\ offerings \subseteq offerings'
  BY DEF Grows
<1>2. /\ ReceiptOf(v) \in receipts /\ ReceiptOf(v).id = v.receipt
      /\ OfferingRows(v.offering) # {}
  BY ReceiptFound
<1>3. \A r \in receipts' : r.id = v.receipt => r = ReceiptOf(v)
  BY <1>1, <1>2 DEF LedgerInv, KeysUnique
<1>4. ReceiptOf(v)' = ReceiptOf(v)
  BY <1>1, <1>2, <1>3 DEF ReceiptOf
<1>5. /\ \A x \in reviews : x.id = v.id => x = v
      /\ \A x \in reviews' : x.id = v.id => x = v
  BY <1>1 DEF LedgerInv, KeysUnique
<1>6. ReviewWithId(v.id)' = v /\ ReviewWithId(v.id) = v
  BY <1>1, <1>5 DEF ReviewWithId
<1>7. OfferingRows(v.offering)' = OfferingRows(v.offering)
  BY <1>1, <1>2 DEF OfferingRows, LedgerInv, KeysUnique
<1> QED
  BY <1>4, <1>6, <1>7

\* A sample only grows, in both its parts.
LEMMA SamplesGrow ==
  ASSUME Grows, NEW subject, NEW w
  PROVE  /\ Sample(subject, w).receipts \subseteq Sample(subject, w)'.receipts
         /\ Sample(subject, w).reviews \subseteq Sample(subject, w)'.reviews
         /\ \A ref : Covers(subject, ref) => Covers(subject, ref)'
<1>1. \A ref : Covers(subject, ref) => Covers(subject, ref)'
  BY DEF Covers, OfferingRows, Grows
<1>2. /\ {rc \in receipts : Covers(subject, rc.offering) /\ rc.at <= w}
         \subseteq {rc \in receipts : Covers(subject, rc.offering) /\ rc.at <= w}'
      /\ {v \in reviews : Covers(subject, v.offering) /\ v.at <= w}
         \subseteq {v \in reviews : Covers(subject, v.offering) /\ v.at <= w}'
  BY <1>1 DEF Grows
<1> QED
  BY <1>1, <1>2 DEF Sample

\* So a sample that is again what it was, some time after it was taken, has been so
\* all along.
LEMMA SampleAgain ==
  ASSUME Grows, NEW subject, NEW w, NEW sample,
         sample.receipts \subseteq Sample(subject, w).receipts,
         sample.reviews \subseteq Sample(subject, w).reviews,
         Sample(subject, w)' = sample
  PROVE  Sample(subject, w) = sample
<1>1. /\ Sample(subject, w).receipts = Sample(subject, w)'.receipts
      /\ Sample(subject, w).reviews = Sample(subject, w)'.reviews
  BY SamplesGrow
<1>2. /\ Sample(subject, w) = [receipts |-> Sample(subject, w).receipts,
                               reviews |-> Sample(subject, w).reviews]
      /\ Sample(subject, w)' = [receipts |-> Sample(subject, w)'.receipts,
                                reviews |-> Sample(subject, w)'.reviews]
  BY DEF Sample
<1> QED
  BY <1>1, <1>2

\* And with it what is read of each of its offerings.
LEMMA SampleRead ==
  ASSUME Grows, NEW subject, NEW w, Sample(subject, w)' = Sample(subject, w),
         NEW ref, Covers(subject, ref)'
  PROVE  Unchanged(ref, w)
<1>1. /\ {rc \in receipts : Covers(subject, rc.offering) /\ rc.at <= w}'
         = {rc \in receipts : Covers(subject, rc.offering) /\ rc.at <= w}
      /\ {v \in reviews : Covers(subject, v.offering) /\ v.at <= w}'
         = {v \in reviews : Covers(subject, v.offering) /\ v.at <= w}
  BY DEF Sample
<1>2. \A rc \in receipts' : rc.offering = ref /\ rc.at <= w => rc \in receipts
  BY <1>1
<1>3. \A v \in reviews' : v.offering = ref /\ v.at <= w => v \in reviews
  BY <1>1
<1>4. AsOf({rc \in receipts : rc.offering = ref}, w)'
      = AsOf({rc \in receipts : rc.offering = ref}, w)
  BY <1>2 DEF AsOf, Grows
<1>5. Posted(ref, w)' = Posted(ref, w)
  BY <1>3 DEF Posted, AsOf, Grows
<1> QED
  BY <1>4, <1>5 DEF Unchanged

\* The input of a rendering.
LEMMA SnapshotKept ==
  ASSUME RowsKept, NEW w, NEW o, Unchanged(o.ref, w)
  PROVE  /\ RenderingInput(o, w).offering' = RenderingInput(o, w).offering
         /\ RenderingInput(o, w).window' = RenderingInput(o, w).window
         /\ RenderingInput(o, w).standings' = RenderingInput(o, w).standings
         /\ RenderingInput(o, w).reviews' = RenderingInput(o, w).reviews
         /\ ReviewRows(o.ref, w)' = ReviewRows(o.ref, w)
<1>1. StandingRows(o.ref, w)' = StandingRows(o.ref, w)
  BY DEF StandingRows, Unchanged
<1>2. Posted(o.ref, w)' = Posted(o.ref, w) /\ Posted(o.ref, w) \subseteq reviews
  BY DEF Posted, Unchanged, AsOf
<1>3. \A v \in Posted(o.ref, w) :
        ChainOf(v, StandingRows(o.ref, w))' = ChainOf(v, StandingRows(o.ref, w))
  BY <1>1, <1>2 DEF ChainOf, RowsKept
<1>4. ReviewRows(o.ref, w)' = ReviewRows(o.ref, w)
  BY <1>1, <1>2, <1>3 DEF ReviewRows
<1> QED
  BY <1>1, <1>4 DEF RenderingInput


\* With the corroborations of the time.
LEMMA PilotInput ==
  ASSUME NEW o, NEW w
  PROVE  /\ PilotRenderingInput(o, w).offering = o /\ PilotRenderingInput(o, w).window = w
         /\ PilotRenderingInput(o, w).standings = RenderingInput(o, w).standings
         /\ PilotRenderingInput(o, w).reviews =
              {WithCorroborations(r, w) : r \in RenderingInput(o, w).reviews}
         /\ PilotRenderingInput(o, w).offering' = o /\ PilotRenderingInput(o, w).window' = w
         /\ PilotRenderingInput(o, w).standings' = RenderingInput(o, w).standings'
         /\ PilotRenderingInput(o, w).reviews' =
              {WithCorroborations(r, w)' : r \in RenderingInput(o, w).reviews'}
<1>1. ASSUME NEW i, {"offering", "window", "standings", "reviews"} \subseteq DOMAIN i, NEW new
      PROVE  /\ [i EXCEPT !.reviews = new].offering = i.offering
             /\ [i EXCEPT !.reviews = new].window = i.window
             /\ [i EXCEPT !.reviews = new].standings = i.standings
             /\ [i EXCEPT !.reviews = new].reviews = new
  BY <1>1
<1>2. /\ {"offering", "window", "standings", "reviews"} \subseteq DOMAIN RenderingInput(o, w)
      /\ RenderingInput(o, w).offering = o /\ RenderingInput(o, w).window = w
  BY DEF RenderingInput
<1>3. /\ {"offering", "window", "standings", "reviews"} \subseteq DOMAIN RenderingInput(o, w)'
      /\ RenderingInput(o, w).offering' = o /\ RenderingInput(o, w).window' = w
  BY DEF RenderingInput
<1>4. /\ PilotRenderingInput(o, w) = [RenderingInput(o, w) EXCEPT !.reviews =
           {WithCorroborations(r, w) : r \in RenderingInput(o, w).reviews}]
      /\ PilotRenderingInput(o, w)' = [RenderingInput(o, w)' EXCEPT !.reviews =
           {WithCorroborations(r, w)' : r \in RenderingInput(o, w).reviews'}]
  BY DEF PilotRenderingInput
<1>5. /\ PilotRenderingInput(o, w).offering = o /\ PilotRenderingInput(o, w).window = w
      /\ PilotRenderingInput(o, w).standings = RenderingInput(o, w).standings
      /\ PilotRenderingInput(o, w).reviews =
           {WithCorroborations(r, w) : r \in RenderingInput(o, w).reviews}
  BY <1>1, <1>2, <1>4
<1>6. /\ PilotRenderingInput(o, w).offering' = o /\ PilotRenderingInput(o, w).window' = w
      /\ PilotRenderingInput(o, w).standings' = RenderingInput(o, w).standings'
      /\ PilotRenderingInput(o, w).reviews' =
           {WithCorroborations(r, w)' : r \in RenderingInput(o, w).reviews'}
  BY <1>1, <1>3, <1>4
<1> QED
  BY <1>5, <1>6


LEMMA PilotSnapshotKept ==
  ASSUME RowsKept, NEW w, NEW o, Unchanged(o.ref, w),
         AsOf(corroborations, w)' = AsOf(corroborations, w)
  PROVE  /\ PilotRenderingInput(o, w).offering' = PilotRenderingInput(o, w).offering
         /\ PilotRenderingInput(o, w).window' = PilotRenderingInput(o, w).window
         /\ PilotRenderingInput(o, w).standings' = PilotRenderingInput(o, w).standings
         /\ PilotRenderingInput(o, w).reviews' = PilotRenderingInput(o, w).reviews
<1>1. ASSUME NEW r \in RenderingInput(o, w).reviews
      PROVE  WithCorroborations(r, w)' = WithCorroborations(r, w)
  <2>1. PICK v \in reviews : r.id = v.id
    BY DEF RenderingInput, ReviewRows, ReviewInput, Posted, AsOf
  <2>2. ReviewWithId(r.id)' = ReviewWithId(r.id)
    BY <2>1 DEF RowsKept
  <2>3. ASSUME NEW id PROVE Corroborated(id, w)' <=> Corroborated(id, w)
    BY DEF Corroborated
  <2>4. Corroborated(ReviewWithId(r.id).receipt, w)'
          <=> Corroborated(ReviewWithId(r.id).receipt, w)
    BY <2>2, <2>3 DEF Corroborated
  <2> QED
    BY <2>4 DEF WithCorroborations
<1>2. {WithCorroborations(r, w)' : r \in RenderingInput(o, w).reviews'}
      = {WithCorroborations(r, w) : r \in RenderingInput(o, w).reviews}
  BY <1>1, SnapshotKept
<1>3. PilotRenderingInput(o, w).reviews' = PilotRenderingInput(o, w).reviews
  <2>1. /\ PilotRenderingInput(o, w).reviews' =
             {WithCorroborations(r, w)' : r \in RenderingInput(o, w).reviews'}
        /\ PilotRenderingInput(o, w).reviews =
             {WithCorroborations(r, w) : r \in RenderingInput(o, w).reviews}
    BY PilotInput
  <2> QED
    BY <1>2, <2>1
<1>4. RenderingInput(o, w).standings' = RenderingInput(o, w).standings
  BY SnapshotKept
<1> QED
  BY <1>3, <1>4, PilotInput

\* The scores: of an offering as published, as signed, and of an entity whatever
\* offerings are declared and retired later.
LEMMA ScoreKept ==
  ASSUME RowsKept, NEW w, NEW o, Unchanged(o.ref, w)
  PROVE  Undisclosed(RenderOffering(RenderingInput(o, w)))'
         = Undisclosed(RenderOffering(RenderingInput(o, w)))
<1> DEFINE input == RenderingInput(o, w)
<1>1. /\ input'.offering = input.offering /\ input'.window = input.window
      /\ input'.standings = input.standings /\ input'.reviews = input.reviews
  BY SnapshotKept
<1> QED
  BY <1>1, RenderedAlike

LEMMA PilotScoreKept ==
  ASSUME RowsKept, NEW w, NEW o, Unchanged(o.ref, w),
         AsOf(corroborations, w)' = AsOf(corroborations, w)
  PROVE  Undisclosed(RenderOffering(PilotRenderingInput(o, w)))'
         = Undisclosed(RenderOffering(PilotRenderingInput(o, w)))
BY PilotSnapshotKept, RenderedAlike

Slice(o, w) ==
  [offering |-> o, retired |-> RetiredBy(o.ref, w), reviews |-> ReviewRows(o.ref, w)]

\* The reviews of an entity's snapshot, each with its offering.
LEMMA UsedPairs ==
  ASSUME NEW e, NEW w
  PROVE  /\ UsedOf(EntityRenderingInput(e, w))
            = UNION {{<<o, r>> : r \in ReviewRows(o.ref, w)} : o \in Declaring(e, w)}
         /\ EntityRecord(e, w) = UNION {ReviewRows(o.ref, w) : o \in Declaring(e, w)}
         /\ EntityRenderingInput(e, w).entity = e /\ EntityRenderingInput(e, w).window = w
<1>1. EntityRenderingInput(e, w)
      = [entity |-> e, window |-> w, offerings |-> {Slice(o, w) : o \in Declaring(e, w)}]
  BY DEF EntityRenderingInput, Slice
<1>2. \A o : Slice(o, w).offering = o /\ Slice(o, w).reviews = ReviewRows(o.ref, w)
  BY DEF Slice
<1> QED
  BY <1>1, <1>2 DEF UsedOf, EntityRecord

LEMMA UsedPairsNext ==
  ASSUME NEW e, NEW w
  PROVE  /\ UsedOf(EntityRenderingInput(e, w)')
            = UNION {{<<o, r>> : r \in ReviewRows(o.ref, w)'} : o \in Declaring(e, w)'}
         /\ EntityRenderingInput(e, w)'.entity = e /\ EntityRenderingInput(e, w)'.window = w
<1>1. EntityRenderingInput(e, w)'
      = [entity |-> e, window |-> w, offerings |-> {Slice(o, w)' : o \in Declaring(e, w)'}]
  BY DEF EntityRenderingInput, Slice
<1>2. \A o : Slice(o, w)'.offering = o /\ Slice(o, w)'.reviews = ReviewRows(o.ref, w)'
  BY DEF Slice
<1> QED
  BY <1>1, <1>2 DEF UsedOf

LEMMA EntityScoreKept ==
  ASSUME LedgerInv, LedgerInv', Grows, RowsKept, NEW w, NEW e,
         \A o \in Declaring(e, w)' : Unchanged(o.ref, w)
  PROVE  Unlisted(RenderEntity(EntityRenderingInput(e, w)))'
         = Unlisted(RenderEntity(EntityRenderingInput(e, w)))
<1>1. ASSUME NEW o \in Declaring(e, w)'
      PROVE  ReviewRows(o.ref, w)' = ReviewRows(o.ref, w)
  BY SnapshotKept
<1>2. ASSUME NEW o \in offerings', o \notin offerings PROVE ReviewRows(o.ref, w) = {}
  <2>1. ASSUME NEW v \in reviews, v.offering = o.ref PROVE FALSE
    <3>1. PICK p \in offerings : p.ref = o.ref
      BY <2>1, ReceiptFound DEF OfferingRows
    <3>2. p = o
      BY <3>1 DEF LedgerInv, KeysUnique, Grows
    <3> QED
      BY <1>2, <3>2
  <2>2. Posted(o.ref, w) = {}
    BY <2>1 DEF Posted, AsOf
  <2> QED
    BY <2>2 DEF ReviewRows
<1>3. Declaring(e, w) \subseteq Declaring(e, w)' /\ Declaring(e, w)' \subseteq offerings'
      /\ \A o \in Declaring(e, w)' : o \in offerings => o \in Declaring(e, w)
  BY DEF Declaring, Grows
<1>4. UNION {{<<o, r>> : r \in ReviewRows(o.ref, w)'} : o \in Declaring(e, w)'}
      = UNION {{<<o, r>> : r \in ReviewRows(o.ref, w)} : o \in Declaring(e, w)}
  BY <1>1, <1>2, <1>3
<1>5. UsedOf(EntityRenderingInput(e, w)') = UsedOf(EntityRenderingInput(e, w))
  <2>1. UsedOf(EntityRenderingInput(e, w)')
        = UNION {{<<o, r>> : r \in ReviewRows(o.ref, w)'} : o \in Declaring(e, w)'}
    BY UsedPairsNext
  <2>2. UsedOf(EntityRenderingInput(e, w))
        = UNION {{<<o, r>> : r \in ReviewRows(o.ref, w)} : o \in Declaring(e, w)}
    BY UsedPairs
  <2> QED
    BY <1>4, <2>1, <2>2
<1>6. Unlisted(RenderEntity(EntityRenderingInput(e, w)'))
      = Unlisted(RenderEntity(EntityRenderingInput(e, w)))
  BY <1>5, UsedPairs, UsedPairsNext, EntityRenderedAlike
<1> QED
  BY <1>6

\* What a publication says of its own sample is rendered again.
LEMMA RenderedAgain ==
  ASSUME LedgerInv, LedgerInv', Grows, NEW w,
         NEW pub, pub.subject \in OfferingSubjects \cup EntitySubjects,
         Sample(pub.subject, w)' = Sample(pub.subject, w),
         NEW m \in Renderings(pub.subject, w)
  PROVE  \E n \in Renderings(pub.subject, w)' : OwnSample(pub, n) = OwnSample(pub, m)
<1>1. RowsKept
  BY GrowingKeepsRows
<1>2. CASE pub.subject[1] = "offering"
  <2>1. PICK o \in OfferingRows(pub.subject[2]) : m = RenderOffering(RenderingInput(o, w))
    BY <1>2 DEF Renderings
  <2>2. o \in OfferingRows(pub.subject[2])' /\ o.ref = pub.subject[2]
    BY DEF OfferingRows, Grows
  <2>3. RenderOffering(RenderingInput(o, w))' \in Renderings(pub.subject, w)'
    BY <1>2, <2>2 DEF Renderings
  <2>4. Covers(pub.subject, o.ref)'
    BY <2>2 DEF Covers
  <2>5. Undisclosed(RenderOffering(RenderingInput(o, w))') = Undisclosed(m)
    BY <1>1, <2>1, <2>4, SampleRead, ScoreKept
  <2> QED
    BY <1>2, <2>3, <2>5 DEF OwnSample
<1>3. CASE pub.subject[1] # "offering"
  <2> DEFINE e == pub.subject[2]
  <2>1. m = RenderEntity(EntityRenderingInput(e, w))
    BY <1>3 DEF Renderings
  <2>2. RenderEntity(EntityRenderingInput(e, w))' \in Renderings(pub.subject, w)'
    BY <1>3 DEF Renderings
  <2>3. \A o \in Declaring(e, w)' : Covers(pub.subject, o.ref)'
    BY DEF Declaring, Covers, OfferingRows
  <2>4. \A o \in Declaring(e, w)' : Unchanged(o.ref, w)
    BY <2>3, SampleRead
  <2>5. Unlisted(RenderEntity(EntityRenderingInput(e, w))') = Unlisted(m)
    BY <1>1, <2>1, <2>4, EntityScoreKept
  <2> QED
    BY <1>3, <2>2, <2>5 DEF OwnSample
<1> QED
  BY <1>2, <1>3

\* What a signed score says, disclosures aside, is rendered again from the evidence.
LEMMA SignedAgain ==
  ASSUME LedgerInv, LedgerInv', Grows, NEW w, NEW ref, NEW o \in OfferingRows(ref),
         Sample(<<"offering", ref>>, w)' = Sample(<<"offering", ref>>, w),
         AsOf(corroborations, w)' = AsOf(corroborations, w)
  PROVE  /\ o \in OfferingRows(ref)'
         /\ Undisclosed(RenderOffering(PilotRenderingInput(o, w)))'
            = Undisclosed(RenderOffering(PilotRenderingInput(o, w)))
<1>1. o \in OfferingRows(ref)' /\ o.ref = ref
  BY DEF OfferingRows, Grows
<1>2. Covers(<<"offering", ref>>, ref)'
  BY DEF Covers
<1>3. Unchanged(o.ref, w)
  BY <1>1, <1>2, SampleRead
<1> QED
  BY <1>1, <1>3, GrowingKeepsRows, PilotScoreKept


-----------------------------------------------------------------------------
(* Reviews and the standings they speak for *)

\* A receipt gates one review, so there are no more reviews than receipts.
LEMMA ReviewsFinite == LedgerInv => IsFiniteSet(reviews)
<1> SUFFICES ASSUME LedgerInv PROVE IsFiniteSet(reviews)
  OBVIOUS
<1> DEFINE f == [v \in reviews |-> ReceiptOf(v)]
<1>1. \A v \in reviews : ReceiptOf(v) \in receipts /\ ReceiptOf(v).id = v.receipt
  BY ReceiptFound
<1>2. f \in [reviews -> receipts]
  BY <1>1
<1>3. \A a, b \in reviews : f[a] = f[b] => a = b
  BY <1>1 DEF LedgerInv, OneVoicePerStanding
<1>4. f \in Injection(reviews, receipts)
  BY <1>2, <1>3 DEF Injection, IsInjective
<1>5. IsFiniteSet(receipts)
  BY DEF LedgerInv, TablesFinite
<1> QED
  BY <1>4, <1>5, FS_Injection

VoiceOf(v) == <<ReceiptOf(v).holder, v.offering, v.role>>

\* As many standings as reviews, for any set of reviews.
LEMMA OneVoiceEach ==
  ASSUME LedgerInv, NEW P, P \subseteq reviews
  PROVE  /\ IsFiniteSet(P) /\ IsFiniteSet({VoiceOf(v) : v \in P})
         /\ Cardinality({VoiceOf(v) : v \in P}) = Cardinality(P)
<1> DEFINE T == {VoiceOf(v) : v \in P}
           f == [v \in P |-> VoiceOf(v)]
<1>1. IsFiniteSet(P)
  BY ReviewsFinite, FS_Subset
<1>2. f \in [P -> T] /\ \A t \in T : \E v \in P : f[v] = t
  OBVIOUS
<1>3. ASSUME NEW a \in P, NEW b \in P, f[a] = f[b] PROVE a = b
  <2>1. VoiceOf(a) = VoiceOf(b)
    BY <1>3
  <2>2. /\ ReceiptOf(a).holder = ReceiptOf(b).holder /\ a.offering = b.offering
        /\ a.role = b.role
    BY <2>1 DEF VoiceOf
  <2>3. /\ ReceiptOf(a) \in receipts /\ a.receipt = ReceiptOf(a).id
        /\ ReceiptOf(a).offering = a.offering /\ ReceiptOf(a).role = a.role
        /\ ReceiptOf(b) \in receipts /\ b.receipt = ReceiptOf(b).id
        /\ ReceiptOf(b).offering = b.offering /\ ReceiptOf(b).role = b.role
    BY ReceiptFound
  <2> QED
    BY <2>2, <2>3 DEF LedgerInv, OneVoicePerStanding
<1> HIDE DEF f, T
<1>4. IsFiniteSet(T) /\ Cardinality(T) = Cardinality(P)
  BY <1>1, <1>2, <1>3, Counted
<1> QED
  BY <1>1, <1>4 DEF T

\* The review of a snapshot that a stored review becomes.
InputOf(v, w) == ReviewInput(v, ChainOf(v, StandingRows(v.offering, w)))

\* A snapshot has as many reviews as were posted.
LEMMA OfferingCount ==
  ASSUME LedgerInv, NEW o, NEW w
  PROVE  /\ IsFiniteSet(Posted(o.ref, w)) /\ IsFiniteSet(RenderingInput(o, w).reviews)
         /\ Cardinality(RenderingInput(o, w).reviews) = Cardinality(Posted(o.ref, w))
<1> DEFINE P == Posted(o.ref, w)
           T == RenderingInput(o, w).reviews
           f == [v \in P |-> InputOf(v, w)]
<1>1. P \subseteq reviews /\ \A v \in P : v.offering = o.ref
  BY DEF Posted, AsOf
<1>2. IsFiniteSet(P)
  BY <1>1, ReviewsFinite, FS_Subset
<1>3. T = {InputOf(v, w) : v \in P}
  BY <1>1 DEF RenderingInput, ReviewRows, InputOf
<1>4. f \in [P -> T] /\ \A t \in T : \E v \in P : f[v] = t
  BY <1>3
<1>5. ASSUME NEW a \in P, NEW b \in P, f[a] = f[b] PROVE a = b
  <2>1. InputOf(a, w).id = InputOf(b, w).id
    BY <1>5
  <2>2. a.id = b.id
    BY <2>1 DEF InputOf, ReviewInput
  <2> QED
    BY <1>1, <2>2 DEF LedgerInv, KeysUnique
<1> HIDE DEF f, T, P
<1>6. IsFiniteSet(T) /\ Cardinality(T) = Cardinality(P)
  BY <1>2, <1>4, <1>5, Counted
<1> QED
  BY <1>2, <1>6 DEF T, P

\* The reviews of every offering-version that declares an entity.
EntityReviews(e, w) ==
  {v \in AsOf(reviews, w) : \E o \in OfferingRows(v.offering) : e \in o.components}

LEMMA EntityCount ==
  ASSUME LedgerInv, NEW e, NEW w
  PROVE  /\ IsFiniteSet(UsedOf(EntityRenderingInput(e, w)))
         /\ Cardinality(UsedOf(EntityRenderingInput(e, w))) <= Cardinality(EntityReviews(e, w))
         /\ Cardinality(EntityRecord(e, w)) = Cardinality(EntityReviews(e, w))
<1> DEFINE P == EntityReviews(e, w)
           U == UsedOf(EntityRenderingInput(e, w))
           T == EntityRecord(e, w)
           Row(v) == CHOOSE o \in offerings : o.ref = v.offering
           f == [v \in P |-> <<Row(v), InputOf(v, w)>>]
           g == [v \in P |-> InputOf(v, w)]
<1>1. P \subseteq reviews /\ IsFiniteSet(P)
  BY ReviewsFinite, FS_Subset DEF EntityReviews, AsOf
<1>2. ASSUME NEW o \in Declaring(e, w)
      PROVE  /\ ReviewRows(o.ref, w) = {InputOf(v, w) : v \in Posted(o.ref, w)}
             /\ \A v \in Posted(o.ref, w) : v \in P /\ Row(v) = o
  <2>1. \A v \in Posted(o.ref, w) : v.offering = o.ref /\ v \in AsOf(reviews, w)
    BY DEF Posted, AsOf
  <2>2. ReviewRows(o.ref, w) = {InputOf(v, w) : v \in Posted(o.ref, w)}
    BY <2>1 DEF ReviewRows, InputOf
  <2>3. o \in offerings /\ e \in o.components
    BY DEF Declaring
  <2>4. \A p \in offerings : p.ref = o.ref => p = o
    BY <2>3 DEF LedgerInv, KeysUnique
  <2> QED
    BY <2>1, <2>2, <2>3, <2>4 DEF EntityReviews, OfferingRows
<1>3. ASSUME NEW v \in P
      PROVE  Row(v) \in Declaring(e, w) /\ v \in Posted(Row(v).ref, w)
  <2>1. PICK o \in offerings : o.ref = v.offering /\ e \in o.components
    BY DEF EntityReviews, OfferingRows
  <2>2. Row(v) = o
    BY <2>1 DEF LedgerInv, KeysUnique
  <2> QED
    BY <2>1, <2>2 DEF Declaring, Posted, EntityReviews, AsOf
<1>4. ASSUME NEW v \in P
      PROVE  Row(v) \in Declaring(e, w) /\ InputOf(v, w) \in ReviewRows(Row(v).ref, w)
  <2> HIDE DEF Row
  <2> QED
    BY <1>2, <1>3
<1>5. /\ \A o \in Declaring(e, w) : \A r \in ReviewRows(o.ref, w) : <<o, r>> \in U /\ r \in T
      /\ \A u \in U : \E o \in Declaring(e, w) : \E r \in ReviewRows(o.ref, w) : u = <<o, r>>
      /\ \A t \in T : \E o \in Declaring(e, w) : t \in ReviewRows(o.ref, w)
  BY UsedPairs
<1>6. f \in [P -> U] /\ g \in [P -> T]
  <2> HIDE DEF Row, U, T, P
  <2> QED
    BY <1>4, <1>5
<1>7. /\ \A u \in U : \E v \in P : f[v] = u
      /\ \A t \in T : \E v \in P : g[v] = t
  <2>1. ASSUME NEW u \in U PROVE \E v \in P : f[v] = u
    <3>1. PICK o \in Declaring(e, w) : \E r \in ReviewRows(o.ref, w) : u = <<o, r>>
      BY <1>5
    <3>2. PICK v \in Posted(o.ref, w) : u = <<o, InputOf(v, w)>>
      BY <1>2, <3>1
    <3> QED
      BY <1>2, <3>2
  <2>2. ASSUME NEW t \in T PROVE \E v \in P : g[v] = t
    <3>1. PICK o \in Declaring(e, w) : t \in ReviewRows(o.ref, w)
      BY <1>5
    <3> QED
      BY <1>2, <3>1
  <2> QED
    BY <2>1, <2>2
<1>8. ASSUME NEW a \in P, NEW b \in P, g[a] = g[b] PROVE a = b
  <2>1. InputOf(a, w).id = InputOf(b, w).id
    BY <1>8
  <2>2. a.id = b.id
    BY <2>1 DEF InputOf, ReviewInput
  <2> QED
    BY <1>1, <2>2 DEF LedgerInv, KeysUnique
<1> HIDE DEF f, g, U, T, P
<1>9. IsFiniteSet(U) /\ Cardinality(U) <= Cardinality(P)
  BY <1>1, <1>6, <1>7, Counted
<1>10. Cardinality(T) = Cardinality(P)
  BY <1>1, <1>6, <1>7, <1>8, Counted
<1> QED
  BY <1>9, <1>10 DEF U, T, P

\* What speaks for a subject.
Speaking(subject, w) == {v \in AsOf(reviews, w) : Covers(subject, v.offering)}

LEMMA PublishedAtK ==
  ASSUME LedgerInv, NEW w, NEW subject \in OfferingSubjects \cup EntitySubjects,
         NEW m \in Renderings(subject, w), m.published
  PROVE  Cardinality({VoiceOf(v) : v \in Speaking(subject, w)}) >= K
<1> DEFINE S == Speaking(subject, w)
<1>1. S \subseteq reviews
  BY DEF Speaking, AsOf
<1>2. /\ IsFiniteSet(S) /\ Cardinality(S) \in Nat
      /\ Cardinality({VoiceOf(v) : v \in S}) = Cardinality(S)
  BY <1>1, OneVoiceEach, FS_CardinalityType
<1>3. CASE subject[1] = "offering"
  <2>1. PICK o \in OfferingRows(subject[2]) : m = RenderOffering(RenderingInput(o, w))
    BY <1>3 DEF Renderings
  <2>2. Cardinality(RenderingInput(o, w).reviews) >= K
    BY <2>1 DEF RenderOffering, Publishable
  <2>3. Posted(o.ref, w) \subseteq S
    BY <2>1 DEF Posted, Speaking, Covers, AsOf, OfferingRows
  <2>4. Cardinality(Posted(o.ref, w)) <= Cardinality(S)
    BY <1>2, <2>3, FS_Subset
  <2>5. Cardinality(Posted(o.ref, w)) >= K
    BY <2>2, OfferingCount
  <2>6. Cardinality(Posted(o.ref, w)) \in Nat
    BY OfferingCount, FS_CardinalityType
  <2> QED
    BY <1>2, <2>4, <2>5, <2>6, KAssumption
<1>4. CASE subject[1] # "offering"
  <2> DEFINE e == subject[2]
             n == Cardinality(UsedOf(EntityRenderingInput(e, w)))
             p == Cardinality(EntityReviews(e, w))
  <2>1. m = RenderEntity(EntityRenderingInput(e, w))
    BY <1>4 DEF Renderings
  <2>2. n >= K
    BY <2>1 DEF RenderEntity, UsedOf, Publishable
  <2>3. EntityReviews(e, w) \subseteq S
    BY DEF EntityReviews, Speaking, Covers
  <2>4. p <= Cardinality(S)
    BY <1>2, <2>3, FS_Subset
  <2>5. n <= p
    BY EntityCount
  <2>6. n \in Nat
    BY EntityCount, FS_CardinalityType
  <2>7. p \in Nat
    BY <1>2, <2>3, FS_Subset, FS_CardinalityType
  <2> HIDE DEF n, p
  <2> QED
    BY <1>2, <2>2, <2>4, <2>5, <2>6, <2>7, KAssumption
<1> QED
  BY <1>3, <1>4

\* There are never fewer of them.
VoicesFinite == \A P \in SUBSET reviews : IsFiniteSet({VoiceOf(v) : v \in P})

LEMMA FiniteVoices == LedgerInv => VoicesFinite
BY OneVoiceEach DEF VoicesFinite

LEMMA VoicesGrow ==
  ASSUME Grows, RowsKept, VoicesFinite', NEW w, NEW subject
  PROVE  /\ IsFiniteSet({VoiceOf(v) : v \in Speaking(subject, w)})
         /\ Cardinality({VoiceOf(v) : v \in Speaking(subject, w)})
            <= Cardinality({VoiceOf(v) : v \in Speaking(subject, w)}')
<1>1. Speaking(subject, w) \subseteq reviews /\ Speaking(subject, w)' \subseteq reviews'
  BY DEF Speaking, AsOf
<1>2. Speaking(subject, w) \subseteq Speaking(subject, w)'
  BY DEF Speaking, AsOf, Covers, OfferingRows, Grows
<1>3. \A v \in reviews : VoiceOf(v)' = VoiceOf(v)
  BY DEF VoiceOf, RowsKept
<1>4. {VoiceOf(v) : v \in Speaking(subject, w)} \subseteq {VoiceOf(v) : v \in Speaking(subject, w)}'
  BY <1>1, <1>2, <1>3
<1>5. IsFiniteSet({VoiceOf(v) : v \in Speaking(subject, w)}')
  BY <1>1 DEF VoicesFinite
<1> QED
  BY <1>4, <1>5, FS_Subset

-----------------------------------------------------------------------------
(* The inductive invariant *)

\* A score was rendered from rows that are still there, and signed no later than now.
HistoryKept ==
  /\ now \in Times
  /\ \A pub \in publications :
       LET sample == Sample(pub.subject, pub.manifest.window) IN
         /\ pub.subject \in OfferingSubjects \cup EntitySubjects
         /\ pub.sample.receipts \subseteq sample.receipts
         /\ pub.sample.reviews \subseteq sample.reviews
  /\ \A s \in signed :
       LET sample == Sample(<<"offering", s.ref>>, s.manifest.window) IN
         /\ s.manifest.window \in Times /\ s.at \in Times /\ s.at <= now
         /\ s.sample.receipts \subseteq sample.receipts
         /\ s.sample.reviews \subseteq sample.reviews
         /\ s.agreed \subseteq AsOf(corroborations, s.manifest.window)

PilotInv ==
  /\ HistoryKept
  /\ PublishedScoresRecompute /\ PublishedMeansKStandings /\ SignedScoresRecompute

\* A manifest carries its window.
LEMMA WindowOf ==
  ASSUME NEW w
  PROVE  /\ \A o : RenderOffering(PilotRenderingInput(o, w)).window = w
         /\ \A subject : \A m \in Renderings(subject, w) : m.window = w
<1>1. ASSUME NEW o
      PROVE  /\ RenderOffering(PilotRenderingInput(o, w)).window = w
             /\ RenderOffering(RenderingInput(o, w)).window = w
  <2>1. PilotRenderingInput(o, w).window = w /\ RenderingInput(o, w).window = w
    BY PilotInput DEF RenderingInput
  <2>2. ASSUME NEW input PROVE RenderOffering(input).window = input.window
    BY DEF RenderOffering
  <2> QED
    BY <2>1, <2>2
<1>2. ASSUME NEW e PROVE RenderEntity(EntityRenderingInput(e, w)).window = w
  BY DEF RenderEntity, EntityRenderingInput
<1> QED
  BY <1>1, <1>2 DEF Renderings

\* What is published or signed in a step comes from the ledger as it is.
FreshlyPublished(pub) ==
  /\ UNCHANGED <<vars, corroborations>>
  /\ pub.subject \in OfferingSubjects \cup EntitySubjects
  /\ pub.manifest \in Recomputed(pub)
  /\ pub.sample = Sample(pub.subject, pub.manifest.window)

FreshlySigned(s) ==
  /\ UNCHANGED <<vars, corroborations>>
  /\ s.manifest.window \in Times /\ s.at = now
  /\ s.sample = Sample(<<"offering", s.ref>>, s.manifest.window)
  /\ s.agreed = AsOf(corroborations, s.manifest.window)
  /\ \E o \in OfferingRows(s.ref) :
       s.manifest = RenderOffering(PilotRenderingInput(o, s.manifest.window))

LEMMA FreshManifests ==
  ASSUME [PilotNext]_pilotVars
  PROVE  /\ \A pub \in publications' : pub \in publications \/ FreshlyPublished(pub)
         /\ \A s \in signed' : s \in signed \/ FreshlySigned(s)
<1>1. CASE UNCHANGED <<publications, signed>>
  BY <1>1
<1>2. ASSUME NEW subject \in OfferingSubjects \cup EntitySubjects, NEW window \in Times,
             Publish(subject, window), UNCHANGED <<corroborations, signed>>,
             NEW pub \in publications', pub \notin publications
      PROVE  FreshlyPublished(pub)
  <2>1. PICK m \in Renderings(subject, window) :
          pub = [subject |-> subject, manifest |-> m, sample |-> Sample(subject, window)]
    BY <1>2 DEF Publish
  <2>2. pub.subject = subject /\ pub.manifest = m /\ m.window = window
        /\ pub.sample = Sample(subject, window)
    BY <2>1, WindowOf
  <2> QED
    BY <1>2, <2>2 DEF Publish, FreshlyPublished, Recomputed
<1>3. ASSUME NEW ref \in OfferingRefs, NEW window \in Times, SignScore(ref, window),
             NEW s \in signed', s \notin signed
      PROVE  FreshlySigned(s)
  <2>1. PICK o \in OfferingRows(ref) :
          s = [ref |-> ref, manifest |-> RenderOffering(PilotRenderingInput(o, window)),
               at |-> now, sample |-> Sample(<<"offering", ref>>, window),
               agreed |-> {c \in corroborations : c.at <= window}]
    BY <1>3 DEF SignScore
  <2>2. /\ s.ref = ref /\ s.manifest = RenderOffering(PilotRenderingInput(o, window))
        /\ s.at = now /\ s.sample = Sample(<<"offering", ref>>, window)
        /\ s.agreed = {c \in corroborations : c.at <= window}
    BY <2>1
  <2>3. s.manifest.window = window
    BY <2>2, WindowOf
  <2> QED
    BY <1>3, <2>2, <2>3 DEF SignScore, FreshlySigned, pubVars, AsOf
<1>4. CASE PubNext /\ UNCHANGED <<now, corroborations, signed>>
  BY <1>1, <1>2, <1>4 DEF PubNext, Write
<1>5. CASE \E ref \in OfferingRefs, window \in Times : SignScore(ref, window)
  <2>1. UNCHANGED publications
    BY <1>5 DEF SignScore, pubVars
  <2> QED
    BY <1>3, <1>5, <2>1
<1>6. CASE Tick \/ PilotReview
  BY <1>1, <1>6 DEF Tick, PilotReview, SubmitReviewWithClaim, SubmitReviewWithReceipt, pubVars
<1>7. CASE \E receiptId \in ReceiptIds, source \in Sources, kind \in CorroborationKinds :
             Corroborate(receiptId, source, kind)
  BY <1>1, <1>7 DEF Corroborate, pubVars
<1>8. CASE UNCHANGED pilotVars
  BY <1>1, <1>8 DEF pilotVars, pubVars
<1> QED
  BY <1>4, <1>5, <1>6, <1>7, <1>8 DEF PilotNext

\* Corroborations of a window that has ended are all there.
LEMMA AgreedAgain ==
  ASSUME now \in Times, [PilotNext]_pilotVars, NEW w \in Times, NEW agreed,
         agreed \subseteq AsOf(corroborations, w),
         w < now \/ AsOf(corroborations, w)' = agreed
  PROVE  /\ AsOf(corroborations, w)' = AsOf(corroborations, w)
         /\ w < now \/ AsOf(corroborations, w) = agreed
<1>1. AsOf(corroborations, w) \subseteq AsOf(corroborations, w)'
  BY PilotClock DEF AsOf
<1>2. CASE w < now
  <2>1. \A t \in Times : t \in Int
    BY PilotAssumption
  <2>2. \A c \in corroborations' : c.at <= w => c \in corroborations
    BY <1>2, <2>1, PilotClock
  <2>3. AsOf(corroborations, w)' \subseteq AsOf(corroborations, w)
    BY <2>2 DEF AsOf
  <2> QED
    BY <1>1, <1>2, <2>3
<1>3. CASE AsOf(corroborations, w)' = agreed
  BY <1>1, <1>3
<1> QED
  BY <1>2, <1>3

LEMMA HistoryStep ==
  ASSUME HistoryKept, Grows, [PilotNext]_pilotVars
  PROVE  HistoryKept'
<1>1. /\ now \in Times /\ now' \in Times /\ now <= now'
      /\ corroborations \subseteq corroborations'
      /\ \A t \in Times : t \in Int
  BY PilotClock, PilotAssumption DEF HistoryKept
<1>2. ASSUME NEW pub \in publications'
      PROVE  LET sample == Sample(pub.subject, pub.manifest.window)' IN
               /\ pub.subject \in OfferingSubjects \cup EntitySubjects
               /\ pub.sample.receipts \subseteq sample.receipts
               /\ pub.sample.reviews \subseteq sample.reviews
  <2>1. LET sample == Sample(pub.subject, pub.manifest.window) IN
          /\ pub.subject \in OfferingSubjects \cup EntitySubjects
          /\ pub.sample.receipts \subseteq sample.receipts
          /\ pub.sample.reviews \subseteq sample.reviews
    BY FreshManifests DEF HistoryKept, FreshlyPublished
  <2> QED
    BY <2>1, SamplesGrow
<1>3. ASSUME NEW s \in signed'
      PROVE  LET sample == Sample(<<"offering", s.ref>>, s.manifest.window)' IN
               /\ s.manifest.window \in Times /\ s.at \in Times /\ s.at <= now'
               /\ s.sample.receipts \subseteq sample.receipts
               /\ s.sample.reviews \subseteq sample.reviews
               /\ s.agreed \subseteq AsOf(corroborations, s.manifest.window)'
  <2>1. /\ s.manifest.window \in Times /\ s.at \in Times /\ s.at <= now
        /\ s.agreed \subseteq AsOf(corroborations, s.manifest.window)
        /\ s.sample.receipts \subseteq Sample(<<"offering", s.ref>>, s.manifest.window).receipts
        /\ s.sample.reviews \subseteq Sample(<<"offering", s.ref>>, s.manifest.window).reviews
    <3>1. CASE s \in signed
      BY <3>1 DEF HistoryKept
    <3>2. CASE FreshlySigned(s)
      BY <1>1, <3>2 DEF FreshlySigned
    <3> QED
      BY <3>1, <3>2, FreshManifests
  <2>2. s.at <= now'
    BY <1>1, <2>1
  <2>3. s.agreed \subseteq AsOf(corroborations, s.manifest.window)'
    BY <1>1, <2>1 DEF AsOf
  <2> QED
    BY <2>1, <2>2, <2>3, SamplesGrow
<1> QED
  BY <1>1, <1>2, <1>3 DEF HistoryKept

LEMMA PilotStep ==
  LedgerInv /\ LedgerInv' /\ VoicesFinite' /\ PilotInv /\ [PilotNext]_pilotVars => PilotInv'
<1> SUFFICES ASSUME LedgerInv, LedgerInv', VoicesFinite', PilotInv, [PilotNext]_pilotVars
             PROVE  PilotInv'
  OBVIOUS
<1> USE DEF PilotInv
<1>1. Grows /\ RowsKept /\ now \in Times
  BY PilotGrows, GrowingKeepsRows DEF HistoryKept
<1>2. HistoryKept'
  BY <1>1, HistoryStep
<1>3. PublishedScoresRecompute'
  <2> SUFFICES ASSUME NEW pub \in publications',
                      Sample(pub.subject, pub.manifest.window)' = pub.sample
               PROVE  \E n \in Recomputed(pub)' :
                        OwnSample(pub, n) = OwnSample(pub, pub.manifest)
    BY DEF PublishedScoresRecompute
  <2> DEFINE w == pub.manifest.window
  <2>1. /\ pub.subject \in OfferingSubjects \cup EntitySubjects
        /\ Sample(pub.subject, w) = pub.sample
        /\ \E m \in Recomputed(pub) : OwnSample(pub, m) = OwnSample(pub, pub.manifest)
    <3>1. CASE pub \in publications
      <4>1. /\ pub.subject \in OfferingSubjects \cup EntitySubjects
            /\ pub.sample.receipts \subseteq Sample(pub.subject, w).receipts
            /\ pub.sample.reviews \subseteq Sample(pub.subject, w).reviews
        BY <3>1 DEF HistoryKept
      <4>2. Sample(pub.subject, w) = pub.sample
        BY <1>1, <4>1, SampleAgain
      <4> QED
        BY <3>1, <4>1, <4>2 DEF PublishedScoresRecompute
    <3>2. CASE FreshlyPublished(pub)
      BY <3>2 DEF FreshlyPublished
    <3> QED
      BY <3>1, <3>2, FreshManifests
  <2>2. PICK m \in Recomputed(pub) : OwnSample(pub, m) = OwnSample(pub, pub.manifest)
    BY <2>1
  <2>3. \E n \in Renderings(pub.subject, w)' : OwnSample(pub, n) = OwnSample(pub, m)
    BY <1>1, <2>1, <2>2, RenderedAgain DEF Recomputed
  <2> QED
    BY <2>2, <2>3 DEF Recomputed
<1>4. PublishedMeansKStandings'
  <2> SUFFICES ASSUME NEW pub \in publications', pub.manifest.published
               PROVE  Cardinality({VoiceOf(v) :
                        v \in Speaking(pub.subject, pub.manifest.window)}') >= K
    BY DEF PublishedMeansKStandings, VoiceOf, Speaking
  <2> DEFINE voices == {VoiceOf(v) : v \in Speaking(pub.subject, pub.manifest.window)}
  <2>1. Cardinality(voices) >= K
    <3>1. CASE pub \in publications
      BY <3>1 DEF PublishedMeansKStandings, VoiceOf, Speaking
    <3>2. CASE FreshlyPublished(pub)
      BY <3>2, PublishedAtK DEF FreshlyPublished, Recomputed
    <3> QED
      BY <3>1, <3>2, FreshManifests
  <2>2. IsFiniteSet(voices) /\ Cardinality(voices) <= Cardinality(voices')
    BY <1>1, VoicesGrow
  <2>3. IsFiniteSet(voices')
    <3>1. Speaking(pub.subject, pub.manifest.window)' \subseteq reviews'
      BY DEF Speaking, AsOf
    <3> QED
      BY <3>1 DEF VoicesFinite
  <2>4. Cardinality(voices) \in Nat /\ Cardinality(voices') \in Nat
    BY <2>2, <2>3, FS_CardinalityType
  <2> HIDE DEF voices
  <2>5. Cardinality(voices') >= K
    BY <2>1, <2>2, <2>4, KAssumption
  <2> QED
    BY <2>5 DEF voices
<1>5. SignedScoresRecompute'
  <2> SUFFICES ASSUME NEW s \in signed',
                      Sample(<<"offering", s.ref>>, s.manifest.window)' = s.sample,
                      \/ s.manifest.window < s.at
                      \/ AsOf(corroborations, s.manifest.window)' = s.agreed
               PROVE  \E o \in OfferingRows(s.ref)' :
                        Undisclosed(RenderOffering(PilotRenderingInput(o, s.manifest.window)))'
                        = Undisclosed(s.manifest)
    BY DEF SignedScoresRecompute, Recomputes, RecomputeFromEvidence, RenderingEvidence, AsOf
  <2> DEFINE w == s.manifest.window
             subject == <<"offering", s.ref>>
  <2>1. /\ Sample(subject, w) = s.sample /\ AsOf(corroborations, w)' = AsOf(corroborations, w)
        /\ \E o \in OfferingRows(s.ref) :
             Undisclosed(RenderOffering(PilotRenderingInput(o, w))) = Undisclosed(s.manifest)
    <3>1. CASE s \in signed
      <4>1. /\ w \in Times /\ s.at \in Times /\ s.at <= now
            /\ s.sample.receipts \subseteq Sample(subject, w).receipts
            /\ s.sample.reviews \subseteq Sample(subject, w).reviews
            /\ s.agreed \subseteq AsOf(corroborations, w)
        BY <3>1 DEF HistoryKept
      <4>2. Sample(subject, w) = s.sample
        BY <1>1, <4>1, SampleAgain
      <4>3. w < s.at => w < now
        BY <1>1, <4>1, PilotAssumption
      <4>4. /\ AsOf(corroborations, w)' = AsOf(corroborations, w)
            /\ w < s.at \/ AsOf(corroborations, w) = s.agreed
        BY <1>1, <4>1, <4>3, AgreedAgain
      <4> QED
        BY <3>1, <4>2, <4>4
           DEF SignedScoresRecompute, Recomputes, RecomputeFromEvidence, RenderingEvidence, AsOf
    <3>2. CASE FreshlySigned(s)
      <4>1. AsOf(corroborations, w)' = AsOf(corroborations, w)
        BY <3>2 DEF FreshlySigned, AsOf
      <4> QED
        BY <3>2, <4>1 DEF FreshlySigned
    <3> QED
      BY <3>1, <3>2, FreshManifests
  <2>2. PICK o \in OfferingRows(s.ref) :
          Undisclosed(RenderOffering(PilotRenderingInput(o, w))) = Undisclosed(s.manifest)
    BY <2>1
  <2>3. Sample(subject, w)' = Sample(subject, w)
    BY <2>1
  <2>4. /\ o \in OfferingRows(s.ref)'
        /\ Undisclosed(RenderOffering(PilotRenderingInput(o, w)))'
           = Undisclosed(RenderOffering(PilotRenderingInput(o, w)))
    BY <1>1, <2>1, <2>2, <2>3, SignedAgain
  <2> QED
    BY <2>2, <2>4
<1> QED
  BY <1>2, <1>3, <1>4, <1>5

LEMMA PilotInvariant == PilotSpec => []PilotInv
<1>1. PilotInit => PilotInv
  <2> SUFFICES ASSUME PilotInit PROVE PilotInv
    OBVIOUS
  <2>1. HistoryKept
    BY PilotAssumption DEF PilotInit, PubInit, HistoryKept
  <2>2. PublishedScoresRecompute /\ PublishedMeansKStandings /\ SignedScoresRecompute
    BY DEF PilotInit, PubInit, PublishedScoresRecompute, PublishedMeansKStandings,
           SignedScoresRecompute
  <2> QED
    BY <2>1, <2>2 DEF PilotInv
<1> QED
  BY <1>1, PilotLedger, FiniteVoices, PilotStep, PTL DEF PilotSpec

-----------------------------------------------------------------------------
(* Theorems *)

\* The pilot is a refinement of the ledger: nothing it does beyond the ledger touches a
\* table of the ledger, and what it does to one is a step of Store.
THEOREM PilotKeepsLedger == PilotSpec => Spec
<1>1. PilotInit => Init
  BY DEF PilotInit, PubInit
<1> QED
  BY <1>1, PilotWrites, PilotLedger, PTL DEF PilotSpec, Spec

\* I-5 under the pilot: publishing, signing and corroborating rewrite no row either.
THEOREM PilotNeverRewrites == PilotSpec => AppendOnly
BY PilotKeepsLedger, NeverRewritten, PTL

\* The operator's check over a pilot's database raises no false alarm about its ledger.
THEOREM PilotPassesHealthCheck == PilotSpec => []HealthCheckSilent
BY PilotKeepsLedger, NoFalseAlarm, PTL

\* I-4 for a manifest's own sample: what is published recomputes unchanged, whatever
\* rows, offerings, edits and retirements the ledger adds, in any order and with any
\* dates, unless one of the subject's own rows is dated inside the window.
THEOREM PublishedScores == PilotSpec => []PublishedScoresRecompute
<1>1. PilotInv => PublishedScoresRecompute
  BY DEF PilotInv
<1> QED
  BY <1>1, PilotInvariant, PTL

\* So does a signed score, disclosures aside, from the evidence fetched at any later time;
\* of a window that had ended when it was signed, whatever is corroborated meanwhile.
THEOREM SignedScores == PilotSpec => []SignedScoresRecompute
<1>1. PilotInv => SignedScoresRecompute
  BY DEF PilotInv
<1> QED
  BY <1>1, PilotInvariant, PTL

\* I-7: whoever publishes, at least K standings had posted a review by the window.
THEOREM KStandings == PilotSpec => []PublishedMeansKStandings
<1>1. PilotInv => PublishedMeansKStandings
  BY DEF PilotInv
<1> QED
  BY <1>1, PilotInvariant, PTL

\* An entity's record counts the reviews of the offering-versions that declare it.
RecordsCounted ==
  \A e, w : /\ IsFiniteSet(EntityReviews(e, w))
            /\ Cardinality(EntityRecord(e, w)) = Cardinality(EntityReviews(e, w))

LEMMA RecordCount == LedgerInv => RecordsCounted
<1> SUFFICES ASSUME LedgerInv, NEW e, NEW w
             PROVE  /\ IsFiniteSet(EntityReviews(e, w))
                    /\ Cardinality(EntityRecord(e, w)) = Cardinality(EntityReviews(e, w))
  BY DEF RecordsCounted
<1>1. EntityReviews(e, w) \subseteq reviews
  BY DEF EntityReviews, AsOf
<1> QED
  BY <1>1, EntityCount, ReviewsFinite, FS_Subset

\* T-8: the record an entity's score is rendered from never gets shorter, over any window,
\* relaunched and retired offerings included.
THEOREM EntityHistory == PilotSpec => EntityHistoryKept
<1>1. ASSUME LedgerInv, RecordsCounted, RecordsCounted', [PilotNext]_pilotVars, NEW e, NEW w
      PROVE  Cardinality(EntityRecord(e, w)) <= Cardinality(EntityRecord(e, w)')
  <2>1. EntityReviews(e, w) \subseteq EntityReviews(e, w)'
    BY <1>1, PilotGrows DEF EntityReviews, AsOf, OfferingRows, Grows
  <2>2. Cardinality(EntityReviews(e, w)) <= Cardinality(EntityReviews(e, w)')
    BY <1>1, <2>1, FS_Subset DEF RecordsCounted
  <2> QED
    BY <1>1, <2>2 DEF RecordsCounted
<1>2. LedgerInv /\ RecordsCounted /\ RecordsCounted' /\ [PilotNext]_pilotVars
        => [NoRecordShortened]_vars
  BY <1>1 DEF NoRecordShortened
<1> QED
  BY <1>2, RecordCount, PilotLedger, PTL DEF PilotSpec, EntityHistoryKept

=============================================================================
