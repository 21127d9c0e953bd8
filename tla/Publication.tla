---------------------------- MODULE Publication ----------------------------
(***************************************************************************)
(* Publishing scores: the snapshot queries of v02/store.js                 *)
(* (renderingInput, entityRenderingInput, issuerIssuanceStats), the        *)
(* publications table, and the recomputation that invariants.js runs over  *)
(* it, on top of the ledger and the renderer.                              *)
(*                                                                         *)
(* A row carries the time its caller names: a purchase is dated by its     *)
(* provider, a review by its reviewer.  So rows dated inside a window may   *)
(* be recorded long after it has ended, and after it was published.        *)
(***************************************************************************)
EXTENDS Ledger, Rendering

CONSTANTS
  MaxPublications \* bound on the size of publications

ASSUME PublicationAssumption == MaxPublications \in Nat

VARIABLE
  publications  \* rows of publications: [subject, manifest], and the sample that was
                \* published, which is history: no step reads it

pubVars == <<vars, publications>>

-----------------------------------------------------------------------------
(* Snapshots *)

\* A Slip... is a wrong form of the definition that follows, as in Ledger.
SlipAsOf(rows, window) == rows

\* The rows a snapshot bounded by window sees.
AsOf(rows, window) == {row \in rows : row.at <= window}

ReceiptOf(review) == CHOOSE rc \in receipts : rc.id = review.receipt

\* GROUP BY holder, role
Standings(seen) ==
  LET group(rc) == {s \in seen : s.holder = rc.holder /\ s.role = rc.role}
  IN {[holder |-> rc.holder, role |-> rc.role,
       maxLevel |-> CHOOSE l \in Levels :
                      /\ \E s \in group(rc) : s.level = l
                      /\ \A s \in group(rc) : s.level <= l,
       coattested |-> \E s \in group(rc) : s.coattested] : rc \in seen}

StandingRows(ref, window) == Standings(AsOf({rc \in receipts : rc.offering = ref}, window))

\* The standing a review was posted from, or none if the window ends before it.
ChainOf(v, standings) ==
  {s \in standings : s.holder = ReceiptOf(v).holder /\ s.role = v.role}

\* A review with the level its standing reached by the window; a standing with no
\* receipt inside the window leaves the level at posting time.
ReviewInput(v, chain) ==
  [id |-> v.id, overall |-> v.overall, facets |-> v.facets, role |-> v.role,
   class |-> v.class,
   chainMaxLevel |-> IF chain = {} THEN v.level
                     ELSE (CHOOSE s \in chain : TRUE).maxLevel,
   coattested |-> \E s \in chain : s.coattested]

\* The reviews of an offering-version posted by the window.
Posted(ref, window) == AsOf({v \in reviews : v.offering = ref}, window)

\* issuerIssuanceStats: over every receipt and refusal there is.
IssuanceStats ==
  LET Holding(issuer, ref, Level(_)) ==
        Cardinality({rc.holder : rc \in {r \in receipts :
          r.issuer = issuer /\ r.offering = ref /\ r.role = "participant"
            /\ Level(r.level)}})
      Refusals(issuer, ref) ==
        Cardinality({i \in 1..Len(events) :
          /\ events[i].type = "attestation_refused"
          /\ events[i].issuer = issuer /\ events[i].offering = ref})
  IN {[issuer |-> rc.issuer, offering |-> rc.offering,
       enrolled |-> Holding(rc.issuer, rc.offering, LAMBDA l : l = 1),
       engaged |-> Holding(rc.issuer, rc.offering, LAMBDA l : l >= 2),
       completed |-> Holding(rc.issuer, rc.offering, LAMBDA l : l >= 3),
       refusals |-> Refusals(rc.issuer, rc.offering)] : rc \in receipts}

\* Each with its standing.
ReviewRows(ref, window) ==
  LET standings == StandingRows(ref, window) IN
    {ReviewInput(v, ChainOf(v, standings)) : v \in Posted(ref, window)}

RenderingInput(o, window) ==
  [offering |-> o, window |-> window, standings |-> StandingRows(o.ref, window),
   reviews |-> ReviewRows(o.ref, window), issuance |-> IssuanceStats]

RetiredBy(ref, window) ==
  \E i \in 1..Len(events) :
    /\ events[i].type = "offering_retired" /\ events[i].offering = ref
    /\ events[i].at <= window

SlipDeclaring(entity, window) ==
  {o \in offerings : entity \in o.components /\ ~RetiredBy(o.ref, window)}

\* Every offering-version that ever declared the entity, retired or not.
Declaring(entity, window) == {o \in offerings : entity \in o.components}

EntityRenderingInput(entity, window) ==
  [entity |-> entity, window |-> window,
   offerings |-> {[offering |-> o, retired |-> RetiredBy(o.ref, window),
                   reviews |-> ReviewRows(o.ref, window)] :
                  o \in Declaring(entity, window)}]

-----------------------------------------------------------------------------
(* Publishing and recomputing *)

OfferingSubjects == {"offering"} \X OfferingRefs
EntitySubjects == {"entity"} \X Entities

\* What rendering a subject over a window gives: publish stores it, and the I-4
\* check renders again.  An undeclared offering has no rendering.
Renderings(subject, window) ==
  IF subject[1] = "offering"
  THEN {RenderOffering(RenderingInput(o, window)) : o \in OfferingRows(subject[2])}
  ELSE {RenderEntity(EntityRenderingInput(subject[2], window))}

\* The offering-versions a score of the subject is about.
Covers(subject, ref) ==
  subject[2] = ref \/ \E o \in OfferingRows(ref) : subject[2] \in o.components

\* The rows of the subject's offerings dated by the window, whenever recorded.
Sample(subject, window) ==
  [receipts |-> {rc \in receipts : Covers(subject, rc.offering) /\ rc.at <= window},
   reviews |-> {v \in reviews : Covers(subject, v.offering) /\ v.at <= window}]

Publish(subject, window) ==
  /\ Cardinality(publications) < MaxPublications
  /\ \E manifest \in Renderings(subject, window) :
       publications' = publications \cup
         {[subject |-> subject, manifest |-> manifest, sample |-> Sample(subject, window)]}
  /\ UNCHANGED vars

\* A step of the store, its rows dated as the caller says.
Write == Next /\ UNCHANGED publications

PubInit == Init /\ publications = {}

PubNext ==
  \/ Write
  \/ \E subject \in OfferingSubjects \cup EntitySubjects, window \in Times :
       Publish(subject, window)

PubSpec == PubInit /\ [][PubNext]_pubVars

-----------------------------------------------------------------------------
(* Properties *)

Recomputed(pub) == Renderings(pub.subject, pub.manifest.window)

\* What a manifest says of its own sample: for an offering all but the disclosure of
\* its issuer, for an entity all but the list of offerings.
Undisclosed(manifest) == [manifest EXCEPT !.disclosures = NoValue]
Unlisted(manifest) == [manifest EXCEPT !.offerings = {}]

OwnSample(pub, manifest) ==
  IF pub.subject[1] = "offering" THEN Undisclosed(manifest) ELSE Unlisted(manifest)

\* I-4, as far as the code keeps it: nothing but a row of the subject's own offerings,
\* dated inside the window, can change what is recomputed of its own sample.  Rows dated
\* later, edits, retirements, relaunches, other offerings and refusals cannot.
PublishedScoresRecompute ==
  \A pub \in publications :
    Sample(pub.subject, pub.manifest.window) = pub.sample =>
      \E m \in Recomputed(pub) : OwnSample(pub, m) = OwnSample(pub, pub.manifest)

\* I-7: a manifest is published only when at least K standings had posted a review by
\* its window: no holder fills the quota with reviews of one and the same standing.
PublishedMeansKStandings ==
  \A pub \in publications : pub.manifest.published =>
    Cardinality({<<ReceiptOf(v).holder, v.offering, v.role>> :
      v \in {v \in AsOf(reviews, pub.manifest.window) : Covers(pub.subject, v.offering)}})
    >= K

\* The reviews an entity's score is rendered from.
EntityRecord(entity, window) ==
  UNION {o.reviews : o \in EntityRenderingInput(entity, window).offerings}

NoRecordShortened ==
  \A e \in Entities, window \in Times :
    Cardinality(EntityRecord(e, window)) <= Cardinality(EntityRecord(e, window)')

\* T-8: whatever is done to offerings, relaunching and retiring them included, the
\* record an entity's score is rendered from never gets shorter.
EntityHistoryKept == [][NoRecordShortened]_vars

\* I-4, "bounded by an explicit window end so any published score recomputes
\* byte-identical later": of the offerings' manifests, all of it, while nothing dated
\* inside the window is recorded.
OfferingScoresRecompute ==
  \A pub \in publications :
    /\ pub.subject \in OfferingSubjects
    /\ Sample(pub.subject, pub.manifest.window) = pub.sample
    => pub.manifest \in Recomputed(pub)

=============================================================================
