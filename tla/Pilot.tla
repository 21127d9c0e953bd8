------------------------------- MODULE Pilot -------------------------------
(***************************************************************************)
(* The pilot's reading side (pilot/runtime.js): reviews handed in with a    *)
(* receipt or a claim, the corroborations that count as co-attestation, the *)
(* signed scores, and the evidence from which anyone recomputes them.       *)
(*                                                                         *)
(* Ingest says when a corroboration is recorded; here it may be recorded of *)
(* any receipt, of either kind, but dated by the clock of the server, which *)
(* no caller chooses.  A score is signed over any window its client names.  *)
(***************************************************************************)
EXTENDS Publication

CONSTANTS
  MaxTime,       \* bound on now
  Sources,       \* source_partner_id values
  MaxManifests,  \* bound on publications and signed together
  MaxLog         \* bound on protocol_events and corroborations together

ASSUME PilotAssumption ==
  /\ MaxTime \in Nat /\ MaxManifests \in Nat /\ MaxLog \in Nat
  /\ Times = 0..MaxTime

VARIABLES
  now,            \* the server's clock
  corroborations, \* rows of pilot_corroborations
  signed          \* the signed scores clients hold and, as history, when each was signed
                  \* and from which sample and corroborations

pilotVars == <<pubVars, now, corroborations, signed>>

CorroborationKinds == {"corroborates", "reversed"}

-----------------------------------------------------------------------------
(* Reviews *)

\* presentedReceiptMatchesLedger: the receipt is the stored one, field for field.
MatchesLedger(presented) == presented \in receipts

\* The reviewer names the date of the review.
SubmitReviewWithReceipt(id, presented, overall, facets, postedAt) ==
  /\ MatchesLedger(presented)
  /\ SubmitReview(id, presented.id, presented.offering, overall, facets, postedAt)
  /\ UNCHANGED <<publications, now, corroborations, signed>>

\* submitReviewWithClaim presents the receipt its claim stands for.
SubmitReviewWithClaim(id, receiptId, overall, facets, postedAt) ==
  \E stored \in {r \in receipts : r.id = receiptId} :
    SubmitReviewWithReceipt(id, stored, overall, facets, postedAt)

-----------------------------------------------------------------------------
(* Scores and evidence *)

\* A Slip... is a wrong form of the definition that follows, as in Ledger.
SlipCorroborated(receiptId, window) ==
  \E c \in corroborations : c.receipt = receiptId /\ c.kind = "corroborates"

\* By the window, some source agreed with the receipt; reversals do not count.
Corroborated(receiptId, window) ==
  \E c \in AsOf(corroborations, window) :
    c.receipt = receiptId /\ c.kind = "corroborates"

ReviewWithId(id) == CHOOSE v \in reviews : v.id = id

\* A corroborated receipt makes its review co-attested.
WithCorroborations(r, window) ==
  [r EXCEPT !.coattested = @ \/ Corroborated(ReviewWithId(r.id).receipt, window)]

PilotRenderingInput(o, window) ==
  LET input == RenderingInput(o, window)
  IN [input EXCEPT !.reviews = {WithCorroborations(r, window) : r \in @}]

\* renderingEvidence: the very input.  A standing's holder is in the snapshot only to
\* tell equal rows apart, which are separate elements of an array in the code.
RenderingEvidence(o, window) == PilotRenderingInput(o, window)

\* recomputeFromEvidence
RecomputeFromEvidence(evidence) == RenderOffering(evidence)

SignScore(ref, window) ==
  /\ Cardinality(publications) + Cardinality(signed) < MaxManifests
  /\ \E o \in OfferingRows(ref) :
       signed' = signed \cup
         {[ref |-> ref, manifest |-> RenderOffering(PilotRenderingInput(o, window)),
           at |-> now, sample |-> Sample(<<"offering", ref>>, window),
           agreed |-> {c \in corroborations : c.at <= window}]}
  /\ UNCHANGED <<pubVars, now, corroborations>>

\* The INSERT of corroborate.
Corroborate(receiptId, source, kind) ==
  /\ \E r \in receipts : r.id = receiptId
  /\ corroborations' = corroborations \cup
       {[receipt |-> receiptId, source |-> source, kind |-> kind, at |-> now]}
  /\ UNCHANGED <<pubVars, now, signed>>

Tick == now < MaxTime /\ now' = now + 1 /\ UNCHANGED <<pubVars, corroborations, signed>>

-----------------------------------------------------------------------------

PilotInit == PubInit /\ now = 0 /\ corroborations = {} /\ signed = {}

PilotReview ==
  \E id \in ReviewIds, overall \in Scores, facets \in FacetMaps(Scores), at \in Times :
    \/ \E presented \in receipts \cup
            {[r EXCEPT !.holder = holder] : r \in receipts, holder \in Holders} :
         SubmitReviewWithReceipt(id, presented, overall, facets, at)
    \/ \E receiptId \in ReceiptIds :
         SubmitReviewWithClaim(id, receiptId, overall, facets, at)

Bounded ==
  /\ Cardinality(publications) + Cardinality(signed) <= MaxManifests
  /\ Len(events) + Cardinality(corroborations) <= MaxLog

PilotNext ==
  /\ \/ PubNext /\ UNCHANGED <<now, corroborations, signed>>
     \/ Tick
     \/ PilotReview
     \/ \E ref \in OfferingRefs, window \in Times : SignScore(ref, window)
     \/ \E receiptId \in ReceiptIds, source \in Sources, kind \in CorroborationKinds :
          Corroborate(receiptId, source, kind)
  /\ Bounded'

PilotSpec == PilotInit /\ [][PilotNext]_pilotVars

-----------------------------------------------------------------------------
(* Properties *)

\* What is signed recomputes, its issuer's disclosures aside, from the evidence fetched
\* now.
Recomputes(s) ==
  \E o \in OfferingRows(s.ref) :
    Undisclosed(RecomputeFromEvidence(RenderingEvidence(o, s.manifest.window)))
    = Undisclosed(s.manifest)

\* A signed score recomputes at any later time, whatever was bought, reviewed, edited,
\* retired and corroborated meanwhile, as long as no receipt or review of the offering
\* was recorded with a date inside the window.  Corroborations, dated by the server,
\* cannot change a window that had ended when the score was signed.
SignedScoresRecompute ==
  \A s \in signed :
    /\ Sample(<<"offering", s.ref>>, s.manifest.window) = s.sample
    /\ \/ s.manifest.window < s.at
       \/ {c \in corroborations : c.at <= s.manifest.window} = s.agreed
    => Recomputes(s)

\* get_score_evidence is "enough to recompute the signed manifest for the same
\* window_end": so a score of a window that had ended when it was signed recomputes.
ClosedWindowsRecompute ==
  \A s \in signed : s.manifest.window < s.at => Recomputes(s)

=============================================================================
