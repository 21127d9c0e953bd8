------------------------------- MODULE Ledger -------------------------------
(***************************************************************************)
(* The as/0.2a ledger: the append-only SQLite store of v02/store.js and    *)
(* the standing rules of v02/receipts.js.                                  *)
(*                                                                         *)
(* One variable per table of SCHEMA, each a set of rows (protocol_events,  *)
(* whose key is an AUTOINCREMENT seq, is a sequence).  One action per      *)
(* method of Store that writes.  node:sqlite is synchronous and            *)
(* recordTransaction wraps its two INSERTs in BEGIN/COMMIT, so a method is *)
(* one atomic step; a guard that is false stands for the exception the     *)
(* method throws before it has written anything.                           *)
(*                                                                         *)
(* Abstracted: signatures (every stored receipt was signed by the key it   *)
(* names), env, texts and reasons; the kind of a component (only the       *)
(* entity it names is kept).  Ids are members of finite sets: a uuidv7 is  *)
(* any id not used so far, so the size of the id sets bounds the history.  *)
(***************************************************************************)
EXTENDS Integers, Sequences, FiniteSets

CONSTANTS
  Issuers,      \* issuer public keys
  Holders,      \* holder bindings
  Entities,     \* component entities an offering can declare
  OfferingRefs, \* "<offering_id>@<version>"
  Prices,       \* price_cents values a caller may pass, legal or not
  LevelInputs,  \* attestation levels a caller may ask for, legal or not
  Scores,       \* scores a caller may pass, legal or not
  Coattests,    \* whether a co-attester signs too: a subset of BOOLEAN
  Times,        \* caller-supplied instants (occurred_at, posted_at, logged_at)
  TxIds,        \* primary keys of transactions
  ReceiptIds,   \* receipt uuids
  ReviewIds,    \* review uuids
  NoReceipt,    \* the null of receipts.prev
  NoScore,      \* an edit that leaves the overall score out
  MaxEvents     \* bound on the length of protocol_events

ASSUME LedgerAssumption ==
  /\ Prices \subseteq Int
  /\ LevelInputs \subseteq Int
  /\ Scores \subseteq Int
  /\ Coattests \subseteq BOOLEAN
  /\ Times \subseteq Int
  /\ NoReceipt \notin ReceiptIds
  /\ NoScore \notin Scores
  /\ MaxEvents \in Nat

VARIABLES
  offerings,    \* rows of offerings
  transactions, \* rows of transactions
  receipts,     \* rows of receipts
  reviews,      \* rows of reviews
  events        \* protocol_events in seq order

vars == <<offerings, transactions, receipts, reviews, events>>

-----------------------------------------------------------------------------
(* Row types *)

Roles == {"participant", "payer"}
Levels == 1..4
PayerMaxLevel == 1
ReviewClasses == {"verified_participant", "verified_purchaser"}

\* What a caller may put in a role argument; the code must refuse the rest.
RoleInputs == Roles \cup {"observer"}

OfferingRow ==
  [ref : OfferingRefs, issuer : Issuers, components : (SUBSET Entities) \ {{}},
   price : Nat, at : Times]

TransactionRow ==
  [id : TxIds, issuer : Issuers, offering : OfferingRefs, at : Times]

ReceiptRow ==
  [id : ReceiptIds, issuer : Issuers, holder : Holders, role : Roles,
   offering : OfferingRefs, level : Levels, prev : ReceiptIds \cup {NoReceipt},
   coattested : BOOLEAN, at : Times]

\* facets: the score given to each entity the reviewer names.
FacetMaps(S) == UNION {[D -> S] : D \in SUBSET Entities}

ReviewRow ==
  [id : ReviewIds, receipt : ReceiptIds, offering : OfferingRefs, overall : 1..5,
   facets : FacetMaps(1..5), role : Roles, level : Levels,
   class : ReviewClasses, at : Times]

\* Who disputes which level is payload nothing reads again.
EventRow ==
       [type : {"offering_retired"}, offering : OfferingRefs, at : Times]
  \cup [type : {"attestation_requested"}, offering : OfferingRefs, at : Times]
  \cup [type : {"attestation_refused"}, issuer : Issuers, offering : OfferingRefs,
        at : Times]
  \cup [type : {"review_edited"}, review : ReviewIds,
        overall : 1..5 \cup {NoScore}, at : Times]

-----------------------------------------------------------------------------
(* Queries *)

\* Definitions named Slip... are wrong forms a plausible bug would give to the
\* definition that follows; no action uses them.  The properties at the end of
\* the module are also tried against the module with a slip in place.

\* The rows #offeringRow finds for a reference (at most one: the primary key).
OfferingRows(ref) == {o \in offerings : o.ref = ref}

SlipDeclaredIssuer(o, issuer) == issuer \in Issuers

\* #assertDeclaredIssuer on the row of an offering-version.
DeclaredIssuer(o, issuer) == o.issuer = issuer

\* #chainState: every receipt of one (holder, offering-version, role) standing.
Standing(holder, ref, role) ==
  {r \in receipts : r.holder = holder /\ r.offering = ref /\ r.role = role}

\* ORDER BY level, last row: among equal levels the engine may return any.
Latest(chain) == {r \in chain : \A s \in chain : s.level <= r.level}

PrevOf(chain) == IF chain = {} THEN {NoReceipt} ELSE {r.id : r \in Latest(chain)}

SlipAscensionAllowed(role, level, chain) ==
  /\ role = "payer" => level <= PayerMaxLevel
  /\ \A r \in chain : level >= r.level

\* ascensionError returns null.
AscensionAllowed(role, level, chain) ==
  /\ role = "payer" => level <= PayerMaxLevel
  /\ \A r \in chain : level > r.level

SlipAttestableLevel(level) == level \in Levels

AttestableLevel(level) == level \in 2..4

SlipValidScore(s) == s \in 0..5

ValidScore(s) == s \in 1..5

SlipFacetsAllowed(role, facets, o) ==
  /\ DOMAIN facets \subseteq o.components
  /\ \A e \in DOMAIN facets : ValidScore(facets[e])

\* The facet checks of submitReview.
FacetsAllowed(role, facets, o) ==
  /\ role = "payer" => DOMAIN facets = {}
  /\ DOMAIN facets \subseteq o.components
  /\ \A e \in DOMAIN facets : ValidScore(facets[e])

SlipBindsTo(receipt, ref) == OfferingRows(ref) # {}

\* AT-12: a receipt gates reviews of exactly its own offering-version.
BindsTo(receipt, ref) == ref = receipt.offering

SlipReviewed(receipt) == \E v \in reviews : v.receipt = receipt.id

\* The JOIN that finds an earlier review of the same standing.
Reviewed(receipt) ==
  \E v \in reviews, rc \in Standing(receipt.holder, receipt.offering, receipt.role) :
    v.receipt = rc.id

SlipReviewClass(o) == IF o.price >= 0 THEN "verified_purchaser" ELSE "verified_participant"

ReviewClass(o) == IF o.price = 0 THEN "verified_participant" ELSE "verified_purchaser"

FreshReceipt(id) == \A r \in receipts : r.id # id

\* #logEvent: the next seq is one past the largest.
LogEvent(e) ==
  /\ Len(events) < MaxEvents
  /\ events' = Append(events, e)

-----------------------------------------------------------------------------
(* Catalog *)

DeclareOffering(ref, issuer, components, price, at) ==
  /\ price >= 0
  /\ components # {}
  /\ OfferingRows(ref) = {}
  /\ offerings' = offerings \cup
       {[ref |-> ref, issuer |-> issuer, components |-> components,
         price |-> price, at |-> at]}
  /\ UNCHANGED <<transactions, receipts, reviews, events>>

RetireOffering(ref, at) ==
  /\ OfferingRows(ref) # {}
  /\ LogEvent([type |-> "offering_retired", offering |-> ref, at |-> at])
  /\ UNCHANGED <<offerings, transactions, receipts, reviews>>

-----------------------------------------------------------------------------
(* Issuance *)

\* The transaction and its L1 receipt commit together; a used tx_id rolls both back.
RecordTransaction(issuer, holder, role, ref, txId, id, coattested, at) ==
  /\ \E o \in OfferingRows(ref) : DeclaredIssuer(o, issuer) /\ o.price # 0
  /\ role \in Roles
  /\ \A t \in transactions : t.id # txId
  /\ FreshReceipt(id)
  /\ transactions' = transactions \cup
       {[id |-> txId, issuer |-> issuer, offering |-> ref, at |-> at]}
  /\ receipts' = receipts \cup
       {[id |-> id, issuer |-> issuer, holder |-> holder, role |-> role,
         offering |-> ref, level |-> 1, prev |-> NoReceipt,
         coattested |-> coattested, at |-> at]}
  /\ UNCHANGED <<offerings, reviews, events>>

IssueAttestation(issuer, holder, role, ref, level, id, coattested, at) ==
  LET chain == Standing(holder, ref, role) IN
  /\ \E o \in OfferingRows(ref) : DeclaredIssuer(o, issuer)
  /\ AttestableLevel(level)
  /\ AscensionAllowed(role, level, chain)
  /\ role \in Roles
  /\ FreshReceipt(id)
  /\ \E prev \in PrevOf(chain) :
       receipts' = receipts \cup
         {[id |-> id, issuer |-> issuer, holder |-> holder, role |-> role,
           offering |-> ref, level |-> level, prev |-> prev,
           coattested |-> coattested, at |-> at]}
  /\ UNCHANGED <<offerings, transactions, reviews, events>>

\* Neither the offering nor the level a holder asks for is checked.
RequestAttestation(ref, at) ==
  /\ LogEvent([type |-> "attestation_requested", offering |-> ref, at |-> at])
  /\ UNCHANGED <<offerings, transactions, receipts, reviews>>

\* The offering must exist; the refusing issuer need not be its declared issuer.
RefuseAttestation(issuer, ref, at) ==
  /\ OfferingRows(ref) # {}
  /\ LogEvent([type |-> "attestation_refused", issuer |-> issuer, offering |-> ref,
               at |-> at])
  /\ UNCHANGED <<offerings, transactions, receipts, reviews>>

-----------------------------------------------------------------------------
(* Reviews *)

SubmitReview(id, receiptId, ref, overall, facets, at) ==
  /\ \A v \in reviews : v.id # id
  /\ \E rc \in receipts, o \in OfferingRows(ref) :
       /\ rc.id = receiptId
       /\ BindsTo(rc, ref)
       /\ DeclaredIssuer(o, rc.issuer)
       /\ ValidScore(overall)
       /\ FacetsAllowed(rc.role, facets, o)
       /\ ~Reviewed(rc)
       /\ reviews' = reviews \cup
            {[id |-> id, receipt |-> receiptId, offering |-> ref,
              overall |-> overall, facets |-> facets, role |-> rc.role,
              level |-> rc.level, class |-> ReviewClass(o), at |-> at]}
  /\ UNCHANGED <<offerings, transactions, receipts, events>>

SlipAppendReviewEdit(id, overall, at) ==
  /\ overall \in Scores /\ ValidScore(overall)
  /\ \E v \in reviews :
       /\ v.id = id
       /\ reviews' = (reviews \ {v}) \cup {[v EXCEPT !.overall = overall, !.at = at]}
  /\ LogEvent([type |-> "review_edited", review |-> id, overall |-> overall, at |-> at])
  /\ UNCHANGED <<offerings, transactions, receipts>>

\* An edit is an event; the stored review is untouched.
AppendReviewEdit(id, overall, at) ==
  /\ \E v \in reviews : v.id = id
  /\ overall = NoScore \/ ValidScore(overall)
  /\ LogEvent([type |-> "review_edited", review |-> id, overall |-> overall, at |-> at])
  /\ UNCHANGED <<offerings, transactions, receipts, reviews>>

-----------------------------------------------------------------------------

Init ==
  /\ offerings = {}
  /\ transactions = {}
  /\ receipts = {}
  /\ reviews = {}
  /\ events = <<>>

CatalogStep ==
  \E ref \in OfferingRefs, at \in Times :
    \/ \E issuer \in Issuers, components \in SUBSET Entities, price \in Prices :
         DeclareOffering(ref, issuer, components, price, at)
    \/ RetireOffering(ref, at)

IssuanceStep ==
  \E issuer \in Issuers, holder \in Holders, role \in RoleInputs,
     ref \in OfferingRefs, id \in ReceiptIds, coattested \in Coattests, at \in Times :
    \/ \E txId \in TxIds :
         RecordTransaction(issuer, holder, role, ref, txId, id, coattested, at)
    \/ \E level \in LevelInputs :
         IssueAttestation(issuer, holder, role, ref, level, id, coattested, at)

DisputeStep ==
  \E ref \in OfferingRefs, at \in Times :
    \/ RequestAttestation(ref, at)
    \/ \E issuer \in Issuers : RefuseAttestation(issuer, ref, at)

ReviewStep ==
  \E id \in ReviewIds, at \in Times :
    \/ \E receiptId \in ReceiptIds, ref \in OfferingRefs, overall \in Scores,
          facets \in FacetMaps(Scores) :
         SubmitReview(id, receiptId, ref, overall, facets, at)
    \/ \E overall \in Scores \cup {NoScore} : AppendReviewEdit(id, overall, at)

Next == CatalogStep \/ IssuanceStep \/ DisputeStep \/ ReviewStep

Spec == Init /\ [][Next]_vars

-----------------------------------------------------------------------------
(* Properties *)

\* Every table holds well-formed rows only: no level, role, score or facet a
\* caller made up survives validation, and protocol_events never outgrows its bound.
TypeOK ==
  /\ offerings \subseteq OfferingRow
  /\ transactions \subseteq TransactionRow
  /\ receipts \subseteq ReceiptRow
  /\ reviews \subseteq ReviewRow
  /\ events \in Seq(EventRow)
  /\ Len(events) <= MaxEvents

\* The primary keys of the five tables.
KeysUnique ==
  /\ \A o, p \in offerings : o.ref = p.ref => o = p
  /\ \A t, u \in transactions : t.id = u.id => t = u
  /\ \A r, s \in receipts : r.id = s.id => r = s
  /\ \A v, w \in reviews : v.id = w.id => v = w

\* I-1: a review resolves to a receipt for the very offering-version it rates,
\* carrying that receipt's role and level, and a receipt or a transaction to a
\* declared offering-version.
NoOrphans ==
  /\ \A r \in receipts \cup transactions : OfferingRows(r.offering) # {}
  /\ \A v \in reviews : \E r \in receipts :
       /\ r.id = v.receipt
       /\ r.offering = v.offering
       /\ r.role = v.role
       /\ r.level = v.level

L1Receipts(issuer, ref) ==
  {r \in receipts : r.level = 1 /\ r.issuer = issuer /\ r.offering = ref}

TransactionsOf(issuer, ref) ==
  {t \in transactions : t.issuer = issuer /\ t.offering = ref}

\* I-2: per issuer and offering the L1 receipts and the transactions balance, so
\* no purchase goes without its receipt and no L1 exists without a purchase.
Reconciles ==
  \A issuer \in Issuers, ref \in OfferingRefs :
    Cardinality(L1Receipts(issuer, ref)) = Cardinality(TransactionsOf(issuer, ref))

\* I-3: a receipt that names a predecessor chains to a receipt of its own
\* (holder, offering-version, role) standing, and stands strictly above it.
ChainsAscend ==
  \A r \in receipts : r.prev # NoReceipt =>
    \E p \in receipts :
      /\ p.id = r.prev
      /\ p.holder = r.holder /\ p.offering = r.offering /\ p.role = r.role
      /\ p.level < r.level

\* Chains never fork: no receipt is the predecessor of two, and a standing is
\* attested at most once at each level from L2 up, whatever the interleaving of
\* purchases and attestations.
ChainsLinear ==
  \A r, s \in receipts :
    /\ r.prev = s.prev /\ r.prev # NoReceipt => r = s
    /\ (/\ r.holder = s.holder /\ r.offering = s.offering /\ r.role = s.role
        /\ r.level = s.level /\ r.level >= 2) => r = s

\* Issuer binding (D-12): only the provider of record signs receipts and
\* transactions of an offering-version, so no stranger's receipt gates a review of it.
IssuerBinding ==
  \A r \in receipts \cup transactions : \A o \in OfferingRows(r.offering) :
    r.issuer = o.issuer

\* A standing has one voice: however many receipts it accumulates, at most one
\* review hangs off them.
OneVoicePerStanding ==
  \A v, w \in reviews : \A r, s \in receipts :
    (/\ v.receipt = r.id /\ w.receipt = s.id
     /\ r.holder = s.holder /\ r.offering = s.offering /\ r.role = s.role) => v = w

\* F1 and I-6: payers hold L1 only and rate no component; a facet is scored only
\* against a component its offering-version declares.
RolesRespected ==
  /\ \A r \in receipts : r.role = "payer" => r.level = 1
  /\ \A v \in reviews : \A o \in OfferingRows(v.offering) :
       /\ v.role = "payer" => DOMAIN v.facets = {}
       /\ DOMAIN v.facets \subseteq o.components

\* I-5: no operation, an edit, a refund or a retirement least of all, changes or
\* removes a row of any table; history only grows.
AppendOnly ==
  [][/\ offerings \subseteq offerings'
     /\ transactions \subseteq transactions'
     /\ receipts \subseteq receipts'
     /\ reviews \subseteq reviews'
     /\ Len(events) <= Len(events')
     /\ \A i \in 1..Len(events) : events'[i] = events[i]]_vars

\* F2: no value moved, no L1: a free offering has neither transactions nor L1
\* receipts, and its reviews never wear the purchaser class.
FreeMeansNoPurchase ==
  \A o \in offerings : o.price = 0 =>
    /\ \A t \in transactions : t.offering # o.ref
    /\ \A r \in receipts : r.offering = o.ref => r.level >= 2
    /\ \A v \in reviews : v.offering = o.ref => v.class = "verified_participant"

\* Rows enter a table one at a time.
TablesFinite == IsFiniteSet(transactions) /\ IsFiniteSet(receipts)

\* The inductive invariant: each of the parts above needs some of the others to
\* survive a step (unique keys and orphan-freedom above all).
LedgerInv ==
  /\ TypeOK /\ KeysUnique /\ TablesFinite
  /\ NoOrphans /\ Reconciles
  /\ ChainsAscend /\ ChainsLinear
  /\ IssuerBinding /\ OneVoicePerStanding
  /\ RolesRespected /\ FreeMeansNoPurchase

=============================================================================
