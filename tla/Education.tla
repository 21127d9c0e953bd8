----------------------------- MODULE Education -----------------------------
(***************************************************************************)
(* The education issuer's adapter (examples/education/adapter.js): course   *)
(* events routed to the methods of one store.                               *)
(*                                                                         *)
(* Events are redelivered and reordered at will: any event may be handled   *)
(* at any time, any number of times.  The store outlives the adapter, whose *)
(* routing table is in memory: a restart empties it.  Other issuers declare *)
(* offerings in the same store.                                             *)
(*                                                                         *)
(* Abstracted: a learner is the holder binding derived from its reference   *)
(* (the derivation is injective per issuer), amounts and native ids.        *)
(***************************************************************************)
EXTENDS Ledger

CONSTANTS
  Provider,     \* the adapter's issuer
  Catalog,      \* the specs to declare, in order: [ref, components, price, threshold]
  Percentages,  \* progress_pct values a platform may report
  NotANumber    \* a progress_pct that is missing or no number

CatalogSpec ==
  [ref : OfferingRefs, components : SUBSET Entities, price : Prices, threshold : Int]

ASSUME EducationAssumption ==
  /\ Provider \in Issuers
  /\ Catalog \in Seq(CatalogSpec)
  /\ Percentages \subseteq Int
  /\ NotANumber \notin Percentages

VARIABLES
  routes,       \* the adapter's offerings: specs by reference
  acknowledged, \* history: events answered with anything but "refused"
  swallowed     \* history: those of them that only ever met a failing write

eduVars == <<vars, routes, acknowledged, swallowed>>

\* A payment may name a role of its own; the store refuses an unknown one.
Payments == [type : {"payment"}, holder : Holders, ref : OfferingRefs, role : RoleInputs]
Enrollments == [type : {"enrollment"}, holder : Holders, ref : OfferingRefs]
ProgressReports == [type : {"progress"}, holder : Holders, ref : OfferingRefs,
                    pct : Percentages \cup {NotANumber}]
Completions == [type : {"completion"}, holder : Holders, ref : OfferingRefs]

-----------------------------------------------------------------------------

\* A Slip... is a wrong form of the definition that follows, as in Ledger.
SlipDeclarable(spec) == spec.price >= 0 /\ spec.components # {}

\* declareOffering accepts a spec over the rows stored so far.
Declarable(spec) ==
  spec.price >= 0 /\ spec.components # {} /\ OfferingRows(spec.ref) = {}

\* No earlier spec of the catalog names the reference of the i-th.
NamedFirst(i) == \A j \in 1..(i - 1) : Catalog[j].ref # Catalog[i].ref

\* The first n specs are declared, and the next, if there is one, throws: a reference is
\* declared once.
DeclaresPrefix(n) ==
  /\ \A i \in 1..n : Declarable(Catalog[i]) /\ NamedFirst(i)
  /\ n < Len(Catalog) => ~Declarable(Catalog[n + 1]) \/ ~NamedFirst(n + 1)

\* The row of offerings a spec becomes.
DeclaredRow(spec, at) ==
  [ref |-> spec.ref, issuer |-> Provider, components |-> spec.components,
   price |-> spec.price, at |-> at]

\* An exception leaves the specs before it declared and routed, the rest neither.
RegisterOfferings(at) ==
  /\ \E n \in 0..Len(Catalog) :
       LET added == {Catalog[i] : i \in 1..n} IN
       /\ DeclaresPrefix(n)
       /\ offerings' = offerings \cup {DeclaredRow(spec, at) : spec \in added}
       /\ routes' = routes \cup added
  /\ UNCHANGED <<transactions, receipts, reviews, events, acknowledged, swallowed>>

\* The spec an event is routed by, if any: #offering throws without one.
Route(event) == {spec \in routes : spec.ref = event.ref}

\* The event is answered as the rules decide.
Acknowledge(event) ==
  /\ acknowledged' = acknowledged \cup {event}
  /\ swallowed' = swallowed \ {event}
  /\ UNCHANGED routes

\* The event is answered with a no-op like any other, although nothing was decided.
Swallow(event) ==
  /\ acknowledged' = acknowledged \cup {event}
  /\ swallowed' = swallowed \cup ({event} \ acknowledged)
  /\ UNCHANGED routes

\* The store is not called.
Noop(event) == Acknowledge(event) /\ UNCHANGED vars

\* #transacted: a free offering moves no value; a purchase mints L1, every time.
Transacted(event, role, at) ==
  \E spec \in Route(event) :
    \/ spec.price = 0 /\ Noop(event)
    \/ /\ spec.price # 0
       /\ \E txId \in TxIds, id \in ReceiptIds :
            RecordTransaction(Provider, event.holder, role, event.ref, txId, id, FALSE, at)
       /\ Acknowledge(event)

\* #attest: whatever the store throws is answered with a no-op, be it that the learner
\* stands there already or that the write failed (the file is locked, the disk full).
Attest(event, level, at) ==
  /\ Route(event) # {}
  /\ \/ /\ \E id \in ReceiptIds :
             IssueAttestation(Provider, event.holder, "participant", event.ref, level,
                              id, FALSE, at)
        /\ Acknowledge(event)
     \/ /\ ~(/\ \E o \in OfferingRows(event.ref) : DeclaredIssuer(o, Provider)
             /\ AscensionAllowed("participant", level,
                                 Standing(event.holder, event.ref, "participant")))
        /\ Acknowledge(event)
        /\ UNCHANGED vars
     \/ Swallow(event) /\ UNCHANGED vars

Reaches(event, spec) == event.pct # NotANumber /\ event.pct >= spec.threshold

Pay(event, at) == Transacted(event, event.role, at)

Enroll(event, at) == Transacted(event, "participant", at)

ReportProgress(event, at) ==
  \E spec \in Route(event) :
    \/ Reaches(event, spec) /\ Attest(event, 2, at)
    \/ ~Reaches(event, spec) /\ Noop(event)

SlipComplete(event, at) ==
  IF Standing(event.holder, event.ref, "participant") = {}
  THEN Route(event) # {} /\ Noop(event)
  ELSE Attest(event, 3, at)

Complete(event, at) == Attest(event, 3, at)

\* The adapter's process ends and another takes over.
Restart == routes # {} /\ routes' = {} /\ UNCHANGED <<vars, acknowledged, swallowed>>

-----------------------------------------------------------------------------

EduInit == Init /\ routes = {} /\ acknowledged = {} /\ swallowed = {}

EduNext ==
  \/ Restart
  \/ \E at \in Times :
       \/ RegisterOfferings(at)
       \/ \E event \in Payments : Pay(event, at)
       \/ \E event \in Enrollments : Enroll(event, at)
       \/ \E event \in ProgressReports : ReportProgress(event, at)
       \/ \E event \in Completions : Complete(event, at)
       \/ \E issuer \in Issuers \ {Provider}, spec \in {Catalog[i] : i \in DOMAIN Catalog} :
            /\ DeclareOffering(spec.ref, issuer, spec.components, spec.price, at)
            /\ UNCHANGED <<routes, acknowledged, swallowed>>

EduSpec == EduInit /\ [][EduNext]_eduVars

-----------------------------------------------------------------------------
(* Properties *)

\* What the catalog says of a reference: the first spec that names it, as no registration
\* gets past a second.
SpecsOf(ref) ==
  {Catalog[i] : i \in {i \in DOMAIN Catalog : Catalog[i].ref = ref /\ NamedFirst(i)}}

\* What an event earns the learner in a role: a purchase L1, where money moved.
Earns(event, role, level) ==
  LET participates == role = "participant" IN
  \/ /\ level = 1
     /\ \A spec \in SpecsOf(event.ref) : spec.price # 0
     /\ \/ event.type = "payment" /\ event.role = role
        \/ event.type = "enrollment" /\ participates
  \/ /\ level = 2 /\ event.type = "progress" /\ participates
     /\ \A spec \in SpecsOf(event.ref) : Reaches(event, spec)
  \/ level = 3 /\ event.type = "completion" /\ participates

\* The events a failing write did not keep from the store.
Heeded == acknowledged \ swallowed

Earned(holder, ref, role) ==
  {level \in Levels : \E e \in Heeded :
     e.holder = holder /\ e.ref = ref /\ Earns(e, role, level)}

\* However events are replayed and reordered, a learner ends where the events lead:
\* no level is held that no event earned, and no earned level is missed, except those of
\* events a failing write swallowed and the platform has not sent again.
StandingsFollowEvents ==
  \A holder \in Holders, ref \in OfferingRefs, role \in Roles :
    LET held == {r.level : r \in Standing(holder, ref, role)} IN
    /\ held \subseteq Earned(holder, ref, role)
    /\ \A level \in Earned(holder, ref, role) : \E reached \in held : reached >= level

\* A registration cut short by an exception, or met by offerings other issuers or an
\* earlier run declared, never routes events to an offering that is not the provider's
\* own, as the catalog prices it.
RoutesMatchStore ==
  \A spec \in routes :
    /\ OfferingRows(spec.ref) # {}
    /\ \A o \in OfferingRows(spec.ref) :
         o.issuer = Provider /\ o.price = spec.price /\ o.components = spec.components

=============================================================================
