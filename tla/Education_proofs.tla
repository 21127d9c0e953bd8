-------------------------- MODULE Education_proofs --------------------------
(***************************************************************************)
(* Proofs about the education adapter, for every catalog, every set of     *)
(* learners and every order and repetition of their events: the store      *)
(* stays a well-formed ledger, the routes name the provider's own          *)
(* offerings, and each learner stands where its events lead.               *)
(***************************************************************************)
EXTENDS Education, HealthCheck_proofs

-----------------------------------------------------------------------------
(* Registering *)

\* What one registration declares and routes.
Registers(added, at) ==
  /\ \A spec \in added :
       spec \in CatalogSpec /\ Declarable(spec) /\ SpecsOf(spec.ref) = {spec}
  /\ offerings' = offerings \cup {DeclaredRow(spec, at) : spec \in added}
  /\ routes' = routes \cup added
  /\ UNCHANGED <<transactions, receipts, reviews, events, acknowledged, swallowed>>

LEMMA Registered ==
  ASSUME NEW at, RegisterOfferings(at)
  PROVE  \E added : Registers(added, at)
<1>1. PICK n \in 0..Len(Catalog) :
        /\ DeclaresPrefix(n)
        /\ offerings' = offerings \cup {DeclaredRow(spec, at) : spec \in {Catalog[i] : i \in 1..n}}
        /\ routes' = routes \cup {Catalog[i] : i \in 1..n}
  BY DEF RegisterOfferings
<1>2. /\ DOMAIN Catalog = 1..Len(Catalog) /\ Len(Catalog) \in Nat
      /\ \A i \in DOMAIN Catalog : Catalog[i] \in CatalogSpec
  BY EducationAssumption
<1>3. \A i \in 1..n : i \in DOMAIN Catalog
  BY <1>2
<1>4. ASSUME NEW i \in 1..n PROVE SpecsOf(Catalog[i].ref) = {Catalog[i]}
  <2>1. i \in DOMAIN Catalog /\ NamedFirst(i)
    BY <1>1, <1>3 DEF DeclaresPrefix
  <2>2. ASSUME NEW j \in DOMAIN Catalog, Catalog[j].ref = Catalog[i].ref, NamedFirst(j)
        PROVE  j = i
    BY <1>2, <2>1, <2>2 DEF NamedFirst
  <2> QED
    BY <2>1, <2>2 DEF SpecsOf
<1>5. \A i \in 1..n : Declarable(Catalog[i])
  BY <1>1 DEF DeclaresPrefix
<1>6. UNCHANGED <<transactions, receipts, reviews, events, acknowledged, swallowed>>
  BY DEF RegisterOfferings
<1>7. Registers({Catalog[i] : i \in 1..n}, at)
  BY <1>1, <1>2, <1>3, <1>4, <1>5, <1>6 DEF Registers
<1> QED
  BY <1>7

-----------------------------------------------------------------------------
(* The inductive invariant *)

\* An adapter routes by the first spec of the catalog for a reference.
RoutesFromCatalog == \A spec \in routes : SpecsOf(spec.ref) = {spec}

EduInv == LedgerInv /\ RoutesMatchStore /\ RoutesFromCatalog /\ StandingsFollowEvents

\* The parts that do not look at receipts survive whatever leaves the routes and the
\* catalog alone.
LEMMA RoutesKept ==
  ASSUME RoutesMatchStore, RoutesFromCatalog, UNCHANGED <<offerings, routes>>
  PROVE  RoutesMatchStore' /\ RoutesFromCatalog'
BY DEF RoutesMatchStore, RoutesFromCatalog, OfferingRows

\* A registration.
LEMMA RegisterInv ==
  ASSUME EduInv, NEW at \in Times, RegisterOfferings(at)
  PROVE  EduInv'
<1>1. PICK added : Registers(added, at)
  BY Registered
<1> DEFINE rows == {DeclaredRow(spec, at) : spec \in added}
<1>2. /\ offerings' = offerings \cup rows /\ routes' = routes \cup added
      /\ UNCHANGED <<transactions, receipts, reviews, events, acknowledged, swallowed>>
  BY <1>1 DEF Registers
<1>3. ASSUME NEW spec \in added
      PROVE  /\ DeclaredRow(spec, at) \in OfferingRow /\ DeclaredRow(spec, at).ref = spec.ref
             /\ \A o \in offerings : o.ref # spec.ref
             /\ SpecsOf(spec.ref) = {spec}
  <2>1. spec \in CatalogSpec /\ Declarable(spec) /\ SpecsOf(spec.ref) = {spec}
    BY <1>1 DEF Registers
  <2>2. /\ spec.price \in Int /\ spec.price >= 0 /\ spec.ref \in OfferingRefs
        /\ spec.components \in (SUBSET Entities) \ {{}}
    BY <2>1, LedgerAssumption DEF CatalogSpec, Declarable
  <2>3. spec.price \in Nat /\ Provider \in Issuers
    BY <2>2, EducationAssumption
  <2>4. DeclaredRow(spec, at) \in OfferingRow
    BY <2>2, <2>3 DEF DeclaredRow, OfferingRow
  <2> QED
    BY <2>1, <2>4 DEF DeclaredRow, Declarable, OfferingRows
<1>4. \A s, t \in added : s.ref = t.ref => s = t
  BY <1>3
<1>5. /\ rows \in SUBSET OfferingRow
      /\ \A o \in offerings, p \in rows : o.ref # p.ref
      /\ \A o, p \in rows : o.ref = p.ref => o = p
  BY <1>3, <1>4
<1>6. LedgerInv'
  BY <1>2, <1>5, OfferingsAdded DEF EduInv
<1>7. RoutesMatchStore'
  <2>1. ASSUME NEW spec \in routes
        PROVE  /\ OfferingRows(spec.ref)' # {}
               /\ \A o \in OfferingRows(spec.ref)' :
                    o.issuer = Provider /\ o.price = spec.price
                      /\ o.components = spec.components
    BY <1>2, <1>5 DEF EduInv, RoutesMatchStore, OfferingRows
  <2>2. ASSUME NEW spec \in added
        PROVE  /\ OfferingRows(spec.ref)' # {}
               /\ \A o \in OfferingRows(spec.ref)' :
                    o.issuer = Provider /\ o.price = spec.price
                      /\ o.components = spec.components
    <3>1. DeclaredRow(spec, at) \in OfferingRows(spec.ref)'
      BY <1>2, <1>3 DEF OfferingRows
    <3>2. \A o \in OfferingRows(spec.ref)' : o = DeclaredRow(spec, at)
      BY <1>6, <3>1 DEF OfferingRows, LedgerInv, KeysUnique
    <3> QED
      BY <3>1, <3>2 DEF DeclaredRow
  <2> QED
    BY <1>2, <2>1, <2>2 DEF RoutesMatchStore
<1>8. RoutesFromCatalog'
  BY <1>2, <1>3 DEF EduInv, RoutesFromCatalog
<1>9. StandingsFollowEvents'
  BY <1>2 DEF EduInv, StandingsFollowEvents, Standing, Earned, Heeded
<1> QED
  BY <1>6, <1>7, <1>8, <1>9 DEF EduInv

\* Another issuer's offering is none of the routed ones.
LEMMA OthersDeclareInv ==
  ASSUME EduInv, NEW ref \in OfferingRefs, NEW issuer \in Issuers,
         NEW components \in SUBSET Entities, NEW price \in Prices, NEW at \in Times,
         DeclareOffering(ref, issuer, components, price, at),
         UNCHANGED <<routes, acknowledged, swallowed>>
  PROVE  EduInv'
<1>1. LedgerInv'
  BY DeclareOfferingInv DEF EduInv
<1>2. /\ offerings \subseteq offerings' /\ UNCHANGED receipts
  BY DEF DeclareOffering
<1>3. RoutesMatchStore'
  <2>1. \A spec \in routes : OfferingRows(spec.ref)' = OfferingRows(spec.ref)
    BY <1>1, <1>2 DEF EduInv, RoutesMatchStore, OfferingRows, LedgerInv, KeysUnique
  <2> QED
    BY <2>1 DEF EduInv, RoutesMatchStore
<1>4. RoutesFromCatalog' /\ StandingsFollowEvents'
  BY <1>2 DEF EduInv, RoutesFromCatalog, StandingsFollowEvents, Standing, Earned, Heeded
<1> QED
  BY <1>1, <1>3, <1>4 DEF EduInv

-----------------------------------------------------------------------------
(* Events *)

\* What the two kinds of answer make of the events heeded.
LEMMA HeededBy ==
  ASSUME NEW event
  PROVE  /\ Acknowledge(event) => Heeded' = Heeded \cup {event}
         /\ Swallow(event) => Heeded' = Heeded
BY DEF Acknowledge, Swallow, Heeded

\* Where a heeded event leads: it gives a receipt of a level it earns, or none
\* when it earns no level its learner does not stand at.
LEMMA EventFollowed ==
  ASSUME StandingsFollowEvents, LedgerInv, receipts' \in SUBSET ReceiptRow,
         NEW event, Heeded' = Heeded \cup {event},
         receipts \subseteq receipts',
         \A r \in receipts' \ receipts :
           /\ r.holder = event.holder /\ r.offering = event.ref
           /\ Earns(event, r.role, r.level),
         \A role \in Roles : \A level \in Levels :
           Earns(event, role, level) =>
             \E r \in receipts' : /\ r.holder = event.holder /\ r.offering = event.ref
                                  /\ r.role = role /\ r.level >= level
  PROVE  StandingsFollowEvents'
<1> SUFFICES ASSUME NEW holder \in Holders, NEW ref \in OfferingRefs, NEW role \in Roles
             PROVE  /\ \A r \in Standing(holder, ref, role)' :
                         r.level \in Earned(holder, ref, role)'
                    /\ \A level \in Earned(holder, ref, role)' :
                         \E r \in Standing(holder, ref, role)' : r.level >= level
  BY DEF StandingsFollowEvents
<1>1. /\ \A r \in Standing(holder, ref, role) : r.level \in Earned(holder, ref, role)
      /\ \A level \in Earned(holder, ref, role) :
           \E r \in Standing(holder, ref, role) : r.level >= level
  BY DEF StandingsFollowEvents
<1>2. /\ Standing(holder, ref, role) \subseteq Standing(holder, ref, role)'
      /\ Earned(holder, ref, role) \subseteq Earned(holder, ref, role)'
  BY DEF Standing, Earned
<1>3. ASSUME NEW r \in Standing(holder, ref, role)'
      PROVE  r.level \in Earned(holder, ref, role)'
  <2>1. r \in receipts' /\ r.holder = holder /\ r.offering = ref /\ r.role = role
    BY DEF Standing
  <2>2. CASE r \in receipts
    BY <1>1, <1>2, <2>1, <2>2 DEF Standing
  <2>3. CASE r \notin receipts
    BY <2>1, <2>3 DEF Earned, ReceiptRow
  <2> QED
    BY <2>2, <2>3
<1>4. ASSUME NEW level \in Earned(holder, ref, role)'
      PROVE  \E r \in Standing(holder, ref, role)' : r.level >= level
  <2>1. PICK e \in Heeded' : e.holder = holder /\ e.ref = ref /\ Earns(e, role, level)
    BY DEF Earned
  <2>2. level \in Levels
    BY DEF Earned
  <2>3. CASE e \in Heeded
    <3>1. level \in Earned(holder, ref, role)
      BY <2>1, <2>2, <2>3 DEF Earned
    <3> QED
      BY <1>1, <1>2, <3>1
  <2>4. CASE e = event
    BY <2>1, <2>2, <2>4 DEF Standing
  <2> QED
    BY <2>1, <2>3, <2>4
<1> QED
  BY <1>3, <1>4

\* An event that earns nothing may be answered without a call.
LEMMA NoopInv ==
  ASSUME EduInv, NEW event, Noop(event),
         \A role \in Roles : \A level \in Levels : ~Earns(event, role, level)
  PROVE  EduInv'
<1>1. UNCHANGED vars /\ UNCHANGED routes /\ Heeded' = Heeded \cup {event}
  BY HeededBy DEF Noop, Acknowledge
<1>2. LedgerInv' /\ UNCHANGED <<offerings, receipts>>
  BY <1>1, StepInv DEF EduInv, vars
<1>3. receipts' \in SUBSET ReceiptRow
  BY <1>2 DEF LedgerInv, TypeOK
<1>4. StandingsFollowEvents'
  BY <1>1, <1>2, <1>3, EventFollowed DEF EduInv
<1> QED
  BY <1>1, <1>2, <1>4, RoutesKept DEF EduInv

\* A payment or an enrolment, by the role it gives.
LEMMA TransactedInv ==
  ASSUME EduInv, NEW event, event.holder \in Holders, event.ref \in OfferingRefs,
         NEW role \in RoleInputs, NEW at \in Times, Transacted(event, role, at),
         \A r \in Roles : \A level \in Levels :
           Earns(event, r, level)
             <=> level = 1 /\ r = role /\ \A spec \in SpecsOf(event.ref) : spec.price # 0
  PROVE  EduInv'
<1>1. PICK spec \in Route(event) :
        \/ spec.price = 0 /\ Noop(event)
        \/ /\ spec.price # 0
           /\ \E txId \in TxIds, id \in ReceiptIds :
                RecordTransaction(Provider, event.holder, role, event.ref, txId, id, FALSE, at)
           /\ Acknowledge(event)
  BY DEF Transacted
<1>2. SpecsOf(event.ref) = {spec}
  BY DEF EduInv, RoutesFromCatalog, Route
<1>3. CASE spec.price = 0 /\ Noop(event)
  BY <1>2, <1>3, NoopInv
<1>4. CASE spec.price # 0 /\ Acknowledge(event)
  <2>1. PICK txId \in TxIds, id \in ReceiptIds :
          RecordTransaction(Provider, event.holder, role, event.ref, txId, id, FALSE, at)
    BY <1>1, <1>4 DEF Noop
  <2>2. LedgerInv'
    BY <2>1, RecordTransactionInv, EducationAssumption DEF EduInv
  <2>3. /\ UNCHANGED <<offerings, routes>> /\ Heeded' = Heeded \cup {event}
        /\ role \in Roles
    BY <1>4, <2>1, HeededBy DEF RecordTransaction, Acknowledge
  <2>4. PICK rc : /\ receipts' = receipts \cup {rc}
                  /\ rc.holder = event.holder /\ rc.offering = event.ref
                  /\ rc.role = role /\ rc.level = 1
    <3> DEFINE new == [id |-> id, issuer |-> Provider, holder |-> event.holder,
                       role |-> role, offering |-> event.ref, level |-> 1,
                       prev |-> NoReceipt, coattested |-> FALSE, at |-> at]
    <3>1. receipts' = receipts \cup {new}
      BY <2>1 DEF RecordTransaction
    <3>2. /\ new.holder = event.holder /\ new.offering = event.ref
          /\ new.role = role /\ new.level = 1
      OBVIOUS
    <3> HIDE DEF new
    <3> QED
      BY <3>1, <3>2
  <2>5. Earns(event, role, 1)
    BY <1>2, <1>4, <2>3 DEF Levels
  <2>6. receipts' \in SUBSET ReceiptRow
    BY <2>2 DEF LedgerInv, TypeOK
  <2>7. \A r \in receipts' \ receipts :
          /\ r.holder = event.holder /\ r.offering = event.ref
          /\ Earns(event, r.role, r.level)
    BY <2>4, <2>5
  <2>8. \A r \in Roles : \A level \in Levels :
          Earns(event, r, level) =>
            \E x \in receipts' : /\ x.holder = event.holder /\ x.offering = event.ref
                                 /\ x.role = r /\ x.level >= level
    BY <2>4
  <2>9. StandingsFollowEvents'
    BY <2>3, <2>4, <2>6, <2>7, <2>8, EventFollowed DEF EduInv
  <2> QED
    BY <2>2, <2>3, <2>9, RoutesKept DEF EduInv
<1> QED
  BY <1>1, <1>3, <1>4

\* An attestation, given, refused or lost with its write: the store refuses one only to a
\* learner who stands at that level already, as the offering is the provider's own.
LEMMA AttestInv ==
  ASSUME EduInv, NEW event, event.holder \in Holders, event.ref \in OfferingRefs,
         NEW level \in 2..4, NEW at \in Times, Attest(event, level, at),
         \A r \in Roles : \A l \in Levels :
           Earns(event, r, l) <=> l = level /\ r = "participant"
  PROVE  EduInv'
<1>1. PICK spec \in Route(event) : TRUE
  BY DEF Attest
<1>2. UNCHANGED routes /\ "participant" \in Roles /\ level \in Levels
  <2>1. Acknowledge(event) \/ Swallow(event)
    BY DEF Attest
  <2>2. UNCHANGED routes
    BY <2>1 DEF Acknowledge, Swallow
  <2> QED
    BY <2>2 DEF Roles, Levels
<1>3. PICK o \in OfferingRows(event.ref) : DeclaredIssuer(o, Provider)
  BY <1>1 DEF EduInv, RoutesMatchStore, Route, DeclaredIssuer
<1>4. CASE /\ \E id \in ReceiptIds :
                IssueAttestation(Provider, event.holder, "participant", event.ref, level,
                                 id, FALSE, at)
           /\ Acknowledge(event)
  <2>1. PICK id \in ReceiptIds :
          IssueAttestation(Provider, event.holder, "participant", event.ref, level,
                           id, FALSE, at)
    BY <1>4
  <2>2. LedgerInv'
    BY <2>1, IssueAttestationInv, EducationAssumption DEF EduInv, RoleInputs, Roles
  <2>3. PICK rc : /\ receipts' = receipts \cup {rc}
                  /\ rc.holder = event.holder /\ rc.offering = event.ref
                  /\ rc.role = "participant" /\ rc.level = level
    <3>1. PICK prev :
            receipts' = receipts \cup
              {[id |-> id, issuer |-> Provider, holder |-> event.holder,
                role |-> "participant", offering |-> event.ref, level |-> level,
                prev |-> prev, coattested |-> FALSE, at |-> at]}
      BY <2>1 DEF IssueAttestation
    <3> DEFINE new == [id |-> id, issuer |-> Provider, holder |-> event.holder,
                       role |-> "participant", offering |-> event.ref, level |-> level,
                       prev |-> prev, coattested |-> FALSE, at |-> at]
    <3>2. /\ new.holder = event.holder /\ new.offering = event.ref
          /\ new.role = "participant" /\ new.level = level
      OBVIOUS
    <3>3. receipts' = receipts \cup {new}
      BY <3>1
    <3> HIDE DEF new
    <3> QED
      BY <3>2, <3>3
  <2>4. UNCHANGED offerings
    BY <2>1 DEF IssueAttestation
  <2>5. receipts' \in SUBSET ReceiptRow
    BY <2>2 DEF LedgerInv, TypeOK
  <2>6. \A r \in receipts' \ receipts :
          /\ r.holder = event.holder /\ r.offering = event.ref
          /\ Earns(event, r.role, r.level)
    BY <1>2, <2>3
  <2>7. \A r \in Roles : \A l \in Levels :
          Earns(event, r, l) =>
            \E x \in receipts' : /\ x.holder = event.holder /\ x.offering = event.ref
                                 /\ x.role = r /\ x.level >= l
    BY <2>3 DEF Levels
  <2>8. StandingsFollowEvents'
    BY <1>4, <2>3, <2>5, <2>6, <2>7, HeededBy, EventFollowed DEF EduInv
  <2> QED
    BY <1>2, <2>2, <2>4, <2>8, RoutesKept DEF EduInv
<1>5. CASE /\ ~(/\ \E p \in OfferingRows(event.ref) : DeclaredIssuer(p, Provider)
                /\ AscensionAllowed("participant", level,
                                    Standing(event.holder, event.ref, "participant")))
           /\ Acknowledge(event)
           /\ UNCHANGED vars
  <2>1. PICK r \in Standing(event.holder, event.ref, "participant") : ~(level > r.level)
    BY <1>3, <1>5 DEF AscensionAllowed
  <2>2. /\ r \in receipts /\ r.holder = event.holder /\ r.offering = event.ref
        /\ r.role = "participant" /\ r.level \in Int
    BY DEF Standing, EduInv, LedgerInv, TypeOK, ReceiptRow, Levels
  <2>3. LedgerInv' /\ UNCHANGED <<offerings, receipts>>
    BY <1>5, StepInv DEF EduInv, vars
  <2>4. receipts' \in SUBSET ReceiptRow
    BY <2>3 DEF LedgerInv, TypeOK
  <2>5. r.level >= level
    BY <2>1, <2>2
  <2>6. StandingsFollowEvents'
    BY <1>5, <2>2, <2>3, <2>4, <2>5, HeededBy, EventFollowed DEF EduInv
  <2> QED
    BY <1>2, <2>3, <2>6, RoutesKept DEF EduInv
<1>6. CASE Swallow(event) /\ UNCHANGED vars
  <2>1. LedgerInv' /\ UNCHANGED <<offerings, receipts>> /\ Heeded' = Heeded
    BY <1>6, StepInv, HeededBy DEF EduInv, vars
  <2>2. StandingsFollowEvents'
    BY <2>1 DEF EduInv, StandingsFollowEvents, Standing, Earned
  <2> QED
    BY <1>2, <2>1, <2>2, RoutesKept DEF EduInv
<1> QED
  BY <1>4, <1>5, <1>6 DEF Attest

-----------------------------------------------------------------------------

LEMMA EduStep == EduInv /\ [EduNext]_eduVars => EduInv'
<1> SUFFICES ASSUME EduInv, [EduNext]_eduVars PROVE EduInv'
  OBVIOUS
<1>1. ASSUME UNCHANGED <<vars, acknowledged, swallowed>>, routes' \subseteq routes PROVE EduInv'
  <2>1. LedgerInv' /\ UNCHANGED <<offerings, receipts>>
    BY <1>1, StepInv DEF EduInv, vars
  <2>2. RoutesMatchStore' /\ RoutesFromCatalog'
    BY <1>1, <2>1 DEF EduInv, RoutesMatchStore, RoutesFromCatalog, OfferingRows
  <2>3. StandingsFollowEvents'
    BY <1>1, <2>1 DEF EduInv, StandingsFollowEvents, Standing, Earned, Heeded
  <2> QED
    BY <2>1, <2>2, <2>3 DEF EduInv
<1>2. CASE UNCHANGED eduVars
  BY <1>1, <1>2 DEF eduVars
<1>3. CASE Restart
  BY <1>1, <1>3 DEF Restart
<1>4. ASSUME NEW at \in Times, RegisterOfferings(at) PROVE EduInv'
  BY <1>4, RegisterInv
<1>5. ASSUME NEW at \in Times, NEW event \in Payments, Pay(event, at) PROVE EduInv'
  <2>1. /\ event.type = "payment" /\ event.role \in RoleInputs
        /\ event.holder \in Holders /\ event.ref \in OfferingRefs
    BY DEF Payments
  <2>2. \A r \in Roles : \A level \in Levels :
          Earns(event, r, level) <=>
            level = 1 /\ r = event.role /\ \A spec \in SpecsOf(event.ref) : spec.price # 0
    BY <2>1 DEF Earns, Roles
  <2> QED
    BY <1>5, <2>1, <2>2, TransactedInv DEF Pay
<1>6. ASSUME NEW at \in Times, NEW event \in Enrollments, Enroll(event, at) PROVE EduInv'
  <2>1. /\ event.type = "enrollment" /\ "participant" \in RoleInputs
        /\ event.holder \in Holders /\ event.ref \in OfferingRefs
    BY DEF Enrollments, RoleInputs, Roles
  <2>2. \A r \in Roles : \A level \in Levels :
          Earns(event, r, level) <=>
            level = 1 /\ r = "participant" /\ \A spec \in SpecsOf(event.ref) : spec.price # 0
    BY <2>1 DEF Earns, Roles
  <2> QED
    BY <1>6, <2>1, <2>2, TransactedInv DEF Enroll
<1>7. ASSUME NEW at \in Times, NEW event \in ProgressReports, ReportProgress(event, at)
      PROVE  EduInv'
  <2>1. /\ event.type = "progress" /\ event.holder \in Holders /\ event.ref \in OfferingRefs
    BY DEF ProgressReports
  <2>2. PICK spec \in Route(event) :
          \/ Reaches(event, spec) /\ Attest(event, 2, at)
          \/ ~Reaches(event, spec) /\ Noop(event)
    BY <1>7 DEF ReportProgress
  <2>3. SpecsOf(event.ref) = {spec}
    BY DEF EduInv, RoutesFromCatalog, Route
  <2>4. \A r \in Roles : \A level \in Levels :
          Earns(event, r, level) <=> level = 2 /\ r = "participant" /\ Reaches(event, spec)
    BY <2>1, <2>3 DEF Earns
  <2> QED
    BY <2>1, <2>2, <2>4, NoopInv, AttestInv
<1>8. ASSUME NEW at \in Times, NEW event \in Completions, Complete(event, at) PROVE EduInv'
  <2>1. /\ event.type = "completion" /\ event.holder \in Holders /\ event.ref \in OfferingRefs
    BY DEF Completions
  <2>2. \A r \in Roles : \A level \in Levels :
          Earns(event, r, level) <=> level = 3 /\ r = "participant"
    BY <2>1 DEF Earns
  <2> QED
    BY <1>8, <2>1, <2>2, AttestInv DEF Complete
<1>9. ASSUME NEW at \in Times, NEW issuer \in Issuers \ {Provider},
             NEW spec \in {Catalog[i] : i \in DOMAIN Catalog},
             DeclareOffering(spec.ref, issuer, spec.components, spec.price, at),
             UNCHANGED <<routes, acknowledged, swallowed>>
      PROVE  EduInv'
  <2>1. spec \in CatalogSpec
    BY EducationAssumption
  <2> QED
    BY <1>9, <2>1, OthersDeclareInv DEF CatalogSpec
<1> QED
  BY <1>2, <1>3, <1>4, <1>5, <1>6, <1>7, <1>8, <1>9 DEF EduNext

LEMMA EduInvariant == EduSpec => []EduInv
<1>1. EduInit => EduInv
  <2> SUFFICES ASSUME EduInit PROVE EduInv
    OBVIOUS
  <2>1. LedgerInv
    BY InitInv DEF EduInit
  <2>2. RoutesMatchStore /\ RoutesFromCatalog
    BY DEF EduInit, RoutesMatchStore, RoutesFromCatalog
  <2>3. StandingsFollowEvents
    BY DEF EduInit, Init, StandingsFollowEvents, Standing, Earned, Heeded
  <2> QED
    BY <2>1, <2>2, <2>3 DEF EduInv
<1> QED
  BY <1>1, EduStep, PTL DEF EduSpec

\* No step rewrites a row.
LEMMA EduGrows ==
  ASSUME LedgerInv, [EduNext]_eduVars
  PROVE  Grows
<1>1. /\ TypeOK /\ Len(events) \in Nat
      /\ UNCHANGED vars => Grows
  BY DEF LedgerInv, TypeOK, vars, Grows
<1>2. CASE UNCHANGED vars
  BY <1>1, <1>2
<1>3. ASSUME NEW at, RegisterOfferings(at) PROVE Grows
  BY <1>1, <1>3 DEF RegisterOfferings, Grows
<1>4. ASSUME NEW holder, NEW role, NEW ref, NEW txId, NEW id, NEW at,
             RecordTransaction(Provider, holder, role, ref, txId, id, FALSE, at)
      PROVE  Grows
  BY <1>1, <1>4 DEF RecordTransaction, Grows
<1>5. ASSUME NEW holder, NEW ref, NEW level, NEW id, NEW at,
             IssueAttestation(Provider, holder, "participant", ref, level, id, FALSE, at)
      PROVE  Grows
  BY <1>1, <1>5 DEF IssueAttestation, Grows
<1>6. ASSUME NEW ref, NEW issuer, NEW components, NEW price, NEW at,
             DeclareOffering(ref, issuer, components, price, at)
      PROVE  Grows
  BY <1>1, <1>6 DEF DeclareOffering, Grows
<1>7. ASSUME NEW event, NEW role, NEW at, Transacted(event, role, at) PROVE Grows
  BY <1>2, <1>4, <1>7 DEF Transacted, Noop
<1>8. ASSUME NEW event, NEW level, NEW at, Attest(event, level, at) PROVE Grows
  BY <1>2, <1>5, <1>8 DEF Attest
<1>9. ASSUME NEW event, NEW at, ReportProgress(event, at) PROVE Grows
  BY <1>2, <1>8, <1>9 DEF ReportProgress, Noop
<1> QED
  BY <1>2, <1>3, <1>6, <1>7, <1>8, <1>9
  DEF EduNext, eduVars, Restart, Pay, Enroll, Complete

-----------------------------------------------------------------------------
(* Theorems *)

\* However events are lost, replayed and reordered, registrations cut short and the
\* adapter restarted, the store it writes stays a well-formed ledger.
THEOREM EducationKeepsLedger == EduSpec => []LedgerInv
<1>1. EduInv => LedgerInv
  BY DEF EduInv
<1> QED
  BY <1>1, EduInvariant, PTL

\* The register raises no false alarm about a ledger the adapter wrote.
THEOREM EducationPassesHealthCheck == EduSpec => []HealthCheckSilent
BY EducationKeepsLedger, InvIsSilent, PTL

\* I-5 under the adapter: a registration that declares many offerings, a restart and a
\* replay rewrite no row either.
THEOREM EducationNeverRewrites == EduSpec => AppendOnly
<1>1. LedgerInv /\ [EduNext]_eduVars => [Grows]_vars
  BY EduGrows
<1> QED
  BY <1>1, EducationKeepsLedger, PTL DEF EduSpec, AppendOnly, Grows

\* No route leads to an offering that is not the provider's own as the catalog has it.
THEOREM RoutesHold == EduSpec => []RoutesMatchStore
<1>1. EduInv => RoutesMatchStore
  BY DEF EduInv
<1> QED
  BY <1>1, EduInvariant, PTL

\* A learner holds the levels its events earned, none more, and stands no lower than the
\* highest of them.
THEOREM LearnersEndWhereEventsLead == EduSpec => []StandingsFollowEvents
<1>1. EduInv => StandingsFollowEvents
  BY DEF EduInv
<1> QED
  BY <1>1, EduInvariant, PTL

=============================================================================
