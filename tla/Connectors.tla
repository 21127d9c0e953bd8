----------------------------- MODULE Connectors -----------------------------
(***************************************************************************)
(* From what the sources send to what ingestion is told: the translations  *)
(* of pilot/stripe.js, pilot/square.js and pilot/quickbooks.js, of the     *)
(* three webhook handlers and of issueReceipt, and the resolution of       *)
(* issuer and offering that comes with them (pilot/runtime.js).            *)
(*                                                                         *)
(* A translation yields a set: one report, or none where the handler       *)
(* ignores the event or throws before it ingests.  Signatures are taken to *)
(* have been verified and timestamps to be fresh.  (An ignored Square      *)
(* event leaves a webhook row that only its own redelivery would read.)    *)
(*                                                                         *)
(* Two fields of an event are not sent by anybody; the properties compare  *)
(* with them what the program made of the rest.  payment names the real    *)
(* payment the event tells about, money whether its money had been "kept"  *)
(* or "returned", in whole or in part, by then.                            *)
(***************************************************************************)
EXTENDS Ingest

CONSTANT AccountOf   \* <<partner, connected-account ref>> -> issuer, the linked accounts

OrElse(value, default) == IF value = Null THEN default ELSE value

\* A Slip... is a wrong form of the definition that follows, as in Ingest.

\* resolveIssuerId: the issuer an event names, or the one its account is linked to.
IssuersFor(partner, issuer, account) ==
  IF issuer # Null THEN {issuer}
  ELSE {AccountOf[a] : a \in DOMAIN AccountOf \cap {<<partner, account>>}}

\* resolveDefaultOffering throws unless the issuer has exactly one active offering,
\* priced or free.
DefaultOffering(issuer) ==
  LET active == {o \in DOMAIN IssuerOf : IssuerOf[o] = issuer} IN
  IF Cardinality(active) = 1 THEN active ELSE {}

\* The report of an event: what every translation copies from it, and what each makes
\* of it.
ReportOf(e, sale) ==
  [name |-> e.id, payment |-> e.payment, money |-> e.money, amount |-> e.amount,
   currency |-> "usd", customer |-> e.customer, at |-> e.at, role |-> "participant",
   channel |-> sale.channel, source |-> sale.source, kind |-> sale.kind,
   issuer |-> sale.issuer, offering |-> sale.offering, rail |-> sale.rail,
   ref |-> sale.ref]

\* A paid session or invoice, of the issuer whose secret verified the event.  The
\* reference is the id of the event's object.
StripeReports(e) ==
  IF /\ e.type \in {"checkout.session.completed", "invoice.paid"}
     /\ e.offering # Null
     /\ OrElse(e.issuer, e.verified) = e.verified
  THEN {ReportOf(e,
         [channel |-> "stripe", source |-> "manual", kind |-> "transaction",
          issuer |-> e.verified, offering |-> e.offering,
          rail |-> "stripe", ref |-> e.object])}
  ELSE {}

SlipSquareKind(e) == IF e.status = "REFUNDED" THEN "reversal" ELSE "transaction"

\* Refunded in whole or in part, or else a transaction.
SquareKind(e) ==
  IF e.status = "REFUNDED" \/ e.refunded > 0 THEN "reversal" ELSE "transaction"

\* A payment.updated event of a linked merchant with one offering.
SquareReports(e) ==
  IF e.type # "payment.updated" THEN {}
  ELSE UNION {{ReportOf(e,
                [channel |-> "square", source |-> "square", kind |-> SquareKind(e),
                 issuer |-> i, offering |-> o, rail |-> "square", ref |-> e.payment]) :
               o \in DefaultOffering(i)} : i \in IssuersFor("square", Null, e.merchant)}

SlipQuickBooksRef(note) == note.entity

\* The deepest rail identity the books know, or their own.
QuickBooksRef(note) == OrElse(note.found.ref, note.entity)

\* A created or updated Payment, with what quickbooksEnrich found about it.
QuickBooksReports(note) ==
  LET found == note.found
      issuers == IssuersFor("quickbooks", Null, OrElse(found.account, note.realm))
      offerings(i) == IF found.offering # Null THEN {found.offering}
                      ELSE DefaultOffering(i) IN
  IF note.entityName # "Payment" \/ note.operation \notin {"Create", "Update"} THEN {}
  ELSE UNION {{ReportOf(note,
                [channel |-> "quickbooks", source |-> "quickbooks", kind |-> found.kind,
                 issuer |-> i, offering |-> o, rail |-> OrElse(found.rail, "quickbooks"),
                 ref |-> QuickBooksRef(note)]) : o \in offerings(i)} : i \in issuers}

\* POST /v1/transactions: the body is the report, attributed to whoever signed it.
PartnerReports(partner, body) ==
  {ReportOf(body,
     [channel |-> "partner", source |-> partner, kind |-> body.kind, issuer |-> i,
      offering |-> body.offering, rail |-> body.rail, ref |-> body.ref]) :
   i \in IssuersFor(partner, body.issuer, body.account)}

\* issueReceipt: rail "manual" and the operator's own reference.
ManualReports(order) ==
  {ReportOf(order,
     [channel |-> "manual", source |-> "manual", kind |-> "transaction",
      issuer |-> order.issuer, offering |-> order.offering, rail |-> "manual",
      ref |-> order.ref])}

-----------------------------------------------------------------------------
(* Properties *)

\* The registered sales a report may be about.
SalesOf(r) == UNION {RowsFor(CanonicalKey(r, <<r.name, n>>)) : n \in 1..attempts[r]}

\* "The same real sale can be reported by several connected partners ... Each report
\* must resolve to ONE key": no payment is behind two registered sales, whichever of
\* the rail, the merchant's app and the books reports it first.
OneReceiptPerPayment ==
  \A payment \in {r.payment : r \in Reports} \ {Null} :
    Cardinality(UNION {SalesOf(r) : r \in {s \in Reports : s.payment = payment}}) <= 1

\* "A refund is a reversal": news of money given back grants no right by itself, also
\* when it arrives before, or instead of, the news of the sale.
RefundsGrantNothing ==
  \A r \in Reports : r.money = "returned" /\ SalesOf(r) # {} =>
    \E s \in Reports : s.payment = r.payment /\ s.money # "returned" /\ attempts[s] > 0

=============================================================================
