------------------------------ MODULE MCIngest ------------------------------
(***************************************************************************)
(* Finite instances of ingestion: who runs where, and what is reported.    *)
(***************************************************************************)
EXTENDS IngestRefinement, Connectors, TLC

CONSTANTS h1, h2, h3, server, cli1, cli2

\* A payment of 5 of customer c1, as Square, Stripe, the books and an app tell of it.
SquareEvent ==
  [id |-> "sq", type |-> "payment.updated", merchant |-> "m1", payment |-> "pay",
   status |-> "COMPLETED", refunded |-> 0, money |-> "kept", amount |-> 5,
   customer |-> "c1", at |-> 1]
SquareRefund ==
  [SquareEvent EXCEPT !.id = "sq refund", !.refunded = 2, !.money = "returned"]

Checkout ==
  [id |-> "evt", type |-> "checkout.session.completed", verified |-> "i1",
   issuer |-> "i1", offering |-> "o1", object |-> "cs", payment |-> "pi",
   money |-> "kept", amount |-> 5, customer |-> Null, at |-> 1]
CheckoutElsewhere == [Checkout EXCEPT !.id = "evt o2", !.offering = "o2"]
CheckoutForged == [Checkout EXCEPT !.id = "evt i2", !.issuer = "i2"]
CheckoutOpened == [Checkout EXCEPT !.id = "evt open", !.type = "checkout.session.created"]

Found == [rail |-> "square", ref |-> "pay", account |-> Null, offering |-> Null,
          kind |-> "transaction"]
Note ==
  [id |-> "qb", entityName |-> "Payment", operation |-> "Create", realm |-> "realm",
   entity |-> "e1", found |-> Found, payment |-> "pay", money |-> "kept", amount |-> 5,
   customer |-> "c1", at |-> 1]
NoteDisputed == [Note EXCEPT !.id = "qb 6", !.amount = 6]
NoteOnCheckout ==
  [Note EXCEPT !.id = "qb cs", !.found.rail = "stripe", !.found.ref = "cs",
               !.payment = "pi"]

Body ==
  [id |-> "app", issuer |-> Null, account |-> "a1", offering |-> "o1",
   kind |-> "transaction", rail |-> "square", ref |-> "pay", payment |-> "pay",
   money |-> "kept", amount |-> 5, customer |-> "c1", at |-> 1]
BodyElsewhere == [Body EXCEPT !.id = "app o2", !.offering = "o2"]
BodyOnStripe == [Body EXCEPT !.id = "app pi", !.rail = "stripe", !.ref = "pi", !.payment = "pi"]

\* A cash sale; the same once more, or another like it within the same UTC hour; and
\* half an hour, but one UTC hour, later.  A sale nothing identifies.
CashBody == [Body EXCEPT !.id = "cash", !.rail = Null, !.ref = Null, !.payment = Null]
CashTwin == [CashBody EXCEPT !.id = "cash twin", !.at = 0]
CashAgain == [CashBody EXCEPT !.id = "cash again", !.at = 2]
AnonymousBody == [CashBody EXCEPT !.id = "anon", !.customer = Null]

\* One invoice, issued twice by hand, and once through a partner that names the rail
\* "manual".
Invoice ==
  [id |-> "inv", issuer |-> "i1", offering |-> "o1", ref |-> "n1", payment |-> "n1",
   money |-> "kept", amount |-> 5, customer |-> "c1", at |-> 1]
InvoiceAgain == [Invoice EXCEPT !.id = "inv again"]
FreeOrder ==
  [Invoice EXCEPT !.id = "free", !.issuer = "i2", !.offering = "o3", !.ref = "n2", !.payment = "n2"]
InvoiceBody == [Body EXCEPT !.id = "inv app", !.rail = "manual", !.ref = "n1", !.payment = "n1"]

MCIssuerOf == ("o1" :> "i1") @@ ("o2" :> "i2") @@ ("o3" :> "i2")
MCMayIssue == ({"manual", "square", "quickbooks", "app", "pos"} \X {"i1"}) \cup {<<"manual", "i2">>}
MCAccountOf ==
  (<<"square", "m1">> :> "i1") @@ (<<"quickbooks", "realm">> :> "i1")
    @@ (<<"app", "a1">> :> "i1") @@ (<<"pos", "a1">> :> "i1") @@ (<<"rogue", "a1">> :> "i1")

OnServer == (h1 :> server) @@ (h2 :> server)
Everywhere == (h1 :> server) @@ (h2 :> cli1) @@ (h3 :> cli2)

ServerReports ==
  SquareReports(SquareEvent) \cup SquareReports(SquareRefund)
    \cup QuickBooksReports(NoteDisputed) \cup PartnerReports("app", Body)
    \cup PartnerReports("pos", BodyElsewhere)
    \cup PartnerReports("app", CashBody) \cup PartnerReports("pos", CashTwin)
    \cup PartnerReports("pos", CashAgain)
WebhookReports ==
  StripeReports(Checkout) \cup StripeReports(CheckoutElsewhere)
    \cup StripeReports(CheckoutForged) \cup StripeReports(CheckoutOpened)
    \cup QuickBooksReports(NoteOnCheckout) \cup PartnerReports("rogue", AnonymousBody)
InvoiceReports ==
  ManualReports(Invoice) \cup ManualReports(InvoiceAgain) \cup PartnerReports("app", InvoiceBody)
    \cup ManualReports(FreeOrder)
RetriedReports == SquareReports(SquareEvent) \cup PartnerReports("app", Body)
StripeSaleReports == StripeReports(Checkout) \cup PartnerReports("app", BodyOnStripe)

Symmetry == Permutations(ReceiptIds)

=============================================================================
