---------------------------- MODULE CanonicalTxn ----------------------------
(***************************************************************************)
(* Canonical transaction identity (pilot/canonical-txn.js) and the two     *)
(* comparisons ingestion makes between a report and the registry           *)
(* (conflictingFields and findSurrogateAmbiguity of pilot/runtime.js).     *)
(*                                                                         *)
(* A report and a registry row are records with the fields issuer,         *)
(* offering, amount, currency, customer and at; a report also has rail and *)
(* ref, the processor's transaction id.  Null stands for an absent value.  *)
(* Time counts half hours, so that instants inside, at and beyond the      *)
(* one-hour window of a near match exist.  Hashing a normalised contact is *)
(* taken to be injective, trimming and lower-casing to be done already.    *)
(***************************************************************************)
EXTENDS Integers

CONSTANT Null

HalfHoursPerHour == 2

\* hourBucket: the UTC hour an instant falls in.
HourBucket(at) == at \div HalfHoursPerHour

HasRailId(r) == r.rail # Null /\ r.ref # Null

\* Which of the three identities a report resolves to, in priority order.
Basis(r) ==
  IF HasRailId(r) THEN "rail"
  ELSE IF r.customer # Null THEN "surrogate" ELSE "unique"

\* canonicalTxnKey; nonce is the uuid that keeps an unidentifiable sale apart.
CanonicalKey(r, nonce) ==
  CASE Basis(r) = "rail" -> <<r.issuer, "rail", r.rail, r.ref>>
    [] Basis(r) = "surrogate" ->
         <<r.issuer, "surrogate", r.amount, r.currency, HourBucket(r.at), r.customer>>
    [] OTHER -> <<r.issuer, "unique", nonce>>

Disagree(a, b) == a # Null /\ b # Null /\ a # b

\* A wrong form of the definition that follows, as in Ingest.
SlipConflicting(row, r) ==
  \/ Disagree(row.issuer, r.issuer)
  \/ Disagree(row.amount, r.amount)
  \/ Disagree(row.currency, r.currency)

\* conflictingFields is not empty: two present values of one fact differ.
Conflicting(row, r) ==
  \/ Disagree(row.issuer, r.issuer)
  \/ Disagree(row.offering, r.offering)
  \/ Disagree(row.amount, r.amount)
  \/ Disagree(row.currency, r.currency)

WithinAnHour(a, b) == a - b <= HalfHoursPerHour /\ b - a <= HalfHoursPerHour

\* findSurrogateAmbiguity: a surrogate row for the same money, from the same
\* customer, at most an hour away.  In SQL an absent currency equals nothing.
NearMatch(row, r) ==
  /\ Basis(r) = "surrogate"
  /\ row.basis = "surrogate"
  /\ row.issuer = r.issuer
  /\ row.amount = r.amount
  /\ row.currency = r.currency /\ r.currency # Null
  /\ row.customer = r.customer
  /\ WithinAnHour(row.at, r.at)

=============================================================================
