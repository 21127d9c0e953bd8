--------------------------- MODULE MCPublication ---------------------------
(***************************************************************************)
(* Finite instances of publication, alone and under the pilot.             *)
(***************************************************************************)
EXTENDS Pilot, TLC

\* Instants of the clock.
MCTimes == 0..MaxTime

\* Left out: when an offering was declared and who asked for an attestation, which no
\* snapshot reads; participants who rate no component; and a history of more than four
\* rows, five once there is a score that the fifth could change.
PublicationBound ==
  /\ \A o \in offerings : o.at = 0
  /\ \A i \in 1..Len(events) : events[i].type # "attestation_requested"
  /\ \A v \in reviews : v.role = "participant" => DOMAIN v.facets = Entities
  /\ Cardinality({r \in receipts : r.role = "payer"}) <= 1
  /\ Cardinality(receipts) + Cardinality(reviews) + Len(events) + Cardinality(corroborations)
       <= IF publications \cup signed = {} THEN 4 ELSE 5

Symmetry ==
  Permutations(Holders) \cup Permutations(TxIds) \cup Permutations(ReceiptIds)
    \cup Permutations(ReviewIds)

=============================================================================
