----------------------------- MODULE Rendering -----------------------------
(***************************************************************************)
(* Rendering v1 (v02/rendering.js): a pure function from a snapshot of the *)
(* ledger to the manifest that is published.                               *)
(*                                                                         *)
(* A snapshot is a record with the fields offering, reviews, standings,    *)
(* issuance and window; its collections are sets of rows with an identity, *)
(* so equal scores of two reviews stay two.  Weights count eighths, scores *)
(* ten-thousandths, and quotients are exact where the code uses doubles.   *)
(* Review texts are left out: they are gated by the same flag as facets.   *)
(***************************************************************************)
EXTENDS Integers, FiniteSets

Sets == INSTANCE FiniteSetsExt

CONSTANTS
  K,       \* PARAMS.K_ANONYMITY
  NoValue  \* null in a manifest

ASSUME KAssumption == K \in Nat \ {0}

CompleterLevel == 3

LevelWeight == <<4, 5, 6, 8>>
RoleWeight == [participant |-> 2, payer |-> 1]

Weight(r) == LevelWeight[r.chainMaxLevel] * RoleWeight[r.role]

\* round4: half up, of num / den.
Round4(num, den) == (2 * 10000 * num + den) \div (2 * den)

\* view: the weighted mean of the scores, a function of the reviews.
View(reviews, score) ==
  LET weight == Sets!MapThenSumSet(Weight, reviews)
      sum == Sets!MapThenSumSet(LAMBDA r : Weight(r) * score[r], reviews)
  IN [size |-> Cardinality(reviews),
      score |-> IF weight > 0 THEN Round4(sum, weight) ELSE NoValue]

Unscored(reviews) == [size |-> Cardinality(reviews), score |-> NoValue]

\* One field of many rows.
Column(rows, field) == [row \in rows |-> row[field]]

\* countBy
Mix(reviews, key) ==
  [k \in {key[r] : r \in reviews} |-> Cardinality({r \in reviews : key[r] = k})]

\* The k-anonymity gate (I-7).
Publishable(receipts) == receipts >= K

Completers(rows, level) == {r \in rows : level[r] >= CompleterLevel}

-----------------------------------------------------------------------------
(* issuanceDisclosure *)

\* A rate is a pair <<attested completions, base>>; no rate without a base.
IssuerRate(issuance, issuer) ==
  LET Total(Count(_)) ==
        Sets!MapThenSumSet(Count, {row \in issuance : row.issuer = issuer})
      enrolled == Total(LAMBDA row : row.enrolled)
  IN <<Total(LAMBDA row : row.completed),
       IF enrolled > 0 THEN enrolled ELSE Total(LAMBDA row : row.engaged)>>

Lower(a, b) == a[1] * b[2] < b[1] * a[2]

\* The rate of rank n among the rates of the issuers in cohort.
RateOfRank(rate, cohort, n) ==
  rate[CHOOSE i \in cohort :
         /\ Cardinality({j \in cohort : Lower(rate[j], rate[i])}) < n
         /\ Cardinality({j \in cohort : ~Lower(rate[i], rate[j])}) >= n]

\* Twice the median of the cohort, as a fraction.
MedianTwice(rate, cohort) ==
  LET size == Cardinality(cohort)
      low == RateOfRank(rate, cohort, (size + 1) \div 2)
      high == RateOfRank(rate, cohort, size \div 2 + 1)
  IN <<low[1] * high[2] + high[1] * low[2], low[2] * high[2]>>

IssuanceDisclosure(issuance, issuer) ==
  LET issuers == {row.issuer : row \in issuance}
      rate == [i \in issuers \cup {issuer} |-> IssuerRate(issuance, i)]
      cohort == {i \in issuers : rate[i][2] > 0}
      mine == rate[issuer]
      median == MedianTwice(rate, cohort)
  IN [rate |-> IF mine[2] > 0 THEN Round4(mine[1], mine[2]) ELSE NoValue,
      median |-> IF cohort = {} THEN NoValue ELSE Round4(median[1], 2 * median[2]),
      \* below half the median: 4 * mine < twice the median
      anomalous |-> /\ mine[2] > 0 /\ cohort # {}
                    /\ 4 * mine[1] * median[2] < median[1] * mine[2],
      refusals |-> Sets!MapThenSumSet(LAMBDA row : row.refusals,
                                 {row \in issuance : row.issuer = issuer})]

-----------------------------------------------------------------------------
(* renderOffering *)

\* What the reviews that rate component e give it.
Facet(reviews, e) ==
  LET rating == {r \in reviews : e \in DOMAIN r.facets}
  IN View(rating, [r \in rating |-> r.facets[e]])

RenderOffering(input) ==
  LET reviews == input.reviews
      published == Publishable(Cardinality(reviews))
      level == Column(reviews, "chainMaxLevel")
      completers == Completers(reviews, level)
      participants == {s \in input.standings : s.role = "participant"}
      completed == Completers(participants, Column(participants, "maxLevel"))
  IN [window |-> input.window,
      published |-> published,
      receipts |-> Cardinality(reviews),
      purchaseGate |-> input.offering.price # 0,
      allVerified |-> IF published THEN View(reviews, Column(reviews, "overall"))
                      ELSE Unscored(reviews),
      completers |-> IF published THEN View(completers, Column(completers, "overall"))
                     ELSE Unscored(completers),
      completionRate |->
        IF participants = {} THEN NoValue
        ELSE Round4(Cardinality(completed), Cardinality(participants)),
      byLevel |-> Mix(reviews, level),
      byRole |-> Mix(reviews, Column(reviews, "role")),
      byClass |-> Mix(reviews, Column(reviews, "class")),
      coattested |-> Cardinality({r \in reviews : r.coattested}),
      facets |-> IF published THEN [e \in input.offering.components |-> Facet(reviews, e)]
                 ELSE NoValue,
      disclosures |-> IssuanceDisclosure(input.issuance, input.offering.issuer)]

-----------------------------------------------------------------------------
(* renderEntity *)

\* Shares of a review are twelfths: exact for up to four components.
ShareUnit == 12

Contribution(entity, o, r) ==
  IF entity \in DOMAIN r.facets
  THEN [overall |-> r.facets[entity], weight |-> Weight(r) * ShareUnit]
  ELSE [overall |-> r.overall,
        weight |-> Weight(r) * (ShareUnit \div Cardinality(o.components))]

\* The weighted mean of the contributions, each a pair of an offering and its review.
EntityScore(entity, used) ==
  LET Of(u) == Contribution(entity, u[1], u[2])
      weight == Sets!MapThenSumSet(LAMBDA u : Of(u).weight, used)
      sum == Sets!MapThenSumSet(LAMBDA u : Of(u).weight * Of(u).overall, used)
  IN IF weight > 0 THEN Round4(sum, weight) ELSE NoValue

\* Every review of an offering that declares the entity contributes.
RenderEntity(input) ==
  LET used == UNION {{<<o.offering, r>> : r \in o.reviews} : o \in input.offerings}
      published == Publishable(Cardinality(used))
  IN [window |-> input.window,
      published |-> published,
      receipts |-> Cardinality(used),
      score |-> IF published THEN EntityScore(input.entity, used) ELSE NoValue,
      offerings |-> {[ref |-> o.offering.ref, retired |-> o.retired,
                      used |-> Cardinality(o.reviews)] : o \in input.offerings}]

=============================================================================
