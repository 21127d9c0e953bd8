# A TLA+ verification project for AudienceScore

AudienceScore turns a purchase into a signed receipt, a receipt into the right to
one review, and reviews into published scores that anyone can recompute. This
directory models the reference implementation (`reference-impl/`) in TLA+: the
modules are translated from the JavaScript, TLC checks them on small instances,
TLAPS proves the safety
properties for every instance. `PROJECT.json` maps every
definition to the lines it stands for.

Paths below are relative to `reference-impl/src/` unless they start elsewhere.

## 1. Inventory

### 1.1 The ledger store: `v02/store.js`, `v02/receipts.js`
- **State.** SQLite tables `offerings`, `transactions`, `receipts`, `reviews`,
  `protocol_events`, `publications`; triggers forbid UPDATE and DELETE.
- **Operations.** `declareOffering`, `retireOffering`, `recordTransaction`,
  `issueAttestation`, `requestAttestation`, `refuseAttestation`, `submitReview`,
  `appendReviewEdit`, `publish`; reads `renderingInput`, `entityRenderingInput`,
  `issuerIssuanceStats`.
- **Hard.** Not concurrency (`node:sqlite` is synchronous, the only two-statement
  method runs in a transaction) but long legal histories: repeated purchases,
  attestations between purchases, retirement, free offerings, wrong callers.
- **Correct when.** No orphan rows; purchases and L1 receipts balance; chains ascend
  and do not fork; only the declared issuer signs; one review per standing; payers
  and free offerings stay within their role; nothing stored ever changes.

### 1.2 The invariant register: `v02/invariants.js`
- Stateless checks I-1 to I-7 and issuer binding over the tables.
- **Hard.** They re-derive the rules independently of the store.
- **Correct when.** Silent about every ledger the store wrote, and not silent about a
  broken one.

### 1.3 Rendering and publication: `v02/rendering.js`, the snapshot queries of `store.js`
- A pure function from a snapshot (bounded by a window end) to a manifest;
  `publications` keeps manifests.
- **Hard.** A manifest is recomputed from a ledger that has grown since, by rows whose
  callers date them; thresholds.
- **Correct when.** What was published recomputes unchanged unless a row dated inside its
  window was recorded since; nothing shows below the k-anonymity floor; an entity's record
  never gets shorter.

### 1.4 The ingestion spine: `pilot/runtime.js`, `pilot/canonical-txn.js`, `pilot/email.js`
- **State.** `pilot_txn_registry`, `pilot_delivery_claims`, `pilot_txn_deliveries` (the
  delivery lock), `pilot_receipt_deliveries`, `pilot_corroborations`,
  `pilot_txn_conflicts`, `pilot_webhook_events`, `pilot_events`, next to the ledger.
- **Operations.** `ingestTransaction` with `mintReceipt`, `corroborate`,
  `logTxnConflict`, `createClaim`, `deliverOnce`, `signPilotEvent`; the Stripe, Square
  and QuickBooks handlers with `webhookSeen` and `recordWebhookEvent`.
- **Interactions.** Several sources report one sale. Handlers of one server share an
  event loop and give way at awaits (enrichment, mail); `admin.js` is another process
  on the same file and interleaves at every statement. Providers redeliver. The mail
  server may refuse, or accept without its acknowledgement arriving.
- **Hard.** All of it: interleaving, crashes between statements, retries, ordering.
- **Correct when.** One sale, one receipt, one review right, at most one link; links
  work; only agreeing reports strengthen a receipt; locks are released.

### 1.5 Pilot reviews and signed scores: `pilot/runtime.js:774-872`
- Reviews by presented receipt or claim; scores signed over a window, in which
  corroborated receipts count as co-attested; evidence for recomputation.
- **Correct when.** A signed score recomputes from evidence fetched later, unless a row
  dated inside its window was recorded since.

### 1.6 The education adapter: `examples/education/adapter.js`
- **State.** An in-memory routing table over a store that outlives it.
- **Operations.** `registerOfferings`; `handle` for payment, enrolment, progress and
  completion events, which are retried and reordered.
- **Correct when.** A learner ends where the events lead, whatever their order, those that
  a failing write swallowed aside.

### 1.7 Connectors: `pilot/stripe.js`, `pilot/square.js`, `pilot/quickbooks.js`
- **State.** None of their own; they read offerings and links.
- **Operations.** The translation of a provider's event, a partner's body or an
  operator's order into what `ingestTransaction` takes; `resolveIssuerId`,
  `resolveDefaultOffering`.
- **Hard.** Several sources name one payment by different ids; statuses other than
  "completed" and "refunded"; refunds that come before, or instead of, the sale.
- **Correct when.** One payment makes one sale, whoever reports it; only money that
  moved, and stayed, grants a right.

### 1.8 Onboarding, keys and partner authentication: `pilot/runtime.js:286-429,699-709`, `pilot/keyring.js`, `pilot/partner-auth.js`, `mcp-http-server.js:13-40`
- **State.** Key files; `pilot_issuers`, `pilot_partners`, `pilot_offerings`,
  `pilot_partner_issuer_links`, `pilot_partner_nonces`, `pilot_events`; the ledger's
  `offerings`; each process's copy of the runtime's keys.
- **Operations.** The constructor (loads or creates the keys), `createIssuer`,
  `createPartner`, `addOffering`, `linkIssuer`, `provisionMerchants`,
  `ensureHostedDemoOffering`, `authenticateSignedPartner`.
- **Interactions.** The server (`pilot/server.js`), hosted MCP servers and one-shot
  `admin.js` commands share a directory and a database file. Nothing is in a
  transaction: every statement and file access stands alone.
- **Hard.** Two first starts; two creations of one issuer; a crash or a full disk between
  file, row and event; replays of signed requests across restarts.
- **Correct when.** Whoever is registered can sign and sell; processes serve one identity;
  the signed log is true; a nonce takes effect once; authority once given stays.

### 1.9 Not modelled
The read routes of the HTTP server and the MCP dispatch (stateless); signing and
canonical JSON (cryptography is taken as given: verified signatures, no forgeries,
injective hashes); signature checks and time windows of webhooks and partners (what they
reject leaves no trace); the SMTP dialogue; the consumer helpers (sequential clients that
keep nothing); `renderCrossVersion` (nothing calls it); demos, scripts, vectors and
documents (no part of the running system).

## 2. Modules

| Module | Models | State and actions |
|---|---|---|
| `Ledger` | the store | one variable per table; one action per writing method |
| `HealthCheck` | `invariants.js` over the tables | operators that yield the rows reported |
| `Rendering` | `rendering.js` | pure operators, no variables |
| `Publication` | snapshots and `publish`, on `Ledger` and `Rendering` | adds `publications` |
| `Pilot` | pilot reviews, corroborations, signed scores, on `Publication` | adds `now`, `corroborations`, `signed` |
| `CanonicalTxn` | `canonical-txn.js`, `conflictingFields`, near matches | pure operators |
| `Ingest` | the spine | one variable per table, `task` (where each handler is), `loop` (who holds each event loop), `mailbox`; one action per SQL statement |
| `Connectors` | the three connectors, partner bodies, manual orders, on `Ingest` | operators from an event to the set of reports it makes (one or none) |
| `Onboarding` | onboarding, keyring, partner authentication, and the programs that run them | one variable per table and for the key files; `program`, `signer`, `job` and `rest` (what each process runs, its key, its stack of calls); one action per statement or file access |
| `ReviewRight` | what ingestion promises (abstract) | `granted`, `sent` |
| `IngestRefinement` | `Ingest` implements `ReviewRight` and uses `Ledger` legally | refinement mappings |
| `Education` | the adapter, on `Ledger` | adds `routes` and histories of acknowledged and of swallowed events |
| `Ledger_proofs`, `HealthCheck_proofs`, `Pilot_proofs`, `Education_proofs` | proofs about the store, its check and its clients | |
| `Ingest_proofs`, `IngestRefinement_proofs`, `Connectors_proofs` | proofs about ingestion, its refinement and its reports | |
| `Onboarding_proofs` | proofs about onboarding, keys and partner requests | |
| `MCLedger`, `MCIngest`, `MCPublication`, `MCEducation`, `MCOnboarding` | finite instances | constants and symmetry |

How the code shows in the models:

- A table is a set of rows; `protocol_events` is a sequence, its key being its order.
  A primary key is a guard (the INSERT would throw) and an invariant (`KeysUnique`).
- A store method is one action: it is synchronous, and `recordTransaction` brackets
  its two INSERTs with BEGIN and COMMIT. Where the method throws before it writes the
  action is disabled. In `Ingest`, where an exception has consequences (the handler
  ends, the webhook is not recorded), throwing is a branch of the action.
- In `Ingest` a statement is one action and `pc` names the next. `Turn` says who may
  execute it: the handler holding its process's loop, or one whose await has ended and
  finds the loop free. Within one process code between two awaits is not interleaved;
  between processes everything is.
- `Crash` forgets what the handlers of a process held; tables stay. `WriteFails` is an
  exception from any write (busy file, full disk). Both are bounded by `MaxFaults`.
- In `Onboarding` a process is a stack of synchronous calls: `job` is the call that runs
  and where in it, `rest` what remains to be done when it returns. `Throw` answers the
  request of a server that is up, and ends any other process; `End` forgets memory and
  leaves files and tables. A call that another makes (`provisionMerchants` making
  `createIssuer`) is pushed by `Proceed`, so every operation is written once.
- What providers send is written down as events in `MCIngest`, and only `Connectors` turns
  them into the `Reports` of `Ingest`. An event carries two fields nobody sends, the real
  payment and what became of its money, which the properties compare the outcome with.
- uuids are members of finite sets, fresh on use. Signatures, texts, reasons, `env`
  labels and formats are left out. Weights are integers (eighths), scores
  ten-thousandths; quotients are exact where the code has doubles.
- Operators named `Slip...` are wrong variants of the definition that follows them.
  No action uses them. They are what each property is tried against: with the slip in
  place of the definition, TLC finds the property violated.

Composition: `Publication` EXTENDS `Ledger` and `Rendering`; `Pilot` and `Education`
drive `Ledger`'s actions; `IngestRefinement` INSTANCEs `Ledger` on the tables of
`Ingest`, so that the atomic purchase of the one is shown to be the atomic purchase of
the other. `Connectors` EXTENDS `Ingest`, and `MCIngest` composes both with the
refinement. What `Onboarding` leaves behind (`offered`, `links`, `issueAny`) is what
`Ingest` and `Connectors` take as the constants `IssuerOf`, `AccountOf` and `MayIssue`;
`AuthorityIsStable` is why constants will do: during an ingestion they may only grow.

## 3. Runs

State counts are distinct states. "Violation" runs record where the code does not do
what a comment or document of the repository says.

| Run | Question | Bounds | States |
|---|---|---|---|
| `ledger` | Do the store's rules keep the ledger well formed, and is the health check silent about it? | 2 issuers, holders, offerings, entities; 3 receipts, 2 purchases, 2 reviews, or 1 receipt and 1 event; legal and illegal prices, levels, roles and scores | 81,177 |
| `publication` | Do published and signed scores recompute unless a row dated inside the window is added, is the floor K distinct standings, do records never shorten, is nothing rewritten? | 2 holders, 1 offering, dates 0..1, K = 2, one manifest, one event or corroboration; `PublicationBound` | 249,774 |
| `ingest_requests` | One right, one link, working links, agreeing corroborations, near matches quarantined, refunds without effect of their own? | 8 reports of a card sale (one with another amount, one for another issuer's offering), its refund, and three cash sales about an hour apart, from Square, the books and two apps; 2 handlers on one loop, mail may be refused | 953,288 |
| `ingest_faults` | Is a recorded webhook processed, a recorded delivery mailed, a checkout known to the books under its own id one sale? | Stripe, QuickBooks and partner reports delivered twice, 2 faults, all mail failures | 1,698,671 |
| `ingest_processes` | Does ingestion implement `ReviewRight`, touch the ledger legally, answer every report and settle every lock? | one invoice and an order of a free offering through three processes, 1 fault, mail may be refused | 107,821 |
| `onboarding` | Can whoever is registered sign, is there one identity, is the log true, are nonces single, is nothing left half done, does authority stay, is the demo offering served, does nobody get stuck? | 2 processes of any kind; 2 issuers, a partner, an offering, an account both issuers are linked to; 3 commands, 3 requests (one forged, two under one nonce); 1 fault | 1,125,991 |
| `education` | Does a learner end where the events lead? | a paid and a free course, 1 learner, every event at any time, attestations that may fail to be written, 3 receipts | 461,852 |
| `ingest_lock` | violation: a crash during a send leaves the lock for ever (`runtime.js:129-132`) | | |
| `ingest_wedge` | violation: a crash after the ledger commit leaves a sale the registry never learns of | | |
| `ingest_stripe` | violation: Stripe reports a checkout by its session, an app by its payment: two receipts (`canonical-txn.js:12`) | | |
| `signed_late` | violation: a payment reported late changes a window that had ended when its score was signed (`mcp.js:24`, `store.js:303-306`) | | |
| `publication_integrity` | violation: issuer disclosures ignore the window (`store.js:303-306`) | | |

Why the bounds are enough. The ledger's rules compare at most two rows of a table (a
receipt and its predecessor, two reviews of one standing) or a row with its offering,
so two of each actor show every clash; three receipts give a chain of two links and a
purchase between. Ingestion's rules compare a report with the registry and two
handlers with each other; three processes are there so that a third finds what two
raced for. `K` = 2 stands for 10: the gate only compares counts. Two dates are
enough for a window and what comes after it, and every order of recording is tried with
them. `PublicationBound` keeps histories to five rows, the last of which comes after a
score was published or signed: two receipts, two reviews and then any row that could
change what is recomputed. The theorems of section 5
need no bounds. Onboarding's rules compare two processes at one file, row or offering; a third
process only adds losers of the same race. Two issuers and one account are what the unique
indexes of the links are about: the operator links the account to one issuer, the partner
reports it as the other's, in either order and at once (`Onboarding_proofs` has no such
bound). Events of the ledger stand beside the other tables, so `HistoryBound`
explores them in short histories only.

Named bounds: `HistoryBound`, `PublicationBound`, `MaxEvents`, `MaxTime`, `MaxPublications`, `MaxManifests`, `MaxLog`,
`MaxAttempts`, `MaxFaults`, and the sizes of the id sets. Deadlock checking is off
where these bounds do run out. In `onboarding` nothing runs out (processes may always be started) and
deadlock is checked. Symmetry is used for ids only, never in a run with liveness.

### Fairness
`FairSpec` of `Ingest` assumes weak fairness of `Advance(h)`, the next statement of a handler, and
of `Mail(h)`, the mail server's answer. The first is Node's event loop: a ready
callback is run, and no code between awaits waits for anything. The second is an
assumption about the environment, not something the code enforces: `readResponse`
(`email.js:47-65`) has no timeout and does not settle when the connection closes
silently. A server that never answers leaves the handler awaiting with its lock held.
Nothing is assumed of arrivals: no report need ever come or come again.

`FairSpec` of `Onboarding` assumes weak fairness of `Step(p)`, the next statement of a
process in the middle of a call: the code is synchronous and waits for nobody, so it goes
on until it returns, throws or the process dies. Nothing is assumed of starts, requests
or exits.

## 4. What the properties say

- **Ledger.** `NoOrphans` (I-1), `Reconciles` (I-2), `ChainsAscend` and `ChainsLinear`
  (I-3), `IssuerBinding` (D-12), `OneVoicePerStanding`, `RolesRespected` (F1, I-6),
  `FreeMeansNoPurchase` (F2), `AppendOnly` (I-5), `HealthCheckSilent`.
- **Publication.** I-4 promises that what is published recomputes. A row is dated by its
  caller: a purchase by the provider that reports it (`stripe.js:53`, `square.js:54`,
  stored by `store.js:157,165`), a review by its reviewer (`posted_at`). So a row may enter a
  window long after it ended, and the promise is kept only in part. `PublishedScoresRecompute`
  says which part: each publication remembers its sample, the receipts and reviews of its
  offerings dated inside the window, and as long as that sample is the same the manifest
  recomputes, whatever else was written (rows dated later, edits, retirements, relaunches,
  other offerings, refusals). Issuer disclosures and an entity's list of offerings, which
  the code does not bound by the window, are set aside. `SignedScoresRecompute` says it of the
  pilot's signed scores, where also corroborations, which the server dates, cannot change a
  window that had ended. `ClosedWindowsRecompute` is what `get_score_evidence` promises, with
  no condition on what is recorded; it fails with every clock right (`signed_late`).
  `PublishedMeansKStandings` is I-7, `EntityHistoryKept` T-8.
- **Ingestion.** `OneRightPerSale`, `OneLinkPerSale`, `LinksWork`,
  `CorroborationsAgree` (in issuer, offering, amount and currency),
  `NearMatchesQuarantined`, `RecordedMeansProcessed`,
  `DeliveredMeansMailed`, `ImplementsReviewRight`, `LedgerStepsLegal`, and under
  fairness `LocksSettle` and `HandlersReturn` (no handler waits for another: one that finds
  the delivery lock taken gives way). `IngestInv` is the inductive invariant of
  section 5.
- **Connectors.** `OneReceiptPerPayment`: no real payment is behind two registered sales.
  Holds between Stripe and the books where the books know the session's id, and fails where
  an app reports the payment's (`ingest_stripe`). `RefundsGrantNothing`: news of money given
  back grants nothing by itself.
- **Onboarding.** `MintersAccepted`: an issuer's key file holds the key its row names, and what
  it sells is declared under that key, or every sale of it would throw. `OneIdentity`:
  processes serve under one rendering key. Both make one exception, two processes that had
  both found the key file missing; `raced` records it, so the exception is exactly that race,
  which neither property therefore catches (section 7).
  `EventsTrue`: the signed log says nothing that did not happen, through crashes.
  `NothingHalfDone`: without a fault no statement of an onboarding is skipped; of faults it
  says nothing.
  `RequestsTakeEffectOnce`: replays do nothing. `AuthorityIsStable`: no step moves an account
  to another issuer, changes a row's key, or takes a right away. `DemoGetsServed` (under
  fairness): a host ends with the demo offering in place, however many start at once.
- **Education.** `StandingsFollowEvents`: the levels held were all earned by some
  acknowledged event, and every earned level is reached or exceeded, except for events that
  a failing write swallowed: the adapter answers them like the redundant ones. `RoutesMatchStore`:
  a registration cut short never routes events to what is not the provider's own.

## 5. Proofs

All proofs are checked by TLAPS with no step left out. Constants are only assumed to be
what the `ASSUME`s of the modules say (integers where compared, null outside the ids).

- **`Ledger_proofs`.** `LedgerInv` is inductive: `InitInv`, one lemma per action, `StepInv`.
  The properties do not stand alone. `Reconciles` counts rows, so it needs the tables
  finite and ids fresh (`TablesFinite`, `KeysUnique`); `OneVoicePerStanding` identifies
  reviews through their receipts, so it needs `KeysUnique` and `NoOrphans`; issuer
  binding of a new row needs the offering to be unique. Theorems: `LedgerInvariant`,
  `TypeCorrect`, `Reconciliation`, `OneVoice`, `NeverRewritten` and one for each of the other
  properties of the `ledger` run.
- **`HealthCheck_proofs`.** `NoFalseAlarm`: the checks say nothing about a ledger the store
  can reach. `SilenceMeansSound`: whatever is in storage, a silent check implies balance,
  chains, resolvable rows, declared issuers of receipts, and facet rules.
- **`Ingest_proofs`.** `RightsInv` strengthens the promise about rights with `Established`,
  what a handler knows at each `pc` (before `register`: a committed transaction and
  receipt nobody else carries). `LinksInv` adds that a sale whose link is out or under
  way is locked and by one handler only. It is inductive only where a failed delivery
  delivered nothing: `OneLink` assumes `MailFailures \subseteq {"refused"}`, and the code
  breaks the promise without it (section 7). Theorems: `IngestInvariant`,
  `IngestTypeCorrect`, `OneRight`, `LinksRedeemable`, `OneLink`.
- **`IngestRefinement_proofs`.** `ReviewRightImplemented`, under the same assumption: a step
  grants one right (`Register`), sends one link (`MailAccepts`), or stutters.
  `LedgerStepsAreLegal`: only `Mint` touches the ledger, as `RecordTransaction` does.
- **`Onboarding_proofs`.** `TypeCorrect` first (whatever is on a stack is a call), then
  `OnboardingInv`, a part per property: what a process knows at each statement, for instance
  that the file it wrote still holds its key unless the file was raced for (`KeysInv`), or
  that no other process serves under the nonce it inserted (`NoncesInv`). `StepShape` sorts
  all steps into those that store nothing the invariant speaks of (`Quiet`) and a handful
  that do, and one lemma per part goes through these. Theorems: `OnboardingInvariant`,
  `IssuersCanSign`, `OneRenderingKey`, `LogTrue`, `NoReplay`, `HalvesCompleted` and, over
  steps, `AuthorityStays`: all the safety properties of the `onboarding` run. They assume
  only that the names of issuers, partners and the runtime's own key file are distinct and
  commands and requests well formed.
- **`Connectors_proofs`.** Two further invariants of ingestion. `ReportsInv` says what the
  statement a handler is about to execute rests on (`Answered`): before `corroborate`, a
  registered sale under that key which the report agrees with; after a delivery, the
  message; before the webhook is recorded, a registered sale or a conflict this very attempt
  quarantined. The tables it speaks of only grow, so no other handler, process or crash
  takes it away. With it go `FactsInKeys` (a key shows the issuer and the
  basis its row was registered with; `KeyShowsFacts` reads them back) and `SalesReported`, for properties that compare
  rows with reports. Theorems without hypotheses: `DeliveriesWereMailed`,
  `CorroborationsHold`, `RecordsWereProcessed`. `AloneInv` says that a handler keeps its
  event loop from the search for near matches to the registration, so no one else can
  register in between. That is true of one process and not of two, hence the hypothesis
  `OneServer` of `NearMatchesNeverMint` (admin commands, which need no search, may run
  beside it). `OneReceipt` and `RefundsMintNothing` depend on what providers send:
  `OneReceipt` assumes that reports of one payment agree on its key (`SameKeys`),
  `RefundsMintNothing` that news of returned money is told apart and carries its payment's
  key. TLC finds these hypotheses true of the events of every passing run; the run where
  `SameKeys` is false is `ingest_stripe`, where the code breaks the promise. What the code
  contributes to it is proved of all events: `KeysSeparateSales` says which facts decide
  whether two reports have one key, `SquareKeysAgree` that Square, an app and the books
  agree where each names the payment by its id, and `StripeKeysDiffer` that Stripe's report
  and one by the payment's id never do, which is the finding without a bound.
- **`Pilot_proofs`.** `PilotKeepsLedger` is a refinement: every step of the pilot is a step
  of `Ledger`'s `Spec` or a stutter, so everything proved of the store holds under it
  (`PilotNeverRewrites`, `PilotPassesHealthCheck`). For the rest the induction is on
  `PilotInv`: `LedgerInv`, `HistoryKept` and the three properties. `HistoryKept` says that a
  remembered sample is part of today's and that no score was signed later than `now`: tables
  only grow, so a sample equal to the remembered one was equal at every step between, and
  each step need only be compared with the one before. Where the sample stays the same, a
  snapshot changes in nothing but the issuance statistics and the list of offerings
  (`RenderedAlike`, `EntityRenderedAlike`), which is what `Undisclosed` and `Unlisted` set
  aside; nothing is assumed of the dates rows carry. No law of
  sums is needed: equal arguments give equal folds. `KStandings` needs `OneVoicePerStanding`
  and `Counted`, that a one-to-one map keeps a count. Theorems: `PublishedScores`,
  `SignedScores`, `KStandings`, and over steps `EntityHistory`: offerings and reviews stay,
  so the record never gets shorter.
- **`Education_proofs`.** `EduInv`: `LedgerInv`, the two properties (what an event adds to
  `Heeded` is `HeededBy`), and `RoutesFromCatalog`
  (a route is an entry of the catalog), which a handler needs to know that the offering it
  attests on is the provider's. Registering declares any prefix of the catalog in one step,
  so this is no refinement of the ledger step by step and `LedgerInv` is carried along; that
  no entry hides a later one with the same reference follows from `NamedFirst`. Theorems:
  `EducationKeepsLedger`, with `EducationNeverRewrites` and `EducationPassesHealthCheck`,
  `RoutesHold`, `LearnersEndWhereEventsLead`. They assume nothing of the catalog but the
  shape of its entries.

Every inductive invariant was first an invariant of a TLC run.

Every invariant and every action property the passing runs check is thereby proved of all
instances, under the hypotheses named. Model-checked only: `LocksSettle`, `HandlersReturn`
and `DemoGetsServed`, since liveness under fairness, and ENABLED, are beyond the prover. Not
proved either is that all sources of a payment name it alike, the hypotheses of `OneReceipt`
and `RefundsMintNothing`: that is a matter of what is sent, and of the events written down
in `MCIngest`. What the rendering's sums amount to (as opposed to when two renderings agree)
would take induction over folds, which the library's theorems offer only with an operator
parameter. No module uses a RECURSIVE operator.

Some operators were given a form the provers can follow, with the same meaning and the same
states in every run: decisions of `Ingest` whose cases overlapped in order are IF/ELSE
chains in the order of the code; a report is one record (`ReportOf`); the rendering of an
entity and its record are named operators (`EntityScore`, `EntityRecord`, `Facet`) instead
of local ones; the registration of the adapter is a condition on the prefix it declares
(`DeclaresPrefix`) instead of a CHOOSE.

## 6. Plan

Done: the core (ledger, health check, ingestion with its refinement, publication), its
clients (pilot, education), the connectors in front of ingestion, onboarding with keys and
partner authentication beside it, and proofs of every safety and action property of the
passing runs. Next, in this order:

1. **Onboarding meets ingestion.** That what `Onboarding` keeps invariant (`AuthorityIsStable`,
   `MintersAccepted`) discharges what `Ingest` takes as constants.
2. **Two servers and near matches.** What remains of `NearMatchesQuarantined` without
   `OneServer`: that two near matches were then under way at the same time.
3. **Corroborations of the minting source.** `Pilot` composed with the event loop of
   `Ingest`, where a Square event redelivered during an await corroborates its own receipt.
4. **Health check over seeded storage**, for what its silence does not cover.

## 7. Where code and documents differ, beyond the violation runs

- "Standing ... is monotonic: it only ascends, and each ascension chains to the prior
  receipt" (`receipts.js:7-8`): `recordTransaction` applies no such rule, so a holder attested
  at L2 who buys again gets an L1 receipt chained to nothing (`store.js:150`).
- "Dedup on the entity change itself so a retry does not re-enrich ... or append another
  corroboration" (`runtime.js:745-746`): a notification redelivered while the first delivery
  awaits enrichment does both.
- "Deliver the review link at most once" (`runtime.js:530-531`): a message accepted
  whose acknowledgement is lost, or whose delivery INSERT fails, releases the lock, and
  the next report sends a second link.
- A reviewer of a paid offering is classed `verified_purchaser` by price alone
  (`store.js:280`), also when the receipt is an attestation without a purchase.
- `registerOfferings` is called idempotent (`adapter.js:96`); a second call, or the first
  after a restart on a kept store, throws on its first entry. After a restart the
  adapter then routes nothing.
- A redelivered payment mints a second L1 in the adapter; its README says a production
  adapter must deduplicate by event id.
- An entity's published list of offerings is not bounded by the window
  (`store.js:357-364`).
- Windows bound rows by the date their callers give, not by when they were recorded: not only
  late payments (`signed_late`) but a review dated back by its reviewer (`runtime.js:798`), or a
  row recorded in the last instant of an inclusive window, changes what was published of it.
- "A COMPLETED payment is a transaction; a refund is a reversal" (`square.js:34-35`): any
  `payment.updated` that is not refunded becomes a transaction, so a failed, cancelled or
  merely approved payment with an amount mints a receipt (`square.js:45`).
- "Expected for replayed / out-of-order webhooks — not failures" (`adapter.js:212-213`): the
  catch takes every error of the store for such, so an attestation that could not be written
  is answered with a no-op and the platform has no reason to send the event again.
- The I-4 check does not recognise cross-version subjects (`rendering.js:212`,
  `invariants.js:105-112`).
- A reversal before its sale is dropped; a partial refund is quarantined as a conflict; a
  reversed sale's review still counts in full.
- Views and facets of an open gate may show few reviewers (`rendering.js:127`); the
  documents allow two readings.
- Appended edits are stored and never rendered; claims are never consumed (the ledger
  refuses the second review).
- "The one public identity every hosted read serves under" (`runtime.js:302`): two first
  starts each generate the key, the file keeps the later one, and the earlier process serves
  under a key nobody can load again until it restarts.
- A crash or failed write between key file and row, or between ledger row and pilot row,
  cannot be completed by any call: `createSubjectKey` and `declareOffering` throw on every
  retry, and `provisionMerchants` with it. `MintersAccepted` still holds; the issuer or the
  offering just never comes to be.
- `linkIssuer` returns, and signs an event for, a link the table ignored because the merchant
  or the account was linked before (`runtime.js:404-408`).
- A nonce is spent before its request is served (`runtime.js:421-428`): a request that then
  fails has to be signed anew, and one whose answer was lost is told its nonce was used.
- "Auth is a per-partner shared secret for the pilot", says a comment on `POST /v1/transactions`
  (`server.js:162-163`); the code authenticates signatures.
- The consumer's fall back to unpinned scores is said to be "surfaced per-result in `reason`"
  (`audiencescore-select.js`, `rankTools`); the reasons are the same with and without it.
