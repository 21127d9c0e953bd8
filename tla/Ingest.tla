------------------------------- MODULE Ingest -------------------------------
(***************************************************************************)
(* The pilot ingestion spine: ingestTransaction, corroborate, deliverOnce  *)
(* and the three webhook handlers of pilot/runtime.js.                     *)
(*                                                                         *)
(* A handler is one execution of a request or of an admin command.  It     *)
(* runs in an operating-system process (the server, or a one-shot          *)
(* admin.js on the same SQLite file).  Each process has one event loop:    *)
(* while a handler holds it no other handler of that process moves, and    *)
(* it lets go only at an await (enrichment, mail) or when it returns.      *)
(* Handlers of different processes interleave at every SQL statement, and  *)
(* a process may die between any two of them.  So each statement is one    *)
(* action, and pc names the statement a handler executes next.             *)
(*                                                                         *)
(* Tables are sets of rows; a row a handler inserts with a fresh uuid is   *)
(* told apart by `by`, the attempt <<report, n>> that inserted it.  The    *)
(* mail server and the webhook providers are the environment.              *)
(***************************************************************************)
EXTENDS CanonicalTxn, FiniteSets

CONSTANTS
  Handlers,        \* concurrent executions
  Procs,           \* operating-system processes
  ProcOf,          \* the process a handler runs in
  AdminProcs,      \* the processes that run admin.js
  Reports,         \* what sources may report, see ReportsAssumption
  ReceiptIds,      \* receipt uuids
  MayIssue,        \* <<source, issuer>> pairs assertPartnerMayIssue accepts
  IssuerOf,        \* active pilot offerings and the issuer each is registered to
  FreeOfferings,   \* those declared without a price
  MailFailures,    \* how a delivery may fail, see IngestAssumption
  MaxAttempts,     \* bound on the deliveries of one report
  MaxFaults,       \* bound on crashes and failed statements
  Nobody           \* a free event loop, an idle handler

ASSUME IngestAssumption ==
  /\ ProcOf \in [Handlers -> Procs]
  /\ AdminProcs \subseteq Procs
  /\ FreeOfferings \subseteq DOMAIN IssuerOf /\ Null \notin DOMAIN IssuerOf
  /\ MailFailures \subseteq {"refused", "unacknowledged", "unrecorded"}
  /\ MaxAttempts \in Nat /\ MaxFaults \in Nat
  /\ Nobody \notin Handlers /\ Nobody \notin Reports

\* A report names the event it came with (the webhook dedup key), the channel it
\* arrives on and the source it is attributed to ("manual" when no partner is);
\* admin.js issue-manual insists on a reference.
ASSUME ReportsAssumption ==
  \A r \in Reports :
    /\ r.channel \in {"stripe", "square", "quickbooks", "partner", "manual"}
    /\ r.kind \in {"transaction", "reversal"}
    /\ r.source = "manual" <=> r.channel \in {"stripe", "manual"}
    /\ r.channel \in {"stripe", "manual"} => r.kind = "transaction"
    /\ r.channel = "manual" => HasRailId(r)
    /\ r.at \in Int
    /\ \A s \in Reports : r.name = s.name => r = s

VARIABLES
  transactions, \* ledger rows, written with the receipt in one commit
  receipts,     \* L1 receipts, one per committed transaction
  registry,     \* pilot_txn_registry
  claims,       \* pilot_delivery_claims
  locks,        \* pilot_txn_deliveries
  deliveries,   \* pilot_receipt_deliveries
  corroborations, \* pilot_corroborations
  conflicts,    \* pilot_txn_conflicts
  webhooks,     \* pilot_webhook_events
  signed,       \* pilot_events of ingestion
  mailbox,      \* messages the mail server accepted
  task,         \* what each handler is executing
  loop,         \* the handler that holds each process's event loop
  attempts,     \* deliveries of each report so far
  faults        \* crashes and failed statements so far

tables == <<transactions, receipts, registry, claims, locks, deliveries,
            corroborations, conflicts, webhooks, signed>>
vars == <<tables, mailbox, task, loop, attempts, faults>>

-----------------------------------------------------------------------------
(* Handlers and event loops *)

Idle == [pc |-> "idle", report |-> Nobody, try |-> 0, receipt |-> Nobody]

\* Definitions named Slip... are wrong forms a plausible bug would give to the
\* definition that follows; no action uses them.  The properties at the end of
\* the module are also tried against the module with a slip in place.

SlipYielding == {"idle", "enrich", "send", "mint"}

\* Where a handler lets its event loop go: it returned, or it awaits.
Yielding == {"idle", "enrich", "send"}

Free(p) == loop[p] = Nobody

\* h may execute the statement at pc: it holds its loop, or awaited and the loop
\* is free to be taken back.
Turn(h, pc) == task[h].pc = pc /\ loop[ProcOf[h]] \in {h, Nobody}

By(h) == <<task[h].report.name, task[h].try>>

WrittenBy(rows, h) == \E row \in rows : row.by = By(h)

KeyOf(h) == CanonicalKey(task[h].report, By(h))

LoopAfter(h, pc) ==
  loop' = [loop EXCEPT ![ProcOf[h]] = IF pc \in Yielding THEN Nobody ELSE h]

Goto(h, pc) ==
  /\ task' = [task EXCEPT ![h].pc = pc]
  /\ LoopAfter(h, pc)

\* The handler returned or threw.
Finish(h) ==
  /\ task' = [task EXCEPT ![h] = Idle]
  /\ LoopAfter(h, "idle")

IsWebhook(r) == r.channel \in {"stripe", "square", "quickbooks"}

\* Control goes back to the caller of ingestTransaction: a webhook handler then
\* records its event, the others answer.
Return(h) ==
  IF IsWebhook(task[h].report) THEN Goto(h, "record") ELSE Finish(h)

-----------------------------------------------------------------------------
(* Arrival *)

\* Commands run in admin processes, requests in the others.
Accepts(h, r) == r.channel = "manual" <=> ProcOf[h] \in AdminProcs

\* webhookSeen
Seen(r) == IsWebhook(r) /\ r.name \in webhooks

SlipReceive(h, r) ==
  /\ task[h] = Idle /\ Free(ProcOf[h]) /\ Accepts(h, r)
  /\ attempts[r] < MaxAttempts
  /\ ~Seen(r)
  /\ LET first == IF r.channel = "quickbooks" THEN "enrich" ELSE "lookup" IN
       /\ task' = [task EXCEPT ![h] =
            [pc |-> first, report |-> r, try |-> attempts[r] + 1, receipt |-> Nobody]]
       /\ LoopAfter(h, first)
  /\ attempts' = [attempts EXCEPT ![r] = @ + 1]
  /\ webhooks' = IF IsWebhook(r) THEN webhooks \cup {r.name} ELSE webhooks
  /\ UNCHANGED <<transactions, receipts, registry, claims, locks, deliveries,
                 corroborations, conflicts, signed, mailbox, faults>>

\* A report arrives, for the first time or again.  QuickBooks awaits enrichment
\* before it ingests; the others go on within the same turn of the loop.
Receive(h, r) ==
  /\ task[h] = Idle /\ Free(ProcOf[h]) /\ Accepts(h, r)
  /\ attempts[r] < MaxAttempts
  /\ ~Seen(r)
  /\ LET first == IF r.channel = "quickbooks" THEN "enrich" ELSE "lookup" IN
       /\ task' = [task EXCEPT ![h] =
            [pc |-> first, report |-> r, try |-> attempts[r] + 1, receipt |-> Nobody]]
       /\ LoopAfter(h, first)
  /\ attempts' = [attempts EXCEPT ![r] = @ + 1]
  /\ UNCHANGED <<tables, mailbox, faults>>

\* quickbooksEnrich resolved: the handler resumes.  It rejected: the webhook fails.
ResumeEnriched(h) ==
  /\ Turn(h, "enrich")
  /\ Goto(h, "lookup") \/ Finish(h)
  /\ UNCHANGED <<tables, mailbox, attempts, faults>>

-----------------------------------------------------------------------------
(* ingestTransaction up to its decision: reads only *)

RowsFor(key) == {e \in registry : e.key = key}

Near(r) == {e \in registry : NearMatch(e, r)}

\* The checks before the canonical key is computed; each throws.
Admissible(r) ==
  /\ <<r.source, r.issuer>> \in MayIssue
  /\ r.offering \in DOMAIN IssuerOf
  /\ r.kind = "reversal" \/ (r.amount # Null /\ r.amount > 0)

\* What the row of its key, or there being none, makes of a report.
Decision(r, key) ==
  LET rows == RowsFor(key) IN
  IF rows # {}
  THEN IF \/ \E e \in rows : Conflicting(e, r)
          \/ r.kind = "transaction" /\ Basis(r) = "surrogate"
       THEN "conflict" ELSE "corroborate"
  ELSE IF r.kind = "reversal" THEN "return"
  ELSE IF Basis(r) = "surrogate" THEN "search" ELSE "mint"

\* The first SELECT of the registry.
Lookup(h) ==
  LET r == task[h].report
      decision == Decision(r, KeyOf(h)) IN
  /\ Turn(h, "lookup")
  /\ IF ~Admissible(r) THEN Finish(h)
     ELSE IF decision = "return" THEN Return(h)
     ELSE Goto(h, decision)
  /\ UNCHANGED <<tables, mailbox, attempts, faults>>

\* The second, which only a surrogate key calls for.
FindSurrogateAmbiguity(h) ==
  /\ Turn(h, "search")
  /\ Goto(h, IF Near(task[h].report) # {} THEN "conflict" ELSE "mint")
  /\ UNCHANGED <<tables, mailbox, attempts, faults>>

-----------------------------------------------------------------------------
(* The statements that follow, in order *)

SlipTxIdUsed(key) == FALSE

TxIdUsed(key) == \E t \in transactions : t.id = key

SlipTxId(h) == By(h)

\* The canonical key is the tx_id: the ledger itself refuses a second mint of a sale.
TxId(h) == KeyOf(h)

\* mintReceipt: recordTransaction commits the transaction and the receipt of a
\* random holder together; a used tx_id, an unknown role, a free offering or one
\* registered to another issuer throws.
Mint(h) ==
  LET r == task[h].report IN
  /\ Turn(h, "mint")
  /\ IF /\ IssuerOf[r.offering] = r.issuer /\ r.offering \notin FreeOfferings
        /\ r.role \in {"participant", "payer"}
        /\ ~TxIdUsed(TxId(h))
     THEN \E id \in ReceiptIds :
            /\ \A rc \in receipts : rc.id # id
            /\ transactions' = transactions \cup
                 {[id |-> TxId(h), issuer |-> r.issuer, offering |-> r.offering,
                   at |-> r.at]}
            /\ receipts' = receipts \cup
                 {[id |-> id, issuer |-> r.issuer, holder |-> id,
                   role |-> r.role, offering |-> r.offering, level |-> 1,
                   prev |-> Null, coattested |-> FALSE, at |-> r.at]}
            /\ task' = [task EXCEPT ![h].pc = "register", ![h].receipt = id]
            /\ LoopAfter(h, "register")
     ELSE Finish(h) /\ UNCHANGED <<transactions, receipts>>
  /\ UNCHANGED <<registry, claims, locks, deliveries, corroborations, conflicts,
                 webhooks, signed, mailbox, attempts, faults>>

\* The key is the primary key of pilot_txn_registry: a second row would throw.
Register(h) ==
  LET r == task[h].report IN
  /\ Turn(h, "register")
  /\ IF RowsFor(KeyOf(h)) = {}
     THEN /\ registry' = registry \cup
               {[key |-> KeyOf(h), receipt |-> task[h].receipt, issuer |-> r.issuer,
                 offering |-> r.offering, mintedBy |-> r.source, basis |-> Basis(r),
                 amount |-> r.amount, currency |-> r.currency, at |-> r.at,
                 customer |-> r.customer]}
          /\ Goto(h, "claim")
     ELSE Finish(h) /\ UNCHANGED registry
  /\ UNCHANGED <<transactions, receipts, claims, locks, deliveries, corroborations,
                 conflicts, webhooks, signed, mailbox, attempts, faults>>

\* corroborate: the partner's signature over the receipt, when there is a partner.
Corroborate(h) ==
  LET r == task[h].report IN
  /\ Turn(h, "corroborate")
  /\ \E e \in RowsFor(KeyOf(h)) :
       /\ corroborations' = corroborations \cup
            {[by |-> By(h), key |-> e.key, receipt |-> e.receipt, source |-> r.source,
              amount |-> r.amount, kind |-> r.kind, signed |-> r.source # "manual"]}
       /\ LET next == IF r.kind = "transaction" /\ r.customer # Null
                      THEN "claim" ELSE "event" IN
            /\ task' = [task EXCEPT ![h].pc = next, ![h].receipt = e.receipt]
            /\ LoopAfter(h, next)
  /\ UNCHANGED <<transactions, receipts, registry, claims, locks, deliveries,
                 conflicts, webhooks, signed, mailbox, attempts, faults>>

\* logTxnConflict: the report is quarantined.
LogConflict(h) ==
  /\ Turn(h, "conflict")
  /\ conflicts' = conflicts \cup {[by |-> By(h), key |-> KeyOf(h)]}
  /\ Goto(h, "event")
  /\ UNCHANGED <<transactions, receipts, registry, claims, locks, deliveries,
                 corroborations, webhooks, signed, mailbox, attempts, faults>>

SlipCreateClaim(h) ==
  /\ Turn(h, "claim")
  /\ claims' = IF WrittenBy(corroborations, h) THEN claims
               ELSE claims \cup {[token |-> By(h), receipt |-> task[h].receipt]}
  /\ Goto(h, IF task[h].report.customer = Null THEN "event" ELSE "lock")
  /\ UNCHANGED <<transactions, receipts, registry, locks, deliveries, corroborations,
                 conflicts, webhooks, signed, mailbox, attempts, faults>>

\* createClaim; without a contact deliverOnce returns at once.
CreateClaim(h) ==
  /\ Turn(h, "claim")
  /\ claims' = claims \cup {[token |-> By(h), receipt |-> task[h].receipt]}
  /\ Goto(h, IF task[h].report.customer = Null THEN "event" ELSE "lock")
  /\ UNCHANGED <<transactions, receipts, registry, locks, deliveries, corroborations,
                 conflicts, webhooks, signed, mailbox, attempts, faults>>

SlipAfterLock(h) == "send"

SlipAfterLockAwaitless(h) == IF KeyOf(h) \in locks THEN "event" ELSE "sent"

SlipAfterLockWaiting(h) == IF KeyOf(h) \in locks THEN "lock" ELSE "send"

\* The INSERT tells who inserted the lock: that handler sends, and awaits.
AfterLock(h) == IF KeyOf(h) \in locks THEN "event" ELSE "send"

\* INSERT OR IGNORE of the delivery lock.
Lock(h) ==
  /\ Turn(h, "lock")
  /\ locks' = locks \cup {KeyOf(h)}
  /\ Goto(h, AfterLock(h))
  /\ UNCHANGED <<transactions, receipts, registry, claims, deliveries, corroborations,
                 conflicts, webhooks, signed, mailbox, attempts, faults>>

\* The send resolved: the delivery is put on record.
RecordDelivery(h) ==
  /\ Turn(h, "sent")
  /\ deliveries' = deliveries \cup {[key |-> KeyOf(h), receipt |-> task[h].receipt]}
  /\ Goto(h, "event")
  /\ UNCHANGED <<transactions, receipts, registry, claims, locks, corroborations,
                 conflicts, webhooks, signed, mailbox, attempts, faults>>

SlipUnlock(h) ==
  /\ Turn(h, "refused")
  /\ Goto(h, "event")
  /\ UNCHANGED <<tables, mailbox, attempts, faults>>

\* The send rejected: the lock is released for a later report.
Unlock(h) ==
  /\ Turn(h, "refused")
  /\ locks' = locks \ {KeyOf(h)}
  /\ Goto(h, "event")
  /\ UNCHANGED <<transactions, receipts, registry, claims, deliveries, corroborations,
                 conflicts, webhooks, signed, mailbox, attempts, faults>>

\* signPilotEvent, of the kind the handler's own rows call for.
SignEvent(h) ==
  /\ Turn(h, "event")
  /\ signed' = signed \cup
       {[by |-> By(h), key |-> KeyOf(h),
         type |-> IF WrittenBy(conflicts, h) THEN "transaction_conflict"
                  ELSE IF WrittenBy(corroborations, h) THEN "transaction_corroborated"
                  ELSE "receipt_issued"]}
  /\ Return(h)
  /\ UNCHANGED <<transactions, receipts, registry, claims, locks, deliveries,
                 corroborations, conflicts, webhooks, mailbox, attempts, faults>>

\* recordWebhookEvent (INSERT OR IGNORE), then the provider gets its answer.
RecordWebhook(h) ==
  /\ Turn(h, "record")
  /\ webhooks' = webhooks \cup {task[h].report.name}
  /\ Finish(h)
  /\ UNCHANGED <<transactions, receipts, registry, claims, locks, deliveries,
                 corroborations, conflicts, signed, mailbox, attempts, faults>>

-----------------------------------------------------------------------------
(* The mail server, outside every event loop *)

Message(h) == [key |-> KeyOf(h), token |-> By(h), receipt |-> task[h].receipt]

MailAccepts(h) ==
  /\ task[h].pc = "send"
  /\ mailbox' = mailbox \cup {Message(h)}
  /\ task' = [task EXCEPT ![h].pc = "sent"]
  /\ UNCHANGED <<tables, loop, attempts, faults>>

MailRefuses(h) ==
  /\ "refused" \in MailFailures
  /\ task[h].pc = "send"
  /\ task' = [task EXCEPT ![h].pc = "refused"]
  /\ UNCHANGED <<tables, mailbox, loop, attempts, faults>>

\* The message is accepted but its acknowledgement is lost: the client sees an error.
MailAcceptsUnacknowledged(h) ==
  /\ "unacknowledged" \in MailFailures
  /\ task[h].pc = "send"
  /\ mailbox' = mailbox \cup {Message(h)}
  /\ task' = [task EXCEPT ![h].pc = "refused"]
  /\ UNCHANGED <<tables, loop, attempts, faults>>

-----------------------------------------------------------------------------
(* Faults *)

\* The process dies: what its handlers held in memory is gone, the file stays.
Crash(p) ==
  /\ faults < MaxFaults
  /\ \E h \in Handlers : ProcOf[h] = p /\ task[h] # Idle
  /\ task' = [h \in Handlers |-> IF ProcOf[h] = p THEN Idle ELSE task[h]]
  /\ loop' = [loop EXCEPT ![p] = Nobody]
  /\ faults' = faults + 1
  /\ UNCHANGED <<tables, mailbox, attempts>>

\* A write throws (another process holds the write lock of the file, the disk is
\* full) and the handler with it.
WriteFails(h) ==
  /\ faults < MaxFaults
  /\ \E pc \in {"mint", "register", "corroborate", "conflict", "claim", "lock",
                "refused", "event", "record"} : Turn(h, pc)
  /\ Finish(h)
  /\ faults' = faults + 1
  /\ UNCHANGED <<tables, mailbox, attempts>>

\* Only the insert of a delivery is caught, and handled like a failed send.
RecordDeliveryFails(h) ==
  /\ "unrecorded" \in MailFailures
  /\ faults < MaxFaults
  /\ Turn(h, "sent")
  /\ Goto(h, "refused")
  /\ faults' = faults + 1
  /\ UNCHANGED <<tables, mailbox, attempts>>

-----------------------------------------------------------------------------

Init ==
  /\ transactions = {} /\ receipts = {} /\ registry = {} /\ claims = {}
  /\ locks = {} /\ deliveries = {} /\ corroborations = {} /\ conflicts = {}
  /\ webhooks = {} /\ signed = {} /\ mailbox = {}
  /\ task = [h \in Handlers |-> Idle]
  /\ loop = [p \in Procs |-> Nobody]
  /\ attempts = [r \in Reports |-> 0]
  /\ faults = 0

\* The statements of a handler that has taken its report in.
Advance(h) ==
  \/ ResumeEnriched(h) \/ Lookup(h) \/ FindSurrogateAmbiguity(h) \/ Mint(h)
  \/ Register(h) \/ Corroborate(h) \/ LogConflict(h) \/ CreateClaim(h) \/ Lock(h)
  \/ RecordDelivery(h) \/ Unlock(h) \/ SignEvent(h) \/ RecordWebhook(h)

Mail(h) == MailAccepts(h) \/ MailRefuses(h) \/ MailAcceptsUnacknowledged(h)

Next ==
  \/ \E h \in Handlers : (\E r \in Reports : Receive(h, r)) \/ Advance(h) \/ Mail(h)
                         \/ WriteFails(h) \/ RecordDeliveryFails(h)
  \/ \E p \in Procs : Crash(p)

Spec == Init /\ [][Next]_vars

\* Node runs every ready callback, and the mail server answers every message.
Fairness == \A h \in Handlers : WF_vars(Advance(h)) /\ WF_vars(Mail(h))

FairSpec == Spec /\ Fairness

-----------------------------------------------------------------------------
(* Properties *)

Pcs == {"idle", "enrich", "lookup", "search", "mint", "register", "claim", "lock", "send",
        "sent", "refused", "event", "record", "corroborate", "conflict"}

Tokens == {<<r.name, n>> : r \in Reports, n \in 1..MaxAttempts}

\* The canonical keys the reports can resolve to.
SaleKeys == {CanonicalKey(r, token) : r \in Reports, token \in Tokens}

TaskType ==
  {Idle} \cup [pc : Pcs \ {"idle"}, report : Reports, try : 1..MaxAttempts,
              receipt : ReceiptIds \cup {Nobody}]

RegistryRow ==
  [key : SaleKeys, receipt : ReceiptIds, issuer : {r.issuer : r \in Reports},
   offering : DOMAIN IssuerOf, mintedBy : {r.source : r \in Reports},
   basis : {"rail", "surrogate", "unique"}, amount : {r.amount : r \in Reports},
   currency : {r.currency : r \in Reports}, at : {r.at : r \in Reports},
   customer : {r.customer : r \in Reports}]

\* Every table and every handler holds well-formed data: in particular no handler
\* gets past "register" without a receipt in hand (claims and mails name one).
TypeOK ==
  /\ \A t \in transactions : t.id \in SaleKeys /\ t.offering \in DOMAIN IssuerOf
  /\ \A rc \in receipts : rc.id \in ReceiptIds
  /\ registry \subseteq RegistryRow
  /\ claims \subseteq [token : Tokens, receipt : ReceiptIds]
  /\ locks \subseteq SaleKeys
  /\ deliveries \subseteq [key : SaleKeys, receipt : ReceiptIds]
  /\ mailbox \subseteq [key : SaleKeys, token : Tokens, receipt : ReceiptIds]
  /\ webhooks \subseteq {r.name : r \in Reports}
  /\ task \in [Handlers -> TaskType]
  /\ loop \in [Procs -> Handlers \cup {Nobody}]
  /\ attempts \in [Reports -> 0..MaxAttempts]
  /\ faults \in 0..MaxFaults

\* "One canonical key -> one transactions row -> one receipt -> one review-right":
\* whatever the sources, processes and crashes, a sale is registered once, with a
\* receipt no other sale has, and the ledger holds one receipt per transaction.
OneRightPerSale ==
  /\ \A e, f \in registry : e.key = f.key \/ e.receipt = f.receipt => e = f
  /\ \A t, u \in transactions : t.id = u.id => t = u
  /\ Cardinality(receipts) = Cardinality(transactions)
  /\ \A e \in registry :
       /\ \E t \in transactions :
            t.id = e.key /\ t.issuer = e.issuer /\ t.offering = e.offering
       /\ \E rc \in receipts :
            rc.id = e.receipt /\ rc.issuer = e.issuer /\ rc.offering = e.offering

\* Every link that reached a mailbox can be redeemed, and for the receipt its own
\* sale is registered with.
LinksWork ==
  \A m \in mailbox :
    /\ [token |-> m.token, receipt |-> m.receipt] \in claims
    /\ \E e \in RowsFor(m.key) : e.receipt = m.receipt

\* "Deliver the review link at most once per canonical transaction, no matter how
\* many sources report it": no two messages for one sale.
OneLinkPerSale == \A m, n \in mailbox : m.key = n.key => m = n

\* What a handler has established by the time it executes the statement at its pc.
Established(h) ==
  LET t == task[h] IN
  /\ t.pc \in {"search", "mint", "register"} => t.report.offering \in DOMAIN IssuerOf
  /\ t.pc = "register" =>
       /\ \E tx \in transactions :
            tx.id = KeyOf(h) /\ tx.issuer = t.report.issuer /\ tx.offering = t.report.offering
       /\ \E rc \in receipts :
            rc.id = t.receipt /\ rc.issuer = t.report.issuer /\ rc.offering = t.report.offering
       /\ \A e \in registry : e.receipt # t.receipt
  /\ t.pc \in {"claim", "lock", "send", "sent", "refused"} =>
       \E e \in RowsFor(KeyOf(h)) : e.receipt = t.receipt
  /\ t.pc \in {"lock", "send"} => [token |-> By(h), receipt |-> t.receipt] \in claims

\* The handlers between the lock and its release.
Delivering == {h \in Handlers : task[h].pc \in {"send", "sent", "refused"}}

\* The inductive invariant behind rights: what handlers have in hand is real, and no
\* two of them carry the same receipt to the registry.
RightsInv ==
  /\ TypeOK /\ OneRightPerSale /\ LinksWork
  /\ IsFiniteSet(transactions) /\ IsFiniteSet(receipts)
  /\ \A h \in Handlers : Established(h)
  /\ \A g, h \in Handlers :
       task[g].pc = "register" /\ task[h].pc = "register"
         /\ task[g].receipt = task[h].receipt => g = h

\* The inductive invariant behind links, where a failed delivery delivered nothing:
\* a sale whose link is out or under way is locked, and by one handler only.
LinksInv ==
  /\ OneLinkPerSale
  /\ \A m \in mailbox : m.key \in locks
  /\ \A h \in Delivering :
       /\ KeyOf(h) \in locks
       /\ task[h].pc # "sent" => \A m \in mailbox : m.key # KeyOf(h)
       /\ \A g \in Delivering : KeyOf(g) = KeyOf(h) => g = h

IngestInv == RightsInv /\ (MailFailures \subseteq {"refused"} => LinksInv)

\* A delivery on record was accepted by the mail server, for that very receipt.
DeliveredMeansMailed ==
  \A d \in deliveries : \E m \in mailbox : m.key = d.key /\ m.receipt = d.receipt

\* A report strengthens a receipt only when it identifies the sale (never on a
\* surrogate's coincidence) and agrees with all the facts the sale was registered with.
CorroborationsAgree ==
  \A c \in corroborations : \E e \in RowsFor(c.key) :
    /\ e.receipt = c.receipt
    /\ \A r \in Reports : r.name = c.by[1] =>
         /\ e.issuer = r.issuer /\ e.offering = r.offering
         /\ ~Disagree(e.amount, r.amount) /\ ~Disagree(e.currency, r.currency)
    /\ c.kind = "transaction" => e.basis # "surrogate"

\* Two reports without a rail id of the same money from the same customer within
\* an hour never both mint, however their handlers interleave.
NearMatchesQuarantined ==
  \A e, f \in registry :
    /\ e.basis = "surrogate" /\ f.basis = "surrogate"
    /\ e.issuer = f.issuer /\ e.amount = f.amount /\ e.customer = f.customer
    /\ e.currency = f.currency /\ e.currency # Null
    /\ WithinAnHour(e.at, f.at)
    => e = f

\* A recorded webhook is never retried, so its report must have taken effect: the
\* sale is registered or the report quarantined, whatever crashed or threw before.
\* (A reversal of a sale nobody reported has no effect to take.)
RecordedMeansProcessed ==
  \A r \in Reports : r.name \in webhooks /\ r.kind = "transaction" =>
    \E n \in 1..MaxAttempts :
      \/ RowsFor(CanonicalKey(r, <<r.name, n>>)) # {}
      \/ \E c \in conflicts : c.by = <<r.name, n>>

\* A delivery lock comes to rest: the delivery is recorded or the lock released,
\* so a failed send always leaves the sale open for a later report to retry, unless
\* a process died or a write failed.
LocksSettle ==
  \A key \in SaleKeys :
    key \in locks ~> \/ key \notin locks \/ faults > 0
                    \/ \E d \in deliveries : d.key = key

\* Every report that was taken in gets its answer.
HandlersReturn ==
  \A h \in Handlers : task[h].pc # "idle" ~> task[h].pc = "idle"

\* "Holding a row means the review link for this transaction is sent or in flight."
LockMeansSentOrInFlight ==
  \A key \in locks :
    \/ \E m \in mailbox : m.key = key
    \/ \E h \in Handlers :
         task[h].pc \in {"send", "sent", "refused"} /\ KeyOf(h) = key

\* "Every later source for the same key ... appends a corroborations row": once no
\* handler is at work, a sale of the ledger is a sale the registry knows.
SalesRegistered ==
  (\A h \in Handlers : task[h] = Idle) =>
    \A t \in transactions : RowsFor(t.id) # {}

=============================================================================
