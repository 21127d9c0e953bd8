-------------------------- MODULE Connectors_proofs --------------------------
(***************************************************************************)
(* Proofs about what becomes of reports, for every set of handlers,        *)
(* processes, sources and reports: none is lost, strengthens a receipt it  *)
(* does not agree with, or mints on the strength of a refund.              *)
(*                                                                         *)
(* Beside the rights of Ingest_proofs two more invariants are inductive.   *)
(* ReportsInv says what the answer a handler is about to give rests on;    *)
(* the tables it speaks of only grow, so no other handler can take it      *)
(* away.  AloneInv says that a handler of the server keeps its event loop  *)
(* from the lookup to the registration, which is what the search for near  *)
(* matches relies on: it is the one check that needs a single server.      *)
(***************************************************************************)
EXTENDS Connectors, Ingest_proofs

\* The report of the attempt `token` took effect.
Effective(key, token) == RowsFor(key) # {} \/ \E c \in conflicts : c.by = token

\* What the statement at pc, and the answer that follows, rest on.
Answered(h) ==
  LET t == task[h] IN
  /\ t.pc # "idle" => t.try \in 1..attempts[t.report]
  /\ t.pc \in {"search", "mint", "register"} => t.report.kind = "transaction"
  /\ t.pc = "corroborate" =>
       /\ t.report.offering \in DOMAIN IssuerOf
       /\ t.report.kind = "transaction" => Basis(t.report) # "surrogate"
       /\ \E e \in RowsFor(KeyOf(h)) : ~Conflicting(e, t.report)
  /\ t.pc = "sent" => \E m \in mailbox : m.key = KeyOf(h) /\ m.receipt = t.receipt
  /\ t.pc \in {"event", "record"} /\ t.report.kind = "transaction" =>
       Effective(KeyOf(h), By(h))

FactsInKeys == \A e \in registry : e.key[1] = e.issuer /\ e.key[2] = e.basis

\* Every registered sale goes back to a transaction somebody reported.
SalesReported ==
  \A e \in registry : \E s \in Reports :
    /\ s.kind = "transaction"
    /\ \E n \in 1..attempts[s] : e.key = CanonicalKey(s, <<s.name, n>>)

ReportsInv ==
  /\ \A h \in Handlers : Answered(h)
  /\ FactsInKeys /\ SalesReported
  /\ CorroborationsAgree /\ DeliveredMeansMailed /\ RecordedMeansProcessed

\* The statements between which a handler may have let its event loop go.
Between == {"idle", "enrich", "send", "sent", "refused"}

\* The handler runs where its report belongs, keeps the loop, and has seen no near match.
Alone(h) ==
  LET t == task[h] IN
  /\ t.pc # "idle" => (t.report.channel = "manual" <=> ProcOf[h] \in AdminProcs)
  /\ t.pc \notin Between => loop[ProcOf[h]] = h
  /\ t.pc \in {"mint", "register"} => Near(t.report) = {}

AloneInv == (\A h \in Handlers : Alone(h)) /\ NearMatchesQuarantined

\* One process serves requests; admin commands may run beside it.
OneServer ==
  \A g, h \in Handlers :
    ProcOf[g] \notin AdminProcs /\ ProcOf[h] \notin AdminProcs => ProcOf[g] = ProcOf[h]

-----------------------------------------------------------------------------
(* What a step does to handlers and tables *)

\* A handler's own step moves that handler only, and only with its loop in hand; one
\* that stays at work keeps its report, its attempt and so its key.
LEMMA HandlerMoves ==
  ASSUME TypeOK, NEW h \in Handlers, Advance(h) \/ WriteFails(h) \/ RecordDeliveryFails(h)
  PROVE  /\ task[h].pc # "idle" /\ loop[ProcOf[h]] \in {h, Nobody}
         /\ \A g \in Handlers : g # h => task'[g] = task[g]
         /\ LoopAfter(h, task'[h].pc)
         /\ task'[h].pc # "idle" =>
              /\ task'[h].report = task[h].report /\ task'[h].try = task[h].try
              /\ KeyOf(h)' = KeyOf(h) /\ By(h)' = By(h)
<1>1. task[h].pc # "idle" /\ loop[ProcOf[h]] \in {h, Nobody}
  BY DEF Advance, ResumeEnriched, Lookup, FindSurrogateAmbiguity, Mint, Register,
     Corroborate, LogConflict, CreateClaim, Lock, RecordDelivery, Unlock, SignEvent,
     RecordWebhook, WriteFails, RecordDeliveryFails, Turn
<1> DEFINE Result ==
      /\ \A g \in Handlers : g # h => task'[g] = task[g]
      /\ LoopAfter(h, task'[h].pc)
      /\ task'[h].pc # "idle" =>
           /\ task'[h].report = task[h].report /\ task'[h].try = task[h].try
           /\ KeyOf(h)' = KeyOf(h) /\ By(h)' = By(h)
<1>2. ASSUME Finish(h) PROVE Result
  BY <1>2, Finished DEF Finish
<1>3. ASSUME NEW pc \in Pcs \ {"idle"}, Goto(h, pc) PROVE Result
  <2>1. LoopAfter(h, pc)
    BY <1>3 DEF Goto
  <2>2. By(h)' = By(h) => task'[h].try = task[h].try
    BY DEF By
  <2> QED
    BY <1>1, <1>3, <2>1, <2>2, WentTo
<1>4. ASSUME NEW pc \in Pcs \ {"idle"}, NEW receipt \in ReceiptIds \cup {Nobody},
             task' = [task EXCEPT ![h].pc = pc, ![h].receipt = receipt], LoopAfter(h, pc)
      PROVE  Result
  <2>1. By(h)' = By(h) => task'[h].try = task[h].try
    BY DEF By
  <2> QED
    BY <1>1, <1>4, <2>1, Moved
<1>5. CASE Mint(h) \/ Corroborate(h)
  <2>1. \/ Finish(h)
        \/ \E pc \in {"register", "claim", "event"}, id \in ReceiptIds :
             /\ task' = [task EXCEPT ![h].pc = pc, ![h].receipt = id]
             /\ LoopAfter(h, pc)
    <3>1. CASE Mint(h)
      BY <3>1 DEF Mint
    <3>2. CASE Corroborate(h)
      <4>1. PICK e \in RowsFor(KeyOf(h)), next \in {"claim", "event"} :
              /\ task' = [task EXCEPT ![h].pc = next, ![h].receipt = e.receipt]
              /\ LoopAfter(h, next)
        BY <3>2 DEF Corroborate
      <4>2. e.receipt \in ReceiptIds
        BY <4>1 DEF RowsFor, TypeOK, RegistryRow
      <4> QED
        BY <4>1, <4>2
    <3> QED
      BY <1>5, <3>1, <3>2
  <2> QED
    BY <1>1, <1>2, <1>4, <2>1 DEF Pcs
<1>6. CASE Lookup(h)
  <2>1. PICK decision \in {"return", "conflict", "corroborate", "search", "mint"} :
          decision = Decision(task[h].report, KeyOf(h))
    BY DEF Decision
  <2>2. Finish(h) \/ Goto(h, "record") \/ (decision # "return" /\ Goto(h, decision))
    BY <1>6, <2>1 DEF Lookup, Return
  <2> QED
    BY <1>1, <1>2, <1>3, <2>2 DEF Pcs
<1>7. CASE ~(Mint(h) \/ Corroborate(h) \/ Lookup(h))
  <2>1. Finish(h) \/ \E pc \in Pcs \ {"idle"} : Goto(h, pc)
    BY <1>7 DEF Advance, ResumeEnriched, FindSurrogateAmbiguity, Register, LogConflict,
       CreateClaim, Lock, AfterLock, RecordDelivery, Unlock, SignEvent, RecordWebhook,
       WriteFails, RecordDeliveryFails, Return, Pcs
  <2> QED
    BY <1>1, <1>2, <1>3, <2>1
<1> QED
  BY <1>1, <1>5, <1>6, <1>7

\* The mail server's answer moves one handler, and no event loop.
LEMMA MailMoves ==
  ASSUME TypeOK, NEW h \in Handlers, Mail(h)
  PROVE  /\ task[h].pc = "send" /\ UNCHANGED <<tables, loop, attempts>>
         /\ \A g \in Handlers : g # h => task'[g] = task[g]
         /\ task'[h].pc \in {"sent", "refused"} /\ task'[h].report = task[h].report
         /\ task'[h].try = task[h].try /\ task'[h].receipt = task[h].receipt
         /\ KeyOf(h)' = KeyOf(h) /\ By(h)' = By(h)
<1>1. PICK pc \in {"sent", "refused"} :
        /\ task[h].pc = "send" /\ UNCHANGED <<tables, loop, attempts>>
        /\ task' = [task EXCEPT ![h].pc = pc]
  BY DEF Mail, MailAccepts, MailRefuses, MailAcceptsUnacknowledged
<1>2. task[h] \in [pc : Pcs \ {"idle"}, report : Reports, try : 1..MaxAttempts,
                   receipt : ReceiptIds \cup {Nobody}]
  BY <1>1, AtWork
<1>3. task'[h] = [pc |-> pc, report |-> task[h].report, try |-> task[h].try,
                  receipt |-> task[h].receipt]
      /\ \A g \in Handlers : g # h => task'[g] = task[g]
  BY <1>1, <1>2 DEF TypeOK
<1>4. By(h)' = By(h)
  BY <1>3 DEF By
<1>5. KeyOf(h)' = KeyOf(h)
  BY <1>3, <1>4 DEF KeyOf
<1> QED
  BY <1>1, <1>3, <1>4, <1>5

\* Registry rows, quarantined reports, messages and attempts are there for good.
LEMMA HistoryGrows ==
  ASSUME TypeOK, Next
  PROVE  /\ registry \subseteq registry' /\ conflicts \subseteq conflicts'
         /\ mailbox \subseteq mailbox' /\ \A r \in Reports : 1..attempts[r] \subseteq 1..attempts'[r]
<1>1. ASSUME NEW h \in Handlers, NEW r \in Reports, Receive(h, r)
      PROVE  /\ UNCHANGED <<registry, conflicts, mailbox>>
             /\ \A s \in Reports : 1..attempts[s] \subseteq 1..attempts'[s]
  <2>1. attempts \in [Reports -> 0..MaxAttempts] /\ MaxAttempts \in Nat
    BY IngestAssumption DEF TypeOK
  <2>2. attempts' = [attempts EXCEPT ![r] = @ + 1] /\ UNCHANGED <<tables, mailbox>>
    BY <1>1 DEF Receive
  <2> QED
    BY <2>1, <2>2 DEF tables
<1>2. ASSUME NEW h \in Handlers, Advance(h) \/ WriteFails(h) \/ RecordDeliveryFails(h)
      PROVE  /\ registry \subseteq registry' /\ conflicts \subseteq conflicts'
             /\ UNCHANGED <<mailbox, attempts>>
  BY <1>2 DEF Advance, ResumeEnriched, Lookup, FindSurrogateAmbiguity, Mint, Register,
     Corroborate, LogConflict, CreateClaim, Lock, RecordDelivery, Unlock, SignEvent,
     RecordWebhook, WriteFails, RecordDeliveryFails, tables
<1>3. ASSUME NEW h \in Handlers, Mail(h)
      PROVE  UNCHANGED <<registry, conflicts, attempts>> /\ mailbox \subseteq mailbox'
  BY <1>3 DEF Mail, MailAccepts, MailRefuses, MailAcceptsUnacknowledged, tables
<1>4. ASSUME NEW p \in Procs, Crash(p)
      PROVE  UNCHANGED <<registry, conflicts, mailbox, attempts>>
  BY <1>4 DEF Crash, tables
<1> QED
  BY <1>1, <1>2, <1>3, <1>4 DEF Next

-----------------------------------------------------------------------------
(* Answers *)

\* A canonical key tells the issuer, and by which of the three identities it was made.
LEMMA KeyShowsFacts ==
  ASSUME NEW r, NEW nonce
  PROVE  CanonicalKey(r, nonce)[1] = r.issuer /\ CanonicalKey(r, nonce)[2] = Basis(r)
<1>1. CASE Basis(r) = "rail"
  BY <1>1 DEF CanonicalKey
<1>2. CASE Basis(r) = "surrogate"
  BY <1>2 DEF CanonicalKey
<1>3. CASE Basis(r) = "unique"
  BY <1>3 DEF CanonicalKey
<1> QED
  BY <1>1, <1>2, <1>3 DEF Basis

\* What a handler at rest has been promised, later rows do not take back.
LEMMA AnswerStands ==
  ASSUME TypeOK, NEW g \in Handlers, Answered(g), task'[g] = task[g],
         registry \subseteq registry', conflicts \subseteq conflicts', mailbox \subseteq mailbox',
         \A r \in Reports : 1..attempts[r] \subseteq 1..attempts'[r]
  PROVE  Answered(g)'
<1>1. By(g)' = By(g) /\ KeyOf(g)' = KeyOf(g)
  BY SameKey
<1>2. task[g].pc # "idle" => task[g].report \in Reports
  BY AtWork
<1> QED
  BY <1>1, <1>2 DEF Answered, Effective, RowsFor


\* Receive: an idle handler takes in one more attempt at a report.
LEMMA ReceiveReports ==
  ASSUME TypeOK, ReportsInv, NEW h \in Handlers, NEW r \in Reports, Receive(h, r)
  PROVE  ReportsInv'
<1> DEFINE first == IF r.channel = "quickbooks" THEN "enrich" ELSE "lookup"
<1>1. /\ task' = [task EXCEPT ![h] =
           [pc |-> first, report |-> r, try |-> attempts[r] + 1, receipt |-> Nobody]]
      /\ attempts' = [attempts EXCEPT ![r] = @ + 1]
      /\ UNCHANGED <<tables, mailbox>>
  BY DEF Receive
<1>2. task \in [Handlers -> TaskType] /\ attempts \in [Reports -> 0..MaxAttempts]
      /\ MaxAttempts \in Nat
  BY IngestAssumption DEF TypeOK
<1>3. \A s \in Reports : 1..attempts[s] \subseteq 1..attempts'[s]
  BY <1>1, <1>2
<1>4. Answered(h)'
  <2>1. task'[h] = [pc |-> first, report |-> r, try |-> attempts[r] + 1, receipt |-> Nobody]
    BY <1>1, <1>2
  <2>2. task'[h].pc \in {"enrich", "lookup"} /\ task'[h].try = attempts[r] + 1
        /\ task'[h].report = r
    BY <2>1
  <2>3. attempts'[r] = attempts[r] + 1 /\ attempts[r] + 1 \in 1..(attempts[r] + 1)
    BY <1>1, <1>2
  <2> QED
    BY <2>2, <2>3 DEF Answered
<1>5. ASSUME NEW g \in Handlers, g # h PROVE Answered(g)'
  <2>1. task'[g] = task[g] /\ Answered(g)
    BY <1>1, <1>2, <1>5 DEF ReportsInv
  <2> QED
    BY <1>1, <1>3, <2>1, AnswerStands DEF tables
<1>6. SalesReported'
  BY <1>1, <1>3 DEF ReportsInv, SalesReported, tables
<1>7. (FactsInKeys /\ CorroborationsAgree /\ DeliveredMeansMailed /\ RecordedMeansProcessed)'
  BY <1>1 DEF ReportsInv, FactsInKeys, CorroborationsAgree, DeliveredMeansMailed,
     RecordedMeansProcessed, RowsFor, tables
<1> QED
  BY <1>4, <1>5, <1>6, <1>7 DEF ReportsInv

\* The tables the invariant speaks of, after a step that adds no registry row, no
\* corroboration, no delivery and no webhook.
LEMMA QuietTables ==
  ASSUME ReportsInv, UNCHANGED <<registry, corroborations, deliveries, webhooks>>,
         conflicts \subseteq conflicts', mailbox \subseteq mailbox',
         \A r \in Reports : 1..attempts[r] \subseteq 1..attempts'[r]
  PROVE  (FactsInKeys /\ SalesReported /\ CorroborationsAgree /\ DeliveredMeansMailed
            /\ RecordedMeansProcessed)'
<1>1. (FactsInKeys /\ CorroborationsAgree)'
  BY DEF ReportsInv, FactsInKeys, CorroborationsAgree, RowsFor
<1>2. SalesReported'
  BY DEF ReportsInv, SalesReported
<1>3. DeliveredMeansMailed'
  BY DEF ReportsInv, DeliveredMeansMailed
<1>4. RecordedMeansProcessed'
  BY DEF ReportsInv, RecordedMeansProcessed, RowsFor
<1> QED
  BY <1>1, <1>2, <1>3, <1>4

\* Lookup: the decision is what the answer will rest on.
LEMMA LookupAnswers ==
  ASSUME TypeOK, NEW h \in Handlers, Answered(h), Lookup(h)
  PROVE  Answered(h)'
<1> DEFINE r == task[h].report
<1>1. task[h].pc = "lookup" /\ UNCHANGED <<tables, mailbox, attempts>>
  BY DEF Lookup, Turn
<1>2. r \in Reports /\ r.kind \in {"transaction", "reversal"}
  BY <1>1, AtWork, ReportsAssumption
<1>3. task'[h].pc # "idle" =>
        /\ task'[h].report = r /\ task'[h].try = task[h].try
        /\ KeyOf(h)' = KeyOf(h) /\ By(h)' = By(h)
  BY HandlerMoves DEF Advance
<1>4. PICK decision \in {"return", "conflict", "corroborate", "search", "mint"} :
        decision = Decision(r, KeyOf(h))
  BY DEF Decision
<1>5. decision = "return" => r.kind = "reversal"
  BY <1>4 DEF Decision
<1>6. decision \in {"search", "mint"} => r.kind = "transaction"
  BY <1>2, <1>4 DEF Decision
<1>7. decision = "corroborate" =>
        /\ r.kind = "transaction" => Basis(r) # "surrogate"
        /\ \E e \in RowsFor(KeyOf(h)) : ~Conflicting(e, r)
  BY <1>4 DEF Decision
<1>8. \/ task'[h].pc = "idle"
      \/ decision = "return" /\ task'[h].pc = "record"
      \/ /\ decision # "return" /\ task'[h].pc = decision
         /\ r.offering \in DOMAIN IssuerOf
  <2>1. \/ Finish(h) \/ (decision = "return" /\ Goto(h, "record"))
        \/ (decision # "return" /\ Goto(h, decision) /\ r.offering \in DOMAIN IssuerOf)
    BY <1>4 DEF Lookup, Return, Admissible
  <2> QED
    BY <1>1, <2>1, Finished, WentTo DEF Pcs
<1>9. task[h].try \in 1..attempts'[r] /\ registry' = registry
  BY <1>1 DEF Answered, tables
<1>10. CASE task'[h].pc \in {"idle", "search", "mint", "conflict"}
  BY <1>3, <1>6, <1>8, <1>9, <1>10 DEF Answered
<1>11. CASE task'[h].pc = "record"
  BY <1>3, <1>5, <1>8, <1>9, <1>11 DEF Answered
<1>12. CASE task'[h].pc = "corroborate"
  <2>1. \E e \in RowsFor(KeyOf(h))' : ~Conflicting(e, task'[h].report)
    BY <1>3, <1>7, <1>8, <1>9, <1>12 DEF RowsFor
  <2> QED
    BY <1>3, <1>7, <1>8, <1>9, <1>12, <2>1 DEF Answered
<1> QED
  BY <1>8, <1>10, <1>11, <1>12

\* A statement leaves its handler with all that its next one relies on.
LEMMA AdvanceAnswers ==
  ASSUME RightsInv, ReportsInv, NEW h \in Handlers,
         Advance(h) \/ WriteFails(h) \/ RecordDeliveryFails(h)
  PROVE  Answered(h)'
<1> DEFINE r == task[h].report
<1>1. TypeOK /\ Answered(h) /\ Established(h)
  BY DEF RightsInv, ReportsInv
<1>2. /\ task[h].pc # "idle"
      /\ task'[h].pc # "idle" =>
           /\ task'[h].report = r /\ task'[h].try = task[h].try
           /\ KeyOf(h)' = KeyOf(h) /\ By(h)' = By(h)
  BY <1>1, HandlerMoves
<1>3. /\ registry \subseteq registry' /\ conflicts \subseteq conflicts'
      /\ task[h].try \in 1..attempts'[r]
  <2>1. Next /\ r \in Reports
    BY <1>1, <1>2, AtWork DEF Next
  <2>2. task[h].try \in 1..attempts[r]
    BY <1>1, <1>2 DEF Answered
  <2> QED
    BY <1>1, <2>1, <2>2, HistoryGrows
<1>4. ASSUME task'[h].pc \in {"idle", "lookup", "claim", "lock", "send", "refused"}
      PROVE  Answered(h)'
  BY <1>2, <1>3, <1>4 DEF Answered
<1>5. ASSUME task'[h].pc \in {"event", "record"},
             \/ \E e \in registry' : e.key = KeyOf(h)
             \/ \E c \in conflicts' : c.by = By(h)
             \/ r.kind # "transaction"
      PROVE  Answered(h)'
  <2>1. r.kind = "transaction" => Effective(KeyOf(h), By(h))'
    BY <1>2, <1>5 DEF Effective, RowsFor
  <2> QED
    BY <1>2, <1>3, <1>5, <2>1 DEF Answered
<1>6. CASE Lookup(h)
  BY <1>1, <1>6, LookupAnswers
<1>7. CASE ResumeEnriched(h) \/ Register(h) \/ RecordWebhook(h) \/ WriteFails(h)
           \/ RecordDeliveryFails(h)
  <2>1. Finish(h) \/ \E pc \in {"lookup", "claim", "refused"} : Goto(h, pc)
    BY <1>7 DEF ResumeEnriched, Register, RecordWebhook, WriteFails, RecordDeliveryFails
  <2>2. task'[h].pc \in {"idle", "lookup", "claim", "refused"}
    BY <1>1, <1>2, <2>1, Finished, WentTo DEF Pcs
  <2> QED
    BY <1>4, <2>2
<1>8. CASE FindSurrogateAmbiguity(h)
  <2>1. task[h].pc = "search" /\ (Goto(h, "conflict") \/ Goto(h, "mint"))
    BY <1>8 DEF FindSurrogateAmbiguity, Turn
  <2>2. r.kind = "transaction" /\ task'[h].pc \in {"conflict", "mint"}
    BY <1>1, <1>2, <2>1, WentTo DEF Answered, Pcs
  <2> QED
    BY <1>2, <1>3, <2>2 DEF Answered
<1>9. CASE Mint(h)
  <2>1. task[h].pc = "mint" /\ r.kind = "transaction"
    BY <1>1, <1>9 DEF Mint, Turn, Answered
  <2>2. \/ Finish(h)
        \/ \E id \in ReceiptIds :
             /\ task' = [task EXCEPT ![h].pc = "register", ![h].receipt = id]
             /\ LoopAfter(h, "register")
    BY <1>9 DEF Mint
  <2>3. task'[h].pc \in {"idle", "register"}
    BY <1>1, <1>2, <2>2, Finished, Moved DEF Pcs
  <2> QED
    BY <1>2, <1>3, <1>4, <2>1, <2>3 DEF Answered
<1>10. CASE Corroborate(h)
  <2>1. PICK e \in RowsFor(KeyOf(h)), next \in {"claim", "event"} :
          /\ task' = [task EXCEPT ![h].pc = next, ![h].receipt = e.receipt]
          /\ LoopAfter(h, next)
    BY <1>10 DEF Corroborate
  <2>2. e \in registry /\ e.key = KeyOf(h) /\ e.receipt \in ReceiptIds
    BY <1>1, <2>1 DEF RowsFor, TypeOK, RegistryRow
  <2>3. task'[h].pc = next
    BY <1>1, <1>2, <2>1, <2>2, Moved DEF Pcs
  <2> QED
    BY <1>3, <1>4, <1>5, <2>2, <2>3
<1>11. CASE CreateClaim(h) \/ Lock(h) \/ RecordDelivery(h) \/ Unlock(h)
  <2>1. task[h].pc \in {"claim", "lock", "sent", "refused"}
        /\ \E pc \in {"event", "lock", "send"} : Goto(h, pc)
    BY <1>11 DEF CreateClaim, Lock, AfterLock, RecordDelivery, Unlock, Turn
  <2>2. \E e \in registry : e.key = KeyOf(h)
    BY <1>1, <2>1 DEF Established, RowsFor
  <2>3. task'[h].pc \in {"event", "lock", "send"}
    BY <1>1, <1>2, <2>1, WentTo DEF Pcs
  <2> QED
    BY <1>3, <1>4, <1>5, <2>2, <2>3
<1>12. CASE LogConflict(h)
  <2>1. Goto(h, "event") /\ conflicts' = conflicts \cup {[by |-> By(h), key |-> KeyOf(h)]}
    BY <1>12 DEF LogConflict
  <2>2. task'[h].pc = "event"
    BY <1>1, <1>2, <2>1, WentTo DEF Pcs
  <2>3. \E c \in conflicts' : c.by = By(h)
    <3> DEFINE row == [by |-> By(h), key |-> KeyOf(h)]
    <3>1. row \in conflicts' /\ row.by = By(h)
      BY <2>1
    <3> QED
      BY <3>1
  <2> QED
    BY <1>5, <2>2, <2>3
<1>13. CASE SignEvent(h)
  <2>1. task[h].pc = "event" /\ (Finish(h) \/ Goto(h, "record"))
    BY <1>13 DEF SignEvent, Return, Turn
  <2>2. task'[h].pc \in {"idle", "record"}
    BY <1>1, <1>2, <2>1, Finished, WentTo DEF Pcs
  <2>3. r.kind = "transaction" =>
          (\E e \in registry : e.key = KeyOf(h)) \/ \E c \in conflicts : c.by = By(h)
    BY <1>1, <2>1 DEF Answered, Effective, RowsFor
  <2> QED
    BY <1>3, <1>4, <1>5, <2>2, <2>3
<1> QED
  BY <1>6, <1>7, <1>8, <1>9, <1>10, <1>11, <1>12, <1>13 DEF Advance

\* Register: the new row is of the transaction its handler carries.
LEMMA RegisterTables ==
  ASSUME RightsInv, ReportsInv, NEW h \in Handlers, Register(h)
  PROVE  (FactsInKeys /\ SalesReported /\ CorroborationsAgree /\ DeliveredMeansMailed
            /\ RecordedMeansProcessed)'
<1> DEFINE r == task[h].report
           row == [key |-> KeyOf(h), receipt |-> task[h].receipt, issuer |-> r.issuer,
                   offering |-> r.offering, mintedBy |-> r.source, basis |-> Basis(r),
                   amount |-> r.amount, currency |-> r.currency, at |-> r.at,
                   customer |-> r.customer]
<1>1. /\ task[h].pc = "register" /\ TypeOK /\ Answered(h)
      /\ UNCHANGED <<deliveries, corroborations, conflicts, webhooks, mailbox, attempts>>
      /\ registry' = registry \/ registry' = registry \cup {row}
  BY DEF RightsInv, ReportsInv, Register, Turn
<1>2. r \in Reports /\ r.kind = "transaction" /\ task[h].try \in 1..attempts[r]
  BY <1>1, AtWork DEF Answered
<1>3. /\ row.key = CanonicalKey(r, <<r.name, task[h].try>>)
      /\ row.key[1] = row.issuer /\ row.key[2] = row.basis
  BY KeyShowsFacts DEF KeyOf, By
<1> HIDE DEF row
<1>4. FactsInKeys'
  BY <1>1, <1>3 DEF ReportsInv, FactsInKeys
<1>5. SalesReported'
  BY <1>1, <1>2, <1>3 DEF ReportsInv, SalesReported
<1>6. (CorroborationsAgree /\ DeliveredMeansMailed)'
  BY <1>1 DEF ReportsInv, CorroborationsAgree, DeliveredMeansMailed, RowsFor
<1>7. RecordedMeansProcessed'
  BY <1>1 DEF ReportsInv, RecordedMeansProcessed, RowsFor
<1> QED
  BY <1>4, <1>5, <1>6, <1>7

\* Corroborate: the row it signs over is the one its decision compared the report with,
\* for a key has one row; and one of the same issuer and basis as the report, for they
\* share the key.
LEMMA CorroborateTables ==
  ASSUME RightsInv, ReportsInv, NEW h \in Handlers, Corroborate(h)
  PROVE  (FactsInKeys /\ SalesReported /\ CorroborationsAgree /\ DeliveredMeansMailed
            /\ RecordedMeansProcessed)'
<1> DEFINE r == task[h].report
           new(e) == [by |-> By(h), key |-> e.key, receipt |-> e.receipt, source |-> r.source,
                      amount |-> r.amount, kind |-> r.kind, signed |-> r.source # "manual"]
<1>1. /\ task[h].pc = "corroborate" /\ TypeOK /\ Answered(h)
      /\ UNCHANGED <<registry, deliveries, conflicts, webhooks, mailbox, attempts>>
  BY DEF RightsInv, ReportsInv, Corroborate, Turn
<1>2. PICK e \in RowsFor(KeyOf(h)) : corroborations' = corroborations \cup {new(e)}
  BY DEF Corroborate
<1>3. e \in registry /\ e.key = KeyOf(h)
  BY <1>2 DEF RowsFor
<1>4. PICK f \in registry : f.key = KeyOf(h) /\ ~Conflicting(f, r)
  BY <1>1 DEF Answered, RowsFor
<1>5. e = f
  BY <1>3, <1>4 DEF RightsInv, OneRightPerSale
<1>6. e.issuer = r.issuer /\ e.basis = Basis(r)
  <2>1. KeyOf(h)[1] = r.issuer /\ KeyOf(h)[2] = Basis(r)
    BY KeyShowsFacts DEF KeyOf
  <2>2. e.key[1] = e.issuer /\ e.key[2] = e.basis
    BY <1>3 DEF ReportsInv, FactsInKeys
  <2> QED
    BY <1>3, <2>1, <2>2
<1>7. /\ e.offering = r.offering
      /\ ~Disagree(e.amount, r.amount) /\ ~Disagree(e.currency, r.currency)
  <2>1. e.offering # Null /\ r.offering # Null
    BY <1>1, <1>3, IngestAssumption DEF Answered, TypeOK, RegistryRow
  <2> QED
    BY <1>4, <1>5, <2>1 DEF Conflicting, Disagree
<1>8. CorroborationsAgree'
  <2> DEFINE Agrees(c) ==
        \E x \in registry :
          /\ x.key = c.key /\ x.receipt = c.receipt
          /\ \A s \in Reports : s.name = c.by[1] =>
               /\ x.issuer = s.issuer /\ x.offering = s.offering
               /\ ~Disagree(x.amount, s.amount) /\ ~Disagree(x.currency, s.currency)
          /\ c.kind = "transaction" => x.basis # "surrogate"
  <2>1. ASSUME NEW c \in corroborations PROVE Agrees(c)
    BY <2>1 DEF ReportsInv, CorroborationsAgree, RowsFor
  <2>2. Agrees(new(e))
    <3>1. new(e).by[1] = r.name /\ new(e).kind = r.kind
          /\ new(e).key = e.key /\ new(e).receipt = e.receipt
      BY DEF By
    <3>2. r \in Reports /\ \A s \in Reports : s.name = r.name => s = r
      BY <1>1, AtWork, ReportsAssumption
    <3>3. r.kind = "transaction" => e.basis # "surrogate"
      BY <1>1, <1>6 DEF Answered
    <3> HIDE DEF new
    <3> QED
      BY <1>3, <1>6, <1>7, <3>1, <3>2, <3>3
  <2>3. \A c \in corroborations' : Agrees(c)
    BY <1>2, <2>1, <2>2
  <2> QED
    BY <1>1, <2>3 DEF CorroborationsAgree, RowsFor
<1>9. (FactsInKeys /\ SalesReported /\ DeliveredMeansMailed)'
  BY <1>1 DEF ReportsInv, FactsInKeys, SalesReported, DeliveredMeansMailed
<1>10. RecordedMeansProcessed'
  BY <1>1 DEF ReportsInv, RecordedMeansProcessed, RowsFor
<1> QED
  BY <1>8, <1>9, <1>10

\* RecordDelivery and RecordWebhook write down what their handlers know to be so.
LEMMA RecordTables ==
  ASSUME RightsInv, ReportsInv, NEW h \in Handlers, RecordDelivery(h) \/ RecordWebhook(h)
  PROVE  (FactsInKeys /\ SalesReported /\ CorroborationsAgree /\ DeliveredMeansMailed
            /\ RecordedMeansProcessed)'
<1> DEFINE r == task[h].report
<1>1. /\ task[h].pc # "idle" /\ TypeOK /\ Answered(h)
      /\ UNCHANGED <<registry, corroborations, conflicts, mailbox, attempts>>
  BY DEF RightsInv, ReportsInv, RecordDelivery, RecordWebhook, Turn
<1>2. r \in Reports /\ task[h].try \in 1..MaxAttempts
  BY <1>1, AtWork
<1>3. (FactsInKeys /\ SalesReported)'
  BY <1>1 DEF ReportsInv, FactsInKeys, SalesReported
<1>4. CorroborationsAgree'
  BY <1>1 DEF ReportsInv, CorroborationsAgree, RowsFor
<1>5. DeliveredMeansMailed'
  <2>1. CASE RecordDelivery(h)
    <3>1. PICK m \in mailbox : m.key = KeyOf(h) /\ m.receipt = task[h].receipt
      BY <1>1, <2>1 DEF RecordDelivery, Turn, Answered
    <3>2. deliveries' = deliveries \cup {[key |-> KeyOf(h), receipt |-> task[h].receipt]}
      BY <2>1 DEF RecordDelivery
    <3> QED
      BY <1>1, <3>1, <3>2 DEF ReportsInv, DeliveredMeansMailed
  <2>2. CASE RecordWebhook(h)
    BY <1>1, <2>2 DEF ReportsInv, DeliveredMeansMailed, RecordWebhook
  <2> QED
    BY <2>1, <2>2
<1>6. RecordedMeansProcessed'
  <2>1. CASE RecordDelivery(h)
    BY <1>1, <2>1 DEF ReportsInv, RecordedMeansProcessed, RowsFor, RecordDelivery
  <2>2. CASE RecordWebhook(h)
    <3>1. webhooks' = webhooks \cup {r.name} /\ task[h].pc = "record"
      BY <2>2 DEF RecordWebhook, Turn
    <3> SUFFICES ASSUME NEW s \in Reports, s.name \in webhooks', s.kind = "transaction"
                 PROVE  \E n \in 1..MaxAttempts :
                          \/ RowsFor(CanonicalKey(s, <<s.name, n>>)) # {}
                          \/ \E c \in conflicts : c.by = <<s.name, n>>
      BY <1>1 DEF RecordedMeansProcessed, RowsFor
    <3>2. CASE s.name \in webhooks
      BY <3>2 DEF ReportsInv, RecordedMeansProcessed
    <3>3. CASE s.name = r.name
      <4>1. s = r
        BY <1>2, <3>3, ReportsAssumption
      <4>2. Effective(KeyOf(h), By(h))
        BY <1>1, <3>1, <4>1 DEF Answered
      <4> QED
        BY <1>2, <4>1, <4>2 DEF Effective, KeyOf, By
    <3> QED
      BY <3>1, <3>2, <3>3
  <2> QED
    BY <2>1, <2>2
<1> QED
  BY <1>3, <1>4, <1>5, <1>6

\* ReportsInv is inductive beside RightsInv.
LEMMA StepReports == RightsInv /\ ReportsInv /\ [Next]_vars => ReportsInv'
<1> SUFFICES ASSUME RightsInv, ReportsInv, [Next]_vars PROVE ReportsInv'
  OBVIOUS
<1>1. TypeOK
  BY DEF RightsInv
<1>2. CASE UNCHANGED vars
  <2>1. UNCHANGED <<tables, mailbox, task, attempts>>
    BY <1>2 DEF vars
  <2>2. \A g \in Handlers : Answered(g)'
    BY <1>1, <2>1, AnswerStands DEF ReportsInv, tables
  <2> QED
    BY <2>1, <2>2, QuietTables DEF ReportsInv, tables
<1>3. CASE Next
  <2>1. /\ registry \subseteq registry' /\ conflicts \subseteq conflicts'
        /\ mailbox \subseteq mailbox' /\ \A r \in Reports : 1..attempts[r] \subseteq 1..attempts'[r]
    BY <1>1, <1>3, HistoryGrows
  <2>2. ASSUME NEW g \in Handlers, task'[g] = task[g] PROVE Answered(g)'
    BY <1>1, <2>1, <2>2, AnswerStands DEF ReportsInv
  <2>3. ASSUME NEW h \in Handlers, NEW r \in Reports, Receive(h, r) PROVE ReportsInv'
    BY <1>1, <2>3, ReceiveReports
  <2>4. ASSUME NEW h \in Handlers, Advance(h) \/ WriteFails(h) \/ RecordDeliveryFails(h)
        PROVE  ReportsInv'
    <3>1. ASSUME NEW g \in Handlers PROVE Answered(g)'
      <4>1. CASE g = h
        BY <2>4, <4>1, AdvanceAnswers
      <4>2. CASE g # h
        <5>1. task'[g] = task[g]
          BY <1>1, <2>4, <4>2, HandlerMoves
        <5> QED
          BY <2>2, <5>1
      <4> QED
        BY <4>1, <4>2
    <3>2. (FactsInKeys /\ SalesReported /\ CorroborationsAgree /\ DeliveredMeansMailed
             /\ RecordedMeansProcessed)'
      <4>1. CASE Register(h)
        BY <4>1, RegisterTables
      <4>2. CASE Corroborate(h)
        BY <4>2, CorroborateTables
      <4>3. CASE RecordDelivery(h) \/ RecordWebhook(h)
        BY <4>3, RecordTables
      <4>4. CASE \/ ResumeEnriched(h) \/ Lookup(h) \/ FindSurrogateAmbiguity(h)
                 \/ Mint(h) \/ LogConflict(h) \/ CreateClaim(h) \/ Lock(h) \/ Unlock(h) \/ SignEvent(h)
                 \/ WriteFails(h) \/ RecordDeliveryFails(h)
        <5>1. UNCHANGED <<registry, corroborations, deliveries, webhooks>>
          BY <4>4 DEF ResumeEnriched, Lookup, FindSurrogateAmbiguity, Mint, LogConflict,
             CreateClaim, Lock, Unlock, SignEvent, WriteFails, RecordDeliveryFails, tables
        <5> QED
          BY <2>1, <5>1, QuietTables
      <4> QED
        BY <2>4, <4>1, <4>2, <4>3, <4>4 DEF Advance
    <3> QED
      BY <3>1, <3>2 DEF ReportsInv
  <2>5. ASSUME NEW h \in Handlers, Mail(h) PROVE ReportsInv'
    <3>1. /\ task[h].pc = "send" /\ UNCHANGED <<tables, attempts>>
          /\ \A g \in Handlers : g # h => task'[g] = task[g]
          /\ task'[h].pc \in {"sent", "refused"} /\ task'[h].report = task[h].report
          /\ task'[h].try = task[h].try /\ task'[h].receipt = task[h].receipt
          /\ KeyOf(h)' = KeyOf(h)
      BY <1>1, <2>5, MailMoves
    <3>2. task'[h].pc = "sent" => Message(h) \in mailbox'
      <4>1. \/ mailbox' = mailbox \cup {Message(h)}
            \/ task' = [task EXCEPT ![h].pc = "refused"]
        BY <2>5 DEF Mail, MailAccepts, MailRefuses, MailAcceptsUnacknowledged
      <4>2. task' = [task EXCEPT ![h].pc = "refused"] => task'[h].pc = "refused"
        BY <1>1 DEF TypeOK, TaskType, Idle
      <4> QED
        BY <4>1, <4>2
    <3>3. task[h].try \in 1..attempts[task[h].report]
      BY <3>1 DEF ReportsInv, Answered
    <3>4. Answered(h)'
      BY <3>1, <3>2, <3>3 DEF Answered, Message
    <3> QED
      BY <2>1, <2>2, <3>1, <3>4, QuietTables DEF ReportsInv, tables
  <2>6. ASSUME NEW p \in Procs, Crash(p) PROVE ReportsInv'
    <3>1. /\ task' = [h \in Handlers |-> IF ProcOf[h] = p THEN Idle ELSE task[h]]
          /\ UNCHANGED tables
      BY <2>6 DEF Crash
    <3>2. ASSUME NEW g \in Handlers PROVE Answered(g)'
      <4>1. task'[g] = task[g] \/ task'[g].pc = "idle"
        BY <3>1 DEF Idle
      <4>2. task'[g].pc = "idle" => Answered(g)'
        BY DEF Answered
      <4> QED
        BY <2>2, <4>1, <4>2
    <3> QED
      BY <2>1, <3>1, <3>2, QuietTables DEF ReportsInv, tables
  <2> QED
    BY <1>3, <2>3, <2>4, <2>5, <2>6 DEF Next
<1> QED
  BY <1>2, <1>3

\* In every reachable state every answer under way is borne out by the tables.
LEMMA ReportsInvariant == Spec => [](IngestInv /\ ReportsInv)
<1>1. Init => ReportsInv
  BY DEF Init, Idle, ReportsInv, Answered, FactsInKeys, SalesReported, CorroborationsAgree,
     DeliveredMeansMailed, RecordedMeansProcessed
<1>2. IngestInv /\ ReportsInv /\ [Next]_vars => ReportsInv'
  BY StepReports DEF IngestInv
<1> QED
  BY <1>1, <1>2, IngestInvariant, PTL DEF Spec

-----------------------------------------------------------------------------
(* Alone with the event loop *)

\* Near matches are mutual.
LEMMA NearIsMutual ==
  ASSUME NEW a, NEW b, WithinAnHour(a, b)
  PROVE  WithinAnHour(b, a)
BY DEF WithinAnHour

\* A handler that did not move stays alone, as long as its loop is still its own and no
\* registry row came in.
LEMMA StillAlone ==
  ASSUME NEW g \in Handlers, Alone(g), task'[g] = task[g], registry' = registry,
         loop[ProcOf[g]] = g => loop'[ProcOf[g]] = g
  PROVE  Alone(g)'
BY DEF Alone, Near

\* Taking or leaving a loop that is free, or one's own, takes it from nobody.
LEMMA LoopsOfOthers ==
  ASSUME TypeOK, NEW h \in Handlers, NEW g \in Handlers, g # h, NEW pc,
         loop[ProcOf[h]] \in {h, Nobody}, LoopAfter(h, pc), loop[ProcOf[g]] = g
  PROVE  loop'[ProcOf[g]] = g
<1>1. ProcOf[g] # ProcOf[h] /\ ProcOf[g] \in Procs
  BY IngestAssumption
<1> QED
  BY <1>1 DEF LoopAfter, TypeOK

\* Where a handler's own statement leads, it is alone: a statement that does not yield
\* keeps the loop, and only the lookup of an exact key and the search for near matches
\* find a report fit to mint.
LEMMA AdvanceAlone ==
  ASSUME TypeOK, NEW h \in Handlers, Alone(h),
         Advance(h) \/ WriteFails(h) \/ RecordDeliveryFails(h)
  PROVE  Alone(h)'
<1> DEFINE r == task[h].report
<1>1. /\ task[h].pc # "idle" /\ LoopAfter(h, task'[h].pc)
      /\ task'[h].pc # "idle" => task'[h].report = r
  BY HandlerMoves
<1>2. task'[h].pc \notin Between => loop'[ProcOf[h]] = h
  BY <1>1, IngestAssumption DEF LoopAfter, Between, Yielding, TypeOK
<1>3. task'[h].pc \in {"mint", "register"} => \A e \in registry' : ~NearMatch(e, r)
  <2>1. CASE Lookup(h)
    <3>1. PICK decision \in {"return", "conflict", "corroborate", "search", "mint"} :
            decision = Decision(r, KeyOf(h))
      BY DEF Decision
    <3>2. decision = "mint" => Near(r) = {}
      BY <3>1 DEF Decision, Near, NearMatch
    <3>3. Finish(h) \/ Goto(h, "record") \/ (decision # "return" /\ Goto(h, decision))
      BY <2>1, <3>1 DEF Lookup, Return
    <3>4. task'[h].pc \in {"mint", "register"} => decision = "mint"
      BY <1>1, <3>1, <3>3, Finished, WentTo DEF Pcs
    <3>5. registry' = registry
      BY <2>1 DEF Lookup, tables
    <3> QED
      BY <3>2, <3>4, <3>5 DEF Near
  <2>2. CASE Mint(h)
    <3>1. task[h].pc = "mint" /\ registry' = registry
      BY <2>2 DEF Mint, Turn
    <3> QED
      BY <3>1 DEF Alone, Near
  <2>3. CASE Corroborate(h)
    <3>1. PICK e \in RowsFor(KeyOf(h)), next \in {"claim", "event"} :
            /\ task' = [task EXCEPT ![h].pc = next, ![h].receipt = e.receipt]
            /\ LoopAfter(h, next)
      BY <2>3 DEF Corroborate
    <3>2. e.receipt \in ReceiptIds
      BY DEF RowsFor, TypeOK, RegistryRow
    <3>3. task'[h].pc = next
      BY <1>1, <3>1, <3>2, Moved DEF Pcs
    <3> QED
      BY <3>3
  <2>4. CASE FindSurrogateAmbiguity(h)
    <3>1. registry' = registry /\ Goto(h, IF Near(r) # {} THEN "conflict" ELSE "mint")
      BY <2>4 DEF FindSurrogateAmbiguity, tables
    <3>2. Near(r) # {} => task'[h].pc = "conflict"
      BY <1>1, <3>1, WentTo DEF Pcs
    <3> QED
      BY <3>1, <3>2 DEF Near
  <2>5. CASE ~(Lookup(h) \/ FindSurrogateAmbiguity(h) \/ Mint(h) \/ Corroborate(h))
    <3>1. Finish(h) \/ \E pc \in Pcs \ {"idle", "mint", "register"} : Goto(h, pc)
      BY <2>5 DEF Advance, ResumeEnriched, Register, LogConflict, CreateClaim, Lock,
         AfterLock, RecordDelivery, Unlock, SignEvent, RecordWebhook, WriteFails,
         RecordDeliveryFails, Return, Pcs
    <3>2. task'[h].pc \notin {"mint", "register"}
      BY <1>1, <3>1, Finished, WentTo
    <3> QED
      BY <3>2
  <2> QED
    BY <2>1, <2>2, <2>3, <2>4, <2>5
<1>4. task'[h].pc # "idle" =>
        (task'[h].report.channel = "manual" <=> ProcOf[h] \in AdminProcs)
  BY <1>1 DEF Alone
<1> QED
  BY <1>1, <1>2, <1>3, <1>4 DEF Alone, Near

\* Register: the report was no near match of any row, and nobody else of its process was
\* between lookup and registration to be overtaken by the new row.
LEMMA RegisterAlone ==
  ASSUME OneServer, TypeOK, AloneInv, NEW h \in Handlers, Register(h)
  PROVE  AloneInv'
<1> DEFINE r == task[h].report
           row == [key |-> KeyOf(h), receipt |-> task[h].receipt, issuer |-> r.issuer,
                   offering |-> r.offering, mintedBy |-> r.source, basis |-> Basis(r),
                   amount |-> r.amount, currency |-> r.currency, at |-> r.at,
                   customer |-> r.customer]
<1>1. /\ task[h].pc = "register" /\ Alone(h) /\ loop[ProcOf[h]] = h
      /\ \A e \in registry : ~NearMatch(e, r)
      /\ registry' = registry \/ registry' = registry \cup {row}
  BY DEF AloneInv, Alone, Near, Register, Turn, Between
<1>2. r \in Reports
  BY <1>1, AtWork
<1>3. /\ row.issuer = r.issuer /\ row.basis = Basis(r) /\ row.amount = r.amount
      /\ row.currency = r.currency /\ row.at = r.at /\ row.customer = r.customer
  OBVIOUS
<1> HIDE DEF row
<1>4. NearMatchesQuarantined'
  <2>1. ASSUME NEW e \in registry, e.basis = "surrogate", row.basis = "surrogate",
               e.issuer = row.issuer, e.amount = row.amount, e.customer = row.customer,
               e.currency = row.currency, row.currency # Null, WithinAnHour(e.at, row.at)
        PROVE  FALSE
    BY <1>1, <1>3, <2>1 DEF NearMatch
  <2>2. NearMatchesQuarantined
    BY DEF AloneInv
  <2> SUFFICES ASSUME NEW e \in registry', NEW f \in registry',
                      e.basis = "surrogate", f.basis = "surrogate", e.issuer = f.issuer,
                      e.amount = f.amount, e.customer = f.customer,
                      e.currency = f.currency, e.currency # Null, WithinAnHour(e.at, f.at)
               PROVE  e = f
    BY DEF NearMatchesQuarantined
  <2>3. CASE e \in registry /\ f \in registry
    BY <2>2, <2>3 DEF NearMatchesQuarantined
  <2>4. CASE e \in registry /\ f = row
    BY <2>1, <2>4
  <2>5. CASE e = row /\ f \in registry
    BY <2>1, <2>5, NearIsMutual
  <2> QED
    BY <1>1, <2>3, <2>4, <2>5
<1>5. ASSUME NEW g \in Handlers PROVE Alone(g)'
  <2>1. CASE g = h
    BY <2>1, AdvanceAlone DEF AloneInv, Advance
  <2>2. CASE g # h
    <3>1. task'[g] = task[g] /\ Alone(g)
      BY <2>2, HandlerMoves DEF AloneInv, Advance
    <3>2. loop[ProcOf[g]] = g => loop'[ProcOf[g]] = g
      BY <1>1, <2>2, HandlerMoves, LoopsOfOthers DEF Advance
    <3>3. ASSUME task[g].pc \in {"mint", "register"} PROVE ~NearMatch(row, task[g].report)
      <4>1. SUFFICES ASSUME NearMatch(row, task[g].report) PROVE FALSE
        OBVIOUS
      <4>2. Basis(r) = "surrogate" /\ Basis(task[g].report) = "surrogate"
        BY <1>3, <4>1 DEF NearMatch
      <4>3. task[g].report \in Reports
        BY <3>3, AtWork
      <4>4. r.channel # "manual" /\ task[g].report.channel # "manual"
        BY <1>2, <4>2, <4>3, ReportsAssumption DEF Basis
      <4>5. ProcOf[g] \notin AdminProcs /\ ProcOf[h] \notin AdminProcs
        BY <1>1, <3>1, <3>3, <4>4 DEF Alone
      <4>6. loop[ProcOf[g]] = g /\ ProcOf[g] = ProcOf[h]
        BY <3>1, <3>3, <4>5 DEF Alone, Between, OneServer
      <4> QED
        BY <1>1, <2>2, <4>6
    <3> QED
      BY <1>1, <3>1, <3>2, <3>3 DEF Alone, Near
  <2> QED
    BY <2>1, <2>2
<1> QED
  BY <1>4, <1>5 DEF AloneInv

\* AloneInv is inductive beside TypeOK, as long as one process serves requests.
LEMMA StepAlone ==
  ASSUME OneServer
  PROVE  TypeOK /\ AloneInv /\ [Next]_vars => AloneInv'
<1> SUFFICES ASSUME TypeOK, AloneInv, [Next]_vars PROVE AloneInv'
  OBVIOUS
<1>1. ASSUME registry' = registry, \A g \in Handlers : Alone(g)' PROVE AloneInv'
  BY <1>1 DEF AloneInv, NearMatchesQuarantined
<1>2. CASE UNCHANGED vars
  <2>1. UNCHANGED <<registry, task, loop>>
    BY <1>2 DEF vars, tables
  <2> QED
    BY <1>1, <2>1, StillAlone DEF AloneInv
<1>3. ASSUME NEW h \in Handlers, NEW r \in Reports, Receive(h, r) PROVE AloneInv'
  <2> DEFINE first == IF r.channel = "quickbooks" THEN "enrich" ELSE "lookup"
  <2>1. /\ task' = [task EXCEPT ![h] =
             [pc |-> first, report |-> r, try |-> attempts[r] + 1, receipt |-> Nobody]]
        /\ LoopAfter(h, first) /\ loop[ProcOf[h]] = Nobody /\ Accepts(h, r)
        /\ registry' = registry
    BY <1>3 DEF Receive, Free, tables
  <2>2. task \in [Handlers -> TaskType] /\ loop \in [Procs -> Handlers \cup {Nobody}]
        /\ ProcOf[h] \in Procs
    BY IngestAssumption DEF TypeOK
  <2>3. task'[h] = [pc |-> first, report |-> r, try |-> attempts[r] + 1, receipt |-> Nobody]
    BY <2>1, <2>2
  <2>4. Alone(h)'
    <3>1. task'[h].pc = first /\ task'[h].report = r /\ first \in {"enrich", "lookup"}
      BY <2>3
    <3>2. first = "lookup" => loop'[ProcOf[h]] = h
      BY <2>1, <2>2 DEF LoopAfter, Yielding
    <3> QED
      BY <2>1, <3>1, <3>2 DEF Alone, Accepts, Between
  <2>5. ASSUME NEW g \in Handlers, g # h PROVE Alone(g)'
    <3>1. task'[g] = task[g] /\ Alone(g)
      BY <2>1, <2>2, <2>5 DEF AloneInv
    <3>2. loop[ProcOf[g]] = g => loop'[ProcOf[g]] = g
      BY <2>1, <2>5, LoopsOfOthers
    <3> QED
      BY <2>1, <3>1, <3>2, StillAlone
  <2> QED
    BY <1>1, <2>1, <2>4, <2>5
<1>4. ASSUME NEW h \in Handlers, Advance(h) \/ WriteFails(h) \/ RecordDeliveryFails(h)
      PROVE  AloneInv'
  <2>1. CASE Register(h)
    BY <2>1, RegisterAlone
  <2>2. CASE ~Register(h)
    <3>1. registry' = registry
      BY <1>4, <2>2 DEF Advance, ResumeEnriched, Lookup, FindSurrogateAmbiguity, Mint,
         Corroborate, LogConflict, CreateClaim, Lock, RecordDelivery, Unlock, SignEvent,
         RecordWebhook, WriteFails, RecordDeliveryFails, tables
    <3>2. Alone(h)'
      BY <1>4, AdvanceAlone DEF AloneInv
    <3>3. ASSUME NEW g \in Handlers, g # h PROVE Alone(g)'
      <4>1. task'[g] = task[g] /\ Alone(g)
        BY <1>4, <3>3, HandlerMoves DEF AloneInv
      <4>2. loop[ProcOf[g]] = g => loop'[ProcOf[g]] = g
        BY <1>4, <3>3, HandlerMoves, LoopsOfOthers
      <4> QED
        BY <3>1, <4>1, <4>2, StillAlone
    <3> QED
      BY <1>1, <3>1, <3>2, <3>3
  <2> QED
    BY <2>1, <2>2
<1>5. ASSUME NEW h \in Handlers, Mail(h) PROVE AloneInv'
  <2>1. /\ task[h].pc = "send" /\ UNCHANGED <<registry, loop>>
        /\ \A g \in Handlers : g # h => task'[g] = task[g]
        /\ task'[h].pc \in {"sent", "refused"} /\ task'[h].report = task[h].report
    BY <1>5, MailMoves DEF tables
  <2>2. Alone(h)'
    BY <2>1 DEF AloneInv, Alone, Between
  <2> QED
    BY <1>1, <2>1, <2>2, StillAlone DEF AloneInv
<1>6. ASSUME NEW p \in Procs, Crash(p) PROVE AloneInv'
  <2>1. /\ task' = [h \in Handlers |-> IF ProcOf[h] = p THEN Idle ELSE task[h]]
        /\ loop' = [loop EXCEPT ![p] = Nobody] /\ registry' = registry
    BY <1>6 DEF Crash, tables
  <2>2. ASSUME NEW g \in Handlers PROVE Alone(g)'
    <3>1. CASE ProcOf[g] = p
      <4>1. task'[g].pc = "idle"
        BY <2>1, <3>1 DEF Idle
      <4> QED
        BY <4>1 DEF Alone, Between
    <3>2. CASE ProcOf[g] # p
      <4>1. task'[g] = task[g] /\ loop'[ProcOf[g]] = loop[ProcOf[g]]
        BY <2>1, <3>2, IngestAssumption DEF TypeOK
      <4> QED
        BY <2>1, <4>1, StillAlone DEF AloneInv
    <3> QED
      BY <3>1, <3>2
  <2> QED
    BY <1>1, <2>1, <2>2
<1> QED
  BY <1>2, <1>3, <1>4, <1>5, <1>6 DEF Next

-----------------------------------------------------------------------------
(* Whose keys agree *)

\* What two reports have in common when they are taken for one sale: m and n are the
\* uuids of reports that identify nothing.
SameSale(r, m, s, n) ==
  /\ r.issuer = s.issuer /\ Basis(r) = Basis(s)
  /\ Basis(r) = "rail" => r.rail = s.rail /\ r.ref = s.ref
  /\ Basis(r) = "surrogate" =>
       /\ r.amount = s.amount /\ r.currency = s.currency /\ r.customer = s.customer
       /\ HourBucket(r.at) = HourBucket(s.at)
  /\ Basis(r) = "unique" => m = n

\* canonicalTxnKey keeps apart what it should and nothing else: keys of different kinds
\* never meet, and keys of one kind meet exactly where every part does.
THEOREM KeysSeparateSales ==
  ASSUME NEW r, NEW s, NEW m, NEW n
  PROVE  CanonicalKey(r, m) = CanonicalKey(s, n) <=> SameSale(r, m, s, n)
<1>1. Basis(r) \in {"rail", "surrogate", "unique"} /\ Basis(s) \in {"rail", "surrogate", "unique"}
  BY DEF Basis
<1>2. CanonicalKey(r, m)[2] = Basis(r) /\ CanonicalKey(s, n)[2] = Basis(s)
  BY <1>1 DEF CanonicalKey
<1>3. CASE Basis(r) # Basis(s)
  BY <1>2, <1>3 DEF SameSale
<1>4. CASE Basis(r) = "rail" /\ Basis(s) = "rail"
  BY <1>4 DEF CanonicalKey, SameSale
<1>5. CASE Basis(r) = "surrogate" /\ Basis(s) = "surrogate"
  <2> HIDE DEF HourBucket
  <2> QED
    BY <1>5 DEF CanonicalKey, SameSale
<1>6. CASE Basis(r) = "unique" /\ Basis(s) = "unique"
  BY <1>6 DEF CanonicalKey, SameSale
<1> QED
  BY <1>1, <1>3, <1>4, <1>5, <1>6

LEMMA RailKeys ==
  ASSUME NEW r, NEW s, NEW m, NEW n, r.rail # Null, r.ref # Null,
         s.rail # Null, s.ref # Null, r.issuer = s.issuer
  PROVE  CanonicalKey(r, m) = CanonicalKey(s, n) <=> r.rail = s.rail /\ r.ref = s.ref
<1>1. Basis(r) = "rail" /\ Basis(s) = "rail"
  BY DEF Basis, HasRailId
<1> QED
  BY <1>1, KeysSeparateSales DEF SameSale

\* What the translations make of an event.
LEMMA SquareFields ==
  ASSUME NEW event, NEW r \in SquareReports(event)
  PROVE  r.rail = "square" /\ r.ref = event.payment /\ r.kind = SquareKind(event)
<1>1. PICK i, o :
        r = ReportOf(event,
              [channel |-> "square", source |-> "square", kind |-> SquareKind(event),
               issuer |-> i, offering |-> o, rail |-> "square", ref |-> event.payment])
  BY DEF SquareReports
<1> QED
  BY <1>1 DEF ReportOf

LEMMA StripeFields ==
  ASSUME NEW event, NEW r \in StripeReports(event)
  PROVE  r.rail = "stripe" /\ r.ref = event.object
<1>1. r = ReportOf(event,
            [channel |-> "stripe", source |-> "manual", kind |-> "transaction",
             issuer |-> event.verified, offering |-> event.offering,
             rail |-> "stripe", ref |-> event.object])
  BY DEF StripeReports
<1> QED
  BY <1>1 DEF ReportOf

LEMMA BooksFields ==
  ASSUME NEW note, NEW r \in QuickBooksReports(note)
  PROVE  r.rail = OrElse(note.found.rail, "quickbooks") /\ r.ref = QuickBooksRef(note)
<1>1. PICK i, o :
        r = ReportOf(note,
              [channel |-> "quickbooks", source |-> "quickbooks", kind |-> note.found.kind,
               issuer |-> i, offering |-> o, rail |-> OrElse(note.found.rail, "quickbooks"),
               ref |-> QuickBooksRef(note)])
  BY DEF QuickBooksReports
<1> QED
  BY <1>1 DEF ReportOf

LEMMA PartnerFields ==
  ASSUME NEW partner, NEW body, NEW r \in PartnerReports(partner, body)
  PROVE  r.rail = body.rail /\ r.ref = body.ref
<1>1. PICK i :
        r = ReportOf(body,
              [channel |-> "partner", source |-> partner, kind |-> body.kind,
               issuer |-> i, offering |-> body.offering, rail |-> body.rail,
               ref |-> body.ref])
  BY DEF PartnerReports
<1> QED
  BY <1>1 DEF ReportOf

\* Where the rail, an app and the books each name a Square payment by the payment's id,
\* they agree on its key, whatever else they say of it and however often.
THEOREM SquareKeysAgree ==
  ASSUME NEW event, NEW r \in SquareReports(event), event.payment # Null,
         "square" # Null, NEW m, NEW n
  PROVE  /\ \A note : \A s \in QuickBooksReports(note) :
              note.found.rail = "square" /\ note.found.ref = event.payment
                /\ s.issuer = r.issuer => CanonicalKey(r, m) = CanonicalKey(s, n)
         /\ \A partner, body : \A s \in PartnerReports(partner, body) :
              body.rail = "square" /\ body.ref = event.payment
                /\ s.issuer = r.issuer => CanonicalKey(r, m) = CanonicalKey(s, n)
<1>1. r.rail = "square" /\ r.ref = event.payment
  BY SquareFields
<1>2. ASSUME NEW note, NEW s \in QuickBooksReports(note), note.found.rail = "square",
             note.found.ref = event.payment, s.issuer = r.issuer
      PROVE  CanonicalKey(r, m) = CanonicalKey(s, n)
  <2>1. s.rail = "square" /\ s.ref = event.payment
    BY <1>2, BooksFields DEF OrElse, QuickBooksRef
  <2> QED
    BY <1>1, <1>2, <2>1, RailKeys
<1>3. ASSUME NEW partner, NEW body, NEW s \in PartnerReports(partner, body),
             body.rail = "square", body.ref = event.payment, s.issuer = r.issuer
      PROVE  CanonicalKey(r, m) = CanonicalKey(s, n)
  <2>1. s.rail = "square" /\ s.ref = event.payment
    BY <1>3, PartnerFields
  <2> QED
    BY <1>1, <1>3, <2>1, RailKeys
<1> QED
  BY <1>2, <1>3

\* Stripe's report goes by the id of the event's object.  Where that is not the payment's,
\* no report by the payment's id is ever taken for the same sale: each would mint.
THEOREM StripeKeysDiffer ==
  ASSUME NEW event, NEW r \in StripeReports(event), "stripe" # Null,
         event.object # Null, event.object # event.payment,
         NEW partner, NEW body, NEW s \in PartnerReports(partner, body),
         body.ref = event.payment, NEW m, NEW n
  PROVE  CanonicalKey(r, m) # CanonicalKey(s, n)
<1>1. r.rail = "stripe" /\ r.ref = event.object /\ s.ref = event.payment
  BY StripeFields, PartnerFields
<1>2. Basis(r) = "rail" /\ r.ref # s.ref
  BY <1>1 DEF Basis, HasRailId
<1> QED
  BY <1>2, KeysSeparateSales DEF SameSale

-----------------------------------------------------------------------------
(* What sources say of payments *)

Keyed(r, n) == CanonicalKey(r, <<r.name, n>>)

\* A payment has one canonical key, by whatever channel it is reported.
SameKeys ==
  \A r, s \in Reports : r.payment # Null /\ r.payment = s.payment =>
    \A m, n \in 1..MaxAttempts : Keyed(r, m) = Keyed(s, n)

\* News of money given back goes by the key of its own payment, and no other's.
RefundsFindTheirSale ==
  \A r, s \in Reports : r.money = "returned" =>
    \A m, n \in 1..MaxAttempts : Keyed(r, m) = Keyed(s, n) => r.payment = s.payment

\* It is told apart from the news of a sale, as SquareKind does by the status of the
\* payment or the money refunded of it.
RefundsAreReversals ==
  \A r \in Reports : r.money = "returned" => r.kind = "reversal"

-----------------------------------------------------------------------------
(* Theorems *)

\* A delivery is put on record only after the mail server took the message, and names
\* the receipt the message did.
THEOREM DeliveriesWereMailed == Spec => []DeliveredMeansMailed
<1>1. ReportsInv => DeliveredMeansMailed
  BY DEF ReportsInv
<1> QED
  BY <1>1, ReportsInvariant, PTL

\* A corroboration never rests on a surrogate key, and never contradicts the amount the
\* sale was registered with, however late its statement runs.
THEOREM CorroborationsHold == Spec => []CorroborationsAgree
<1>1. ReportsInv => CorroborationsAgree
  BY DEF ReportsInv
<1> QED
  BY <1>1, ReportsInvariant, PTL

\* A webhook that is on record, so never to be delivered again, did its work: crashes
\* and failed statements come before the record or leave no record.
THEOREM RecordsWereProcessed == Spec => []RecordedMeansProcessed
<1>1. ReportsInv => RecordedMeansProcessed
  BY DEF ReportsInv
<1> QED
  BY <1>1, ReportsInvariant, PTL

\* Where one server takes the requests, the search for near matches and the
\* registration that follows cannot be separated: two near matches never both mint.
THEOREM NearMatchesNeverMint ==
  ASSUME OneServer
  PROVE  Spec => []NearMatchesQuarantined
<1>1. Init => AloneInv
  BY DEF Init, Idle, AloneInv, Alone, Between, NearMatchesQuarantined
<1>2. TypeOK /\ AloneInv /\ [Next]_vars => AloneInv'
  BY StepAlone
<1>3. AloneInv => NearMatchesQuarantined
  BY DEF AloneInv
<1> QED
  BY <1>1, <1>2, <1>3, IngestTypeCorrect, PTL DEF Spec

\* Refunds mint nothing, in whatever order the news comes: the sale a refund belongs to
\* goes back to a report of the same payment from before the money was returned.
THEOREM RefundsMintNothing ==
  ASSUME RefundsFindTheirSale, RefundsAreReversals
  PROVE  Spec => []RefundsGrantNothing
<1>1. TypeOK /\ ReportsInv => RefundsGrantNothing
  <2> SUFFICES ASSUME TypeOK, ReportsInv, NEW r \in Reports, r.money = "returned",
                      NEW e \in SalesOf(r)
               PROVE  \E s \in Reports :
                        s.payment = r.payment /\ s.money # "returned" /\ attempts[s] > 0
    BY DEF RefundsGrantNothing
  <2>1. PICK m \in 1..attempts[r] : e \in registry /\ e.key = Keyed(r, m)
    BY DEF SalesOf, RowsFor, Keyed
  <2>2. PICK s \in Reports :
          s.kind = "transaction" /\ \E n \in 1..attempts[s] : e.key = Keyed(s, n)
    BY <2>1 DEF ReportsInv, SalesReported, Keyed
  <2>3. PICK n \in 1..attempts[s] : e.key = Keyed(s, n)
    BY <2>2
  <2>4. m \in 1..MaxAttempts /\ n \in 1..MaxAttempts /\ attempts[s] > 0
    BY IngestAssumption DEF TypeOK
  <2>5. r.payment = s.payment
    BY <2>1, <2>3, <2>4 DEF RefundsFindTheirSale
  <2>6. s.money # "returned"
    BY <2>2 DEF RefundsAreReversals
  <2> QED
    BY <2>4, <2>5, <2>6
<1> QED
  BY <1>1, IngestTypeCorrect, ReportsInvariant, PTL

\* However many partners report a payment, one receipt: all it takes is that they agree
\* on its key.
THEOREM OneReceipt ==
  ASSUME SameKeys
  PROVE  Spec => []OneReceiptPerPayment
<1>1. TypeOK /\ OneRightPerSale => OneReceiptPerPayment
  <2> SUFFICES ASSUME TypeOK, OneRightPerSale, NEW payment, payment # Null
               PROVE  Cardinality(UNION {SalesOf(r) :
                        r \in {s \in Reports : s.payment = payment}}) <= 1
    BY DEF OneReceiptPerPayment
  <2> DEFINE sales == UNION {SalesOf(r) : r \in {s \in Reports : s.payment = payment}}
  <2>1. ASSUME NEW e \in sales
        PROVE  e \in registry /\ \E r \in Reports, n \in 1..MaxAttempts :
                                    r.payment = payment /\ e.key = Keyed(r, n)
    <3>1. PICK r \in Reports : r.payment = payment /\ e \in SalesOf(r)
      OBVIOUS
    <3>2. PICK n \in 1..attempts[r] : e \in registry /\ e.key = Keyed(r, n)
      BY <3>1 DEF SalesOf, RowsFor, Keyed
    <3>3. n \in 1..MaxAttempts
      BY IngestAssumption DEF TypeOK
    <3> QED
      BY <3>1, <3>2, <3>3
  <2>2. \A e, f \in sales : e = f
    <3> TAKE e, f \in sales
    <3>1. PICK r \in Reports, m \in 1..MaxAttempts : r.payment = payment /\ e.key = Keyed(r, m)
      BY <2>1
    <3>2. PICK s \in Reports, n \in 1..MaxAttempts : s.payment = payment /\ f.key = Keyed(s, n)
      BY <2>1
    <3>3. e.key = f.key
      BY <3>1, <3>2 DEF SameKeys
    <3> QED
      BY <2>1, <3>3 DEF OneRightPerSale
  <2> HIDE DEF sales
  <2>3. Cardinality(sales) <= 1
    <3>1. CASE sales = {}
      BY <3>1, FS_EmptySet
    <3>2. ASSUME NEW e \in sales PROVE Cardinality(sales) <= 1
      <4>1. sales = {e}
        BY <2>2, <3>2
      <4>2. Cardinality({e}) = 1
        BY FS_Singleton
      <4> QED
        BY <4>1, <4>2
    <3> QED
      BY <3>1, <3>2
  <2> QED
    BY <2>3 DEF sales
<1> QED
  BY <1>1, IngestTypeCorrect, OneRight, PTL

=============================================================================
