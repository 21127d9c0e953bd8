---------------------------- MODULE Ingest_proofs ----------------------------
(***************************************************************************)
(* Proofs about Ingest for every set of handlers, processes and reports:   *)
(* a sale has one right, every link can be redeemed, and where a failed    *)
(* delivery delivered nothing a sale gets one link.                        *)
(*                                                                         *)
(* RightsInv and LinksInv are inductive.  Only Mint and Register touch     *)
(* what RightsInv says of the tables, only Lock, Unlock and the mail       *)
(* server what LinksInv says; one lemma each covers all other statements.  *)
(***************************************************************************)
EXTENDS Ingest, FiniteSetTheorems, TLAPS

\* The initial states.
LEMMA InitRights == Init => RightsInv /\ LinksInv
<1> SUFFICES ASSUME Init PROVE RightsInv /\ LinksInv
  OBVIOUS
<1>1. TypeOK
  BY IngestAssumption DEF Init, TypeOK, TaskType
<1>2. IsFiniteSet(transactions) /\ IsFiniteSet(receipts) /\ OneRightPerSale
  BY FS_EmptySet DEF Init, OneRightPerSale
<1>3. \A h \in Handlers : task[h].pc = "idle"
  BY DEF Init, Idle
<1> QED
  BY <1>1, <1>2, <1>3
  DEF Init, RightsInv, LinksInv, LinksWork, OneLinkPerSale, Established, Delivering

-----------------------------------------------------------------------------
(* What the helpers do to a handler *)

\* Keys and attempts are of the expected sets as long as a handler is at work.
LEMMA AtWork ==
  ASSUME TypeOK, NEW h \in Handlers, task[h].pc # "idle"
  PROVE  /\ task[h] \in [pc : Pcs \ {"idle"}, report : Reports, try : 1..MaxAttempts,
                         receipt : ReceiptIds \cup {Nobody}]
         /\ By(h) \in Tokens /\ KeyOf(h) \in SaleKeys
<1>1. task[h] \in TaskType /\ task[h] # Idle
  BY DEF TypeOK, Idle
<1>2. task[h] \in [pc : Pcs \ {"idle"}, report : Reports, try : 1..MaxAttempts,
                   receipt : ReceiptIds \cup {Nobody}]
  BY <1>1 DEF TaskType
<1>3. By(h) \in Tokens
  BY <1>2 DEF By, Tokens
<1> QED
  BY <1>2, <1>3 DEF KeyOf, SaleKeys

\* A handler that stays at work keeps its report; the others do not notice.
LEMMA Moved ==
  ASSUME TypeOK, NEW h \in Handlers, task[h].pc # "idle", NEW pc \in Pcs \ {"idle"},
         NEW receipt \in ReceiptIds \cup {Nobody},
         task' = [task EXCEPT ![h].pc = pc, ![h].receipt = receipt], LoopAfter(h, pc)
  PROVE  /\ task' \in [Handlers -> TaskType] /\ loop' \in [Procs -> Handlers \cup {Nobody}]
         /\ \A g \in Handlers : g # h => task'[g] = task[g]
         /\ task'[h].pc = pc /\ task'[h].receipt = receipt
         /\ task'[h].report = task[h].report
         /\ KeyOf(h)' = KeyOf(h) /\ By(h)' = By(h)
<1>1. task[h] \in [pc : Pcs \ {"idle"}, report : Reports, try : 1..MaxAttempts,
                   receipt : ReceiptIds \cup {Nobody}]
  BY AtWork
<1>2. task \in [Handlers -> TaskType] /\ loop \in [Procs -> Handlers \cup {Nobody}]
  BY DEF TypeOK
<1>3. task'[h] = [pc |-> pc, report |-> task[h].report, try |-> task[h].try,
                  receipt |-> receipt]
  BY <1>1, <1>2
<1>4. task' \in [Handlers -> TaskType] /\ \A g \in Handlers : g # h => task'[g] = task[g]
  BY <1>1, <1>2, <1>3 DEF TaskType
<1>5. loop' \in [Procs -> Handlers \cup {Nobody}]
  BY <1>2, IngestAssumption DEF LoopAfter
<1>6. By(h)' = By(h)
  BY <1>3 DEF By
<1>7. KeyOf(h)' = KeyOf(h)
  BY <1>3, <1>6 DEF KeyOf
<1> QED
  BY <1>3, <1>4, <1>5, <1>6, <1>7

LEMMA WentTo ==
  ASSUME TypeOK, NEW h \in Handlers, task[h].pc # "idle", NEW pc \in Pcs \ {"idle"},
         Goto(h, pc)
  PROVE  /\ task' \in [Handlers -> TaskType] /\ loop' \in [Procs -> Handlers \cup {Nobody}]
         /\ \A g \in Handlers : g # h => task'[g] = task[g]
         /\ task'[h].pc = pc /\ task'[h].receipt = task[h].receipt
         /\ task'[h].report = task[h].report
         /\ KeyOf(h)' = KeyOf(h) /\ By(h)' = By(h)
<1>1. task[h] \in [pc : Pcs \ {"idle"}, report : Reports, try : 1..MaxAttempts,
                   receipt : ReceiptIds \cup {Nobody}]
  BY AtWork
<1>2. task \in [Handlers -> TaskType]
  BY DEF TypeOK
<1>3. task' = [task EXCEPT ![h].pc = pc, ![h].receipt = task[h].receipt]
  BY <1>1, <1>2 DEF Goto
<1>4. task[h].receipt \in ReceiptIds \cup {Nobody} /\ LoopAfter(h, pc)
  BY <1>1 DEF Goto
<1> QED
  BY <1>3, <1>4, Moved

\* A handler that returns is idle.
LEMMA Finished ==
  ASSUME TypeOK, NEW h \in Handlers, Finish(h)
  PROVE  /\ task' \in [Handlers -> TaskType] /\ loop' \in [Procs -> Handlers \cup {Nobody}]
         /\ \A g \in Handlers : g # h => task'[g] = task[g]
         /\ task'[h].pc = "idle"
<1>1. task' = [task EXCEPT ![h] = Idle] /\ Idle \in TaskType /\ Idle.pc = "idle"
  BY DEF Finish, TaskType, Idle
<1>2. loop' \in [Procs -> Handlers \cup {Nobody}]
  BY IngestAssumption DEF Finish, LoopAfter, TypeOK
<1> QED
  BY <1>1, <1>2 DEF TypeOK

-----------------------------------------------------------------------------
(* Rights *)

\* Statements that leave sales, receipts, the registry and claims alone, and move
\* their handler to where it has established what is asked there, keep the rights.
LEMMA RightsKept ==
  ASSUME RightsInv, TypeOK', LinksWork', NEW h \in Handlers,
         UNCHANGED <<transactions, receipts, registry, claims>>,
         \A g \in Handlers : g # h => task'[g] = task[g],
         \/ task'[h].pc \notin {"search", "mint", "register", "claim", "lock", "send", "sent",
                                "refused"}
         \/ task'[h].pc \in {"search", "mint"} /\ task'[h].report.offering \in DOMAIN IssuerOf
         \/ /\ task[h].pc \in {"lock", "send", "sent"}
            /\ task'[h].pc \in {"send", "sent", "refused"}
            /\ task'[h].pc = "send" => task[h].pc = "lock"
            /\ task'[h].receipt = task[h].receipt
            /\ KeyOf(h)' = KeyOf(h) /\ By(h)' = By(h)
  PROVE  RightsInv'
<1>1. OneRightPerSale' /\ IsFiniteSet(transactions') /\ IsFiniteSet(receipts')
  BY DEF RightsInv, OneRightPerSale
<1>2. ASSUME NEW g \in Handlers PROVE Established(g)'
  <2>1. CASE g # h
    <3>1. task'[g] = task[g] /\ By(g)' = By(g)
      BY <2>1 DEF By
    <3>2. KeyOf(g)' = KeyOf(g)
      BY <3>1 DEF KeyOf
    <3>3. Established(g)
      BY DEF RightsInv
    <3> QED
      BY <3>1, <3>2, <3>3 DEF Established, RowsFor
  <2>2. CASE g = h
    <3>1. Established(h)
      BY DEF RightsInv
    <3> QED
      BY <2>2, <3>1 DEF Established, RowsFor
  <2> QED
    BY <2>1, <2>2
<1>3. ASSUME NEW g \in Handlers, task'[g].pc = "register"
      PROVE  task[g].pc = "register" /\ task'[g].receipt = task[g].receipt
  BY <1>3
<1> QED
  BY <1>1, <1>2, <1>3 DEF RightsInv

\* Messages, registry rows and claims that are still there keep the links working.
LEMMA LinksStillWork ==
  ASSUME RightsInv, mailbox' = mailbox, registry \subseteq registry', claims \subseteq claims'
  PROVE  LinksWork'
BY DEF RightsInv, LinksWork, RowsFor

\* The statements that read, log, lock, record or throw.
LEMMA QuietRights ==
  ASSUME RightsInv, NEW h \in Handlers,
         \/ ResumeEnriched(h) \/ Lookup(h) \/ FindSurrogateAmbiguity(h) \/ LogConflict(h)
         \/ Lock(h) \/ RecordDelivery(h) \/ Unlock(h) \/ SignEvent(h) \/ RecordWebhook(h)
         \/ WriteFails(h) \/ RecordDeliveryFails(h)
  PROVE  RightsInv'
<1>1. TypeOK
  BY DEF RightsInv
<1>2. task[h].pc # "idle"
  BY DEF ResumeEnriched, Lookup, FindSurrogateAmbiguity, LogConflict, Lock, RecordDelivery,
     Unlock, SignEvent, RecordWebhook, WriteFails, RecordDeliveryFails, Turn
<1>3. By(h) \in Tokens /\ KeyOf(h) \in SaleKeys /\ task[h].report \in Reports
  BY <1>1, <1>2, AtWork
<1>4. UNCHANGED <<transactions, receipts, registry, claims, mailbox, attempts>>
  BY DEF ResumeEnriched, Lookup, FindSurrogateAmbiguity, LogConflict, Lock, RecordDelivery,
     Unlock, SignEvent, RecordWebhook, WriteFails, RecordDeliveryFails, tables
<1>5. /\ locks' \subseteq SaleKeys /\ webhooks' \subseteq {r.name : r \in Reports}
      /\ faults' \in 0..MaxFaults
      /\ deliveries' \subseteq [key : SaleKeys, receipt : ReceiptIds]
  <2>1. CASE Lock(h) \/ Unlock(h)
    BY <1>1, <1>3, <2>1 DEF Lock, Unlock, TypeOK
  <2>2. CASE RecordDelivery(h)
    <3>1. task[h].receipt \in ReceiptIds
      BY <1>1, <2>2 DEF RightsInv, Established, RecordDelivery, Turn, RowsFor, TypeOK,
         RegistryRow
    <3> QED
      BY <1>1, <1>3, <2>2, <3>1 DEF RecordDelivery, TypeOK
  <2>3. CASE RecordWebhook(h)
    BY <1>1, <1>3, <2>3 DEF RecordWebhook, TypeOK
  <2>4. CASE WriteFails(h) \/ RecordDeliveryFails(h)
    BY <1>1, <2>4, IngestAssumption DEF WriteFails, RecordDeliveryFails, TypeOK, tables
  <2>5. CASE \/ ResumeEnriched(h) \/ Lookup(h) \/ FindSurrogateAmbiguity(h)
             \/ LogConflict(h) \/ SignEvent(h)
    BY <1>1, <2>5 DEF ResumeEnriched, Lookup, FindSurrogateAmbiguity, LogConflict,
       SignEvent, TypeOK, tables
  <2> QED
    BY <2>1, <2>2, <2>3, <2>4, <2>5
<1>6. LinksWork'
  BY <1>4, LinksStillWork
<1>7. ASSUME Finish(h) PROVE RightsInv'
  <2>1. TypeOK'
    BY <1>1, <1>4, <1>5, <1>7, Finished DEF TypeOK
  <2>2. \A g \in Handlers : g # h => task'[g] = task[g]
    BY <1>1, <1>7, Finished
  <2>3. task'[h].pc = "idle"
    BY <1>1, <1>7, Finished
  <2> QED
    BY <1>4, <1>6, <2>1, <2>2, <2>3, RightsKept
<1>8. ASSUME NEW pc \in Pcs \ {"idle"}, Goto(h, pc),
             \/ pc \notin {"search", "mint", "register", "claim", "lock", "send", "sent",
                           "refused"}
             \/ pc \in {"search", "mint"} /\ task[h].report.offering \in DOMAIN IssuerOf
             \/ pc = "send" /\ task[h].pc = "lock"
             \/ pc = "refused" /\ task[h].pc = "sent"
      PROVE  RightsInv'
  <2>1. TypeOK'
    BY <1>1, <1>2, <1>4, <1>5, <1>8, WentTo DEF TypeOK
  <2>2. /\ \A g \in Handlers : g # h => task'[g] = task[g]
        /\ task'[h].pc = pc /\ task'[h].receipt = task[h].receipt
        /\ task'[h].report = task[h].report
        /\ KeyOf(h)' = KeyOf(h) /\ By(h)' = By(h)
    BY <1>1, <1>2, <1>8, WentTo
  <2> QED
    BY <1>4, <1>6, <1>8, <2>1, <2>2, RightsKept
<1>9. CASE ResumeEnriched(h) \/ WriteFails(h)
  <2>1. Finish(h) \/ Goto(h, "lookup")
    BY <1>9 DEF ResumeEnriched, WriteFails
  <2> QED
    BY <1>7, <1>8, <2>1 DEF Pcs
<1>10. CASE Lookup(h)
  <2>1. PICK decision \in {"return", "conflict", "corroborate", "search", "mint"} :
          decision = Decision(task[h].report, KeyOf(h))
    BY DEF Decision
  <2>2. \/ Finish(h)
        \/ Return(h)
        \/ Admissible(task[h].report) /\ decision # "return" /\ Goto(h, decision)
    BY <1>10, <2>1 DEF Lookup
  <2>3. \/ Finish(h)
        \/ Goto(h, "record")
        \/ Admissible(task[h].report) /\ decision # "return" /\ Goto(h, decision)
    BY <2>2 DEF Return
  <2> QED
    BY <1>7, <1>8, <2>1, <2>3 DEF Pcs, Admissible
<1>11. CASE FindSurrogateAmbiguity(h)
  <2>1. task[h].pc = "search" /\ (Goto(h, "conflict") \/ Goto(h, "mint"))
    BY <1>11 DEF FindSurrogateAmbiguity, Turn
  <2>2. task[h].report.offering \in DOMAIN IssuerOf
    BY <2>1 DEF RightsInv, Established
  <2> QED
    BY <1>8, <2>1, <2>2 DEF Pcs
<1>12. CASE LogConflict(h) \/ RecordDelivery(h) \/ Unlock(h)
  <2>1. Goto(h, "event")
    BY <1>12 DEF LogConflict, RecordDelivery, Unlock
  <2> QED
    BY <1>8, <2>1 DEF Pcs
<1>13. CASE Lock(h)
  <2>1. task[h].pc = "lock" /\ (Goto(h, "event") \/ Goto(h, "send"))
    BY <1>13 DEF Lock, AfterLock, Turn
  <2> QED
    BY <1>8, <2>1 DEF Pcs
<1>14. CASE SignEvent(h) \/ RecordWebhook(h)
  <2>1. Finish(h) \/ Goto(h, "record")
    BY <1>14 DEF SignEvent, RecordWebhook, Return
  <2> QED
    BY <1>7, <1>8, <2>1 DEF Pcs
<1>15. CASE RecordDeliveryFails(h)
  <2>1. task[h].pc = "sent" /\ Goto(h, "refused")
    BY <1>15 DEF RecordDeliveryFails, Turn
  <2> QED
    BY <1>8, <2>1 DEF Pcs
<1> QED
  BY <1>9, <1>10, <1>11, <1>12, <1>13, <1>14, <1>15

\* A report is taken in by an idle handler, which has established nothing yet.
LEMMA ReceiveRights ==
  ASSUME RightsInv, NEW h \in Handlers, NEW r \in Reports, Receive(h, r)
  PROVE  RightsInv'
<1> DEFINE first == IF r.channel = "quickbooks" THEN "enrich" ELSE "lookup"
<1>1. /\ task' = [task EXCEPT ![h] =
           [pc |-> first, report |-> r, try |-> attempts[r] + 1, receipt |-> Nobody]]
      /\ attempts[r] < MaxAttempts /\ attempts' = [attempts EXCEPT ![r] = @ + 1]
      /\ LoopAfter(h, first) /\ UNCHANGED <<tables, mailbox, faults>>
  BY DEF Receive
<1>2. attempts[r] + 1 \in 1..MaxAttempts /\ attempts' \in [Reports -> 0..MaxAttempts]
  BY <1>1, IngestAssumption DEF RightsInv, TypeOK
<1>3. task'[h].pc = first /\ task' \in [Handlers -> TaskType]
  BY <1>1, <1>2 DEF RightsInv, TypeOK, TaskType, Pcs
<1>4. TypeOK'
  BY <1>1, <1>2, <1>3, IngestAssumption DEF RightsInv, TypeOK, LoopAfter, tables
<1>5. LinksWork'
  BY <1>1, LinksStillWork DEF tables
<1>6. \A g \in Handlers : g # h => task'[g] = task[g]
  BY <1>1 DEF RightsInv, TypeOK
<1> QED
  BY <1>1, <1>3, <1>4, <1>5, <1>6, RightsKept DEF tables

\* The mail server answers; only an accepted message names a claim and a registry row.
LEMMA MailRights ==
  ASSUME RightsInv, NEW h \in Handlers, Mail(h)
  PROVE  RightsInv'
<1>1. TypeOK /\ task[h].pc = "send" /\ Established(h)
  BY DEF RightsInv, Mail, MailAccepts, MailRefuses, MailAcceptsUnacknowledged
<1>2. PICK pc \in {"sent", "refused"} :
        task' = [task EXCEPT ![h].pc = pc] /\ UNCHANGED <<tables, loop, attempts, faults>>
  BY DEF Mail, MailAccepts, MailRefuses, MailAcceptsUnacknowledged
<1>3. task[h] \in [pc : Pcs \ {"idle"}, report : Reports, try : 1..MaxAttempts,
                   receipt : ReceiptIds \cup {Nobody}]
      /\ By(h) \in Tokens /\ KeyOf(h) \in SaleKeys
  BY <1>1, AtWork
<1>4. task'[h] = [pc |-> pc, report |-> task[h].report, try |-> task[h].try,
                  receipt |-> task[h].receipt]
  BY <1>1, <1>2, <1>3 DEF TypeOK
<1>5. task' \in [Handlers -> TaskType] /\ \A g \in Handlers : g # h => task'[g] = task[g]
  BY <1>1, <1>2, <1>3, <1>4 DEF TypeOK, TaskType, Pcs
<1>6. By(h)' = By(h) /\ KeyOf(h)' = KeyOf(h)
  BY <1>4 DEF By, KeyOf
<1>7. mailbox' = mailbox \/ mailbox' = mailbox \cup {Message(h)}
  BY DEF Mail, MailAccepts, MailRefuses, MailAcceptsUnacknowledged
<1>8. PICK e \in RowsFor(KeyOf(h)) : e.receipt = task[h].receipt
  BY <1>1 DEF Established
<1>9. task[h].receipt \in ReceiptIds
  BY <1>1, <1>8 DEF RowsFor, TypeOK, RegistryRow
<1>10. TypeOK'
  BY <1>1, <1>2, <1>3, <1>5, <1>7, <1>9 DEF TypeOK, Message, tables
<1>11. LinksWork'
  <2>1. [token |-> By(h), receipt |-> task[h].receipt] \in claims
    BY <1>1 DEF Established
  <2>2. UNCHANGED <<registry, claims>>
    BY <1>2 DEF tables
  <2> SUFFICES ASSUME NEW m \in mailbox'
               PROVE  /\ [token |-> m.token, receipt |-> m.receipt] \in claims
                      /\ \E row \in RowsFor(m.key) : row.receipt = m.receipt
    BY <2>2 DEF LinksWork, RowsFor
  <2>3. CASE m \in mailbox
    BY <2>3 DEF RightsInv, LinksWork
  <2>4. CASE m = Message(h)
    <3>1. m.key = KeyOf(h) /\ m.token = By(h) /\ m.receipt = task[h].receipt
      BY <2>4 DEF Message
    <3> QED
      BY <1>8, <2>1, <3>1
  <2> QED
    BY <1>7, <2>3, <2>4
<1> QED
  BY <1>1, <1>2, <1>4, <1>5, <1>6, <1>10, <1>11, RightsKept DEF tables

\* A crash takes the handlers of a process, and nothing of the tables.
LEMMA CrashRights ==
  ASSUME RightsInv, NEW p \in Procs, Crash(p)
  PROVE  RightsInv'
<1>1. /\ task' = [h \in Handlers |-> IF ProcOf[h] = p THEN Idle ELSE task[h]]
      /\ loop' = [loop EXCEPT ![p] = Nobody] /\ faults < MaxFaults /\ faults' = faults + 1
      /\ UNCHANGED <<tables, mailbox, attempts>>
  BY DEF Crash
<1>2. TypeOK'
  BY <1>1, IngestAssumption DEF RightsInv, TypeOK, TaskType, tables
<1>3. LinksWork'
  BY <1>1, LinksStillWork DEF tables
<1>4. ASSUME NEW g \in Handlers PROVE task'[g] = task[g] \/ task'[g].pc = "idle"
  BY <1>1, <1>4 DEF Idle
<1>5. ASSUME NEW g \in Handlers PROVE Established(g)'
  <2>1. CASE task'[g] = task[g]
    <3>1. By(g)' = By(g)
      BY <2>1 DEF By
    <3>2. KeyOf(g)' = KeyOf(g)
      BY <2>1, <3>1 DEF KeyOf
    <3> QED
      BY <1>1, <2>1, <3>1, <3>2 DEF RightsInv, Established, RowsFor, tables
  <2>2. CASE task'[g].pc = "idle"
    BY <2>2 DEF Established
  <2> QED
    BY <1>4, <2>1, <2>2
<1>6. OneRightPerSale' /\ IsFiniteSet(transactions') /\ IsFiniteSet(receipts')
  BY <1>1 DEF RightsInv, OneRightPerSale, tables
<1> QED
  BY <1>2, <1>3, <1>4, <1>5, <1>6 DEF RightsInv

\* What the other handlers established survives rows that a handler adds, unless a row
\* gives away the receipt one of them is about to register.
LEMMA OthersKept ==
  ASSUME RightsInv, NEW g \in Handlers, task'[g] = task[g],
         transactions \subseteq transactions', receipts \subseteq receipts',
         registry \subseteq registry', claims \subseteq claims',
         task[g].pc = "register" =>
           \A e \in registry' : e \notin registry => e.receipt # task[g].receipt
  PROVE  Established(g)'
<1>1. By(g)' = By(g)
  BY DEF By
<1>2. KeyOf(g)' = KeyOf(g)
  BY <1>1 DEF KeyOf
<1>3. Established(g)
  BY DEF RightsInv
<1> QED
  BY <1>1, <1>2, <1>3 DEF Established, RowsFor

\* Mint: a sale the ledger does not hold gets a receipt the ledger does not hold.
LEMMA MintRights ==
  ASSUME RightsInv, NEW h \in Handlers, Mint(h)
  PROVE  RightsInv'
<1> DEFINE r == task[h].report
<1>1. TypeOK /\ task[h].pc = "mint" /\ Established(h)
      /\ UNCHANGED <<registry, claims, locks, deliveries, corroborations, conflicts,
                     webhooks, signed, mailbox, attempts, faults>>
  BY DEF RightsInv, Mint, Turn
<1>2. By(h) \in Tokens /\ KeyOf(h) \in SaleKeys /\ r \in Reports
  BY <1>1, AtWork
<1>3. LinksWork'
  BY <1>1, LinksStillWork
<1>4. CASE Finish(h) /\ UNCHANGED <<transactions, receipts>>
  <2>1. TypeOK'
    BY <1>1, <1>4, Finished DEF TypeOK
  <2> QED
    BY <1>1, <1>3, <1>4, <2>1, Finished, RightsKept
<1>5. ASSUME NEW id \in ReceiptIds, \A rc \in receipts : rc.id # id,
             ~TxIdUsed(TxId(h)),
             transactions' = transactions \cup
               {[id |-> TxId(h), issuer |-> r.issuer, offering |-> r.offering, at |-> r.at]},
             receipts' = receipts \cup
               {[id |-> id, issuer |-> r.issuer, holder |-> id, role |-> r.role,
                 offering |-> r.offering, level |-> 1, prev |-> Null,
                 coattested |-> FALSE, at |-> r.at]},
             task' = [task EXCEPT ![h].pc = "register", ![h].receipt = id],
             LoopAfter(h, "register")
      PROVE  RightsInv'
  <2> DEFINE tx == [id |-> TxId(h), issuer |-> r.issuer, offering |-> r.offering, at |-> r.at]
             rc == [id |-> id, issuer |-> r.issuer, holder |-> id, role |-> r.role,
                    offering |-> r.offering, level |-> 1, prev |-> Null,
                    coattested |-> FALSE, at |-> r.at]
  <2>1. /\ task' \in [Handlers -> TaskType] /\ loop' \in [Procs -> Handlers \cup {Nobody}]
        /\ \A g \in Handlers : g # h => task'[g] = task[g]
        /\ task'[h].pc = "register" /\ task'[h].receipt = id /\ task'[h].report = r
        /\ KeyOf(h)' = KeyOf(h) /\ By(h)' = By(h)
    BY <1>1, <1>5, Moved DEF Pcs
  <2>2. tx.id = KeyOf(h) /\ \A t \in transactions : t.id # tx.id
    BY <1>5 DEF TxId, TxIdUsed
  <2>3. r.offering \in DOMAIN IssuerOf
    BY <1>1 DEF Established
  <2>4. TypeOK'
    BY <1>1, <1>2, <1>5, <2>1, <2>2, <2>3 DEF TypeOK
  <2>5. tx \notin transactions /\ rc \notin receipts
    BY <1>5, <2>2
  <2>6. /\ IsFiniteSet(transactions') /\ IsFiniteSet(receipts')
        /\ Cardinality(transactions') = Cardinality(transactions) + 1
        /\ Cardinality(receipts') = Cardinality(receipts) + 1
    BY <1>5, <2>5, FS_AddElement DEF RightsInv
  <2>7. \A t, u \in transactions' : t.id = u.id => t = u
    BY <1>5, <2>2 DEF RightsInv, OneRightPerSale
  <2>8. OneRightPerSale'
    BY <1>1, <1>5, <2>6, <2>7 DEF RightsInv, OneRightPerSale
  <2>9. \A e \in registry : e.receipt # id
    BY <1>5 DEF RightsInv, OneRightPerSale
  <2>10. Established(h)'
    <3>1. \E t \in transactions' :
            /\ t.id = KeyOf(h)'
            /\ t.issuer = task'[h].report.issuer /\ t.offering = task'[h].report.offering
      <4>1. tx \in transactions' /\ tx.issuer = r.issuer /\ tx.offering = r.offering
        BY <1>5
      <4> QED
        BY <2>1, <2>2, <4>1
    <3>2. \E x \in receipts' :
            /\ x.id = task'[h].receipt
            /\ x.issuer = task'[h].report.issuer /\ x.offering = task'[h].report.offering
      <4>1. rc \in receipts' /\ rc.id = id /\ rc.issuer = r.issuer /\ rc.offering = r.offering
        BY <1>5
      <4> QED
        BY <2>1, <4>1
    <3>3. \A e \in registry' : e.receipt # task'[h].receipt
      BY <1>1, <2>1, <2>9
    <3>4. task'[h].report.offering \in DOMAIN IssuerOf
      BY <2>1, <2>3
    <3> QED
      BY <2>1, <3>1, <3>2, <3>3, <3>4 DEF Established
  <2>11. \A g \in Handlers : Established(g)'
    <3>1. ASSUME NEW g \in Handlers, g # h PROVE Established(g)'
      BY <1>1, <1>5, <2>1, <3>1, OthersKept
    <3> QED
      BY <2>10, <3>1
  <2>12. ASSUME NEW g \in Handlers, g # h, task[g].pc = "register"
         PROVE  task[g].receipt # id
    BY <1>5, <2>12 DEF RightsInv, Established
  <2> QED
    BY <1>3, <2>1, <2>4, <2>6, <2>8, <2>11, <2>12 DEF RightsInv
<1> QED
  BY <1>4, <1>5 DEF Mint

\* Register: the registry takes the receipt its handler minted, under a key it lacks.
LEMMA RegisterRights ==
  ASSUME RightsInv, NEW h \in Handlers, Register(h)
  PROVE  RightsInv'
<1> DEFINE r == task[h].report
           row == [key |-> KeyOf(h), receipt |-> task[h].receipt, issuer |-> r.issuer,
                   offering |-> r.offering, mintedBy |-> r.source, basis |-> Basis(r),
                   amount |-> r.amount, currency |-> r.currency, at |-> r.at,
                   customer |-> r.customer]
<1>1. TypeOK /\ task[h].pc = "register" /\ Established(h)
      /\ UNCHANGED <<transactions, receipts, claims, locks, deliveries, corroborations,
                     conflicts, webhooks, signed, mailbox, attempts, faults>>
  BY DEF RightsInv, Register, Turn
<1>2. By(h) \in Tokens /\ KeyOf(h) \in SaleKeys /\ r \in Reports
  BY <1>1, AtWork
<1>3. CASE Finish(h) /\ UNCHANGED registry
  <2>1. TypeOK'
    BY <1>1, <1>3, Finished DEF TypeOK
  <2>2. LinksWork'
    BY <1>1, <1>3, LinksStillWork
  <2> QED
    BY <1>1, <1>3, <2>1, <2>2, Finished, RightsKept
<1>4. CASE RowsFor(KeyOf(h)) = {} /\ registry' = registry \cup {row} /\ Goto(h, "claim")
  <2>1. /\ task' \in [Handlers -> TaskType] /\ loop' \in [Procs -> Handlers \cup {Nobody}]
        /\ \A g \in Handlers : g # h => task'[g] = task[g]
        /\ task'[h].pc = "claim" /\ task'[h].receipt = task[h].receipt
        /\ task'[h].report = r
        /\ KeyOf(h)' = KeyOf(h) /\ By(h)' = By(h)
    BY <1>1, <1>4, WentTo DEF Pcs
  <2>2. PICK rc \in receipts :
          rc.id = task[h].receipt /\ rc.issuer = r.issuer /\ rc.offering = r.offering
    BY <1>1 DEF Established
  <2>3. PICK tx \in transactions :
          tx.id = KeyOf(h) /\ tx.issuer = r.issuer /\ tx.offering = r.offering
    BY <1>1 DEF Established
  <2>4. row \in RegistryRow
    BY <1>1, <1>2, <2>2 DEF RegistryRow, TypeOK, Established, Basis
  <2>5. TypeOK'
    BY <1>1, <1>4, <2>1, <2>4 DEF TypeOK
  <2>6. \A e \in registry : e.key # row.key /\ e.receipt # row.receipt
    BY <1>1, <1>4 DEF RowsFor, Established
  <2>7. \A e, f \in registry' : e.key = f.key \/ e.receipt = f.receipt => e = f
    BY <1>4, <2>6 DEF RightsInv, OneRightPerSale
  <2>8. \A e \in registry' :
          /\ \E t \in transactions :
               t.id = e.key /\ t.issuer = e.issuer /\ t.offering = e.offering
          /\ \E x \in receipts :
               x.id = e.receipt /\ x.issuer = e.issuer /\ x.offering = e.offering
    BY <1>4, <2>2, <2>3 DEF RightsInv, OneRightPerSale
  <2>9. OneRightPerSale'
    BY <1>1, <2>7, <2>8 DEF RightsInv, OneRightPerSale
  <2>10. LinksWork'
    BY <1>1, <1>4, LinksStillWork
  <2>11. Established(h)'
    <3>1. row \in registry' /\ row.key = KeyOf(h)' /\ row.receipt = task'[h].receipt
      BY <1>4, <2>1
    <3> QED
      BY <2>1, <3>1 DEF Established, RowsFor
  <2>12. \A g \in Handlers : Established(g)'
    <3>1. ASSUME NEW g \in Handlers, g # h PROVE Established(g)'
      <4>1. task[g].pc = "register" => task[g].receipt # row.receipt
        BY <1>1, <3>1 DEF RightsInv
      <4> QED
        BY <1>1, <1>4, <2>1, <3>1, <4>1, OthersKept
    <3> QED
      BY <2>11, <3>1
  <2> QED
    BY <1>1, <2>1, <2>5, <2>9, <2>10, <2>12 DEF RightsInv
<1> QED
  BY <1>3, <1>4 DEF Register

\* Corroborate: the handler takes over the receipt the sale is registered with.
LEMMA CorroborateRights ==
  ASSUME RightsInv, NEW h \in Handlers, Corroborate(h)
  PROVE  RightsInv'
<1>1. TypeOK /\ task[h].pc = "corroborate"
      /\ UNCHANGED <<transactions, receipts, registry, claims, locks, deliveries,
                     conflicts, webhooks, signed, mailbox, attempts, faults>>
  BY DEF RightsInv, Corroborate, Turn
<1>2. PICK e \in RowsFor(KeyOf(h)), next \in {"claim", "event"} :
        /\ task' = [task EXCEPT ![h].pc = next, ![h].receipt = e.receipt]
        /\ LoopAfter(h, next)
  BY DEF Corroborate
<1>3. e \in registry /\ e.key = KeyOf(h) /\ e.receipt \in ReceiptIds
  BY <1>1, <1>2 DEF RowsFor, TypeOK, RegistryRow
<1>4. /\ task' \in [Handlers -> TaskType] /\ loop' \in [Procs -> Handlers \cup {Nobody}]
      /\ \A g \in Handlers : g # h => task'[g] = task[g]
      /\ task'[h].pc = next /\ task'[h].receipt = e.receipt
      /\ KeyOf(h)' = KeyOf(h)
  <2>1. next \in Pcs \ {"idle"} /\ e.receipt \in ReceiptIds \cup {Nobody}
        /\ task[h].pc # "idle"
    BY <1>1, <1>3 DEF Pcs
  <2> QED
    BY <1>1, <1>2, <2>1, Moved
<1>5. TypeOK'
  BY <1>1, <1>4 DEF TypeOK
<1>6. LinksWork'
  BY <1>1, LinksStillWork
<1>7. Established(h)'
  <2>1. e \in registry' /\ e.key = KeyOf(h)' /\ e.receipt = task'[h].receipt
    BY <1>1, <1>3, <1>4
  <2> QED
    BY <1>4, <2>1 DEF Established, RowsFor
<1>8. ASSUME NEW g \in Handlers, g # h PROVE Established(g)'
  BY <1>1, <1>4, <1>8, OthersKept
<1>9. OneRightPerSale'
  BY <1>1 DEF RightsInv, OneRightPerSale
<1> QED
  BY <1>1, <1>4, <1>5, <1>6, <1>7, <1>8, <1>9 DEF RightsInv

\* CreateClaim: the claim exists before the lock is tried, so before any link is sent.
LEMMA CreateClaimRights ==
  ASSUME RightsInv, NEW h \in Handlers, CreateClaim(h)
  PROVE  RightsInv'
<1> DEFINE claim == [token |-> By(h), receipt |-> task[h].receipt]
<1>1. TypeOK /\ task[h].pc = "claim" /\ Established(h) /\ claims' = claims \cup {claim}
      /\ UNCHANGED <<transactions, receipts, registry, locks, deliveries, corroborations,
                     conflicts, webhooks, signed, mailbox, attempts, faults>>
  BY DEF RightsInv, CreateClaim, Turn
<1>2. PICK pc \in {"event", "lock"} : Goto(h, pc)
  BY DEF CreateClaim
<1>3. /\ task' \in [Handlers -> TaskType] /\ loop' \in [Procs -> Handlers \cup {Nobody}]
      /\ \A g \in Handlers : g # h => task'[g] = task[g]
      /\ task'[h].pc = pc /\ task'[h].receipt = task[h].receipt
      /\ KeyOf(h)' = KeyOf(h) /\ By(h)' = By(h)
  BY <1>1, <1>2, WentTo DEF Pcs
<1>4. PICK e \in registry : e.key = KeyOf(h) /\ e.receipt = task[h].receipt
  BY <1>1 DEF Established, RowsFor
<1>5. claim \in [token : Tokens, receipt : ReceiptIds]
  BY <1>1, <1>4, AtWork DEF TypeOK, RegistryRow
<1>6. TypeOK'
  BY <1>1, <1>3, <1>5 DEF TypeOK
<1>7. LinksWork'
  BY <1>1, LinksStillWork
<1>8. Established(h)'
  <2>1. e \in registry' /\ e.key = KeyOf(h)' /\ e.receipt = task'[h].receipt
    BY <1>1, <1>3, <1>4
  <2>2. [token |-> By(h)', receipt |-> task'[h].receipt] \in claims'
    BY <1>1, <1>3
  <2> QED
    BY <1>3, <2>1, <2>2 DEF Established, RowsFor
<1>9. ASSUME NEW g \in Handlers, g # h PROVE Established(g)'
  BY <1>1, <1>3, <1>9, OthersKept
<1>10. OneRightPerSale'
  BY <1>1 DEF RightsInv, OneRightPerSale
<1> QED
  BY <1>1, <1>3, <1>6, <1>7, <1>8, <1>9, <1>10 DEF RightsInv

\* RightsInv is inductive.
LEMMA StepRights == RightsInv /\ [Next]_vars => RightsInv'
<1> SUFFICES ASSUME RightsInv, [Next]_vars PROVE RightsInv'
  OBVIOUS
<1>1. CASE UNCHANGED vars
  <2>1. UNCHANGED <<tables, mailbox, task, loop, attempts, faults>>
    BY <1>1 DEF vars
  <2>2. \A h \in Handlers : By(h)' = By(h)
    BY <2>1 DEF By
  <2>3. \A h \in Handlers : KeyOf(h)' = KeyOf(h)
    BY <2>1, <2>2 DEF KeyOf
  <2>4. TypeOK' /\ OneRightPerSale' /\ LinksWork'
    BY <2>1 DEF RightsInv, TypeOK, OneRightPerSale, LinksWork, RowsFor, tables
  <2>5. \A h \in Handlers : Established(h)'
    BY <2>1, <2>2, <2>3 DEF RightsInv, Established, RowsFor, tables
  <2> QED
    BY <2>1, <2>4, <2>5 DEF RightsInv, tables
<1>2. ASSUME NEW h \in Handlers, NEW r \in Reports, Receive(h, r) PROVE RightsInv'
  BY <1>2, ReceiveRights
<1>3. ASSUME NEW h \in Handlers, Advance(h) \/ WriteFails(h) \/ RecordDeliveryFails(h)
      PROVE  RightsInv'
  BY <1>3, QuietRights, MintRights, RegisterRights, CorroborateRights, CreateClaimRights
  DEF Advance
<1>4. ASSUME NEW h \in Handlers, Mail(h) PROVE RightsInv'
  BY <1>4, MailRights
<1>5. ASSUME NEW p \in Procs, Crash(p) PROVE RightsInv'
  BY <1>5, CrashRights
<1> QED
  BY <1>1, <1>2, <1>3, <1>4, <1>5 DEF Next

-----------------------------------------------------------------------------
(* Links *)

\* Where no lock is released, no message sent and no delivery begun or reopened,
\* links stay as exclusive as they were.
LEMMA LinksKept ==
  ASSUME LinksInv, UNCHANGED <<locks, mailbox>>,
         \A g \in Handlers : task'[g].pc \in {"send", "sent", "refused"} =>
           /\ task[g].pc \in {"send", "sent", "refused"}
           /\ task'[g].pc # "sent" => task[g].pc # "sent"
           /\ KeyOf(g)' = KeyOf(g)
  PROVE  LinksInv'
<1>1. \A g \in Delivering' : g \in Delivering /\ KeyOf(g)' = KeyOf(g)
  BY DEF Delivering
<1>2. OneLinkPerSale' /\ \A m \in mailbox' : m.key \in locks'
  BY DEF LinksInv, OneLinkPerSale
<1>3. ASSUME NEW g \in Delivering'
      PROVE  /\ KeyOf(g)' \in locks'
             /\ task'[g].pc # "sent" => \A m \in mailbox' : m.key # KeyOf(g)'
             /\ \A f \in Delivering' : KeyOf(f)' = KeyOf(g)' => f = g
  <2>1. KeyOf(g)' \in locks'
    BY <1>1, <1>3 DEF LinksInv
  <2>2. task'[g].pc # "sent" => \A m \in mailbox' : m.key # KeyOf(g)'
    BY <1>1, <1>3 DEF LinksInv, Delivering
  <2>3. \A f \in Delivering' : KeyOf(f)' = KeyOf(g)' => f = g
    BY <1>1, <1>3 DEF LinksInv
  <2> QED
    BY <2>1, <2>2, <2>3
<1> QED
  BY <1>2, <1>3 DEF LinksInv

\* The others, untouched, keep their keys.
LEMMA SameKey ==
  ASSUME NEW g \in Handlers, task'[g] = task[g]
  PROVE  By(g)' = By(g) /\ KeyOf(g)' = KeyOf(g)
<1>1. By(g)' = By(g)
  BY DEF By
<1> QED
  BY <1>1 DEF KeyOf

\* Lock: the insert succeeds only where no delivery has the lock, so no other handler
\* delivers the sale and no message for it is out.
LEMMA LockLinks ==
  ASSUME RightsInv, LinksInv, NEW h \in Handlers, Lock(h)
  PROVE  LinksInv'
<1>1. TypeOK /\ task[h].pc = "lock" /\ mailbox' = mailbox /\ locks' = locks \cup {KeyOf(h)}
  BY DEF RightsInv, Lock, Turn
<1>2. CASE KeyOf(h) \in locks /\ Goto(h, "event")
  <2>1. task'[h].pc = "event" /\ \A g \in Handlers : g # h => task'[g] = task[g]
    BY <1>1, <1>2, WentTo DEF Pcs
  <2> QED
    BY <1>1, <1>2, <2>1, SameKey, LinksKept
<1>3. CASE KeyOf(h) \notin locks /\ Goto(h, "send")
  <2>1. /\ task'[h].pc = "send" /\ KeyOf(h)' = KeyOf(h)
        /\ \A g \in Handlers : g # h => task'[g] = task[g]
    BY <1>1, <1>3, WentTo DEF Pcs
  <2>2. \A g \in Delivering' : g = h \/ (g \in Delivering /\ task'[g] = task[g]
                                        /\ KeyOf(g)' = KeyOf(g))
    BY <2>1, SameKey DEF Delivering
  <2>3. /\ \A m \in mailbox : m.key # KeyOf(h)
        /\ \A g \in Delivering : KeyOf(g) # KeyOf(h)
    BY <1>3 DEF LinksInv
  <2>4. OneLinkPerSale' /\ \A m \in mailbox' : m.key \in locks'
    BY <1>1 DEF LinksInv, OneLinkPerSale
  <2>5. ASSUME NEW g \in Delivering'
        PROVE  /\ KeyOf(g)' \in locks'
               /\ task'[g].pc # "sent" => \A m \in mailbox' : m.key # KeyOf(g)'
               /\ \A f \in Delivering' : KeyOf(f)' = KeyOf(g)' => f = g
    <3>1. KeyOf(g)' \in locks'
      BY <1>1, <2>1, <2>2, <2>5 DEF LinksInv
    <3>2. task'[g].pc # "sent" => \A m \in mailbox' : m.key # KeyOf(g)'
      BY <1>1, <2>1, <2>2, <2>3, <2>5 DEF LinksInv
    <3>3. \A f \in Delivering' : KeyOf(f)' = KeyOf(g)' => f = g
      BY <2>1, <2>2, <2>3, <2>5 DEF LinksInv
    <3> QED
      BY <3>1, <3>2, <3>3
  <2> QED
    BY <2>4, <2>5 DEF LinksInv
<1> QED
  BY <1>1, <1>2, <1>3 DEF Lock, AfterLock

\* Unlock: the delivery that failed sent nothing, so releasing its lock is safe.
LEMMA UnlockLinks ==
  ASSUME RightsInv, LinksInv, NEW h \in Handlers, Unlock(h)
  PROVE  LinksInv'
<1>1. TypeOK /\ task[h].pc = "refused" /\ mailbox' = mailbox
      /\ locks' = locks \ {KeyOf(h)} /\ Goto(h, "event")
  BY DEF RightsInv, Unlock, Turn
<1>2. task'[h].pc = "event" /\ \A g \in Handlers : g # h => task'[g] = task[g]
  BY <1>1, WentTo DEF Pcs
<1>3. \A g \in Delivering' : g # h /\ g \in Delivering /\ task'[g] = task[g]
                             /\ KeyOf(g)' = KeyOf(g)
  BY <1>2, SameKey DEF Delivering
<1>4. h \in Delivering /\ \A m \in mailbox : m.key # KeyOf(h)
  BY <1>1 DEF LinksInv, Delivering
<1>5. OneLinkPerSale' /\ \A m \in mailbox' : m.key \in locks'
  BY <1>1, <1>4 DEF LinksInv, OneLinkPerSale
<1>6. ASSUME NEW g \in Delivering'
      PROVE  /\ KeyOf(g)' \in locks'
             /\ task'[g].pc # "sent" => \A m \in mailbox' : m.key # KeyOf(g)'
             /\ \A f \in Delivering' : KeyOf(f)' = KeyOf(g)' => f = g
  <2>1. KeyOf(g) # KeyOf(h) /\ KeyOf(g) \in locks
    BY <1>3, <1>4, <1>6 DEF LinksInv
  <2>2. KeyOf(g)' \in locks'
    BY <1>1, <1>3, <1>6, <2>1
  <2>3. task'[g].pc # "sent" => \A m \in mailbox' : m.key # KeyOf(g)'
    BY <1>1, <1>3, <1>6 DEF LinksInv
  <2>4. \A f \in Delivering' : KeyOf(f)' = KeyOf(g)' => f = g
    BY <1>3, <1>6 DEF LinksInv
  <2> QED
    BY <2>2, <2>3, <2>4
<1> QED
  BY <1>5, <1>6 DEF LinksInv

\* The mail server: the message that goes out is the first for its sale, and a
\* delivery it refuses has sent none.
LEMMA MailLinks ==
  ASSUME RightsInv, LinksInv, MailFailures \subseteq {"refused"},
         NEW h \in Handlers, Mail(h)
  PROVE  LinksInv'
<1>1. TypeOK /\ task[h].pc = "send"
  BY DEF RightsInv, Mail, MailAccepts, MailRefuses, MailAcceptsUnacknowledged
<1>2. PICK pc \in {"sent", "refused"} :
        /\ task' = [task EXCEPT ![h].pc = pc] /\ locks' = locks
        /\ mailbox' = IF pc = "sent" THEN mailbox \cup {Message(h)} ELSE mailbox
  BY DEF Mail, MailAccepts, MailRefuses, MailAcceptsUnacknowledged, tables
<1>3. task[h] \in [pc : Pcs \ {"idle"}, report : Reports, try : 1..MaxAttempts,
                   receipt : ReceiptIds \cup {Nobody}]
  BY <1>1, AtWork
<1>4. task'[h] = [pc |-> pc, report |-> task[h].report, try |-> task[h].try,
                  receipt |-> task[h].receipt]
      /\ \A g \in Handlers : g # h => task'[g] = task[g]
  BY <1>1, <1>2, <1>3 DEF TypeOK
<1>5. By(h)' = By(h)
  BY <1>4 DEF By
<1>6. KeyOf(h)' = KeyOf(h)
  BY <1>4, <1>5 DEF KeyOf
<1>7. h \in Delivering /\ KeyOf(h) \in locks /\ \A m \in mailbox : m.key # KeyOf(h)
  BY <1>1 DEF LinksInv, Delivering
<1>8. \A g \in Delivering' : g \in Delivering /\ KeyOf(g)' = KeyOf(g)
                             /\ (g # h => task'[g] = task[g])
  BY <1>4, <1>6, <1>7, SameKey DEF Delivering
<1>9. \A m \in mailbox' : m \in mailbox \/ (m = Message(h) /\ m.key = KeyOf(h) /\ pc = "sent")
  BY <1>2 DEF Message
<1>10. OneLinkPerSale'
  BY <1>7, <1>9 DEF LinksInv, OneLinkPerSale
<1>11. \A m \in mailbox' : m.key \in locks'
  BY <1>2, <1>7, <1>9 DEF LinksInv
<1>12. ASSUME NEW g \in Delivering'
       PROVE  /\ KeyOf(g)' \in locks'
              /\ task'[g].pc # "sent" => \A m \in mailbox' : m.key # KeyOf(g)'
              /\ \A f \in Delivering' : KeyOf(f)' = KeyOf(g)' => f = g
  <2>1. KeyOf(g)' \in locks'
    BY <1>2, <1>8, <1>12 DEF LinksInv
  <2>2. \A f \in Delivering' : KeyOf(f)' = KeyOf(g)' => f = g
    BY <1>8, <1>12 DEF LinksInv
  <2>3. ASSUME task'[g].pc # "sent", NEW m \in mailbox' PROVE m.key # KeyOf(g)'
    <3>1. CASE g = h
      BY <1>4, <1>6, <1>7, <1>9, <2>3, <3>1
    <3>2. CASE g # h
      <4>1. g \in Delivering /\ task[g].pc # "sent" /\ KeyOf(g)' = KeyOf(g)
        BY <1>8, <1>12, <2>3, <3>2
      <4>2. KeyOf(g) # KeyOf(h)
        BY <1>7, <3>2, <4>1 DEF LinksInv
      <4> QED
        BY <1>9, <4>1, <4>2 DEF LinksInv
    <3> QED
      BY <3>1, <3>2
  <2> QED
    BY <2>1, <2>2, <2>3
<1> QED
  BY <1>10, <1>11, <1>12 DEF LinksInv

\* Every other statement: its handler goes anywhere but into a delivery, or from a
\* sent one out of it.
LEMMA OtherLinks ==
  ASSUME RightsInv, LinksInv, NEW h \in Handlers,
         \/ ResumeEnriched(h) \/ Lookup(h) \/ FindSurrogateAmbiguity(h) \/ Mint(h)
         \/ Register(h) \/ Corroborate(h) \/ LogConflict(h) \/ CreateClaim(h)
         \/ RecordDelivery(h) \/ SignEvent(h) \/ RecordWebhook(h) \/ WriteFails(h)
  PROVE  LinksInv'
<1>1. TypeOK /\ task[h].pc # "idle" /\ UNCHANGED <<locks, mailbox>>
  BY DEF RightsInv, ResumeEnriched, Lookup, FindSurrogateAmbiguity, Mint, Register,
     Corroborate, LogConflict, CreateClaim, RecordDelivery, SignEvent, RecordWebhook,
     WriteFails, Turn, tables
<1>2. ASSUME \A g \in Handlers : g # h => task'[g] = task[g],
             task'[h].pc \notin {"send", "sent", "refused"}
      PROVE  LinksInv'
  <2>1. ASSUME NEW g \in Handlers, task'[g].pc \in {"send", "sent", "refused"}
        PROVE  task'[g] = task[g] /\ KeyOf(g)' = KeyOf(g)
    BY <1>2, <2>1, SameKey
  <2> QED
    BY <1>1, <2>1, LinksKept
<1>3. ASSUME NEW pc \in Pcs \ {"idle", "send", "sent", "refused"}, Goto(h, pc)
      PROVE  LinksInv'
  <2>1. task'[h].pc = pc /\ \A g \in Handlers : g # h => task'[g] = task[g]
    BY <1>1, <1>3, WentTo
  <2> QED
    BY <1>2, <2>1
<1>4. ASSUME Finish(h) PROVE LinksInv'
  BY <1>1, <1>2, <1>4, Finished
<1>5. CASE Mint(h) \/ Corroborate(h)
  <2>1. \/ Finish(h)
        \/ \E pc \in {"register", "claim", "event"}, id \in ReceiptIds :
             /\ task' = [task EXCEPT ![h].pc = pc, ![h].receipt = id]
             /\ LoopAfter(h, pc)
    <3>1. CASE Mint(h)
      BY <3>1 DEF Mint
    <3>2. CASE Corroborate(h)
      <4>1. PICK e \in RowsFor(KeyOf(h)), next \in {"claim", "event"} :
              /\ task' = [task EXCEPT ![h].pc = next, ![h].receipt = e.receipt]
              /\ LoopAfter(h, next)
        BY <3>2 DEF Corroborate
      <4>2. e.receipt \in ReceiptIds
        BY <1>1 DEF RowsFor, TypeOK, RegistryRow
      <4> QED
        BY <4>1, <4>2
    <3> QED
      BY <1>5, <3>1, <3>2
  <2>2. CASE Finish(h)
    BY <1>4, <2>2
  <2>3. ASSUME NEW pc \in {"register", "claim", "event"}, NEW id \in ReceiptIds,
               task' = [task EXCEPT ![h].pc = pc, ![h].receipt = id], LoopAfter(h, pc)
        PROVE  LinksInv'
    <3>1. pc \in Pcs \ {"idle"} /\ id \in ReceiptIds \cup {Nobody}
      BY DEF Pcs
    <3>2. task'[h].pc = pc /\ \A g \in Handlers : g # h => task'[g] = task[g]
      BY <1>1, <2>3, <3>1, Moved
    <3> QED
      BY <1>2, <3>2
  <2> QED
    BY <2>1, <2>2, <2>3
<1>6. CASE Lookup(h)
  <2>1. PICK decision \in {"return", "conflict", "corroborate", "search", "mint"} :
          decision = Decision(task[h].report, KeyOf(h))
    BY DEF Decision
  <2>2. Finish(h) \/ Goto(h, "record") \/ (decision # "return" /\ Goto(h, decision))
    BY <1>6, <2>1 DEF Lookup, Return
  <2> QED
    BY <1>3, <1>4, <2>2 DEF Pcs
<1>7. CASE ~(Mint(h) \/ Corroborate(h) \/ Lookup(h))
  <2>1. Finish(h) \/ \E pc \in {"lookup", "mint", "conflict", "claim", "event",
                                    "lock", "record"} : Goto(h, pc)
    BY <1>7 DEF ResumeEnriched, FindSurrogateAmbiguity, Register, LogConflict, CreateClaim,
       RecordDelivery, SignEvent, RecordWebhook, WriteFails, Return
  <2> QED
    BY <1>3, <1>4, <2>1 DEF Pcs
<1> QED
  BY <1>5, <1>6, <1>7

\* LinksInv is inductive beside RightsInv, as long as a failed delivery delivered
\* nothing and a delivery that succeeded is put on record.
LEMMA StepLinks ==
  ASSUME MailFailures \subseteq {"refused"}
  PROVE  RightsInv /\ LinksInv /\ [Next]_vars => LinksInv'
<1> SUFFICES ASSUME RightsInv, LinksInv, [Next]_vars PROVE LinksInv'
  OBVIOUS
<1>1. TypeOK
  BY DEF RightsInv
<1>2. CASE UNCHANGED vars
  <2>1. UNCHANGED <<locks, mailbox, task>>
    BY <1>2 DEF vars, tables
  <2> QED
    BY <2>1, SameKey, LinksKept
<1>3. ASSUME NEW h \in Handlers, NEW r \in Reports, Receive(h, r) PROVE LinksInv'
  <2>1. PICK first \in {"enrich", "lookup"} :
          task' = [task EXCEPT ![h] =
            [pc |-> first, report |-> r, try |-> attempts[r] + 1, receipt |-> Nobody]]
    BY <1>3 DEF Receive
  <2>2. \A g \in Handlers : task'[g].pc \in {"send", "sent", "refused"} => task'[g] = task[g]
    BY <1>1, <2>1 DEF TypeOK
  <2>3. UNCHANGED <<locks, mailbox>>
    BY <1>3 DEF Receive, tables
  <2> QED
    BY <2>2, <2>3, SameKey, LinksKept
<1>4. ASSUME NEW h \in Handlers, Advance(h) \/ WriteFails(h) PROVE LinksInv'
  BY <1>4, LockLinks, UnlockLinks, OtherLinks DEF Advance
<1>5. ASSUME NEW h \in Handlers, RecordDeliveryFails(h) PROVE LinksInv'
  BY <1>5 DEF RecordDeliveryFails
<1>6. ASSUME NEW h \in Handlers, Mail(h) PROVE LinksInv'
  BY <1>6, MailLinks
<1>7. ASSUME NEW p \in Procs, Crash(p) PROVE LinksInv'
  <2>1. /\ task' = [h \in Handlers |-> IF ProcOf[h] = p THEN Idle ELSE task[h]]
        /\ UNCHANGED <<locks, mailbox>>
    BY <1>7 DEF Crash, tables
  <2>2. \A g \in Handlers : task'[g].pc \in {"send", "sent", "refused"} => task'[g] = task[g]
    BY <2>1 DEF Idle
  <2> QED
    BY <2>1, <2>2, SameKey, LinksKept
<1> QED
  BY <1>2, <1>3, <1>4, <1>5, <1>6, <1>7 DEF Next

-----------------------------------------------------------------------------
(* Theorems *)

\* In every reachable state rights are exclusive and links work; where a failed
\* delivery delivered nothing, deliveries are exclusive too.
THEOREM IngestInvariant == Spec => []IngestInv
<1>1. Init => IngestInv
  BY InitRights DEF IngestInv
<1>2. IngestInv /\ [Next]_vars => IngestInv'
  BY StepRights, StepLinks DEF IngestInv
<1> QED
  BY <1>1, <1>2, PTL DEF Spec

\* Tables and handlers hold well-formed data: no handler claims or mails a receipt it
\* does not have.
THEOREM IngestTypeCorrect == Spec => []TypeOK
<1>1. IngestInv => TypeOK
  BY DEF IngestInv, RightsInv
<1> QED
  BY <1>1, IngestInvariant, PTL

\* One canonical key, one transaction, one receipt: whatever the sources, the
\* processes, the retries and the crashes.
THEOREM OneRight == Spec => []OneRightPerSale
<1>1. IngestInv => OneRightPerSale
  BY DEF IngestInv, RightsInv
<1> QED
  BY <1>1, IngestInvariant, PTL

\* A link that reached a mailbox is backed by a claim on the receipt of its own sale.
THEOREM LinksRedeemable == Spec => []LinksWork
<1>1. IngestInv => LinksWork
  BY DEF IngestInv, RightsInv
<1> QED
  BY <1>1, IngestInvariant, PTL

\* deliverOnce delivers once, on the assumption its catch block makes: a send that
\* threw sent nothing.  (Without it the released lock lets a second link out.)
THEOREM OneLink ==
  ASSUME MailFailures \subseteq {"refused"}
  PROVE  Spec => []OneLinkPerSale
<1>1. IngestInv => OneLinkPerSale
  BY DEF IngestInv, LinksInv
<1> QED
  BY <1>1, IngestInvariant, PTL

=============================================================================
