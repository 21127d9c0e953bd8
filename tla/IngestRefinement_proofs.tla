----------------------- MODULE IngestRefinement_proofs -----------------------
(***************************************************************************)
(* Ingestion implements ReviewRight for every set of handlers, processes   *)
(* and reports, where a failed delivery delivered nothing: Register grants *)
(* a sale its right, the mail server's acceptance sends its link, and      *)
(* every other statement leaves both records alone.  To the ledger it is   *)
(* a caller that only ever records transactions, legally: Mint.            *)
(***************************************************************************)
EXTENDS IngestRefinement, Ingest_proofs

Granted == {[sale |-> e.key, right |-> e.receipt] : e \in registry}
Sent == {[sale |-> m.key, right |-> m.receipt, link |-> m.token] : m \in mailbox}

\* Register grants the sale a right no other sale has.
LEMMA RegisterGrants ==
  ASSUME IngestInv, NEW h \in Handlers, Register(h)
  PROVE  Right!Next \/ UNCHANGED <<Granted, Sent>>
<1>1. TypeOK /\ task[h].pc = "register" /\ Established(h) /\ mailbox' = mailbox
  BY DEF IngestInv, RightsInv, Register, Turn
<1>2. CASE RowsFor(KeyOf(h)) # {}
  BY <1>1, <1>2 DEF Register, Granted, Sent
<1>3. CASE RowsFor(KeyOf(h)) = {}
  <2> DEFINE grant == [sale |-> KeyOf(h), right |-> task[h].receipt]
  <2>1. PICK row : /\ row.key = KeyOf(h) /\ row.receipt = task[h].receipt
                   /\ registry' = registry \cup {row}
    BY <1>3 DEF Register
  <2>2. KeyOf(h) \in SaleKeys /\ task[h].receipt \in ReceiptIds
    BY <1>1, AtWork DEF Established, TypeOK
  <2>3. \A g \in Granted : g.sale # KeyOf(h) /\ g.right # task[h].receipt
    <3>1. \A e \in registry : e.key # KeyOf(h) /\ e.receipt # task[h].receipt
      BY <1>1, <1>3 DEF RowsFor, Established
    <3> QED
      BY <3>1 DEF Granted
  <2>4. Granted' = Granted \cup {grant}
    BY <2>1 DEF Granted
  <2>5. Sent' = Sent
    BY <1>1 DEF Sent
  <2>6. Right!Grant(KeyOf(h), task[h].receipt)
    BY <2>3, <2>4, <2>5 DEF Right!Grant, Granted, Sent
  <2> QED
    BY <2>2, <2>6 DEF Right!Next, Right!Grant, Right!Send
<1> QED
  BY <1>2, <1>3

\* The mail server sends the link of a granted right, and the first for its sale.
LEMMA MailSends ==
  ASSUME IngestInv, MailFailures \subseteq {"refused"}, NEW h \in Handlers, Mail(h)
  PROVE  Right!Next \/ UNCHANGED <<Granted, Sent>>
<1>1. registry' = registry
  BY DEF Mail, MailAccepts, MailRefuses, MailAcceptsUnacknowledged, tables
<1>2. CASE mailbox' = mailbox
  BY <1>1, <1>2 DEF Granted, Sent
<1>3. CASE mailbox' = mailbox \cup {Message(h)}
  <2> DEFINE link == [sale |-> KeyOf(h), right |-> task[h].receipt, link |-> By(h)]
  <2>1. TypeOK /\ task[h].pc = "send" /\ Established(h)
    BY DEF IngestInv, RightsInv, Mail, MailAccepts, MailRefuses, MailAcceptsUnacknowledged
  <2>2. PICK e \in registry : e.key = KeyOf(h) /\ e.receipt = task[h].receipt
    BY <2>1 DEF Established, RowsFor
  <2>3. KeyOf(h) \in SaleKeys /\ By(h) \in Tokens /\ task[h].receipt \in ReceiptIds
    BY <2>1, <2>2, AtWork DEF TypeOK, RegistryRow
  <2>4. [sale |-> KeyOf(h), right |-> task[h].receipt] \in Granted
    BY <2>2 DEF Granted
  <2>5. \A s \in Sent : s.sale # KeyOf(h)
    <3>1. \A m \in mailbox : m.key # KeyOf(h)
      BY <2>1 DEF IngestInv, LinksInv, Delivering
    <3> QED
      BY <3>1 DEF Sent
  <2>6. Sent' = Sent \cup {link}
    <3>1. PICK message : /\ message.key = KeyOf(h) /\ message.token = By(h)
                         /\ message.receipt = task[h].receipt
                         /\ mailbox' = mailbox \cup {message}
      BY <1>3 DEF Message
    <3> QED
      BY <3>1 DEF Sent
  <2>7. Granted' = Granted
    BY <1>1 DEF Granted
  <2>8. Right!Send(KeyOf(h), task[h].receipt, By(h))
    BY <2>4, <2>5, <2>6, <2>7 DEF Right!Send, Granted, Sent
  <2> QED
    BY <2>3, <2>8 DEF Right!Next, Right!Grant, Right!Send
<1> QED
  BY <1>2, <1>3 DEF Mail, MailAccepts, MailRefuses, MailAcceptsUnacknowledged

\* Every step of ingestion grants, sends, or leaves rights and links as they are.
LEMMA StepImplements ==
  ASSUME MailFailures \subseteq {"refused"}
  PROVE  IngestInv /\ [Next]_vars => Right!Next \/ UNCHANGED <<Granted, Sent>>
<1> SUFFICES ASSUME IngestInv, [Next]_vars
             PROVE  Right!Next \/ UNCHANGED <<Granted, Sent>>
  OBVIOUS
<1>1. ASSUME UNCHANGED <<registry, mailbox>> PROVE UNCHANGED <<Granted, Sent>>
  BY <1>1 DEF Granted, Sent
<1>2. CASE UNCHANGED vars
  BY <1>1, <1>2 DEF vars, tables
<1>3. ASSUME NEW h \in Handlers, Register(h) PROVE Right!Next \/ UNCHANGED <<Granted, Sent>>
  BY <1>3, RegisterGrants
<1>4. ASSUME NEW h \in Handlers, Mail(h) PROVE Right!Next \/ UNCHANGED <<Granted, Sent>>
  BY <1>4, MailSends
<1>5. ASSUME NEW h \in Handlers,
             \/ \E r \in Reports : Receive(h, r)
             \/ Advance(h) /\ ~Register(h)
             \/ WriteFails(h) \/ RecordDeliveryFails(h)
      PROVE  UNCHANGED <<registry, mailbox>>
  BY <1>5 DEF Receive, Advance, ResumeEnriched, Lookup, FindSurrogateAmbiguity, Mint,
     Corroborate, LogConflict, CreateClaim, Lock, RecordDelivery, Unlock, SignEvent,
     RecordWebhook, WriteFails, RecordDeliveryFails, tables
<1>6. ASSUME NEW p \in Procs, Crash(p) PROVE UNCHANGED <<registry, mailbox>>
  BY <1>6 DEF Crash, tables
<1> QED
  BY <1>1, <1>2, <1>3, <1>4, <1>5, <1>6 DEF Next

\* What ingestion promises: one right per sale, no right for two sales, at most one
\* link, and only for the right that was granted.
THEOREM ReviewRightImplemented ==
  ASSUME MailFailures \subseteq {"refused"}
  PROVE  Spec => ImplementsReviewRight
<1>1. Init => Right!Init
  BY DEF Init, Right!Init
<1>2. IngestInv /\ [Next]_vars => [Right!Next]_<<Granted, Sent>>
  BY StepImplements
<1> QED
  BY <1>1, <1>2, IngestInvariant, PTL DEF Spec, ImplementsReviewRight, Right!Spec, Granted, Sent

-----------------------------------------------------------------------------
(* The ledger *)

\* Mint is the ledger's RecordTransaction, under the canonical key and for a holder
\* nobody else has.
LEMMA MintRecords ==
  ASSUME IngestInv, NEW h \in Handlers, Mint(h)
  PROVE  Store!IssuanceStep \/ UNCHANGED <<transactions, receipts>>
<1> DEFINE r == task[h].report
           rows == {o \in DeclaredOfferings : o.ref = r.offering}
<1>1. TypeOK /\ task[h].pc = "mint" /\ Established(h)
  BY DEF IngestInv, RightsInv, Mint, Turn
<1>2. r \in Reports /\ r.offering \in DOMAIN IssuerOf /\ KeyOf(h) \in SaleKeys
  BY <1>1, AtWork DEF Established
<1>3. CASE UNCHANGED <<transactions, receipts>>
  BY <1>3
<1>4. CASE ~UNCHANGED <<transactions, receipts>>
  <2>1. /\ IssuerOf[r.offering] = r.issuer /\ r.offering \notin FreeOfferings
        /\ r.role \in {"participant", "payer"}
        /\ \A t \in transactions : t.id # KeyOf(h)
        /\ transactions' = transactions \cup
             {[id |-> KeyOf(h), issuer |-> r.issuer, offering |-> r.offering, at |-> r.at]}
    BY <1>4 DEF Mint, TxIdUsed, TxId
  <2>2. PICK id \in ReceiptIds :
          /\ \A rc \in receipts : rc.id # id
          /\ receipts' = receipts \cup
               {[id |-> id, issuer |-> r.issuer, holder |-> id, role |-> r.role,
                 offering |-> r.offering, level |-> 1, prev |-> Null,
                 coattested |-> FALSE, at |-> r.at]}
    BY <1>4 DEF Mint
  <2>3. \E o \in rows : o.issuer = r.issuer /\ o.price # 0
    <3> DEFINE declared == [ref |-> r.offering, issuer |-> IssuerOf[r.offering],
                            components |-> {"component"},
                            price |-> IF r.offering \in FreeOfferings THEN 0 ELSE 1,
                            at |-> 0]
    <3>1. declared \in DeclaredOfferings
      BY <1>2 DEF DeclaredOfferings
    <3> QED
      BY <2>1, <3>1
  <2>4. Store!RecordTransaction(r.issuer, id, r.role, r.offering, KeyOf(h), id, FALSE, r.at)
    <3>1. Store!OfferingRows(r.offering) = rows
      BY DEF Store!OfferingRows
    <3>2. \E o \in Store!OfferingRows(r.offering) :
            Store!DeclaredIssuer(o, r.issuer) /\ o.price # 0
      BY <2>3, <3>1 DEF Store!DeclaredIssuer
    <3>3. DeclaredOfferings' = DeclaredOfferings
      BY DEF DeclaredOfferings
    <3> QED
      BY <2>1, <2>2, <3>2, <3>3
      DEF Store!RecordTransaction, Store!Roles, Store!FreshReceipt
  <2>5. /\ r.issuer \in {IssuerOf[o] : o \in DOMAIN IssuerOf} /\ r.role \in Store!RoleInputs
        /\ FALSE \in {FALSE} /\ r.at \in {s.at : s \in Reports}
    BY <1>2, <2>1 DEF Store!RoleInputs, Store!Roles
  <2> QED
    BY <1>2, <2>4, <2>5 DEF Store!IssuanceStep
<1> QED
  BY <1>3, <1>4

\* Whatever a handler does, the ledger only ever sees a legal issuance: the transaction
\* and its receipt at once, under a fresh tx_id, signed by the declared issuer.
THEOREM LedgerStepsAreLegal == Spec => LedgerStepsLegal
<1>1. ASSUME IngestInv, [Next]_vars
      PROVE  Store!IssuanceStep \/ UNCHANGED <<transactions, receipts>>
  <2>1. CASE UNCHANGED vars
    BY <2>1 DEF vars, tables
  <2>2. ASSUME NEW h \in Handlers, Mint(h)
        PROVE  Store!IssuanceStep \/ UNCHANGED <<transactions, receipts>>
    BY <1>1, <2>2, MintRecords
  <2>3. ASSUME NEW h \in Handlers,
               \/ \E r \in Reports : Receive(h, r)
               \/ Advance(h) /\ ~Mint(h)
               \/ Mail(h) \/ WriteFails(h) \/ RecordDeliveryFails(h)
        PROVE  UNCHANGED <<transactions, receipts>>
    BY <2>3 DEF Receive, Advance, ResumeEnriched, Lookup, FindSurrogateAmbiguity, Register,
       Corroborate, LogConflict, CreateClaim, Lock, RecordDelivery, Unlock, SignEvent,
       RecordWebhook, Mail, MailAccepts, MailRefuses, MailAcceptsUnacknowledged, WriteFails,
       RecordDeliveryFails, tables
  <2>4. ASSUME NEW p \in Procs, Crash(p) PROVE UNCHANGED <<transactions, receipts>>
    BY <2>4 DEF Crash, tables
  <2> QED
    BY <1>1, <2>1, <2>2, <2>3, <2>4 DEF Next
<1>2. UNCHANGED <<transactions, receipts>> => UNCHANGED Store!vars
  BY DEF Store!vars, DeclaredOfferings
<1>3. IngestInv /\ [Next]_vars => [Store!IssuanceStep]_(Store!vars)
  BY <1>1, <1>2
<1> QED
  BY <1>3, IngestInvariant, PTL DEF Spec, LedgerStepsLegal

=============================================================================
