----------------------------- MODULE Onboarding -----------------------------
(***************************************************************************)
(* How issuers, partners, their keys, offerings and links come to be, and  *)
(* how a partner's signed request is let in: the constructor of            *)
(* pilot/runtime.js and its operations createIssuer, createPartner,        *)
(* addOffering, linkIssuer and provisionMerchants, pilot/keyring.js,       *)
(* pilot/partner-auth.js, and the processes that run them: pilot/server.js, *)
(* pilot/admin.js and src/mcp-http-server.js.                              *)
(*                                                                         *)
(* All of it is synchronous, and every SQL statement and every access to a *)
(* key file stands alone: nothing is in a database transaction.  So a step *)
(* of a process is one statement, and processes interleave, crash and fail *)
(* to write between any two.  (Two reads in a row of rows that never       *)
(* change are one step.)  A process is a stack of calls: job is the one    *)
(* running, rest those to make when it has returned.                       *)
(*                                                                         *)
(* Abstracted: a key pair is known by the file it was generated for and    *)
(* its number among those, and its file is written at once; a signature    *)
(* verifies iff it was made with the key the partner's row names.          *)
(* Arguments are well formed.  The event-signing key is kept exactly like  *)
(* the rendering key, the only PayloadKey here; neither comes from the     *)
(* environment.                                                            *)
(***************************************************************************)
EXTENDS Naturals, Sequences, FiniteSets

CONSTANTS
  Procs,         \* processes that may run at the same time
  Issuers, Partners, Offerings, Accounts,
  Commands,      \* the calls admin.js may be asked for
  Requests,      \* signed requests that reach the server, once or more often
  DemoIssuer, DemoOffering,
  PayloadKey,    \* the file of the runtime's own signing key
  Null,
  MaxFaults      \* bound: crashes and failed writes

\* pilot/server.js, mcp-http-server.js, and admin.js with one command.
Programs == {"server", "host", "admin"}
Subjects == Issuers \cup Partners
Files == Subjects \cup {PayloadKey}
Keys == Files \X Nat
Links == [partner : Partners, issuer : Issuers, account : Accounts \cup {Null}]
Merchants == [issuer : Issuers, account : Accounts \cup {Null}]

\* The calls; subjects are registered with or without the issue_any scope.
Constructor == [op |-> "constructor"]
Create(s, any) == [op |-> "create", subject |-> s, any |-> any]
AddOffering(i, o) == [op |-> "addOffering", issuer |-> i, offering |-> o]
LinkIssuer(l) == [op |-> "linkIssuer", link |-> l]
Provision(p, merchants) == [op |-> "provision", partner |-> p, merchants |-> merchants]
EachMerchant(p, merchants) == [op |-> "each", partner |-> p, merchants |-> merchants]
EnsureIssuer(i) == [op |-> "ensureIssuer", issuer |-> i]
EnsureOffering(i, o) == [op |-> "ensureOffering", issuer |-> i, offering |-> o]
Handle(r) == [op |-> "handle", request |-> r]

Calls ==
  {Constructor}
    \cup [op : {"create"}, subject : Subjects, any : BOOLEAN]
    \cup [op : {"addOffering"}, issuer : Issuers, offering : Offerings]
    \cup [op : {"linkIssuer"}, link : Links]
    \cup [op : {"provision", "each"}, partner : Partners, merchants : Seq(Merchants)]
    \cup [op : {"ensureIssuer"}, issuer : Issuers]
    \cup [op : {"ensureOffering"}, issuer : Issuers, offering : Offerings]
    \cup [op : {"handle"}, request : Requests]

\* A request names a partner, is signed by by's key (by none, if Null), and asks to
\* provision merchants or, with none, to ingest a sale of an issuer or an account.
ASSUME OnboardingAssumption ==
  /\ Issuers \cap Partners = {} /\ PayloadKey \notin Subjects
  /\ Null \notin Issuers \cup Partners \cup Accounts \cup Programs /\ Null \notin Keys
  /\ DemoIssuer \in Issuers /\ DemoOffering \in Offerings
  /\ MaxFaults \in Nat
  /\ \A c \in Commands : c \in Calls /\ c.op \in {"create", "addOffering", "linkIssuer", "provision"}
  /\ \A r \in Requests :
       /\ r.partner \in Partners /\ r.by \in Partners \cup {Null}
       /\ r.merchants \in Seq(Merchants)
       /\ r.issuer \in Issuers \cup {Null} /\ r.account \in Accounts \cup {Null}

VARIABLES
  file,      \* key files: the pair in each, Null if there is none
  row,       \* pilot_issuers and pilot_partners: public_hex, Null without a row
  issueAny,  \* the partners whose scopes include issue_any
  catalog,   \* the ledger's offerings: the key each is declared under, or Null
  offered,   \* pilot_offerings: the issuer of each active offering, or Null
  links,     \* pilot_partner_issuer_links
  events,    \* pilot_events
  nonces,    \* pilot_partner_nonces
  program,   \* what each process runs, Null if it is not up
  signer,    \* the rendering key in each process's memory, Null until it has one
  job, rest, \* the stack of calls of each process
  made,      \* history: key pairs generated for each file
  raced,     \* history: the files two processes had both found missing
  effects,   \* history: the requests that got past authentication, in order
  faults     \* history: crashes and failed writes

tables == <<row, issueAny, catalog, offered, links, events, nonces>>
onboardingVars == <<file, tables, program, signer, job, rest, made, raced, effects, faults>>

Idle == [call |-> Null, at |-> "idle", key |-> Null]
Entering(c) == [call |-> c, at |-> "enter", key |-> Null]

-----------------------------------------------------------------------------
(* The stack *)

\* p's running call has returned, or ends in these calls.
Proceed(p, calls) ==
  LET todo == calls \o rest[p] IN
  IF todo = <<>> THEN job' = [job EXCEPT ![p] = Idle] /\ UNCHANGED rest
  ELSE /\ job' = [job EXCEPT ![p] = Entering(Head(todo))]
       /\ rest' = [rest EXCEPT ![p] = Tail(todo)]

Return(p) == Proceed(p, <<>>)

\* p's running call goes on, with another key in hand or the same.
GotoWith(p, at, key) ==
  /\ job' = [job EXCEPT ![p] = [call |-> job[p].call, at |-> at, key |-> key]]
  /\ UNCHANGED rest

Goto(p, at) == GotoWith(p, at, job[p].key)

\* The process ends, and forgets what it had in memory.
End(p) ==
  /\ program' = [program EXCEPT ![p] = Null]
  /\ signer' = [signer EXCEPT ![p] = Null]
  /\ job' = [job EXCEPT ![p] = Idle]
  /\ rest' = [rest EXCEPT ![p] = <<>>]

\* A server that is up answers with an error status; anything else ends.
Throw(p) ==
  IF program[p] = "server" /\ signer[p] # Null
  THEN /\ job' = [job EXCEPT ![p] = Idle]
       /\ rest' = [rest EXCEPT ![p] = <<>>]
       /\ UNCHANGED <<program, signer>>
  ELSE End(p)

Running(p, op, at) == job[p].at = at /\ job[p].call.op = op

\* generateKeyPair.
NewKey(f) == <<f, made[f] + 1>>

LogEvent(e) == events' = events \cup {e}

\* A Slip... is a wrong form of the definition that follows, as in Ledger.

-----------------------------------------------------------------------------
(* The runtime's own key: new PilotRuntime, loadOrCreatePayloadKey *)

\* What a process has to do once its runtime is constructed.
Duties(kind) ==
  CASE kind = "server" -> {<<>>}
    [] kind = "host" ->
         {<<EnsureIssuer(DemoIssuer), EnsureOffering(DemoIssuer, DemoOffering)>>}
    [] kind = "admin" -> {<<c>> : c \in Commands}

SlipLoadKey(f) == NewKey(f)

LoadKey(f) == file[f]

\* The file exists, and is loaded.
Start(p) ==
  /\ program[p] = Null /\ job[p] = Idle /\ file[PayloadKey] # Null
  /\ \E r \in Programs : /\ program' = [program EXCEPT ![p] = r]
                          /\ \E calls \in Duties(r) : Proceed(p, calls)
  /\ signer' = [signer EXCEPT ![p] = LoadKey(PayloadKey)]
  /\ UNCHANGED <<file, tables, made, raced, effects, faults>>

\* existsSync finds no file.
StartWithoutKey(p) ==
  /\ program[p] = Null /\ job[p] = Idle /\ file[PayloadKey] = Null
  /\ \E r \in Programs : /\ program' = [program EXCEPT ![p] = r]
                          /\ \E calls \in Duties(r) : rest' = [rest EXCEPT ![p] = calls]
  /\ job' = [job EXCEPT ![p] = [call |-> Constructor, key |-> Null, at |-> "write"]]
  /\ UNCHANGED <<file, tables, signer, made, raced, effects, faults>>

\* writeFileSync replaces what another process has written since existsSync.
WriteKey(p, f) ==
  /\ made' = [made EXCEPT ![f] = @ + 1]
  /\ file' = [file EXCEPT ![f] = NewKey(f)]
  /\ raced' = raced \cup
       {f : q \in {q \in Procs \ {p} :
                     /\ job[q].at = "write"
                     /\ f = IF job[q].call.op = "create" THEN job[q].call.subject
                            ELSE PayloadKey}}

WritePayloadKey(p) ==
  /\ Running(p, "constructor", "write")
  /\ WriteKey(p, PayloadKey)
  /\ signer' = [signer EXCEPT ![p] = NewKey(PayloadKey)]
  /\ Return(p)
  /\ UNCHANGED <<tables, program, effects, faults>>

\* admin.js closes its runtime when done; a server or a host is stopped.
Exit(p) ==
  /\ program[p] # Null /\ job[p] = Idle
  /\ End(p)
  /\ UNCHANGED <<file, tables, made, raced, effects, faults>>

-----------------------------------------------------------------------------
(* createIssuer, createPartner; createSubjectKey *)

SlipLookForSubjectKey(p) ==
  /\ Running(p, "create", "enter")
  /\ Goto(p, "write")
  /\ UNCHANGED <<file, tables, program, signer, made, raced, effects, faults>>

LookForSubjectKey(p) ==
  /\ Running(p, "create", "enter")
  /\ IF file[job[p].call.subject] # Null THEN Throw(p)
     ELSE Goto(p, "write") /\ UNCHANGED <<program, signer>>
  /\ UNCHANGED <<file, tables, made, raced, effects, faults>>

WriteSubjectKey(p) ==
  /\ Running(p, "create", "write")
  /\ WriteKey(p, job[p].call.subject)
  /\ GotoWith(p, "row", NewKey(job[p].call.subject))
  /\ UNCHANGED <<tables, program, signer, effects, faults>>

SlipInsertSubject(p) ==
  LET call == job[p].call IN
  /\ Running(p, "create", "row")
  /\ row' = [row EXCEPT ![call.subject] = IF @ = Null THEN job[p].key ELSE @]
  /\ Goto(p, "sign")
  /\ UNCHANGED <<file, issueAny, catalog, offered, links, events, nonces,
                 program, signer, made, raced, effects, faults>>

\* The primary key refuses a second row.
InsertSubject(p) ==
  LET call == job[p].call IN
  /\ Running(p, "create", "row")
  /\ IF row[call.subject] # Null THEN Throw(p) /\ UNCHANGED <<row, issueAny>>
     ELSE /\ row' = [row EXCEPT ![call.subject] = job[p].key]
          /\ issueAny' = IF call.any /\ call.subject \in Partners
                         THEN issueAny \cup {call.subject} ELSE issueAny
          /\ Goto(p, "sign") /\ UNCHANGED <<program, signer>>
  /\ UNCHANGED <<file, catalog, offered, links, events, nonces,
                 made, raced, effects, faults>>

SignRegistered(p) ==
  /\ Running(p, "create", "sign")
  /\ LogEvent([type |-> "registered", subject |-> job[p].call.subject, key |-> job[p].key])
  /\ Return(p)
  /\ UNCHANGED <<program, file, row, issueAny, catalog, offered, links, nonces,
                 signer, made, raced, effects, faults>>

-----------------------------------------------------------------------------
(* addOffering *)

GetIssuer(p) ==
  /\ Running(p, "addOffering", "enter")
  /\ IF row[job[p].call.issuer] = Null THEN Throw(p)
     ELSE /\ GotoWith(p, "declare", row[job[p].call.issuer])
          /\ UNCHANGED <<program, signer>>
  /\ UNCHANGED <<file, tables, made, raced, effects, faults>>

SlipDeclaredBy(p) == job[p].call.issuer

\* The key the issuer's row named.
DeclaredBy(p) == job[p].key

\* store.declareOffering; the ledger keeps one row per offering and version.
DeclareOffering(p) ==
  LET o == job[p].call.offering IN
  /\ Running(p, "addOffering", "declare")
  /\ IF catalog[o] # Null THEN Throw(p) /\ UNCHANGED catalog
     ELSE /\ catalog' = [catalog EXCEPT ![o] = DeclaredBy(p)]
          /\ Goto(p, "offer") /\ UNCHANGED <<program, signer>>
  /\ UNCHANGED <<file, row, issueAny, offered, links, events, nonces,
                 made, raced, effects, faults>>

InsertOffering(p) ==
  LET o == job[p].call.offering IN
  /\ Running(p, "addOffering", "offer")
  /\ IF offered[o] # Null THEN Throw(p) /\ UNCHANGED offered
     ELSE /\ offered' = [offered EXCEPT ![o] = job[p].call.issuer]
          /\ Goto(p, "sign") /\ UNCHANGED <<program, signer>>
  /\ UNCHANGED <<file, row, issueAny, catalog, links, events, nonces,
                 made, raced, effects, faults>>

SlipSignDeclared(p) ==
  /\ Running(p, "addOffering", "sign")
  /\ Return(p)
  /\ UNCHANGED <<file, tables, program, signer, made, raced, effects, faults>>

SignDeclared(p) ==
  /\ Running(p, "addOffering", "sign")
  /\ LogEvent([type |-> "declared", issuer |-> job[p].call.issuer,
               offering |-> job[p].call.offering])
  /\ Return(p)
  /\ UNCHANGED <<program, file, row, issueAny, catalog, offered, links, nonces,
                 signer, made, raced, effects, faults>>

-----------------------------------------------------------------------------
(* linkIssuer *)

CheckLink(p) ==
  LET l == job[p].call.link IN
  /\ Running(p, "linkIssuer", "enter")
  /\ IF row[l.partner] = Null \/ row[l.issuer] = Null THEN Throw(p)
     ELSE Goto(p, "link") /\ UNCHANGED <<program, signer>>
  /\ UNCHANGED <<file, tables, made, raced, effects, faults>>

SlipCollides(l, k) == l.partner = k.partner /\ l.issuer = k.issuer

\* PRIMARY KEY (partner_id, issuer_id), and one issuer per account of a partner.
Collides(l, k) ==
  /\ l.partner = k.partner
  /\ l.issuer = k.issuer \/ (l.account # Null /\ l.account = k.account)

\* INSERT OR IGNORE.
Linked(l) == IF \E k \in links : Collides(l, k) THEN links ELSE links \cup {l}

InsertLink(p) ==
  /\ Running(p, "linkIssuer", "link")
  /\ links' = Linked(job[p].call.link)
  /\ Goto(p, "sign")
  /\ UNCHANGED <<program, file, row, issueAny, catalog, offered, events, nonces,
                 signer, made, raced, effects, faults>>

\* Whether or not the row was ignored.
SignLinked(p) ==
  /\ Running(p, "linkIssuer", "sign")
  /\ LogEvent([type |-> "linked", link |-> job[p].call.link])
  /\ Return(p)
  /\ UNCHANGED <<program, file, row, issueAny, catalog, offered, links, nonces,
                 signer, made, raced, effects, faults>>

-----------------------------------------------------------------------------
(* provisionMerchants; ensureHostedDemoOffering *)

CheckPartner(p) ==
  LET call == job[p].call IN
  /\ Running(p, "provision", "enter")
  /\ IF row[call.partner] = Null THEN Throw(p)
     ELSE Proceed(p, <<EachMerchant(call.partner, call.merchants)>>) /\ UNCHANGED <<program, signer>>
  /\ UNCHANGED <<file, tables, made, raced, effects, faults>>

NextMerchant(p) ==
  LET call == job[p].call
      m == Head(call.merchants) IN
  /\ Running(p, "each", "enter") /\ call.merchants # <<>>
  /\ Proceed(p, <<EnsureIssuer(m.issuer),
                  LinkIssuer([partner |-> call.partner, issuer |-> m.issuer,
                              account |-> m.account]),
                  EachMerchant(call.partner, Tail(call.merchants))>>)
  /\ UNCHANGED <<file, tables, program, signer, made, raced, effects, faults>>

SignProvisioned(p) ==
  /\ Running(p, "each", "enter") /\ job[p].call.merchants = <<>>
  /\ LogEvent([type |-> "provisioned", partner |-> job[p].call.partner])
  /\ Return(p)
  /\ UNCHANGED <<program, file, row, issueAny, catalog, offered, links, nonces,
                 signer, made, raced, effects, faults>>

CreateIssuerIfNew(p) ==
  /\ Running(p, "ensureIssuer", "enter")
  /\ Proceed(p, IF row[job[p].call.issuer] = Null THEN <<Create(job[p].call.issuer, FALSE)>>
                ELSE <<>>)
  /\ UNCHANGED <<file, tables, program, signer, made, raced, effects, faults>>

SlipAddOfferingIfNew(p) ==
  /\ Running(p, "ensureOffering", "enter")
  /\ Proceed(p, IF row[job[p].call.issuer] = Null
                THEN <<AddOffering(job[p].call.issuer, job[p].call.offering)>> ELSE <<>>)
  /\ UNCHANGED <<file, tables, program, signer, made, raced, effects, faults>>

AddOfferingIfNew(p) ==
  /\ Running(p, "ensureOffering", "enter")
  /\ Proceed(p, IF offered[job[p].call.offering] = Null
                THEN <<AddOffering(job[p].call.issuer, job[p].call.offering)>> ELSE <<>>)
  /\ UNCHANGED <<file, tables, program, signer, made, raced, effects, faults>>

-----------------------------------------------------------------------------
(* POST /v1/partners/provision and POST /v1/transactions *)

Signed(r) == r.by = r.partner /\ file[r.by] = row[r.partner]

\* A request arrives, for the first time or again; getPartner and
\* verifyPartnerRequest.  One that does not verify is answered 401 and leaves no
\* trace, as if it had not arrived; so is one outside the replay window, whatever the
\* clock says, and the clock is left out.
Receive(p) ==
  /\ program[p] = "server" /\ job[p] = Idle
  /\ \E r \in Requests :
       /\ row[r.partner] # Null /\ Signed(r)
       /\ job' = [job EXCEPT ![p] = [call |-> Handle(r), at |-> "nonce", key |-> Null]]
  /\ UNCHANGED <<file, tables, program, signer, rest, made, raced, effects, faults>>

SlipInsertNonce(p) ==
  LET r == job[p].call.request IN
  /\ Running(p, "handle", "nonce")
  /\ nonces' = nonces \cup {<<r.partner, r.nonce>>}
  /\ Goto(p, "serve")
  /\ UNCHANGED <<program, file, row, issueAny, catalog, offered, links, events,
                 signer, made, raced, effects, faults>>

\* The primary key refuses a nonce for ever.
InsertNonce(p) ==
  LET r == job[p].call.request IN
  /\ Running(p, "handle", "nonce")
  /\ IF <<r.partner, r.nonce>> \in nonces THEN Throw(p) /\ UNCHANGED nonces
     ELSE /\ nonces' = nonces \cup {<<r.partner, r.nonce>>}
          /\ Goto(p, "serve") /\ UNCHANGED <<program, signer>>
  /\ UNCHANGED <<file, row, issueAny, catalog, offered, links, events,
                 made, raced, effects, faults>>

\* resolveIssuerId, over the links as they stand.
Resolved(partner, account) ==
  {l.issuer : l \in {k \in links : k.partner = partner /\ k.account = account /\ account # Null}}

\* Provision, or resolve and authorise; what follows for a sale is Ingest's.
Serve(p) ==
  LET r == job[p].call.request
      issuers == IF r.issuer # Null THEN {r.issuer} ELSE Resolved(r.partner, r.account) IN
  /\ Running(p, "handle", "serve")
  /\ effects' = Append(effects, r)
  /\ IF r.merchants # <<>> THEN Proceed(p, <<Provision(r.partner, r.merchants)>>)
                                /\ UNCHANGED <<program, signer>>
     ELSE IF \E i \in issuers : \/ r.partner \in issueAny
                                \/ \E l \in links : l.partner = r.partner /\ l.issuer = i
     THEN Return(p) /\ UNCHANGED <<program, signer>>
     ELSE Throw(p)
  /\ UNCHANGED <<file, tables, made, raced, faults>>

-----------------------------------------------------------------------------
(* Faults *)

Writing(p) ==
  \/ job[p].at \in {"write", "row", "declare", "offer", "link", "nonce", "sign"}
  \/ Running(p, "each", "enter") /\ job[p].call.merchants = <<>>

\* A write throws: the disk is full, or the database busy with another process.
WriteFails(p) ==
  /\ faults < MaxFaults /\ Writing(p)
  /\ Throw(p)
  /\ faults' = faults + 1
  /\ UNCHANGED <<file, tables, made, raced, effects>>

Crash(p) ==
  /\ faults < MaxFaults /\ job[p] # Idle
  /\ End(p)
  /\ faults' = faults + 1
  /\ UNCHANGED <<file, tables, made, raced, effects>>

-----------------------------------------------------------------------------

Init ==
  /\ file = [f \in Files |-> Null]
  /\ row = [s \in Subjects |-> Null]
  /\ issueAny = {}
  /\ catalog = [o \in Offerings |-> Null]
  /\ offered = [o \in Offerings |-> Null]
  /\ links = {} /\ events = {} /\ nonces = {}
  /\ program = [p \in Procs |-> Null] /\ signer = [p \in Procs |-> Null]
  /\ job = [p \in Procs |-> Idle]
  /\ rest = [p \in Procs |-> <<>>]
  /\ made = [f \in Files |-> 0] /\ raced = {} /\ effects = <<>> /\ faults = 0

\* The next statement of a process that is in the middle of something.
Step(p) ==
  \/ WritePayloadKey(p)
  \/ LookForSubjectKey(p) \/ WriteSubjectKey(p) \/ InsertSubject(p) \/ SignRegistered(p)
  \/ GetIssuer(p) \/ DeclareOffering(p) \/ InsertOffering(p) \/ SignDeclared(p)
  \/ CheckLink(p) \/ InsertLink(p) \/ SignLinked(p)
  \/ CheckPartner(p) \/ NextMerchant(p) \/ SignProvisioned(p)
  \/ CreateIssuerIfNew(p) \/ AddOfferingIfNew(p)
  \/ InsertNonce(p) \/ Serve(p)

Next ==
  \E p \in Procs :
    Start(p) \/ StartWithoutKey(p) \/ Step(p) \/ Receive(p) \/ Exit(p) \/ WriteFails(p) \/ Crash(p)

Spec == Init /\ [][Next]_onboardingVars

\* Synchronous code that has begun goes on until it returns or dies.
FairSpec == Spec /\ \A p \in Procs : WF_onboardingVars(Step(p))

-----------------------------------------------------------------------------
(* Properties *)

Jobs ==
  {Idle} \cup [call : Calls, key : Keys \cup {Null},
               at : {"enter", "write", "row", "sign", "declare", "offer", "link",
                     "nonce", "serve"}]

TypeOK ==
  /\ file \in [Files -> Keys \cup {Null}] /\ row \in [Subjects -> Keys \cup {Null}]
  /\ issueAny \subseteq Partners
  /\ catalog \in [Offerings -> Keys \cup {Null}] /\ offered \in [Offerings -> Issuers \cup {Null}]
  /\ links \subseteq Links
  /\ program \in [Procs -> Programs \cup {Null}]
  /\ signer \in [Procs -> Keys \cup {Null}] /\ job \in [Procs -> Jobs] /\ rest \in [Procs -> Seq(Calls)]
  /\ made \in [Files -> Nat] /\ raced \subseteq Files
  /\ effects \in Seq(Requests) /\ faults \in 0..MaxFaults

\* What minting needs: an issuer's key file holds the key its row names, and every
\* offering it may sell is declared in the ledger under that key.  Otherwise
\* assertDeclaredIssuer refuses every sale of it.  Holds through crashes and failed
\* writes, unless two processes created the issuer at the same moment.
MintersAccepted ==
  /\ \A s \in Subjects \ raced : row[s] # Null => file[s] = row[s]
  /\ \A o \in Offerings : offered[o] # Null =>
       catalog[o] # Null /\ catalog[o] = row[offered[o]]

\* "The one public identity every hosted read serves under": processes that are up
\* hold one rendering key, unless two of them were the first at the same moment.
OneIdentity ==
  PayloadKey \notin raced =>
    \A p, q \in Procs : signer[p] # Null /\ signer[q] # Null => signer[p] = signer[q]

\* The signed log says nothing that has not happened, whatever crashed; except that
\* a link the tables ignored, because the merchant or the account was linked before,
\* is logged all the same.
EventsTrue ==
  \A e \in events :
    /\ e.type = "registered" => row[e.subject] = e.key
    /\ e.type = "declared" => offered[e.offering] = e.issuer
    /\ e.type = "linked" => \E k \in links : Collides(e.link, k)

\* A nonce takes effect once: a request that is delivered again, to another process
\* or after a restart or with the clock set back, does nothing, and neither does
\* another request under its nonce.
RequestsTakeEffectOnce ==
  \A m, n \in DOMAIN effects :
    effects[m].partner = effects[n].partner /\ effects[m].nonce = effects[n].nonce => m = n

Creating(s) == \E p \in Procs : job[p].call = Create(s, TRUE) \/ job[p].call = Create(s, FALSE)
Adding(i, o) == \E p \in Procs : job[p].call = AddOffering(i, o)

\* Of the separate statements of an onboarding, none is left out: without a crash or a
\* failed write, a key file gets its row, a declared offering its active row, and
\* both their signed event.  (With one, nothing completes them: every retry throws.)
NothingHalfDone ==
  faults = 0 =>
    /\ \A s \in Subjects : file[s] # Null => row[s] # Null \/ Creating(s)
    /\ \A s \in Subjects : row[s] # Null =>
         Creating(s) \/ [type |-> "registered", subject |-> s, key |-> row[s]] \in events
    /\ \A o \in Offerings : catalog[o] # Null => offered[o] # Null \/ \E i \in Issuers : Adding(i, o)
    /\ \A o \in Offerings : offered[o] # Null =>
         \/ Adding(offered[o], o)
         \/ [type |-> "declared", issuer |-> offered[o], offering |-> o] \in events

\* What ingestion takes for granted (IssuerOf, AccountOf and MayIssue of Ingest) only
\* ever grows: an account resolves to the same issuer for ever, a row keeps its key,
\* an offering its issuer, and a partner what it may issue for.
AuthorityIsStable ==
  [][/\ \A l \in links : \A i \in Issuers : i \in Resolved(l.partner, l.account) =>
           Resolved(l.partner, l.account)' = {i}
     /\ \A s \in Subjects : row[s] # Null => row'[s] = row[s]
     /\ \A o \in Offerings : offered[o] # Null => offered'[o] = offered[o]
     /\ \A l \in links : \E k \in links' : k.partner = l.partner /\ k.issuer = l.issuer
     /\ issueAny \subseteq issueAny']_onboardingVars

\* A host that has the issuer of the demo offering ends up with the offering, also
\* when other hosts start or the operator adds it at the same time, unless a process
\* crashes or a write fails.
DemoGetsServed ==
  (\E h \in Procs : job[h].call = EnsureOffering(DemoIssuer, DemoOffering))
    ~> (offered[DemoOffering] # Null \/ faults > 0)

=============================================================================
