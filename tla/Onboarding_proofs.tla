-------------------------- MODULE Onboarding_proofs --------------------------
(***************************************************************************)
(* Proofs about Onboarding for every set of processes, issuers, partners,  *)
(* commands and requests.                                                  *)
(*                                                                         *)
(* No property is inductive as it stands: each needs what a process knows  *)
(* by the statement it has reached (that a row it is about to sign for is  *)
(* there, that no other process serves the nonce it inserted), which       *)
(* OnboardingInv adds, a part per property.  So that every part need not   *)
(* look at every action, StepShape sorts the steps: a step is Quiet, it    *)
(* stores nothing the invariant speaks of and leaves its process knowing   *)
(* nothing (faults, exceptions and calls that only push others), or it is  *)
(* one of the few statements that write, where it did not throw.  Then one *)
(* lemma per part shows that part kept by every shape of step.             *)
(***************************************************************************)
EXTENDS Onboarding, TLAPS

\* p alone moves, and is between two calls or has none left.
Elsewhere(p) == \A q \in Procs \ {p} : job'[q] = job[q]
Left(p) == Elsewhere(p) /\ job'[p].at \in {"idle", "enter"}

Places == {"enter", "write", "row", "sign", "declare", "offer", "link", "nonce", "serve"}

-----------------------------------------------------------------------------
(* The stack *)

\* What a call carries.
LEMMA CallFields ==
  ASSUME NEW c \in Calls
  PROVE  /\ c.op = "create" => c.subject \in Subjects /\ c.any \in BOOLEAN
         /\ c.op = "addOffering" => c.issuer \in Issuers /\ c.offering \in Offerings
         /\ c.op = "linkIssuer" => c.link \in Links
         /\ c.op \in {"provision", "each"} =>
              c.partner \in Partners /\ c.merchants \in Seq(Merchants)
         /\ c.op \in {"ensureIssuer", "ensureOffering"} => c.issuer \in Issuers
         /\ c.op = "ensureOffering" => c.offering \in Offerings
         /\ c.op = "handle" => c.request \in Requests
  BY DEF Calls, Constructor

\* The calls that calls make.
LEMMA CallsTyped ==
  /\ Constructor \in Calls
  /\ \A s \in Subjects, any \in BOOLEAN : Create(s, any) \in Calls
  /\ \A i \in Issuers, o \in Offerings :
       AddOffering(i, o) \in Calls /\ EnsureOffering(i, o) \in Calls
  /\ \A i \in Issuers : EnsureIssuer(i) \in Calls
  /\ \A l \in Links : LinkIssuer(l) \in Calls
  /\ \A q \in Partners, ms \in Seq(Merchants) :
       Provision(q, ms) \in Calls /\ EachMerchant(q, ms) \in Calls
  /\ \A r \in Requests : Handle(r) \in Calls
  BY DEF Calls, Constructor, Create, AddOffering, EnsureOffering, EnsureIssuer, LinkIssuer,
         Provision, EachMerchant, Handle

\* A process that is at work has a call.
LEMMA Working ==
  ASSUME TypeOK, NEW p \in Procs, job[p].at # "idle"
  PROVE  job[p] \in [call : Calls, key : Keys \cup {Null}, at : Places]
  BY DEF TypeOK, Jobs, Idle, Places

LEMMA Proceeding ==
  ASSUME TypeOK, NEW p \in Procs, NEW calls \in Seq(Calls), Proceed(p, calls)
  PROVE  job' \in [Procs -> Jobs] /\ rest' \in [Procs -> Seq(Calls)] /\ Left(p)
<1> DEFINE todo == calls \o rest[p]
<1>1. job \in [Procs -> Jobs] /\ rest \in [Procs -> Seq(Calls)]
  BY DEF TypeOK
<1>2. todo \in Seq(Calls)
  BY <1>1
<1>3. CASE todo = <<>>
  BY <1>1, <1>3 DEF Proceed, Left, Elsewhere, Jobs, Idle
<1>4. CASE todo # <<>>
  <2> HIDE DEF todo
  <2>1. Head(todo) \in Calls /\ Tail(todo) \in Seq(Calls)
    BY <1>2, <1>4
  <2>2. Entering(Head(todo)) \in Jobs
    BY <2>1 DEF Entering, Jobs
  <2>3. job' = [job EXCEPT ![p] = Entering(Head(todo))] /\ rest' = [rest EXCEPT ![p] = Tail(todo)]
    BY <1>4 DEF Proceed, todo
  <2> QED
    BY <1>1, <2>1, <2>2, <2>3 DEF Left, Elsewhere, Entering
<1> QED
  BY <1>3, <1>4

LEMMA Returning ==
  ASSUME TypeOK, NEW p \in Procs, Return(p)
  PROVE  job' \in [Procs -> Jobs] /\ rest' \in [Procs -> Seq(Calls)] /\ Left(p)
<1>1. <<>> \in Seq(Calls)
  OBVIOUS
<1> QED
  BY <1>1, Proceeding DEF Return

LEMMA GoingWith ==
  ASSUME TypeOK, NEW p \in Procs, job[p].at # "idle", NEW at \in Places,
         NEW key \in Keys \cup {Null}, GotoWith(p, at, key)
  PROVE  /\ job' \in [Procs -> Jobs] /\ rest' \in [Procs -> Seq(Calls)]
         /\ Elsewhere(p)
         /\ job'[p].at = at /\ job'[p].call = job[p].call /\ job'[p].key = key
<1>1. job[p] \in [call : Calls, key : Keys \cup {Null}, at : Places]
  BY Working
<1>2. job \in [Procs -> Jobs] /\ rest \in [Procs -> Seq(Calls)]
  BY DEF TypeOK
<1> QED
  BY <1>1, <1>2 DEF GotoWith, Elsewhere, Jobs, Places

LEMMA Going ==
  ASSUME TypeOK, NEW p \in Procs, job[p].at # "idle", NEW at \in Places, Goto(p, at)
  PROVE  /\ job' \in [Procs -> Jobs] /\ rest' \in [Procs -> Seq(Calls)]
         /\ Elsewhere(p)
         /\ job'[p].at = at /\ job'[p].call = job[p].call /\ job'[p].key = job[p].key
<1>1. job[p].key \in Keys \cup {Null}
  BY Working
<1> QED
  BY <1>1, GoingWith DEF Goto

LEMMA Ending ==
  ASSUME TypeOK, NEW p \in Procs, End(p) \/ Throw(p)
  PROVE  /\ job' \in [Procs -> Jobs] /\ rest' \in [Procs -> Seq(Calls)]
         /\ program' \in [Procs -> Programs \cup {Null}]
         /\ signer' \in [Procs -> Keys \cup {Null}]
         /\ Left(p)
         /\ \A q \in Procs : signer'[q] \in {signer[q], Null}
<1>1. /\ job \in [Procs -> Jobs] /\ rest \in [Procs -> Seq(Calls)]
      /\ program \in [Procs -> Programs \cup {Null}] /\ signer \in [Procs -> Keys \cup {Null}]
  BY DEF TypeOK
<1>2. <<>> \in Seq(Calls) /\ Idle \in Jobs /\ Idle.at = "idle"
  BY DEF Jobs, Idle
<1> QED
  BY <1>1, <1>2 DEF End, Throw, Left, Elsewhere

LEMMA KeyWritten ==
  ASSUME TypeOK, NEW p \in Procs, NEW f \in Files, WriteKey(p, f)
  PROVE  /\ made' \in [Files -> Nat] /\ file' \in [Files -> Keys \cup {Null}]
         /\ raced \subseteq raced' /\ raced' \subseteq raced \cup {f}
         /\ NewKey(f) \in Keys /\ NewKey(f) # Null /\ file'[f] = NewKey(f)
         /\ \A g \in Files \ {f} : file'[g] = file[g]
<1>1. made \in [Files -> Nat] /\ file \in [Files -> Keys \cup {Null}] /\ raced \subseteq Files
  BY DEF TypeOK
<1>2. NewKey(f) \in Keys
  BY <1>1 DEF NewKey, Keys
<1> QED
  BY <1>1, <1>2, OnboardingAssumption DEF WriteKey

LEMMA DutiesTyped == \A kind \in Programs : Duties(kind) \subseteq Seq(Calls)
<1>1. <<>> \in Seq(Calls)
  OBVIOUS
<1>2. <<EnsureIssuer(DemoIssuer), EnsureOffering(DemoIssuer, DemoOffering)>> \in Seq(Calls)
  <2>1. EnsureIssuer(DemoIssuer) \in Calls /\ EnsureOffering(DemoIssuer, DemoOffering) \in Calls
    BY CallsTyped, OnboardingAssumption
  <2> QED
    BY <2>1
<1>3. \A c \in Commands : <<c>> \in Seq(Calls)
  <2>1. Commands \subseteq Calls
    BY OnboardingAssumption
  <2> QED
    BY <2>1
<1> QED
  BY <1>1, <1>2, <1>3 DEF Programs, Duties

-----------------------------------------------------------------------------
(* Types *)

LEMMA TypeStart ==
  ASSUME TypeOK, NEW p \in Procs, Start(p) \/ StartWithoutKey(p) \/ WritePayloadKey(p)
  PROVE  TypeOK'
<1> USE DEF TypeOK
<1>1. PayloadKey \in Files
  BY DEF Files
<1>2. CASE Start(p)
  <2>1. PICK r \in Programs :
          program' = [program EXCEPT ![p] = r] /\ \E calls \in Duties(r) : Proceed(p, calls)
    BY <1>2 DEF Start
  <2>2. job' \in [Procs -> Jobs] /\ rest' \in [Procs -> Seq(Calls)]
    BY <2>1, DutiesTyped, Proceeding
  <2>3. program' \in [Procs -> Programs \cup {Null}]
    BY <2>1
  <2>4. signer' \in [Procs -> Keys \cup {Null}]
    BY <1>1, <1>2 DEF Start, LoadKey
  <2> QED
    BY <1>2, <2>2, <2>3, <2>4 DEF Start, tables
<1>3. CASE StartWithoutKey(p)
  <2>1. PICK r \in Programs :
          /\ program' = [program EXCEPT ![p] = r]
          /\ \E calls \in Duties(r) : rest' = [rest EXCEPT ![p] = calls]
    BY <1>3 DEF StartWithoutKey
  <2>2. rest' \in [Procs -> Seq(Calls)]
    BY <2>1, DutiesTyped
  <2>3. program' \in [Procs -> Programs \cup {Null}]
    BY <2>1
  <2>4. job' \in [Procs -> Jobs]
    BY <1>3, CallsTyped DEF StartWithoutKey, Jobs
  <2> QED
    BY <1>3, <2>2, <2>3, <2>4 DEF StartWithoutKey, tables
<1>4. CASE WritePayloadKey(p)
  <2>1. job' \in [Procs -> Jobs] /\ rest' \in [Procs -> Seq(Calls)]
    BY <1>4, Returning DEF WritePayloadKey
  <2>2. /\ made' \in [Files -> Nat] /\ file' \in [Files -> Keys \cup {Null}]
        /\ raced' \subseteq Files /\ NewKey(PayloadKey) \in Keys
    BY <1>1, <1>4, KeyWritten DEF WritePayloadKey
  <2>3. signer' \in [Procs -> Keys \cup {Null}]
    BY <1>4, <2>2 DEF WritePayloadKey
  <2> QED
    BY <1>4, <2>1, <2>2, <2>3 DEF WritePayloadKey, tables
<1> QED
  BY <1>2, <1>3, <1>4

LEMMA TypeCreate ==
  ASSUME TypeOK, NEW p \in Procs,
         LookForSubjectKey(p) \/ WriteSubjectKey(p) \/ InsertSubject(p) \/ SignRegistered(p)
  PROVE  TypeOK'
<1> USE DEF TypeOK
<1>1. /\ job[p] \in [call : Calls, key : Keys \cup {Null}, at : Places]
      /\ job[p].call.op = "create" /\ job[p].at # "idle"
    BY Working DEF LookForSubjectKey, WriteSubjectKey, InsertSubject, SignRegistered, Running
<1>2. job[p].call.subject \in Subjects /\ job[p].call.subject \in Files
  BY <1>1, CallFields DEF Files
<1>3. CASE LookForSubjectKey(p)
  <2>1. Throw(p) \/ (Goto(p, "write") /\ UNCHANGED <<program, signer>>)
    BY <1>3 DEF LookForSubjectKey
  <2>2. /\ job' \in [Procs -> Jobs] /\ rest' \in [Procs -> Seq(Calls)]
        /\ program' \in [Procs -> Programs \cup {Null}] /\ signer' \in [Procs -> Keys \cup {Null}]
    BY <1>1, <2>1, Ending, Going DEF Places
  <2> QED
    BY <1>3, <2>2 DEF LookForSubjectKey, tables
<1>4. CASE WriteSubjectKey(p)
  <2>1. /\ made' \in [Files -> Nat] /\ file' \in [Files -> Keys \cup {Null}]
        /\ raced' \subseteq Files /\ NewKey(job[p].call.subject) \in Keys
    BY <1>2, <1>4, KeyWritten DEF WriteSubjectKey
  <2>2. job' \in [Procs -> Jobs] /\ rest' \in [Procs -> Seq(Calls)]
    BY <1>1, <1>4, <2>1, GoingWith DEF WriteSubjectKey, Places
  <2> QED
    BY <1>4, <2>1, <2>2 DEF WriteSubjectKey, tables
<1>5. CASE InsertSubject(p)
  <2>1. Throw(p) \/ (Goto(p, "sign") /\ UNCHANGED <<program, signer>>)
    BY <1>5 DEF InsertSubject
  <2>2. /\ job' \in [Procs -> Jobs] /\ rest' \in [Procs -> Seq(Calls)]
        /\ program' \in [Procs -> Programs \cup {Null}] /\ signer' \in [Procs -> Keys \cup {Null}]
    BY <1>1, <2>1, Ending, Going DEF Places
  <2>3. row' \in [Subjects -> Keys \cup {Null}] /\ issueAny' \subseteq Partners
    BY <1>1, <1>2, <1>5 DEF InsertSubject
  <2> QED
    BY <1>5, <2>2, <2>3 DEF InsertSubject
<1>6. CASE SignRegistered(p)
  <2>1. job' \in [Procs -> Jobs] /\ rest' \in [Procs -> Seq(Calls)]
    BY <1>6, Returning DEF SignRegistered
  <2> QED
    BY <1>6, <2>1 DEF SignRegistered
<1> QED
  BY <1>3, <1>4, <1>5, <1>6

LEMMA TypeOffer ==
  ASSUME TypeOK, NEW p \in Procs,
         GetIssuer(p) \/ DeclareOffering(p) \/ InsertOffering(p) \/ SignDeclared(p)
  PROVE  TypeOK'
<1> USE DEF TypeOK
<1>1. /\ job[p] \in [call : Calls, key : Keys \cup {Null}, at : Places]
      /\ job[p].call.op = "addOffering" /\ job[p].at # "idle"
    BY Working DEF GetIssuer, DeclareOffering, InsertOffering, SignDeclared, Running
<1>2. job[p].call.issuer \in Subjects /\ job[p].call.issuer \in Issuers
      /\ job[p].call.offering \in Offerings
  BY <1>1, CallFields DEF Subjects
<1>3. CASE GetIssuer(p)
  <2>1. CASE Throw(p)
    BY <1>3, <2>1, Ending DEF GetIssuer, tables
  <2>2. CASE ~Throw(p)
    <3>1. row[job[p].call.issuer] \in Keys \cup {Null}
      BY <1>2
    <3>2. job' \in [Procs -> Jobs] /\ rest' \in [Procs -> Seq(Calls)]
      BY <1>1, <1>3, <2>2, <3>1, GoingWith DEF GetIssuer, Places
    <3> QED
      BY <1>3, <2>2, <3>2 DEF GetIssuer, tables
  <2> QED
    BY <2>1, <2>2
<1>4. CASE DeclareOffering(p)
  <2>1. Throw(p) \/ (Goto(p, "offer") /\ UNCHANGED <<program, signer>>)
    BY <1>4 DEF DeclareOffering
  <2>2. /\ job' \in [Procs -> Jobs] /\ rest' \in [Procs -> Seq(Calls)]
        /\ program' \in [Procs -> Programs \cup {Null}] /\ signer' \in [Procs -> Keys \cup {Null}]
    BY <1>1, <2>1, Ending, Going DEF Places
  <2>3. catalog' \in [Offerings -> Keys \cup {Null}]
    BY <1>1, <1>4 DEF DeclareOffering, DeclaredBy
  <2> QED
    BY <1>4, <2>2, <2>3 DEF DeclareOffering
<1>5. CASE InsertOffering(p)
  <2>1. Throw(p) \/ (Goto(p, "sign") /\ UNCHANGED <<program, signer>>)
    BY <1>5 DEF InsertOffering
  <2>2. /\ job' \in [Procs -> Jobs] /\ rest' \in [Procs -> Seq(Calls)]
        /\ program' \in [Procs -> Programs \cup {Null}] /\ signer' \in [Procs -> Keys \cup {Null}]
    BY <1>1, <2>1, Ending, Going DEF Places
  <2>3. offered' \in [Offerings -> Issuers \cup {Null}]
    BY <1>2, <1>5 DEF InsertOffering
  <2> QED
    BY <1>5, <2>2, <2>3 DEF InsertOffering
<1>6. CASE SignDeclared(p)
  <2>1. job' \in [Procs -> Jobs] /\ rest' \in [Procs -> Seq(Calls)]
    BY <1>6, Returning DEF SignDeclared
  <2> QED
    BY <1>6, <2>1 DEF SignDeclared
<1> QED
  BY <1>3, <1>4, <1>5, <1>6

LEMMA TypeLink ==
  ASSUME TypeOK, NEW p \in Procs, CheckLink(p) \/ InsertLink(p) \/ SignLinked(p)
  PROVE  TypeOK'
<1> USE DEF TypeOK
<1>1. /\ job[p] \in [call : Calls, key : Keys \cup {Null}, at : Places]
      /\ job[p].call.op = "linkIssuer" /\ job[p].at # "idle"
    BY Working DEF CheckLink, InsertLink, SignLinked, Running
<1>2. job[p].call.link \in Links
  BY <1>1, CallFields
<1>3. CASE CheckLink(p)
  <2>1. Throw(p) \/ (Goto(p, "link") /\ UNCHANGED <<program, signer>>)
    BY <1>3 DEF CheckLink
  <2>2. /\ job' \in [Procs -> Jobs] /\ rest' \in [Procs -> Seq(Calls)]
        /\ program' \in [Procs -> Programs \cup {Null}] /\ signer' \in [Procs -> Keys \cup {Null}]
    BY <1>1, <2>1, Ending, Going DEF Places
  <2> QED
    BY <1>3, <2>2 DEF CheckLink, tables
<1>4. CASE InsertLink(p)
  <2>1. job' \in [Procs -> Jobs] /\ rest' \in [Procs -> Seq(Calls)]
    BY <1>1, <1>4, Going DEF InsertLink, Places
  <2> QED
    BY <1>2, <1>4, <2>1 DEF InsertLink, Linked
<1>5. CASE SignLinked(p)
  <2>1. job' \in [Procs -> Jobs] /\ rest' \in [Procs -> Seq(Calls)]
    BY <1>5, Returning DEF SignLinked
  <2> QED
    BY <1>5, <2>1 DEF SignLinked
<1> QED
  BY <1>3, <1>4, <1>5

\* A call that ends in other calls.
LEMMA EndsInCalls ==
  ASSUME TypeOK, NEW p \in Procs,
         \/ CheckPartner(p) \/ NextMerchant(p) \/ SignProvisioned(p)
         \/ CreateIssuerIfNew(p) \/ AddOfferingIfNew(p)
  PROVE  \/ Throw(p)
         \/ UNCHANGED <<program, signer>> /\ \E calls \in Seq(Calls) : Proceed(p, calls)
<1>1. job[p] \in [call : Calls, key : Keys \cup {Null}, at : Places]
  BY Working DEF CheckPartner, NextMerchant, SignProvisioned, CreateIssuerIfNew,
                 AddOfferingIfNew, Running
<1>2. <<>> \in Seq(Calls) /\ \A c \in Calls : <<c>> \in Seq(Calls)
  OBVIOUS
<1>3. CASE CheckPartner(p)
  <2>1. job[p].call.partner \in Partners /\ job[p].call.merchants \in Seq(Merchants)
    BY <1>1, <1>3, CallFields DEF CheckPartner, Running
  <2>2. <<EachMerchant(job[p].call.partner, job[p].call.merchants)>> \in Seq(Calls)
    BY <1>2, <2>1, CallsTyped
  <2> QED
    BY <1>3, <2>2 DEF CheckPartner
<1>4. CASE NextMerchant(p)
  <2> DEFINE call == job[p].call
             m == Head(call.merchants)
             link == [partner |-> call.partner, issuer |-> m.issuer, account |-> m.account]
             calls == <<EnsureIssuer(m.issuer), LinkIssuer(link),
                        EachMerchant(call.partner, Tail(call.merchants))>>
  <2>1. call.partner \in Partners /\ call.merchants \in Seq(Merchants) /\ call.merchants # <<>>
    BY <1>1, <1>4, CallFields DEF NextMerchant, Running
  <2>2. m \in Merchants /\ Tail(call.merchants) \in Seq(Merchants)
    BY <2>1
  <2>3. link \in Links /\ m.issuer \in Issuers
    BY <2>1, <2>2 DEF Links, Merchants
  <2>4. /\ EnsureIssuer(m.issuer) \in Calls /\ LinkIssuer(link) \in Calls
        /\ EachMerchant(call.partner, Tail(call.merchants)) \in Calls
    BY <2>1, <2>2, <2>3, CallsTyped
  <2>5. calls \in Seq(Calls)
    BY <2>4
  <2>6. Proceed(p, calls) /\ UNCHANGED <<program, signer>>
    BY <1>4 DEF NextMerchant
  <2> QED
    BY <2>5, <2>6
<1>5. CASE SignProvisioned(p)
  BY <1>2, <1>5 DEF SignProvisioned, Return
<1>6. CASE CreateIssuerIfNew(p)
  <2>1. job[p].call.issuer \in Subjects
    BY <1>1, <1>6, CallFields DEF CreateIssuerIfNew, Running, Subjects
  <2>2. Create(job[p].call.issuer, FALSE) \in Calls
    BY <2>1, CallsTyped
  <2> QED
    BY <1>2, <1>6, <2>2 DEF CreateIssuerIfNew
<1>7. CASE AddOfferingIfNew(p)
  <2>1. job[p].call.issuer \in Issuers /\ job[p].call.offering \in Offerings
    BY <1>1, <1>7, CallFields DEF AddOfferingIfNew, Running
  <2>2. AddOffering(job[p].call.issuer, job[p].call.offering) \in Calls
    BY <2>1, CallsTyped
  <2> QED
    BY <1>2, <1>7, <2>2 DEF AddOfferingIfNew
<1> QED
  BY <1>3, <1>4, <1>5, <1>6, <1>7

LEMMA TypeProvision ==
  ASSUME TypeOK, NEW p \in Procs,
         \/ CheckPartner(p) \/ NextMerchant(p) \/ SignProvisioned(p)
         \/ CreateIssuerIfNew(p) \/ AddOfferingIfNew(p)
  PROVE  TypeOK'
<1>1. /\ job' \in [Procs -> Jobs] /\ rest' \in [Procs -> Seq(Calls)]
      /\ program' \in [Procs -> Programs \cup {Null}] /\ signer' \in [Procs -> Keys \cup {Null}]
  BY EndsInCalls, Ending, Proceeding DEF TypeOK
<1>2. UNCHANGED <<file, row, issueAny, catalog, offered, links, made, raced, effects, faults>>
  BY DEF CheckPartner, NextMerchant, SignProvisioned, CreateIssuerIfNew, AddOfferingIfNew, tables
<1> QED
  BY <1>1, <1>2 DEF TypeOK

LEMMA TypeRequest ==
  ASSUME TypeOK, NEW p \in Procs, Receive(p) \/ InsertNonce(p) \/ Serve(p)
  PROVE  TypeOK'
<1> USE DEF TypeOK
<1>1. CASE Receive(p)
  <2>1. PICK r \in Requests :
          job' = [job EXCEPT ![p] = [call |-> Handle(r), at |-> "nonce", key |-> Null]]
    BY <1>1 DEF Receive
  <2>2. job' \in [Procs -> Jobs]
    BY <2>1, CallsTyped DEF Jobs
  <2> QED
    BY <1>1, <2>2 DEF Receive, tables
<1>2. ASSUME InsertNonce(p) \/ Serve(p)
      PROVE  /\ job[p] \in [call : Calls, key : Keys \cup {Null}, at : Places]
             /\ job[p].at # "idle" /\ job[p].call.request \in Requests
  <2>1. job[p].at # "idle" /\ job[p].call.op = "handle"
    BY <1>2 DEF InsertNonce, Serve, Running
  <2> QED
    BY <2>1, Working, CallFields
<1>3. CASE InsertNonce(p)
  <2>1. Throw(p) \/ (Goto(p, "serve") /\ UNCHANGED <<program, signer>>)
    BY <1>3 DEF InsertNonce
  <2>2. /\ job' \in [Procs -> Jobs] /\ rest' \in [Procs -> Seq(Calls)]
        /\ program' \in [Procs -> Programs \cup {Null}] /\ signer' \in [Procs -> Keys \cup {Null}]
    BY <1>2, <1>3, <2>1, Ending, Going DEF Places
  <2> QED
    BY <1>3, <2>2 DEF InsertNonce
<1>4. CASE Serve(p)
  <2> DEFINE r == job[p].call.request
  <2>1. r \in Requests
    BY <1>2, <1>4
  <2>2. r.partner \in Partners /\ r.merchants \in Seq(Merchants)
    BY <2>1, OnboardingAssumption
  <2>3. <<Provision(r.partner, r.merchants)>> \in Seq(Calls)
    <3>1. Provision(r.partner, r.merchants) \in Calls
      BY <2>2, CallsTyped
    <3> QED
      BY <3>1
  <2>4. \/ Proceed(p, <<Provision(r.partner, r.merchants)>>) /\ UNCHANGED <<program, signer>>
        \/ Return(p) /\ UNCHANGED <<program, signer>>
        \/ Throw(p)
    BY <1>4 DEF Serve
  <2>5. /\ job' \in [Procs -> Jobs] /\ rest' \in [Procs -> Seq(Calls)]
        /\ program' \in [Procs -> Programs \cup {Null}] /\ signer' \in [Procs -> Keys \cup {Null}]
    BY <2>3, <2>4, Ending, Returning, Proceeding
  <2>6. effects' \in Seq(Requests)
    BY <1>4, <2>1 DEF Serve
  <2> QED
    BY <1>4, <2>5, <2>6 DEF Serve, tables
<1> QED
  BY <1>1, <1>3, <1>4

LEMMA TypeFault ==
  ASSUME TypeOK, NEW p \in Procs, Exit(p) \/ WriteFails(p) \/ Crash(p)
  PROVE  TypeOK'
<1>1. End(p) \/ Throw(p)
  BY DEF Exit, WriteFails, Crash
<1>2. /\ job' \in [Procs -> Jobs] /\ rest' \in [Procs -> Seq(Calls)]
      /\ program' \in [Procs -> Programs \cup {Null}] /\ signer' \in [Procs -> Keys \cup {Null}]
  BY <1>1, Ending
<1>3. UNCHANGED <<file, tables, made, raced, effects>> /\ faults' \in 0..MaxFaults
  BY OnboardingAssumption DEF Exit, WriteFails, Crash, TypeOK
<1> QED
  BY <1>2, <1>3 DEF TypeOK, tables

\* What is stored, remembered and under way is always well formed.
THEOREM TypeCorrect == Spec => []TypeOK
<1>1. Init => TypeOK
  BY OnboardingAssumption DEF Init, TypeOK, Jobs, Idle
<1>2. TypeOK /\ [Next]_onboardingVars => TypeOK'
  <2> SUFFICES ASSUME TypeOK, [Next]_onboardingVars PROVE TypeOK'
    OBVIOUS
  <2>1. CASE UNCHANGED onboardingVars
    BY <2>1 DEF onboardingVars, tables, TypeOK
  <2>2. CASE Next
    BY <2>2, TypeStart, TypeCreate, TypeOffer, TypeLink, TypeProvision, TypeRequest, TypeFault
    DEF Next, Step
  <2> QED
    BY <2>1, <2>2
<1> QED
  BY <1>1, <1>2, PTL DEF Spec

-----------------------------------------------------------------------------
(* The inductive invariant: what a process knows at each statement *)

Subject(p) == job[p].call.subject

\* A process that is to write a key file found none, one that is to insert the row
\* has written the file, and so on; unless two processes found the file missing.
KeysInv ==
  /\ \A s \in Subjects : row[s] # Null => file[s] # Null /\ (s \notin raced => file[s] = row[s])
  /\ \A p \in Procs :
       /\ Running(p, "create", "write") => Subject(p) \in raced \/ file[Subject(p)] = Null
       /\ Running(p, "create", "row") =>
            /\ job[p].key # Null /\ file[Subject(p)] # Null
            /\ Subject(p) \in raced \/ file[Subject(p)] = job[p].key
       /\ Running(p, "create", "sign") => job[p].key # Null /\ row[Subject(p)] = job[p].key

IdentityInv ==
  PayloadKey \in raced \/
    \A p \in Procs :
      /\ signer[p] # Null => signer[p] = file[PayloadKey]
      /\ Running(p, "constructor", "write") => file[PayloadKey] = Null

OffersInv ==
  /\ \A o \in Offerings : offered[o] # Null =>
       row[offered[o]] # Null /\ catalog[o] = row[offered[o]]
  /\ \A p \in Procs :
       LET i == job[p].call.issuer
           o == job[p].call.offering IN
       /\ Running(p, "addOffering", "declare") => row[i] # Null /\ job[p].key = row[i]
       /\ Running(p, "addOffering", "offer") => row[i] # Null /\ catalog[o] = row[i]
       /\ Running(p, "addOffering", "sign") => offered[o] = i

EventsInv ==
  /\ \A e \in events :
       /\ e.type = "registered" =>
            e.subject \in Subjects /\ e.key # Null /\ row[e.subject] = e.key
       /\ e.type = "declared" =>
            e.offering \in Offerings /\ e.issuer \in Issuers /\ offered[e.offering] = e.issuer
       /\ e.type = "linked" => \E k \in links : Collides(e.link, k)
  /\ \A p \in Procs :
       Running(p, "linkIssuer", "sign") => \E k \in links : Collides(job[p].call.link, k)

NonceOf(r) == <<r.partner, r.nonce>>

NoncesInv ==
  /\ \A n \in DOMAIN effects : NonceOf(effects[n]) \in nonces
  /\ RequestsTakeEffectOnce
  /\ \A p \in Procs : Running(p, "handle", "serve") =>
       /\ NonceOf(job[p].call.request) \in nonces
       /\ \A n \in DOMAIN effects : NonceOf(effects[n]) # NonceOf(job[p].call.request)
       /\ \A q \in Procs \ {p} :
            Running(q, "handle", "serve") =>
              NonceOf(job[q].call.request) # NonceOf(job[p].call.request)

LinksInv == \A k, l \in links : Collides(k, l) => k = l

\* Without faults whoever wrote the first half is about to write the second.
HalvesInv ==
  faults = 0 =>
    /\ \A s \in Subjects : file[s] # Null /\ row[s] = Null =>
         \E p \in Procs : Running(p, "create", "row") /\ Subject(p) = s
    /\ \A s \in Subjects : row[s] # Null =>
         \/ [type |-> "registered", subject |-> s, key |-> row[s]] \in events
         \/ \E p \in Procs : Running(p, "create", "sign") /\ Subject(p) = s
    /\ \A o \in Offerings : catalog[o] # Null /\ offered[o] = Null =>
         \E p \in Procs : Running(p, "addOffering", "offer") /\ job[p].call.offering = o
    /\ \A o \in Offerings : offered[o] # Null =>
         \/ [type |-> "declared", issuer |-> offered[o], offering |-> o] \in events
         \/ \E p \in Procs : Running(p, "addOffering", "sign") /\ job[p].call.offering = o

OnboardingInv ==
  /\ TypeOK /\ KeysInv /\ IdentityInv /\ OffersInv /\ EventsInv /\ NoncesInv /\ LinksInv
  /\ HalvesInv

-----------------------------------------------------------------------------
(* The steps that matter, and those that do not *)

\* p goes on with the same call and key.
Now(p, at) ==
  /\ Elsewhere(p)
  /\ job'[p].at = at /\ job'[p].call = job[p].call /\ job'[p].key = job[p].key

\* p stores nothing the invariant speaks of and is left knowing nothing; without a
\* fault, not while it owes a row or an event.
Quiet(p) ==
  /\ UNCHANGED <<file, row, issueAny, catalog, offered, links, nonces, raced, effects>>
  /\ events \subseteq events' /\ \A e \in events' : e \in events \/ e.type = "provisioned"
  /\ Elsewhere(p) /\ job'[p].at \in {"idle", "enter", "link", "nonce"}
  /\ \A q \in Procs : signer'[q] \in {signer[q], Null}
  /\ \/ faults' # 0
     \/ /\ faults' = faults
        /\ Running(p, "create", "row") => row[Subject(p)] # Null
        /\ Running(p, "addOffering", "offer") => offered[job[p].call.offering] # Null
        /\ ~Running(p, "create", "sign") /\ ~Running(p, "addOffering", "sign")

\* The other steps, each where it does not throw.
StartsShape(p) ==
  \/ Start(p) /\ Left(p)
  \/ StartWithoutKey(p) /\ Elsewhere(p) /\ job'[p].at = "write" /\ job'[p].call = Constructor
  \/ WritePayloadKey(p) /\ Left(p)

CreateShape(p) ==
  \/ LookForSubjectKey(p) /\ file[Subject(p)] = Null /\ Now(p, "write")
  \/ /\ WriteSubjectKey(p)
     /\ Elsewhere(p)
     /\ job'[p].at = "row" /\ job'[p].call = job[p].call /\ job'[p].key = NewKey(Subject(p))
  \/ InsertSubject(p) /\ row[Subject(p)] = Null /\ Now(p, "sign")
  \/ SignRegistered(p) /\ Left(p)

OfferShape(p) ==
  LET i == job[p].call.issuer
      o == job[p].call.offering IN
  \/ /\ GetIssuer(p) /\ row[i] # Null
     /\ Elsewhere(p)
     /\ job'[p].at = "declare" /\ job'[p].call = job[p].call /\ job'[p].key = row[i]
  \/ DeclareOffering(p) /\ catalog[o] = Null /\ Now(p, "offer")
  \/ InsertOffering(p) /\ offered[o] = Null /\ Now(p, "sign")
  \/ SignDeclared(p) /\ Left(p)

LinkShape(p) ==
  \/ InsertLink(p) /\ Now(p, "sign")
  \/ SignLinked(p) /\ Left(p)

RequestShape(p) ==
  \/ InsertNonce(p) /\ NonceOf(job[p].call.request) \notin nonces /\ Now(p, "serve")
  \/ Serve(p) /\ Left(p)

LEMMA QuietFaults ==
  ASSUME TypeOK, NEW p \in Procs, Exit(p) \/ WriteFails(p) \/ Crash(p)
  PROVE  Quiet(p)
<1>1. Left(p) /\ \A q \in Procs : signer'[q] \in {signer[q], Null}
  BY Ending DEF Exit, WriteFails, Crash
<1>2. faults \in Nat
  BY OnboardingAssumption DEF TypeOK
<1>3. UNCHANGED <<file, row, issueAny, catalog, offered, links, events, nonces, raced, effects>>
  BY DEF Exit, WriteFails, Crash, tables
<1>4. CASE Exit(p)
  <2>1. faults' = faults /\ job[p].at = "idle"
    BY <1>4 DEF Exit, Idle
  <2> QED
    BY <1>1, <1>3, <2>1 DEF Quiet, Left, Running
<1>5. CASE WriteFails(p) \/ Crash(p)
  <2>1. faults' # 0
    BY <1>2, <1>5 DEF WriteFails, Crash
  <2> QED
    BY <1>1, <1>3, <2>1 DEF Quiet, Left
<1> QED
  BY <1>4, <1>5

LEMMA ShapeOfStarts ==
  ASSUME TypeOK, NEW p \in Procs, Start(p) \/ StartWithoutKey(p) \/ WritePayloadKey(p)
  PROVE  StartsShape(p)
<1>1. CASE Start(p)
  <2>1. Left(p)
    BY <1>1, DutiesTyped, Proceeding DEF Start
  <2> QED
    BY <1>1, <2>1 DEF StartsShape
<1>2. CASE StartWithoutKey(p)
  <2>1. job \in [Procs -> Jobs]
    BY DEF TypeOK
  <2> QED
    BY <1>2, <2>1 DEF StartWithoutKey, StartsShape, Elsewhere
<1>3. CASE WritePayloadKey(p)
  BY <1>3, Returning DEF WritePayloadKey, StartsShape
<1> QED
  BY <1>1, <1>2, <1>3

LEMMA ShapeOfCreate ==
  ASSUME TypeOK, NEW p \in Procs,
         LookForSubjectKey(p) \/ WriteSubjectKey(p) \/ InsertSubject(p) \/ SignRegistered(p)
  PROVE  Quiet(p) \/ CreateShape(p)
<1>1. /\ job[p] \in [call : Calls, key : Keys \cup {Null}, at : Places]
      /\ job[p].call.op = "create" /\ job[p].at # "idle"
    BY Working DEF LookForSubjectKey, WriteSubjectKey, InsertSubject, SignRegistered, Running
<1>2. Subject(p) \in Files
  BY <1>1, CallFields DEF Files, Subject
<1>3. CASE LookForSubjectKey(p)
  <2>1. CASE file[Subject(p)] = Null
    BY <1>1, <1>3, <2>1, Going DEF LookForSubjectKey, CreateShape, Subject, Now, Places
  <2>2. CASE file[Subject(p)] # Null
    <3>1. Throw(p) /\ job[p].at = "enter"
      BY <1>3, <2>2 DEF LookForSubjectKey, Subject, Running
    <3> QED
      BY <1>3, <3>1, Ending DEF LookForSubjectKey, Quiet, Left, Running, tables
  <2> QED
    BY <2>1, <2>2
<1>4. CASE WriteSubjectKey(p)
  <2>1. NewKey(Subject(p)) \in Keys
    BY <1>2, <1>4, KeyWritten DEF WriteSubjectKey, Subject
  <2> QED
    BY <1>1, <1>4, <2>1, GoingWith DEF WriteSubjectKey, CreateShape, Subject, Places
<1>5. CASE InsertSubject(p)
  <2>1. CASE row[Subject(p)] = Null
    BY <1>1, <1>5, <2>1, Going DEF InsertSubject, CreateShape, Subject, Now, Places
  <2>2. CASE row[Subject(p)] # Null
    <3>1. Throw(p) /\ job[p].at = "row"
      BY <1>5, <2>2 DEF InsertSubject, Subject, Running
    <3>2. UNCHANGED <<file, row, issueAny, catalog, offered, links, events, nonces, raced,
                      effects, faults>>
      BY <1>5, <2>2 DEF InsertSubject, Subject
    <3> QED
      BY <1>1, <2>2, <3>1, <3>2, Ending DEF Quiet, Left, Running
  <2> QED
    BY <2>1, <2>2
<1>6. CASE SignRegistered(p)
  BY <1>6, Returning DEF SignRegistered, CreateShape
<1> QED
  BY <1>3, <1>4, <1>5, <1>6

LEMMA ShapeOfOffer ==
  ASSUME TypeOK, NEW p \in Procs,
         GetIssuer(p) \/ DeclareOffering(p) \/ InsertOffering(p) \/ SignDeclared(p)
  PROVE  Quiet(p) \/ OfferShape(p)
<1> DEFINE i == job[p].call.issuer
           o == job[p].call.offering
<1>1. /\ job[p] \in [call : Calls, key : Keys \cup {Null}, at : Places]
      /\ job[p].call.op = "addOffering" /\ job[p].at # "idle"
    BY Working DEF GetIssuer, DeclareOffering, InsertOffering, SignDeclared, Running
<1>2. row[i] \in Keys \cup {Null}
  BY <1>1, CallFields DEF TypeOK, Subjects
<1>3. CASE GetIssuer(p)
  <2>1. CASE row[i] # Null
    BY <1>1, <1>2, <1>3, <2>1, GoingWith DEF GetIssuer, OfferShape, Places
  <2>2. CASE row[i] = Null
    <3>1. Throw(p) /\ job[p].at = "enter"
      BY <1>3, <2>2 DEF GetIssuer, Running
    <3> QED
      BY <1>3, <3>1, Ending DEF GetIssuer, Quiet, Left, Running, tables
  <2> QED
    BY <2>1, <2>2
<1>4. CASE DeclareOffering(p)
  <2>1. CASE catalog[o] = Null
    BY <1>1, <1>4, <2>1, Going DEF DeclareOffering, OfferShape, Now, Places
  <2>2. CASE catalog[o] # Null
    <3>1. Throw(p) /\ job[p].at = "declare"
      BY <1>4, <2>2 DEF DeclareOffering, Running
    <3>2. UNCHANGED <<file, row, issueAny, catalog, offered, links, events, nonces, raced,
                      effects, faults>>
      BY <1>4, <2>2 DEF DeclareOffering
    <3> QED
      BY <3>1, <3>2, Ending DEF Quiet, Left, Running
  <2> QED
    BY <2>1, <2>2
<1>5. CASE InsertOffering(p)
  <2>1. CASE offered[o] = Null
    BY <1>1, <1>5, <2>1, Going DEF InsertOffering, OfferShape, Now, Places
  <2>2. CASE offered[o] # Null
    <3>1. Throw(p) /\ job[p].at = "offer"
      BY <1>5, <2>2 DEF InsertOffering, Running
    <3>2. UNCHANGED <<file, row, issueAny, catalog, offered, links, events, nonces, raced,
                      effects, faults>>
      BY <1>5, <2>2 DEF InsertOffering
    <3> QED
      BY <2>2, <3>1, <3>2, Ending DEF Quiet, Left, Running
  <2> QED
    BY <2>1, <2>2
<1>6. CASE SignDeclared(p)
  BY <1>6, Returning DEF SignDeclared, OfferShape
<1> QED
  BY <1>3, <1>4, <1>5, <1>6

LEMMA ShapeOfLink ==
  ASSUME TypeOK, NEW p \in Procs, CheckLink(p) \/ InsertLink(p) \/ SignLinked(p)
  PROVE  Quiet(p) \/ LinkShape(p)
<1>1. CASE CheckLink(p)
  <2>1. job[p].at = "enter" /\ (Throw(p) \/ (Goto(p, "link") /\ UNCHANGED <<program, signer>>))
    BY <1>1 DEF CheckLink, Running
  <2>2. /\ Elsewhere(p) /\ job'[p].at \in {"idle", "enter", "link"}
        /\ \A q \in Procs : signer'[q] \in {signer[q], Null}
    BY <2>1, Ending, Going DEF Left, Places
  <2> QED
    BY <1>1, <2>1, <2>2 DEF CheckLink, Quiet, Running, tables
<1>2. CASE InsertLink(p)
  <2>1. job[p].at # "idle"
    BY <1>2 DEF InsertLink, Running
  <2> QED
    BY <1>2, <2>1, Going DEF InsertLink, LinkShape, Now, Places
<1>3. CASE SignLinked(p)
  BY <1>3, Returning DEF SignLinked, LinkShape
<1> QED
  BY <1>1, <1>2, <1>3

LEMMA ShapeOfProvision ==
  ASSUME TypeOK, NEW p \in Procs,
         \/ CheckPartner(p) \/ NextMerchant(p) \/ SignProvisioned(p)
         \/ CreateIssuerIfNew(p) \/ AddOfferingIfNew(p)
  PROVE  Quiet(p)
<1>1. job[p].at = "enter"
  BY DEF CheckPartner, NextMerchant, SignProvisioned, CreateIssuerIfNew, AddOfferingIfNew,
         Running
<1>2. /\ UNCHANGED <<file, row, issueAny, catalog, offered, links, nonces, raced, effects, faults>>
      /\ events' = events \cup {[type |-> "provisioned", partner |-> job[p].call.partner]}
           \/ events' = events
  BY DEF CheckPartner, NextMerchant, SignProvisioned, CreateIssuerIfNew, AddOfferingIfNew,
         tables, LogEvent
<1>3. Left(p) /\ \A q \in Procs : signer'[q] \in {signer[q], Null}
  BY EndsInCalls, Ending, Proceeding
<1> QED
  BY <1>1, <1>2, <1>3 DEF Quiet, Left, Running

LEMMA ShapeOfRequest ==
  ASSUME TypeOK, NEW p \in Procs, Receive(p) \/ InsertNonce(p) \/ Serve(p)
  PROVE  Quiet(p) \/ RequestShape(p)
<1>1. CASE Receive(p)
  <2>1. job \in [Procs -> Jobs] /\ job[p].at = "idle"
    BY <1>1 DEF Receive, TypeOK, Idle
  <2> QED
    BY <1>1, <2>1 DEF Receive, Quiet, Elsewhere, Running, tables
<1>2. CASE InsertNonce(p)
  <2>1. job[p].at = "nonce"
    BY <1>2 DEF InsertNonce, Running
  <2>2. CASE NonceOf(job[p].call.request) \notin nonces
    BY <1>2, <2>1, <2>2, Going DEF InsertNonce, RequestShape, NonceOf, Now, Places
  <2>3. CASE NonceOf(job[p].call.request) \in nonces
    <3>1. Throw(p) /\ UNCHANGED nonces
      BY <1>2, <2>3 DEF InsertNonce, NonceOf
    <3> QED
      BY <1>2, <2>1, <3>1, Ending DEF InsertNonce, Quiet, Left, Running
  <2> QED
    BY <2>2, <2>3
<1>3. CASE Serve(p)
  <2> DEFINE r == job[p].call.request
  <2>1. <<Provision(r.partner, r.merchants)>> \in Seq(Calls)
    <3>1. r \in Requests
      BY <1>3, Working, CallFields DEF Serve, Running
    <3>2. Provision(r.partner, r.merchants) \in Calls
      BY <3>1, OnboardingAssumption, CallsTyped
    <3> QED
      BY <3>2
  <2>2. Proceed(p, <<Provision(r.partner, r.merchants)>>) \/ Return(p) \/ Throw(p)
    BY <1>3 DEF Serve
  <2> QED
    BY <1>3, <2>1, <2>2, Ending, Returning, Proceeding DEF RequestShape
<1> QED
  BY <1>1, <1>2, <1>3

-----------------------------------------------------------------------------
(* Each part of the invariant is preserved *)

\* A step, sorted.
Shape(p) ==
  \/ Quiet(p) \/ StartsShape(p) \/ CreateShape(p) \/ OfferShape(p) \/ LinkShape(p)
  \/ RequestShape(p)

LEMMA StepShape ==
  ASSUME TypeOK, Next
  PROVE  \E p \in Procs : Shape(p)
<1>1. PICK p \in Procs :
        Start(p) \/ StartWithoutKey(p) \/ Step(p) \/ Receive(p) \/ Exit(p) \/ WriteFails(p) \/ Crash(p)
  BY DEF Next
<1> QED
  BY <1>1, QuietFaults, ShapeOfStarts, ShapeOfCreate, ShapeOfOffer, ShapeOfLink,
     ShapeOfProvision, ShapeOfRequest DEF Step, Shape

\* Whoever overwrites a file that another found missing is noticed.
LEMMA RacesNoticed ==
  ASSUME NEW p \in Procs, NEW f \in Files, WriteKey(p, f)
  PROVE  \A q \in Procs \ {p} :
           /\ Running(q, "create", "write") /\ Subject(q) = f => f \in raced'
           /\ Running(q, "constructor", "write") /\ f = PayloadKey => f \in raced'
  BY DEF WriteKey, Running, Subject

LEMMA SubjectTyped ==
  ASSUME TypeOK, NEW p \in Procs, job[p].at # "idle", job[p].call.op = "create"
  PROVE  Subject(p) \in Subjects /\ Subject(p) \in Files /\ Subject(p) # PayloadKey
<1>1. job[p].call \in Calls
  BY Working
<1> QED
  BY <1>1, CallFields, OnboardingAssumption DEF Subject, Files

LEMMA KeysKept ==
  ASSUME TypeOK, KeysInv, NEW p \in Procs, Shape(p)
  PROVE  KeysInv'
<1> DEFINE Knows(q) ==
             /\ Running(q, "create", "write") => Subject(q) \in raced \/ file[Subject(q)] = Null
             /\ Running(q, "create", "row") =>
                  /\ job[q].key # Null /\ file[Subject(q)] # Null
                  /\ Subject(q) \in raced \/ file[Subject(q)] = job[q].key
             /\ Running(q, "create", "sign") =>
                  job[q].key # Null /\ row[Subject(q)] = job[q].key
<1>1. \A s \in Subjects : row[s] # Null => file[s] # Null /\ (s \notin raced => file[s] = row[s])
  BY DEF KeysInv
<1>2. \A q \in Procs : Knows(q)
  BY DEF KeysInv
\* The others remember what they knew when nothing of this is stored.
<1>4. ASSUME UNCHANGED <<file, row, raced>>, Elsewhere(p), Knows(p)'
      PROVE  KeysInv'
  BY <1>1, <1>2, <1>4 DEF KeysInv, Elsewhere, Running, Subject
<1>5. CASE Quiet(p)
  BY <1>4, <1>5 DEF Quiet, Running
<1>6. CASE StartsShape(p)
  <2>1. CASE Start(p) /\ Left(p)
    BY <1>4, <2>1 DEF Start, Left, Running, tables
  <2>2. CASE StartWithoutKey(p) /\ Elsewhere(p) /\ job'[p].at = "write" /\ job'[p].call = Constructor
    BY <1>4, <2>2 DEF StartWithoutKey, Running, Constructor, tables
  <2>3. CASE WritePayloadKey(p) /\ Left(p)
    <3>1. /\ \A f \in Files \ {PayloadKey} : file'[f] = file[f]
          /\ raced \subseteq raced' /\ raced' \subseteq raced \cup {PayloadKey}
      BY <2>3, KeyWritten DEF WritePayloadKey, Files
    <3>2. row' = row /\ Elsewhere(p) /\ job'[p].at \in {"idle", "enter"}
      BY <2>3 DEF WritePayloadKey, Left, tables
    <3>3. \A s \in Subjects : s \in Files \ {PayloadKey}
      BY OnboardingAssumption DEF Files
    <3>4. \A q \in Procs : job[q].at # "idle" /\ job[q].call.op = "create" => Subject(q) \in Subjects
      BY SubjectTyped
    <3>5. ASSUME NEW q \in Procs \ {p} PROVE Knows(q)'
      BY <1>2, <3>1, <3>2, <3>3, <3>4, <3>5 DEF Elsewhere, Running, Subject
    <3> QED
      BY <1>1, <3>1, <3>2, <3>3, <3>5 DEF Running, KeysInv
  <2> QED
    BY <1>6, <2>1, <2>2, <2>3 DEF StartsShape
<1>7. CASE CreateShape(p)
  <2>0. job[p].at # "idle" /\ job[p].call.op = "create"
    BY <1>7 DEF CreateShape, LookForSubjectKey, WriteSubjectKey, InsertSubject, SignRegistered,
                Running
  <2>1. CASE LookForSubjectKey(p) /\ file[Subject(p)] = Null /\ Now(p, "write")
    BY <1>4, <2>1 DEF LookForSubjectKey, Now, Running, Subject, tables
  <2>2. CASE /\ WriteSubjectKey(p)
             /\ Elsewhere(p)
             /\ job'[p].at = "row" /\ job'[p].call = job[p].call /\ job'[p].key = NewKey(Subject(p))
    <3> DEFINE f == Subject(p)
    <3>1. f \in Subjects /\ f \in Files
      BY <2>0, SubjectTyped
    <3>2. WriteKey(p, f) /\ row' = row /\ Running(p, "create", "write")
      BY <2>2 DEF WriteSubjectKey, Subject, tables
    <3>3. /\ raced \subseteq raced' /\ raced' \subseteq raced \cup {f}
          /\ NewKey(f) # Null /\ file'[f] = NewKey(f)
          /\ \A g \in Files \ {f} : file'[g] = file[g]
      BY <3>1, <3>2, KeyWritten
    <3>4. \A q \in Procs \ {p} : Running(q, "create", "write") /\ Subject(q) = f => f \in raced'
      BY <3>1, <3>2, RacesNoticed
    <3>5. f \in raced \/ (file[f] = Null /\ row[f] = Null)
      BY <1>1, <1>2, <3>1, <3>2
    <3>6. \A q \in Procs : job[q].at # "idle" /\ job[q].call.op = "create" => Subject(q) \in Files
      BY SubjectTyped
    <3>7. \A s \in Subjects : row'[s] # Null =>
            file'[s] # Null /\ (s \notin raced' => file'[s] = row'[s])
      BY <1>1, <3>1, <3>2, <3>3, <3>5 DEF Files
    <3>8. ASSUME NEW q \in Procs \ {p} PROVE Knows(q)'
      <4>1. Running(q, "create", "write")' => Subject(q)' \in raced' \/ file'[Subject(q)'] = Null
        BY <1>2, <2>2, <3>3, <3>4, <3>6, <3>8 DEF Elsewhere, Running, Subject
      <4>2. Running(q, "create", "row")' =>
              /\ job'[q].key # Null /\ file'[Subject(q)'] # Null
              /\ Subject(q)' \in raced' \/ file'[Subject(q)'] = job'[q].key
        BY <1>2, <2>2, <3>3, <3>5, <3>6, <3>8 DEF Elsewhere, Running, Subject
      <4>3. Running(q, "create", "sign")' => job'[q].key # Null /\ row'[Subject(q)'] = job'[q].key
        BY <1>2, <2>2, <3>2, <3>8 DEF Elsewhere, Running, Subject
      <4> QED
        BY <4>1, <4>2, <4>3
    <3>9. Knows(p)'
      BY <2>2, <3>3 DEF Running, Subject
    <3> QED
      BY <3>7, <3>8, <3>9 DEF KeysInv
  <2>3. CASE InsertSubject(p) /\ row[Subject(p)] = Null /\ Now(p, "sign")
    <3>1. Subject(p) \in Subjects /\ Running(p, "create", "row")
      BY <2>0, <2>3, SubjectTyped DEF InsertSubject
    <3>2. /\ row' = [row EXCEPT ![Subject(p)] = job[p].key] /\ UNCHANGED <<file, raced>>
      BY <2>3 DEF InsertSubject, Subject
    <3>3. row \in [Subjects -> Keys \cup {Null}]
      BY DEF TypeOK
    <3>4. \A q \in Procs : job[q].at # "idle" /\ job[q].call.op = "create" => Subject(q) \in Subjects
      BY SubjectTyped
    <3>5. ASSUME NEW q \in Procs \ {p} PROVE Knows(q)'
      BY <1>2, <2>3, <3>1, <3>2, <3>3, <3>4, <3>5 DEF Now, Elsewhere, Running, Subject
    <3>6. Knows(p)'
      BY <1>2, <2>3, <3>1, <3>2, <3>3 DEF Now, Running, Subject
    <3>7. \A s \in Subjects : row'[s] # Null =>
            file'[s] # Null /\ (s \notin raced' => file'[s] = row'[s])
      BY <1>1, <1>2, <3>1, <3>2, <3>3
    <3> QED
      BY <3>5, <3>6, <3>7 DEF KeysInv
  <2>4. CASE SignRegistered(p) /\ Left(p)
    BY <1>4, <2>4 DEF SignRegistered, Left, Running
  <2> QED
    BY <1>7, <2>1, <2>2, <2>3, <2>4 DEF CreateShape
<1>8. CASE OfferShape(p)
  <2>1. UNCHANGED <<file, row, raced>>
    BY <1>8 DEF OfferShape, GetIssuer, DeclareOffering, InsertOffering, SignDeclared, tables
  <2>2. /\ Elsewhere(p)
        /\ job'[p].at \in {"idle", "enter"} \/ job'[p].call = job[p].call
        /\ job[p].call.op = "addOffering"
    BY <1>8 DEF OfferShape, Left, Now, GetIssuer, DeclareOffering, InsertOffering, SignDeclared,
                Running
  <2> QED
    BY <1>4, <2>1, <2>2 DEF Running
<1>9. CASE LinkShape(p)
  <2>1. UNCHANGED <<file, row, raced>>
    BY <1>9 DEF LinkShape, InsertLink, SignLinked
  <2>2. /\ Elsewhere(p)
        /\ job'[p].at \in {"idle", "enter"} \/ job'[p].call = job[p].call
        /\ job[p].call.op = "linkIssuer"
    BY <1>9 DEF LinkShape, Left, Now, InsertLink, SignLinked, Running
  <2> QED
    BY <1>4, <2>1, <2>2 DEF Running
<1>10. CASE RequestShape(p)
  <2>1. UNCHANGED <<file, row, raced>>
    BY <1>10 DEF RequestShape, InsertNonce, Serve, tables
  <2>2. Elsewhere(p) /\ job'[p].at \in {"idle", "enter", "serve"}
    BY <1>10 DEF RequestShape, Left, Now
  <2> QED
    BY <1>4, <2>1, <2>2 DEF Running
<1> QED
  BY <1>5, <1>6, <1>7, <1>8, <1>9, <1>10 DEF Shape

LEMMA IdentityKept ==
  ASSUME TypeOK, IdentityInv, NEW p \in Procs, Shape(p)
  PROVE  IdentityInv'
<1> DEFINE Knows(q) ==
             /\ signer[q] # Null => signer[q] = file[PayloadKey]
             /\ Running(q, "constructor", "write") => file[PayloadKey] = Null
<1>1. PayloadKey \in raced \/ \A q \in Procs : Knows(q)
  BY DEF IdentityInv
<1>3. signer \in [Procs -> Keys \cup {Null}] /\ PayloadKey \in Files
  BY DEF TypeOK, Files
<1>4. ASSUME file'[PayloadKey] = file[PayloadKey], raced \subseteq raced',
             Elsewhere(p), ~Running(p, "constructor", "write")',
             \A q \in Procs : signer'[q] \in {signer[q], Null}
      PROVE  IdentityInv'
  BY <1>1, <1>4 DEF IdentityInv, Elsewhere, Running
<1>5. CASE Quiet(p)
  BY <1>4, <1>5 DEF Quiet, Running
<1>6. CASE Start(p) /\ Left(p)
  BY <1>1, <1>3, <1>6 DEF IdentityInv, Start, LoadKey, Left, Elsewhere, Running
<1>7. CASE StartWithoutKey(p) /\ Elsewhere(p)
  BY <1>1, <1>7 DEF IdentityInv, StartWithoutKey, Elsewhere, Running
<1>8. CASE WritePayloadKey(p) /\ Left(p)
  <2>1. /\ raced \subseteq raced' /\ file'[PayloadKey] = NewKey(PayloadKey)
        /\ signer' = [signer EXCEPT ![p] = NewKey(PayloadKey)]
        /\ Running(p, "constructor", "write")
    BY <1>3, <1>8, KeyWritten DEF WritePayloadKey
  <2>2. \A q \in Procs \ {p} : Running(q, "constructor", "write") => PayloadKey \in raced'
    BY <1>3, <1>8, RacesNoticed DEF WritePayloadKey
  <2>3. PayloadKey \notin raced' => \A q \in Procs : signer[q] = Null
    BY <1>1, <2>1
  <2> QED
    BY <1>3, <1>8, <2>1, <2>2, <2>3 DEF IdentityInv, Left, Elsewhere, Running
<1>9. CASE CreateShape(p)
  <2>1. UNCHANGED signer
    BY <1>9 DEF CreateShape, LookForSubjectKey, WriteSubjectKey, InsertSubject, SignRegistered,
                Subject
  <2>2. /\ Elsewhere(p)
        /\ job'[p].at \in {"idle", "enter"} \/ job'[p].call = job[p].call
        /\ job[p].call.op = "create" /\ job[p].at # "idle"
    BY <1>9 DEF CreateShape, Left, Now, LookForSubjectKey, WriteSubjectKey, InsertSubject,
                SignRegistered, Running
  <2>3. Subject(p) \in Files /\ Subject(p) # PayloadKey
    BY <2>2, SubjectTyped
  <2>4. (UNCHANGED <<file, raced>>) \/ WriteKey(p, Subject(p))
    BY <1>9 DEF CreateShape, LookForSubjectKey, WriteSubjectKey, InsertSubject, SignRegistered,
                Subject
  <2>5. file'[PayloadKey] = file[PayloadKey] /\ raced \subseteq raced'
    BY <1>3, <2>3, <2>4, KeyWritten
  <2> QED
    BY <1>4, <2>1, <2>2, <2>5 DEF Running
<1>10. CASE OfferShape(p) \/ LinkShape(p) \/ RequestShape(p)
  <2>1. UNCHANGED <<file, raced>>
    BY <1>10 DEF OfferShape, GetIssuer, DeclareOffering, InsertOffering, SignDeclared,
                 LinkShape, InsertLink, SignLinked, RequestShape, InsertNonce, Serve, tables
  <2>2. Elsewhere(p) /\ job'[p].at # "write"
    BY <1>10 DEF OfferShape, LinkShape, RequestShape, Left, Now
  <2>3. UNCHANGED signer \/ Throw(p)
    <3>1. CASE OfferShape(p)
      BY <3>1 DEF OfferShape, GetIssuer, DeclareOffering, InsertOffering, SignDeclared
    <3>2. CASE LinkShape(p)
      BY <3>2 DEF LinkShape, InsertLink, SignLinked
    <3>3. CASE InsertNonce(p)
      BY <3>3 DEF InsertNonce
    <3>4. CASE Serve(p)
      BY <3>4 DEF Serve
    <3> QED
      BY <1>10, <3>1, <3>2, <3>3, <3>4 DEF RequestShape
  <2>4. \A q \in Procs : signer'[q] \in {signer[q], Null}
    BY <2>3, Ending
  <2> QED
    BY <1>4, <2>1, <2>2, <2>4 DEF Running
<1> QED
  BY <1>5, <1>6, <1>7, <1>8, <1>9, <1>10 DEF Shape, StartsShape

LEMMA OffersKept ==
  ASSUME TypeOK, OffersInv, NEW p \in Procs, Shape(p)
  PROVE  OffersInv'
<1> DEFINE Knows(q) ==
             LET i == job[q].call.issuer
                 o == job[q].call.offering IN
             /\ Running(q, "addOffering", "declare") => row[i] # Null /\ job[q].key = row[i]
             /\ Running(q, "addOffering", "offer") => row[i] # Null /\ catalog[o] = row[i]
             /\ Running(q, "addOffering", "sign") => offered[o] = i
           i == job[p].call.issuer
           o == job[p].call.offering
<1>1. \A x \in Offerings : offered[x] # Null =>
        row[offered[x]] # Null /\ catalog[x] = row[offered[x]]
  BY DEF OffersInv
<1>2. \A q \in Procs : Knows(q)
  BY DEF OffersInv
<1>3. /\ row \in [Subjects -> Keys \cup {Null}] /\ catalog \in [Offerings -> Keys \cup {Null}]
      /\ offered \in [Offerings -> Issuers \cup {Null}]
  BY DEF TypeOK
<1>4. \A q \in Procs : job[q].at # "idle" /\ job[q].call.op = "addOffering" =>
        /\ job[q].call.issuer \in Subjects /\ job[q].call.issuer # Null
        /\ job[q].call.offering \in Offerings
  <2>1. ASSUME NEW q \in Procs, job[q].at # "idle" PROVE job[q].call \in Calls
    BY <2>1, Working
  <2> QED
    BY <2>1, CallFields, OnboardingAssumption DEF Subjects
\* What the others know outlives a first row, a first declaration, a first offering.
<1>5. ASSUME \A s \in Subjects : row[s] # Null => row'[s] = row[s],
             \A x \in Offerings : catalog[x] # Null => catalog'[x] = catalog[x],
             \A x \in Offerings : offered[x] # Null => offered'[x] = offered[x],
             Elsewhere(p), NEW q \in Procs \ {p}
      PROVE  Knows(q)'
  BY <1>2, <1>4, <1>5 DEF Elsewhere, Running
<1>6. ASSUME UNCHANGED <<row, catalog, offered>>, Elsewhere(p), Knows(p)' PROVE OffersInv'
  BY <1>1, <1>5, <1>6 DEF OffersInv
<1>7. CASE Quiet(p)
  BY <1>6, <1>7 DEF Quiet, Running
<1>8. CASE StartsShape(p)
  BY <1>6, <1>8 DEF StartsShape, Start, StartWithoutKey, WritePayloadKey, Left, Running,
                    Constructor, tables
<1>9. CASE CreateShape(p)
  <2>1. /\ Elsewhere(p)
        /\ job'[p].at \in {"idle", "enter"} \/ job'[p].call = job[p].call
        /\ job[p].call.op = "create" /\ job[p].at # "idle"
    BY <1>9 DEF CreateShape, Left, Now, LookForSubjectKey, WriteSubjectKey, InsertSubject,
                SignRegistered, Running
  <2>2. UNCHANGED <<catalog, offered>>
    BY <1>9 DEF CreateShape, LookForSubjectKey, WriteSubjectKey, InsertSubject, SignRegistered,
                tables
  <2>3. \A s \in Subjects : row[s] # Null => row'[s] = row[s]
    BY <1>3, <1>9 DEF CreateShape, LookForSubjectKey, WriteSubjectKey, InsertSubject,
                      SignRegistered, Subject, tables
  <2>4. Knows(p)'
    BY <2>1 DEF Running
  <2>5. \A q \in Procs : Knows(q)'
    BY <1>5, <2>1, <2>2, <2>3, <2>4
  <2>6. \A x \in Offerings : offered[x] # Null => offered[x] \in Subjects
    BY <1>3 DEF Subjects
  <2> QED
    BY <1>1, <2>2, <2>3, <2>5, <2>6 DEF OffersInv
<1>10. CASE OfferShape(p)
  <2>0. job[p].at # "idle" /\ job[p].call.op = "addOffering"
    BY <1>10 DEF OfferShape, GetIssuer, DeclareOffering, InsertOffering, SignDeclared, Running
  <2>1. i \in Subjects /\ i # Null /\ o \in Offerings
    BY <1>4, <2>0
  <2>2. CASE /\ GetIssuer(p) /\ row[i] # Null
             /\ Elsewhere(p)
             /\ job'[p].at = "declare" /\ job'[p].call = job[p].call /\ job'[p].key = row[i]
    BY <1>6, <2>2 DEF GetIssuer, Running, tables
  <2>3. CASE DeclareOffering(p) /\ catalog[o] = Null /\ Now(p, "offer")
    <3>1. /\ catalog' = [catalog EXCEPT ![o] = job[p].key] /\ UNCHANGED <<row, offered>>
          /\ Running(p, "addOffering", "declare")
      BY <2>3 DEF DeclareOffering, DeclaredBy
    <3>2. row[i] # Null /\ job[p].key = row[i]
      BY <1>2, <3>1
    <3>3. \A x \in Offerings : catalog[x] # Null => catalog'[x] = catalog[x]
      BY <1>3, <2>3, <3>1
    <3>4. Knows(p)'
      BY <1>3, <2>1, <2>3, <3>1, <3>2 DEF Now, Running
    <3>5. \A q \in Procs : Knows(q)'
      BY <1>5, <2>3, <3>1, <3>3, <3>4 DEF Now
    <3> QED
      BY <1>1, <3>1, <3>3, <3>5 DEF OffersInv
  <2>4. CASE InsertOffering(p) /\ offered[o] = Null /\ Now(p, "sign")
    <3>1. /\ offered' = [offered EXCEPT ![o] = i] /\ UNCHANGED <<row, catalog>>
          /\ Running(p, "addOffering", "offer")
      BY <2>4 DEF InsertOffering
    <3>2. row[i] # Null /\ catalog[o] = row[i]
      BY <1>2, <3>1
    <3>3. \A x \in Offerings : offered[x] # Null => offered'[x] = offered[x]
      BY <1>3, <2>4, <3>1
    <3>4. Knows(p)'
      BY <1>3, <2>1, <2>4, <3>1 DEF Now, Running
    <3>5. \A q \in Procs : Knows(q)'
      BY <1>5, <2>4, <3>1, <3>3, <3>4 DEF Now
    <3>6. \A x \in Offerings : offered'[x] # Null =>
            row'[offered'[x]] # Null /\ catalog'[x] = row'[offered'[x]]
      BY <1>1, <1>3, <2>1, <3>1, <3>2
    <3> QED
      BY <3>5, <3>6 DEF OffersInv
  <2>5. CASE SignDeclared(p) /\ Left(p)
    BY <1>6, <2>5 DEF SignDeclared, Left, Running
  <2> QED
    BY <1>10, <2>2, <2>3, <2>4, <2>5 DEF OfferShape
<1>11. CASE LinkShape(p)
  <2>1. /\ UNCHANGED <<row, catalog, offered>> /\ Elsewhere(p)
        /\ job'[p].at \in {"idle", "enter"} \/ job'[p].call = job[p].call
        /\ job[p].call.op = "linkIssuer"
    BY <1>11 DEF LinkShape, Left, Now, InsertLink, SignLinked, Running
  <2> QED
    BY <1>6, <2>1 DEF Running
<1>12. CASE RequestShape(p)
  <2>1. /\ UNCHANGED <<row, catalog, offered>> /\ Elsewhere(p)
        /\ job'[p].at \in {"idle", "enter", "serve"}
    BY <1>12 DEF RequestShape, InsertNonce, Serve, Left, Now, tables
  <2> QED
    BY <1>6, <2>1 DEF Running
<1> QED
  BY <1>7, <1>8, <1>9, <1>10, <1>11, <1>12 DEF Shape

\* What has happened stays so; a theorem of its own below.
LEMMA Grows ==
  ASSUME TypeOK, NEW p \in Procs, Shape(p)
  PROVE  /\ \A s \in Subjects : row[s] # Null => row'[s] = row[s]
         /\ \A o \in Offerings : offered[o] # Null => offered'[o] = offered[o]
         /\ links \subseteq links' /\ issueAny \subseteq issueAny'
<1>1. row \in [Subjects -> Keys \cup {Null}] /\ offered \in [Offerings -> Issuers \cup {Null}]
  BY DEF TypeOK
<1>2. CASE Quiet(p)
  BY <1>2 DEF Quiet
<1>3. CASE StartsShape(p)
  BY <1>3 DEF StartsShape, Start, StartWithoutKey, WritePayloadKey, tables
<1>4. CASE CreateShape(p)
  BY <1>1, <1>4 DEF CreateShape, LookForSubjectKey, WriteSubjectKey, InsertSubject,
                    SignRegistered, Subject, tables
<1>5. CASE OfferShape(p)
  BY <1>1, <1>5 DEF OfferShape, GetIssuer, DeclareOffering, InsertOffering, SignDeclared, tables
<1>6. CASE LinkShape(p)
  BY <1>6 DEF LinkShape, InsertLink, SignLinked, Linked
<1>7. CASE RequestShape(p)
  BY <1>7 DEF RequestShape, InsertNonce, Serve, tables
<1> QED
  BY <1>2, <1>3, <1>4, <1>5, <1>6, <1>7 DEF Shape

LEMMA EventsKept ==
  ASSUME TypeOK, KeysInv, OffersInv, EventsInv, NEW p \in Procs, Shape(p)
  PROVE  EventsInv'
<1> DEFINE True(e) ==
             /\ e.type = "registered" =>
                  e.subject \in Subjects /\ e.key # Null /\ row[e.subject] = e.key
             /\ e.type = "declared" =>
                  e.offering \in Offerings /\ e.issuer \in Issuers /\ offered[e.offering] = e.issuer
             /\ e.type = "linked" => \E k \in links : Collides(e.link, k)
           Knows(q) ==
             Running(q, "linkIssuer", "sign") => \E k \in links : Collides(job[q].call.link, k)
<1>1. (\A e \in events : True(e)) /\ \A q \in Procs : Knows(q)
  BY DEF EventsInv
<1>2. /\ \A s \in Subjects : row[s] # Null => row'[s] = row[s]
      /\ \A o \in Offerings : offered[o] # Null => offered'[o] = offered[o]
      /\ links \subseteq links'
  BY Grows
<1>3. \A e \in events : True(e)'
  BY <1>1, <1>2, OnboardingAssumption
<1>4. ASSUME Elsewhere(p), Knows(p)', \A e \in events' : e \in events \/ True(e)'
      PROVE  EventsInv'
  BY <1>1, <1>2, <1>3, <1>4 DEF EventsInv, Elsewhere, Running
<1>5. CASE Quiet(p)
  BY <1>4, <1>5 DEF Quiet, Running
<1>6. CASE StartsShape(p)
  BY <1>4, <1>6 DEF StartsShape, Start, StartWithoutKey, WritePayloadKey, Left, Running,
                    Constructor, tables
<1>7. CASE CreateShape(p)
  <2>1. /\ Elsewhere(p)
        /\ job'[p].at \in {"idle", "enter"} \/ job'[p].call = job[p].call
        /\ job[p].call.op = "create" /\ job[p].at # "idle"
    BY <1>7 DEF CreateShape, Left, Now, LookForSubjectKey, WriteSubjectKey, InsertSubject,
                SignRegistered, Running
  <2>2. CASE SignRegistered(p)
    <3>1. /\ Running(p, "create", "sign") /\ UNCHANGED row
          /\ events' = events \cup {[type |-> "registered", subject |-> Subject(p),
                                     key |-> job[p].key]}
      BY <2>2 DEF SignRegistered, LogEvent, Subject
    <3>2. Subject(p) \in Subjects /\ job[p].key # Null /\ row[Subject(p)] = job[p].key
      BY <2>1, <3>1, SubjectTyped DEF KeysInv
    <3> QED
      BY <1>4, <2>1, <3>1, <3>2 DEF Running
  <2>3. CASE ~SignRegistered(p)
    <3>1. events' = events
      BY <1>7, <2>3 DEF CreateShape, LookForSubjectKey, WriteSubjectKey, InsertSubject, tables
    <3> QED
      BY <1>4, <2>1, <3>1 DEF Running
  <2> QED
    BY <2>2, <2>3
<1>8. CASE OfferShape(p)
  <2>1. /\ Elsewhere(p)
        /\ job'[p].at \in {"idle", "enter"} \/ job'[p].call = job[p].call
        /\ job[p].call.op = "addOffering" /\ job[p].at # "idle"
    BY <1>8 DEF OfferShape, Left, Now, GetIssuer, DeclareOffering, InsertOffering, SignDeclared,
                Running
  <2>2. CASE SignDeclared(p)
    <3>1. /\ Running(p, "addOffering", "sign") /\ UNCHANGED offered
          /\ events' = events \cup {[type |-> "declared", issuer |-> job[p].call.issuer,
                                     offering |-> job[p].call.offering]}
      BY <2>2 DEF SignDeclared, LogEvent
    <3>2. /\ job[p].call.offering \in Offerings /\ job[p].call.issuer \in Issuers
          /\ offered[job[p].call.offering] = job[p].call.issuer
      BY <2>1, <3>1, Working, CallFields DEF OffersInv
    <3> QED
      BY <1>4, <2>1, <3>1, <3>2 DEF Running
  <2>3. CASE ~SignDeclared(p)
    <3>1. events' = events
      BY <1>8, <2>3 DEF OfferShape, GetIssuer, DeclareOffering, InsertOffering, tables
    <3> QED
      BY <1>4, <2>1, <3>1 DEF Running
  <2> QED
    BY <2>2, <2>3
<1>9. CASE InsertLink(p) /\ Now(p, "sign")
  <2>1. links' = Linked(job[p].call.link) /\ events' = events
    BY <1>9 DEF InsertLink
  <2>2. \E k \in links' : Collides(job[p].call.link, k)
    BY <2>1 DEF Linked, Collides
  <2> QED
    BY <1>4, <1>9, <2>1, <2>2 DEF Now, Running
<1>10. CASE SignLinked(p) /\ Left(p)
  <2>1. /\ Running(p, "linkIssuer", "sign") /\ UNCHANGED links
        /\ events' = events \cup {[type |-> "linked", link |-> job[p].call.link]}
    BY <1>10 DEF SignLinked, LogEvent
  <2> QED
    BY <1>1, <1>4, <1>10, <2>1 DEF Left, Running
<1>11. CASE RequestShape(p)
  <2>1. events' = events /\ Elsewhere(p) /\ job'[p].at \in {"idle", "enter", "serve"}
    BY <1>11 DEF RequestShape, InsertNonce, Serve, Left, Now, tables
  <2> QED
    BY <1>4, <2>1 DEF Running
<1> QED
  BY <1>5, <1>6, <1>7, <1>8, <1>9, <1>10, <1>11 DEF Shape, LinkShape

LEMMA LinksKept ==
  ASSUME TypeOK, LinksInv, NEW p \in Procs, Shape(p)
  PROVE  LinksInv'
<1>1. CASE InsertLink(p)
  <2>1. links' = Linked(job[p].call.link)
    BY <1>1 DEF InsertLink
  <2>2. \A k, l : Collides(k, l) => Collides(l, k)
    BY DEF Collides
  <2> QED
    BY <2>1, <2>2 DEF LinksInv, Linked
<1>2. CASE ~InsertLink(p)
  <2>1. links' = links
    BY <1>2 DEF Shape, Quiet, StartsShape, Start, StartWithoutKey, WritePayloadKey, CreateShape,
       LookForSubjectKey, WriteSubjectKey, InsertSubject, SignRegistered, OfferShape, GetIssuer,
       DeclareOffering, InsertOffering, SignDeclared, LinkShape, SignLinked, RequestShape,
       InsertNonce, Serve, tables
  <2> QED
    BY <2>1 DEF LinksInv
<1> QED
  BY <1>1, <1>2

LEMMA NoncesKept ==
  ASSUME TypeOK, NoncesInv, NEW p \in Procs, Shape(p)
  PROVE  NoncesInv'
<1> DEFINE N(q) == NonceOf(job[q].call.request)
           Serving(q) == Running(q, "handle", "serve")
<1>1. /\ \A n \in DOMAIN effects : NonceOf(effects[n]) \in nonces
      /\ \A m, n \in DOMAIN effects : NonceOf(effects[m]) = NonceOf(effects[n]) => m = n
      /\ \A q \in Procs : Serving(q) =>
           /\ N(q) \in nonces
           /\ \A n \in DOMAIN effects : NonceOf(effects[n]) # N(q)
           /\ \A x \in Procs \ {q} : Serving(x) => N(x) # N(q)
  BY DEF NoncesInv, RequestsTakeEffectOnce, NonceOf
<1>2. effects \in Seq(Requests)
  BY DEF TypeOK
<1>3. ASSUME UNCHANGED <<nonces, effects>>, Elsewhere(p), ~Serving(p)'
      PROVE  NoncesInv'
  BY <1>1, <1>3 DEF NoncesInv, RequestsTakeEffectOnce, NonceOf, Elsewhere, Running
<1>4. CASE Quiet(p)
  BY <1>3, <1>4 DEF Quiet, Running
<1>5. CASE StartsShape(p)
  BY <1>3, <1>5 DEF StartsShape, Start, StartWithoutKey, WritePayloadKey, Left, Running, tables
<1>6. CASE CreateShape(p) \/ OfferShape(p) \/ LinkShape(p)
  <2>1. UNCHANGED <<nonces, effects>>
    BY <1>6 DEF CreateShape, LookForSubjectKey, WriteSubjectKey, InsertSubject, SignRegistered,
                OfferShape, GetIssuer, DeclareOffering, InsertOffering, SignDeclared,
                LinkShape, InsertLink, SignLinked, tables
  <2>2. Elsewhere(p) /\ job'[p].at # "serve"
    BY <1>6 DEF CreateShape, OfferShape, LinkShape, Left, Now
  <2> QED
    BY <1>3, <2>1, <2>2 DEF Running
<1>7. CASE InsertNonce(p) /\ N(p) \notin nonces /\ Now(p, "serve")
  <2>1. nonces' = nonces \cup {N(p)} /\ UNCHANGED effects
    BY <1>7 DEF InsertNonce, NonceOf
  <2>2. Elsewhere(p) /\ N(p)' = N(p)
    BY <1>7 DEF Now
  <2> HIDE DEF N
  <2>3. \A q \in Procs \ {p} : N(q)' = N(q) /\ Serving(q)' = Serving(q)
    BY <2>2 DEF Elsewhere, Running, N
  <2>4. \A n \in DOMAIN effects : NonceOf(effects[n]) # N(p)
    BY <1>1, <1>7
  <2>5. \A q \in Procs \ {p} : Serving(q) => N(q) # N(p)
    BY <1>1, <1>7
  <2>6. \A q \in Procs : Serving(q)' =>
          /\ N(q)' \in nonces'
          /\ \A n \in DOMAIN effects' : NonceOf(effects'[n]) # N(q)'
          /\ \A x \in Procs \ {q} : Serving(x)' => N(x)' # N(q)'
    BY <1>1, <2>1, <2>2, <2>3, <2>4, <2>5
  <2> QED
    BY <1>1, <2>1, <2>6 DEF NoncesInv, RequestsTakeEffectOnce, NonceOf, N
<1>8. CASE Serve(p) /\ Left(p)
  <2> DEFINE r == job[p].call.request
  <2>1. effects' = Append(effects, r) /\ UNCHANGED nonces /\ Serving(p)
    BY <1>8 DEF Serve, tables
  <2>2. Elsewhere(p) /\ ~Serving(p)'
    BY <1>8 DEF Left, Running
  <2>3. /\ DOMAIN effects' = DOMAIN effects \cup {Len(effects) + 1}
        /\ effects'[Len(effects) + 1] = r
        /\ \A n \in DOMAIN effects : effects'[n] = effects[n]
    <3>1. r \in Requests
      BY <2>1, Working, CallFields DEF Running
    <3> QED
      BY <1>2, <2>1, <3>1
  <2>4. N(p) \in nonces /\ \A n \in DOMAIN effects : NonceOf(effects[n]) # NonceOf(r)
    BY <1>1, <2>1
  <2>5. /\ \A n \in DOMAIN effects' : NonceOf(effects'[n]) \in nonces'
        /\ \A m, n \in DOMAIN effects' : NonceOf(effects'[m]) = NonceOf(effects'[n]) => m = n
    BY <1>1, <2>1, <2>3, <2>4
  <2>6. \A q \in Procs \ {p} : N(q)' = N(q) /\ Serving(q)' = Serving(q)
    BY <2>2 DEF Elsewhere, Running
  <2>7. \A q \in Procs : Serving(q)' =>
          /\ N(q)' \in nonces'
          /\ \A n \in DOMAIN effects' : NonceOf(effects'[n]) # N(q)'
          /\ \A x \in Procs \ {q} : Serving(x)' => N(x)' # N(q)'
    BY <1>1, <2>1, <2>2, <2>3, <2>6
  <2> QED
    BY <2>5, <2>7 DEF NoncesInv, RequestsTakeEffectOnce, NonceOf
<1> QED
  BY <1>4, <1>5, <1>6, <1>7, <1>8 DEF Shape, RequestShape

LEMMA HalvesKept ==
  ASSUME TypeOK, KeysInv, OffersInv, HalvesInv, NEW p \in Procs, Shape(p)
  PROVE  HalvesInv'
<1> DEFINE Registered(s) == [type |-> "registered", subject |-> s, key |-> row[s]]
           Declared(o) == [type |-> "declared", issuer |-> offered[o], offering |-> o]
           ToRow(q, s) == Running(q, "create", "row") /\ Subject(q) = s
           ToLog(q, s) == Running(q, "create", "sign") /\ Subject(q) = s
           ToOffer(q, o) == Running(q, "addOffering", "offer") /\ job[q].call.offering = o
           ToLogOffer(q, o) == Running(q, "addOffering", "sign") /\ job[q].call.offering = o
           Halves ==
             /\ \A s \in Subjects : file[s] # Null /\ row[s] = Null => \E q \in Procs : ToRow(q, s)
             /\ \A s \in Subjects : row[s] # Null =>
                  Registered(s) \in events \/ \E q \in Procs : ToLog(q, s)
             /\ \A o \in Offerings : catalog[o] # Null /\ offered[o] = Null =>
                  \E q \in Procs : ToOffer(q, o)
             /\ \A o \in Offerings : offered[o] # Null =>
                  Declared(o) \in events \/ \E q \in Procs : ToLogOffer(q, o)
<1>1. faults = 0 => Halves
  BY DEF HalvesInv
<1>2. SUFFICES ASSUME faults' = 0, faults = 0 PROVE Halves'
  <2>1. faults' = 0 => faults = 0
    BY OnboardingAssumption
    DEF Shape, Quiet, StartsShape, Start, StartWithoutKey, WritePayloadKey, CreateShape,
        LookForSubjectKey, WriteSubjectKey, InsertSubject, SignRegistered, OfferShape, GetIssuer,
        DeclareOffering, InsertOffering, SignDeclared, LinkShape, InsertLink, SignLinked,
        RequestShape, InsertNonce, Serve
  <2> QED
    BY <2>1 DEF HalvesInv
<1>3. /\ \A s \in Subjects : row[s] # Null => row'[s] = row[s]
      /\ \A o \in Offerings : offered[o] # Null => offered'[o] = offered[o]
  BY Grows
\* Whoever else owes the second half still does.
<1>4. ASSUME Elsewhere(p), NEW q \in Procs \ {p}
      PROVE  /\ \A s : (ToRow(q, s)' <=> ToRow(q, s)) /\ (ToLog(q, s)' <=> ToLog(q, s))
             /\ \A o : /\ ToOffer(q, o)' <=> ToOffer(q, o)
                       /\ ToLogOffer(q, o)' <=> ToLogOffer(q, o)
  BY <1>4 DEF Elsewhere, Running, Subject
<1> HIDE DEF ToRow, ToLog, ToOffer, ToLogOffer
\* p owes nothing, and nothing of this is stored.
<1>5. ASSUME Elsewhere(p), UNCHANGED <<row, catalog, offered>>, events \subseteq events',
             \A s \in Subjects : file'[s] = file[s],
             \A s \in Subjects : ToRow(p, s) => row[s] # Null \/ ToRow(p, s)',
             \A s \in Subjects : ToLog(p, s) => Registered(s) \in events' \/ ToLog(p, s)',
             \A o \in Offerings : ToOffer(p, o) => offered[o] # Null \/ ToOffer(p, o)',
             \A o \in Offerings : ToLogOffer(p, o) => Declared(o) \in events' \/ ToLogOffer(p, o)'
      PROVE  Halves'
  BY <1>1, <1>2, <1>4, <1>5
<1>6. CASE Quiet(p)
  <2>1. /\ \A s \in Subjects : ~ToLog(p, s)
        /\ \A o \in Offerings : ~ToLogOffer(p, o)
        /\ \A s \in Subjects : ToRow(p, s) => row[s] # Null
        /\ \A o \in Offerings : ToOffer(p, o) => offered[o] # Null
    BY <1>2, <1>6 DEF Quiet, ToRow, ToLog, ToOffer, ToLogOffer
  <2>2. Elsewhere(p) /\ UNCHANGED <<file, row, catalog, offered>> /\ events \subseteq events'
    BY <1>6 DEF Quiet
  <2> QED
    BY <1>5, <2>1, <2>2
<1>7. CASE StartsShape(p)
  <2>1. Running(p, "constructor", "write") \/ job[p].at = "idle"
    BY <1>7 DEF StartsShape, Start, StartWithoutKey, WritePayloadKey, Idle
  <2>2. /\ \A s : ~ToLog(p, s) /\ ~ToRow(p, s)
        /\ \A o : ~ToLogOffer(p, o) /\ ~ToOffer(p, o)
    BY <2>1 DEF ToRow, ToLog, ToOffer, ToLogOffer, Running
  <2>3. Elsewhere(p) /\ UNCHANGED <<row, catalog, offered, events>>
    BY <1>7 DEF StartsShape, Start, StartWithoutKey, WritePayloadKey, Left, tables
  <2>4. (UNCHANGED file) \/ WriteKey(p, PayloadKey)
    BY <1>7 DEF StartsShape, Start, StartWithoutKey, WritePayloadKey
  <2>5. \A s \in Subjects : file'[s] = file[s]
    <3>1. PayloadKey \in Files /\ \A s \in Subjects : s \in Files \ {PayloadKey}
      BY OnboardingAssumption DEF Files
    <3> QED
      BY <2>4, <3>1, KeyWritten
  <2> QED
    BY <1>5, <2>2, <2>3, <2>5
<1>8. CASE CreateShape(p)
  <2> DEFINE s0 == Subject(p)
  <2>1. /\ Elsewhere(p) /\ UNCHANGED <<catalog, offered>>
        /\ job[p].call.op = "create" /\ job[p].at # "idle"
    BY <1>8 DEF CreateShape, Left, Now, LookForSubjectKey, WriteSubjectKey, InsertSubject,
                SignRegistered, Running, Subject, tables
  <2>2. s0 \in Subjects /\ s0 \in Files
    BY <2>1, SubjectTyped
  <2>3. \A o : ~ToOffer(p, o) /\ ~ToLogOffer(p, o)
    BY <2>1 DEF ToOffer, ToLogOffer, Running
  <2>4. CASE LookForSubjectKey(p) /\ file[s0] = Null /\ Now(p, "write")
    <3>1. UNCHANGED <<file, row, events>> /\ job[p].at = "enter"
      BY <2>4 DEF LookForSubjectKey, Running, tables
    <3>2. \A s : ~ToRow(p, s) /\ ~ToLog(p, s)
      BY <3>1 DEF ToRow, ToLog, Running
    <3> QED
      BY <1>5, <2>1, <2>3, <3>1, <3>2
  <2>5. CASE /\ WriteSubjectKey(p)
             /\ Elsewhere(p)
             /\ job'[p].at = "row" /\ job'[p].call = job[p].call /\ job'[p].key = NewKey(s0)
    <3>1. WriteKey(p, s0) /\ UNCHANGED <<row, events>> /\ job[p].at = "write"
      BY <2>5 DEF WriteSubjectKey, Running, Subject, tables
    <3>2. \A s \in Subjects \ {s0} : file'[s] = file[s]
      BY <2>2, <3>1, KeyWritten DEF Files
    <3>3. \A s : s = s0 => ToRow(p, s)'
      BY <2>1, <2>5 DEF ToRow, Running, Subject
    <3>4. \A s : ~ToRow(p, s) /\ ~ToLog(p, s)
      BY <3>1 DEF ToRow, ToLog, Running
    <3>5. \A q \in Procs \ {p}, s \in Subjects : ToRow(q, s) => ToRow(q, s)'
      BY <1>4, <2>1
    <3>6. ASSUME NEW s \in Subjects, file'[s] # Null, row'[s] = Null
          PROVE  \E q \in Procs : ToRow(q, s)'
      <4>1. CASE s = s0
        BY <3>3, <4>1
      <4>2. CASE s # s0
        <5>1. PICK q \in Procs : ToRow(q, s)
          BY <1>1, <1>2, <3>1, <3>2, <3>6, <4>2
        <5> QED
          BY <3>4, <3>5, <5>1
      <4> QED
        BY <4>1, <4>2
    <3>7. \A s \in Subjects : row'[s] # Null => Registered(s)' \in events' \/ \E q \in Procs : ToLog(q, s)'
      BY <1>1, <1>2, <1>4, <2>1, <3>1, <3>4
    <3>8. /\ \A o \in Offerings : catalog'[o] # Null /\ offered'[o] = Null =>
               \E q \in Procs : ToOffer(q, o)'
          /\ \A o \in Offerings : offered'[o] # Null =>
               Declared(o)' \in events' \/ \E q \in Procs : ToLogOffer(q, o)'
      BY <1>1, <1>2, <1>4, <2>1, <2>3, <3>1
    <3> QED
      BY <3>6, <3>7, <3>8
  <2>6. CASE InsertSubject(p) /\ row[s0] = Null /\ Now(p, "sign")
    <3>1. /\ row' = [row EXCEPT ![s0] = job[p].key] /\ UNCHANGED <<file, events>>
          /\ Running(p, "create", "row")
      BY <2>6 DEF InsertSubject, Subject
    <3>2. row'[s0] # Null /\ \A s \in Subjects \ {s0} : row'[s] = row[s]
      <4>1. job[p].key # Null
        BY <3>1 DEF KeysInv
      <4>2. row \in [Subjects -> Keys \cup {Null}]
        BY DEF TypeOK
      <4> QED
        BY <2>2, <3>1, <4>1, <4>2
    <3>3. \A s : s = s0 => ToLog(p, s)'
      BY <2>1, <2>6 DEF Now, ToLog, Running, Subject
    <3>4. \A s : (ToRow(p, s) => s = s0) /\ ~ToLog(p, s)
      BY <3>1 DEF ToRow, ToLog, Running
    <3>5. \A s \in Subjects : file'[s] # Null /\ row'[s] = Null => \E q \in Procs : ToRow(q, s)'
      BY <1>1, <1>2, <1>4, <2>1, <3>1, <3>2, <3>4
    <3>6. ASSUME NEW s \in Subjects, row'[s] # Null
          PROVE  Registered(s)' \in events' \/ \E q \in Procs : ToLog(q, s)'
      <4>1. CASE s = s0
        BY <3>3, <4>1
      <4>2. CASE s # s0
        <5>1. row'[s] = row[s] /\ (Registered(s) \in events \/ \E q \in Procs : ToLog(q, s))
          BY <1>1, <1>2, <3>2, <3>6, <4>2
        <5> QED
          BY <1>4, <2>1, <3>1, <3>4, <5>1
      <4> QED
        BY <4>1, <4>2
    <3>7. /\ \A o \in Offerings : catalog'[o] # Null /\ offered'[o] = Null =>
               \E q \in Procs : ToOffer(q, o)'
          /\ \A o \in Offerings : offered'[o] # Null =>
               Declared(o)' \in events' \/ \E q \in Procs : ToLogOffer(q, o)'
      BY <1>1, <1>2, <1>4, <2>1, <2>3, <3>1
    <3> QED
      BY <3>5, <3>6, <3>7
  <2>7. CASE SignRegistered(p) /\ Left(p)
    <3>1. /\ Running(p, "create", "sign") /\ UNCHANGED <<file, row>>
          /\ events' = events \cup {[type |-> "registered", subject |-> s0, key |-> job[p].key]}
      BY <2>7 DEF SignRegistered, LogEvent, Subject
    <3>2. row[s0] = job[p].key
      BY <3>1 DEF KeysInv
    <3>3. \A s \in Subjects : (ToLog(p, s) => Registered(s) \in events') /\ ~ToRow(p, s)
      BY <3>1, <3>2 DEF ToRow, ToLog, Running
    <3> QED
      BY <1>5, <2>1, <2>3, <3>1, <3>2, <3>3
  <2> QED
    BY <1>8, <2>4, <2>5, <2>6, <2>7 DEF CreateShape
<1>9. CASE OfferShape(p)
  <2> DEFINE i0 == job[p].call.issuer
             o0 == job[p].call.offering
  <2>1. /\ Elsewhere(p) /\ UNCHANGED <<file, row>>
        /\ job[p].call.op = "addOffering" /\ job[p].at # "idle"
    BY <1>9 DEF OfferShape, Left, Now, GetIssuer, DeclareOffering, InsertOffering,
                SignDeclared, Running, tables
  <2>2. o0 \in Offerings /\ i0 \in Issuers /\ i0 # Null
    BY <2>1, Working, CallFields, OnboardingAssumption
  <2>3. \A s : ~ToRow(p, s) /\ ~ToLog(p, s)
    BY <2>1 DEF ToRow, ToLog, Running
  <2>4. CASE GetIssuer(p)
    <3>1. UNCHANGED <<catalog, offered, events>> /\ job[p].at = "enter"
      BY <2>4 DEF GetIssuer, Running, tables
    <3>2. \A o : ~ToOffer(p, o) /\ ~ToLogOffer(p, o)
      BY <3>1 DEF ToOffer, ToLogOffer, Running
    <3> QED
      BY <1>5, <2>1, <2>3, <3>1, <3>2
  <2>5. CASE DeclareOffering(p) /\ catalog[o0] = Null /\ Now(p, "offer")
    <3>1. /\ catalog' = [catalog EXCEPT ![o0] = job[p].key] /\ UNCHANGED <<offered, events>>
          /\ job[p].at = "declare"
      BY <2>5 DEF DeclareOffering, DeclaredBy, Running
    <3>2. \A o \in Offerings \ {o0} : catalog'[o] = catalog[o]
      BY <3>1 DEF TypeOK
    <3>3. \A o : o = o0 => ToOffer(p, o)'
      BY <2>1, <2>5 DEF Now, ToOffer, Running
    <3>4. \A o : ~ToOffer(p, o) /\ ~ToLogOffer(p, o)
      BY <3>1 DEF ToOffer, ToLogOffer, Running
    <3>5. ASSUME NEW o \in Offerings, catalog'[o] # Null, offered'[o] = Null
          PROVE  \E q \in Procs : ToOffer(q, o)'
      <4>1. CASE o = o0
        BY <3>3, <4>1
      <4>2. CASE o # o0
        <5>1. PICK q \in Procs : ToOffer(q, o)
          BY <1>1, <1>2, <3>1, <3>2, <3>5, <4>2
        <5> QED
          BY <1>4, <2>1, <3>4, <5>1
      <4> QED
        BY <4>1, <4>2
    <3>6. \A o \in Offerings : offered'[o] # Null =>
            Declared(o)' \in events' \/ \E q \in Procs : ToLogOffer(q, o)'
      BY <1>1, <1>2, <1>4, <2>1, <3>1, <3>4
    <3>7. /\ \A s \in Subjects : file'[s] # Null /\ row'[s] = Null => \E q \in Procs : ToRow(q, s)'
          /\ \A s \in Subjects : row'[s] # Null =>
               Registered(s)' \in events' \/ \E q \in Procs : ToLog(q, s)'
      BY <1>1, <1>2, <1>4, <2>1, <2>3, <3>1
    <3> QED
      BY <3>5, <3>6, <3>7
  <2>6. CASE InsertOffering(p) /\ offered[o0] = Null /\ Now(p, "sign")
    <3>1. /\ offered' = [offered EXCEPT ![o0] = i0] /\ UNCHANGED <<catalog, events>>
          /\ job[p].at = "offer"
      BY <2>6 DEF InsertOffering, Running
    <3>2. offered'[o0] # Null /\ \A o \in Offerings \ {o0} : offered'[o] = offered[o]
      BY <2>2, <3>1 DEF TypeOK
    <3>3. \A o : o = o0 => ToLogOffer(p, o)'
      BY <2>1, <2>6 DEF Now, ToLogOffer, Running
    <3>4. \A o : (ToOffer(p, o) => o = o0) /\ ~ToLogOffer(p, o)
      BY <3>1 DEF ToOffer, ToLogOffer, Running
    <3>5. \A o \in Offerings : catalog'[o] # Null /\ offered'[o] = Null =>
            \E q \in Procs : ToOffer(q, o)'
      BY <1>1, <1>2, <1>4, <2>1, <3>1, <3>2, <3>4
    <3>6. ASSUME NEW o \in Offerings, offered'[o] # Null
          PROVE  Declared(o)' \in events' \/ \E q \in Procs : ToLogOffer(q, o)'
      <4>1. CASE o = o0
        BY <3>3, <4>1
      <4>2. CASE o # o0
        <5>1. /\ offered'[o] = offered[o]
              /\ Declared(o) \in events \/ \E q \in Procs : ToLogOffer(q, o)
          BY <1>1, <1>2, <3>2, <3>6, <4>2
        <5> QED
          BY <1>4, <2>1, <3>1, <3>4, <5>1
      <4> QED
        BY <4>1, <4>2
    <3>7. /\ \A s \in Subjects : file'[s] # Null /\ row'[s] = Null => \E q \in Procs : ToRow(q, s)'
          /\ \A s \in Subjects : row'[s] # Null =>
               Registered(s)' \in events' \/ \E q \in Procs : ToLog(q, s)'
      BY <1>1, <1>2, <1>4, <2>1, <2>3, <3>1
    <3> QED
      BY <3>5, <3>6, <3>7
  <2>7. CASE SignDeclared(p) /\ Left(p)
    <3>1. /\ Running(p, "addOffering", "sign") /\ UNCHANGED <<catalog, offered>>
          /\ events' = events \cup {[type |-> "declared", issuer |-> i0, offering |-> o0]}
      BY <2>7 DEF SignDeclared, LogEvent
    <3>2. offered[o0] = i0
      BY <3>1 DEF OffersInv
    <3>3. \A o \in Offerings : (ToLogOffer(p, o) => Declared(o) \in events') /\ ~ToOffer(p, o)
      BY <3>1, <3>2 DEF ToOffer, ToLogOffer, Running
    <3> QED
      BY <1>5, <2>1, <2>3, <3>1, <3>2, <3>3
  <2> QED
    BY <1>9, <2>4, <2>5, <2>6, <2>7 DEF OfferShape
<1>10. CASE LinkShape(p) \/ RequestShape(p)
  <2>1. /\ Elsewhere(p) /\ UNCHANGED <<file, row, catalog, offered>> /\ events \subseteq events'
        /\ job[p].call.op \in {"linkIssuer", "handle"}
    BY <1>10 DEF LinkShape, InsertLink, SignLinked, RequestShape, InsertNonce, Serve, Left, Now,
                 Running, LogEvent, tables
  <2>2. /\ \A s : ~ToLog(p, s) /\ ~ToRow(p, s)
        /\ \A o : ~ToLogOffer(p, o) /\ ~ToOffer(p, o)
    BY <2>1 DEF ToRow, ToLog, ToOffer, ToLogOffer, Running
  <2> QED
    BY <1>5, <2>1, <2>2
<1> QED
  BY <1>6, <1>7, <1>8, <1>9, <1>10 DEF Shape

-----------------------------------------------------------------------------
(* Theorems *)

\* What a process knows at each statement is true, and stays true while others move.
THEOREM OnboardingInvariant == Spec => []OnboardingInv
<1>1. Init => OnboardingInv
  <2> SUFFICES ASSUME Init PROVE OnboardingInv
    OBVIOUS
  <2>1. TypeOK
    BY OnboardingAssumption DEF Init, TypeOK, Jobs, Idle
  <2>2. \A p \in Procs : \A op, at : at # "idle" => ~Running(p, op, at)
    BY DEF Init, Running, Idle
  <2>3. KeysInv /\ IdentityInv /\ OffersInv /\ EventsInv /\ LinksInv
    BY <2>2 DEF Init, KeysInv, IdentityInv, OffersInv, EventsInv, LinksInv, Files
  <2>4. NoncesInv
    BY <2>2 DEF Init, NoncesInv, RequestsTakeEffectOnce
  <2>5. HalvesInv
    BY DEF Init, HalvesInv, Files
  <2> QED
    BY <2>1, <2>3, <2>4, <2>5 DEF OnboardingInv
<1>2. TypeOK /\ TypeOK' /\ OnboardingInv /\ [Next]_onboardingVars => OnboardingInv'
  <2> SUFFICES ASSUME TypeOK, TypeOK', OnboardingInv, [Next]_onboardingVars PROVE OnboardingInv'
    OBVIOUS
  <2> USE DEF OnboardingInv
  <2>1. CASE UNCHANGED onboardingVars
    BY <2>1 DEF onboardingVars, tables, KeysInv, IdentityInv, OffersInv, EventsInv, NoncesInv,
                RequestsTakeEffectOnce, LinksInv, HalvesInv, Running, Subject, NonceOf
  <2>2. CASE Next
    <3>1. PICK p \in Procs : Shape(p)
      BY <2>2, StepShape
    <3> QED
      BY <3>1, KeysKept, IdentityKept, OffersKept, EventsKept, NoncesKept, LinksKept, HalvesKept
  <2> QED
    BY <2>1, <2>2
<1> QED
  BY <1>1, <1>2, TypeCorrect, PTL DEF Spec

\* An issuer whose key file no two processes created at once can always sign, and what
\* it offers is declared under its key.
THEOREM IssuersCanSign == Spec => []MintersAccepted
<1>1. OnboardingInv => MintersAccepted
  BY DEF OnboardingInv, KeysInv, OffersInv, MintersAccepted
<1> QED
  BY <1>1, OnboardingInvariant, PTL

\* Processes that are up sign scores with one key, unless two were the first at once.
THEOREM OneRenderingKey == Spec => []OneIdentity
<1>1. OnboardingInv => OneIdentity
  BY DEF OnboardingInv, IdentityInv, OneIdentity
<1> QED
  BY <1>1, OnboardingInvariant, PTL

\* The signed log of onboarding is true at all times.
THEOREM LogTrue == Spec => []EventsTrue
<1>1. OnboardingInv => EventsTrue
  BY DEF OnboardingInv, EventsInv, EventsTrue
<1> QED
  BY <1>1, OnboardingInvariant, PTL

\* No nonce takes effect twice, whatever is replayed, restarted or interleaved.
THEOREM NoReplay == Spec => []RequestsTakeEffectOnce
<1>1. OnboardingInv => RequestsTakeEffectOnce
  BY DEF OnboardingInv, NoncesInv
<1> QED
  BY <1>1, OnboardingInvariant, PTL

\* Half an onboarding is always the fault of a crash or a failed write.
THEOREM HalvesCompleted == Spec => []NothingHalfDone
<1>1. OnboardingInv => NothingHalfDone
  <2> SUFFICES ASSUME OnboardingInv, faults = 0
      PROVE  /\ \A s \in Subjects : file[s] # Null => row[s] # Null \/ Creating(s)
             /\ \A s \in Subjects : row[s] # Null =>
                  \/ Creating(s)
                  \/ [type |-> "registered", subject |-> s, key |-> row[s]] \in events
             /\ \A o \in Offerings : catalog[o] # Null =>
                  offered[o] # Null \/ \E i \in Issuers : Adding(i, o)
             /\ \A o \in Offerings : offered[o] # Null =>
                  \/ Adding(offered[o], o)
                  \/ [type |-> "declared", issuer |-> offered[o], offering |-> o] \in events
    BY DEF NothingHalfDone
  <2>1. TypeOK /\ HalvesInv /\ OffersInv
    BY DEF OnboardingInv
  <2>2. ASSUME NEW p \in Procs, job[p].at # "idle", job[p].call.op = "create"
        PROVE  Creating(Subject(p))
    <3>1. job[p].call \in Calls
      BY <2>1, <2>2, Working
    <3>2. job[p].call \in [op : {"create"}, subject : Subjects, any : BOOLEAN]
      BY <2>2, <3>1 DEF Calls, Constructor
    <3> QED
      BY <3>2 DEF Creating, Create, Subject
  <2>3. ASSUME NEW p \in Procs, job[p].at # "idle", job[p].call.op = "addOffering"
        PROVE  /\ job[p].call.issuer \in Issuers
               /\ Adding(job[p].call.issuer, job[p].call.offering)
    <3>1. job[p].call \in Calls
      BY <2>1, <2>3, Working
    <3>2. job[p].call \in [op : {"addOffering"}, issuer : Issuers, offering : Offerings]
      BY <2>3, <3>1 DEF Calls, Constructor
    <3> QED
      BY <3>2 DEF Adding, AddOffering
  <2> QED
    BY <2>1, <2>2, <2>3 DEF HalvesInv, OffersInv, Running
<1> QED
  BY <1>1, OnboardingInvariant, PTL

\* What ingestion was allowed to do and where accounts led, it still is and they still
\* do after any step of anybody.
THEOREM AuthorityStays == Spec => AuthorityIsStable
<1> DEFINE Stable ==
      /\ \A l \in links : \A i \in Issuers : i \in Resolved(l.partner, l.account) =>
           Resolved(l.partner, l.account)' = {i}
      /\ \A s \in Subjects : row[s] # Null => row'[s] = row[s]
      /\ \A o \in Offerings : offered[o] # Null => offered'[o] = offered[o]
      /\ \A l \in links : \E k \in links' : k.partner = l.partner /\ k.issuer = l.issuer
      /\ issueAny \subseteq issueAny'
<1>1. ASSUME OnboardingInv, LinksInv', Next PROVE Stable
  <2>1. TypeOK
    BY <1>1 DEF OnboardingInv
  <2>2. PICK p \in Procs : Shape(p)
    BY <1>1, <2>1, StepShape
  <2>3. /\ \A s \in Subjects : row[s] # Null => row'[s] = row[s]
        /\ \A o \in Offerings : offered[o] # Null => offered'[o] = offered[o]
        /\ links \subseteq links' /\ issueAny \subseteq issueAny'
    BY <2>1, <2>2, Grows
  <2>4. ASSUME NEW l \in links, NEW i \in Issuers, i \in Resolved(l.partner, l.account)
        PROVE  Resolved(l.partner, l.account)' = {i}
    <3>1. PICK k \in links : k.partner = l.partner /\ k.account = l.account /\ k.issuer = i
      BY <2>4 DEF Resolved
    <3>2. l.account # Null
      BY <2>4 DEF Resolved
    <3>3. \A m \in links' : m.partner = l.partner /\ m.account = l.account => m = k
      BY <1>1, <2>3, <3>1, <3>2 DEF LinksInv, Collides
    <3> QED
      BY <2>3, <3>1, <3>2, <3>3 DEF Resolved
  <2> QED
    BY <2>3, <2>4
<1>2. OnboardingInv /\ OnboardingInv' /\ [Next]_onboardingVars => [Stable]_onboardingVars
  BY <1>1 DEF OnboardingInv
<1> QED
  BY <1>2, OnboardingInvariant, PTL DEF Spec, AuthorityIsStable

=============================================================================
