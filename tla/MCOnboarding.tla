---------------------------- MODULE MCOnboarding ----------------------------
(***************************************************************************)
(* Two processes at a time, of any kind: servers, hosts and the operator's *)
(* commands, which on-board a partner and link a merchant's account to one *)
(* issuer, while the partner itself reports it as another's.               *)
(***************************************************************************)
EXTENDS Onboarding

CONSTANTS p1, p2, demo, shop, app, account

MCCommands ==
  {Create(app, FALSE), AddOffering(demo, "d"),
   LinkIssuer([partner |-> app, issuer |-> demo, account |-> account])}

\* Roster creates shop and links the account the operator links to demo; Sale is a later
\* request under the same nonce, of whichever issuer the account belongs to.
Roster ==
  [partner |-> app, by |-> app, nonce |-> "n1",
   merchants |-> <<[issuer |-> shop, account |-> account]>>, issuer |-> Null, account |-> Null]
Sale == [Roster EXCEPT !.merchants = <<>>, !.account = account]
Forged == [Sale EXCEPT !.by = Null, !.nonce = "n2"]
MCRequests == {Roster, Sale, Forged}

=============================================================================
