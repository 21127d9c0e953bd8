----------------------------- MODULE ReviewRight -----------------------------
(***************************************************************************)
(* What ingestion promises, whatever the number of sources, processes,     *)
(* retries and crashes: a sale is granted one right to review, no right    *)
(* serves two sales, and the link to it goes out at most once.             *)
(***************************************************************************)
CONSTANTS Sales, Rights, Links

VARIABLES
  granted, \* the right each sale was granted: [sale, right]
  sent     \* the links that went out: [sale, right, link]

Init == granted = {} /\ sent = {}

Grant(sale, right) ==
  /\ \A g \in granted : g.sale # sale /\ g.right # right
  /\ granted' = granted \cup {[sale |-> sale, right |-> right]}
  /\ UNCHANGED sent

Send(sale, right, link) ==
  /\ [sale |-> sale, right |-> right] \in granted
  /\ \A s \in sent : s.sale # sale
  /\ sent' = sent \cup {[sale |-> sale, right |-> right, link |-> link]}
  /\ UNCHANGED granted

Next ==
  \E sale \in Sales, right \in Rights :
    Grant(sale, right) \/ \E link \in Links : Send(sale, right, link)

Spec == Init /\ [][Next]_<<granted, sent>>

=============================================================================
