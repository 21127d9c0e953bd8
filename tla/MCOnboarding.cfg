\* Two processes at a time, of any kind: two issuers, one partner, and one account both claim.
SPECIFICATION FairSpec
CONSTANTS
  p1 = p1
  p2 = p2
  demo = demo
  shop = shop
  app = app
  account = account
  Null = Null
  PayloadKey = PayloadKey
  Procs = {p1, p2}
  Issuers = {demo, shop}
  Partners = {app}
  Offerings = {"d"}
  Accounts = {account}
  Commands <- MCCommands
  Requests <- MCRequests
  DemoIssuer = demo
  DemoOffering = "d"
  MaxFaults = 1
INVARIANTS
  TypeOK
  MintersAccepted
  OneIdentity
  EventsTrue
  RequestsTakeEffectOnce
  NothingHalfDone
PROPERTIES
  AuthorityIsStable
  DemoGetsServed
