CONSTANTS
  RndLen = 2
  SessMax = 2
  CssMax = 4
  ExtMax = 8
  DpMax = 12
  NoVhost = 0
  AnySni = FALSE
  Tickets = TRUE
  Inputs <- MCInputs
  Vhosts <- MCVhosts
  OurSuites <- MCSuites
  OurCerts <- MCCerts
  MaxRec = 7
  MaxRogue = 5
  MaxFail = 1
  Lifetime = 2
  StartTime = 4
  EndTime = 10
  Clients = {c1, c2}
  MaxTickets = 2
  MaxConf = 3
SPECIFICATION Spec
CHECK_DEADLOCK FALSE
INVARIANTS HelloRead HonestAgrees  TicketKeysRight
PROPERTY HonestServed
