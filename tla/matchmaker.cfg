CONSTANTS
  t1 = t1
  t2 = t2
  t3 = t3
  t4 = t4
  s1 = s1
  s2 = s2
  p1 = p1
  q1 = q1
  Ticket = {t1, t2, t3, t4}
  Ask <- MCAsk
  Session = {s1, s2}
  Party = {p1}
  NoParty = NoParty
  Queue = {q1}
  Queues = {q1}
  MinPlayers <- MCMinPlayers
  MaxTickets = 2
  MaxIntervals = 2
  Hooks <- MCHooks
SPECIFICATION FairSpec
INVARIANTS TypeOK IndexesAgree WithinTicketLimit
PROPERTIES ImplementsMatchPool TicketsResolve
