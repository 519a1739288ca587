------------------------- MODULE PartyGatewayProofs -------------------------
(***************************************************************************)
(* Theorems about the gateway's use of the party registry and of the       *)
(* matchmaker, for every set of users, sessions and party ids.             *)
(*                                                                         *)
(* The argument composes two components.  PartyProofs shows that every     *)
(* step of the registry calls the hook for each party whose members it     *)
(* changes (Hooked), and that a party always has a member (Led), so that a *)
(* party that disappears is among those.  Hence a ticket, or a submission  *)
(* under way, that fitted its party and that the hook did not touch still  *)
(* fits it (StillFits).                                                    *)
(***************************************************************************)
EXTENDS PartyGateway, PartyProofs

\* A ticket that no membership change has overtaken lists its party.
Fits(r, t) ==
  ~t.overtaken => t.party \in r.parties /\ t.users = MembersOf(r, t.party)

\* The submission under way for s is of a ticket that s owns.
SubmittedBy(r, s, t) ==
  /\ pending[s] = Submitting(t)
  /\ t \in Ticket
  /\ t.owner = s
  /\ s \in online
  /\ Fits(r, t)

\* What the handler of a session has still to do.
Handler(s) ==
  \/ pending[s] = Idle
  \/ pending[s] = Cancelling
  \/ \E t \in Ticket : SubmittedBy(reg, s, t)

\* The inductive invariant of the gateway.
GInv ==
  /\ IInv
  /\ online \subseteq Session
  /\ pending = [s \in Session |-> pending[s]]
  /\ \A s \in Session : Handler(s)
  /\ tickets \subseteq Ticket
  /\ \A t \in tickets : Fits(reg, t)
  /\ NoTicketOfGoneSession

-----------------------------------------------------------------------------
\* The three kinds of pending work are told apart by op.
LEMMA Ops ==
  /\ Idle.op = "idle" /\ Cancelling.op = "cancel"
  /\ \A t : Submitting(t).op = "submit" /\ Submitting(t).ticket = t
  /\ Idle # Cancelling
  /\ \A t : Submitting(t) # Idle /\ Submitting(t) # Cancelling
<1>1. /\ Idle.op = "idle" /\ Cancelling.op = "cancel"
      /\ \A t : Submitting(t).op = "submit" /\ Submitting(t).ticket = t
  BY DEF Idle, Cancelling, Submitting
<1>2. "idle" # "cancel" /\ "submit" # "idle" /\ "submit" # "cancel"
  OBVIOUS
<1> QED
  BY <1>1, <1>2

\* A ticket that fits its party, and whose party the hook was not called for,
\* fits it after the step: the members are the same, and somebody led them.
LEMMA StillFits ==
  ASSUME IInv, Good(reg, reg'), NEW t, Fits(reg, t),
         t.party \notin reg'.notified
  PROVE  Fits(reg', t)
<1> SUFFICES ASSUME ~t.overtaken
             PROVE  t.party \in reg'.parties /\ t.users = MembersOf(reg', t.party)
  BY DEF Fits
<1>1. t.party \in reg.parties /\ t.users = MembersOf(reg, t.party)
  BY DEF Fits
<1>2. MembersOf(reg', t.party) = MembersOf(reg, t.party)
  BY <1>1 DEF Good, Hooked
<1>3. reg.leader[t.party] \in MembersOf(reg, t.party)
  BY <1>1 DEF IInv, RegInv, Led, MembersOf, IsMember
<1>4. t.party \in reg'.parties
  BY <1>2, <1>3 DEF MembersOf, IsMember
<1> QED
  BY <1>1, <1>2, <1>4

\* A step that leaves the registry alone leaves its invariant alone.
LEMMA SameRegistry == IInv /\ UNCHANGED reg => IInv'
BY DEF IInv

\* The step of the registry that handles a disconnect, or does nothing.
LEMMA DisconnectGood ==
  ASSUME IInv, NEW s \in Session, LeaveSession(s) \/ reg' = Begin(reg)
  PROVE  Good(reg, reg')
<1>1. CASE LeaveSession(s)
  BY <1>1, NextGood DEF Next, SessionStep
<1>2. CASE reg' = Begin(reg)
  BY <1>2, BeginGood DEF IInv, Good, Hooked, MembersOf, IsMember
<1> QED
  BY <1>1, <1>2

\* A registry step followed by the hook: the tickets left in the pool still
\* fit, and a submission under way still fits or has been overtaken.
LEMMA HookKeeps ==
  ASSUME GInv, Good(reg, reg'), CancelPartyTickets
  PROVE  /\ IInv'
         /\ tickets' \subseteq tickets
         /\ \A t \in tickets' : Fits(reg', t)
         /\ \A t \in Ticket : Fits(reg, t) => /\ Overtake(t) \in Ticket
                                              /\ Overtake(t).owner = t.owner
                                              /\ Fits(reg', Overtake(t))
<1>1. IInv /\ IInv'
  BY DEF GInv, Good, IInv
<1>2. tickets' \subseteq tickets /\ \A t \in tickets' : t.party \notin reg'.notified
  BY DEF CancelPartyTickets
<1>3. ASSUME NEW t \in tickets' PROVE Fits(reg', t)
  <2>1. Fits(reg, t)
    BY <1>2 DEF GInv
  <2> QED
    BY <1>1, <1>2, <2>1, StillFits
<1>4. ASSUME NEW t \in Ticket, Fits(reg, t)
      PROVE  Overtake(t) \in Ticket /\ Overtake(t).owner = t.owner /\ Fits(reg', Overtake(t))
  <2>1. CASE t.party \in reg'.notified
    <3>1. Overtake(t) = [t EXCEPT !.overtaken = TRUE]
      BY <2>1 DEF Overtake
    <3>2. Overtake(t) \in Ticket /\ Overtake(t).owner = t.owner /\ Overtake(t).overtaken
      BY <3>1 DEF Ticket
    <3> QED
      BY <3>2 DEF Fits
  <2>2. CASE t.party \notin reg'.notified
    BY <1>1, <1>4, <2>2, StillFits DEF Overtake
  <2> QED
    BY <2>1, <2>2
<1> QED
  BY <1>1, <1>2, <1>3, <1>4

\* What OvertakeSubmissions leaves of each handler's work.
LEMMA OvertakeAt ==
  ASSUME GInv
  PROVE  /\ OvertakeSubmissions = [s \in Session |-> OvertakeSubmissions[s]]
         /\ \A s \in Session :
              /\ pending[s] = Idle => OvertakeSubmissions[s] = Idle
              /\ pending[s] = Cancelling => OvertakeSubmissions[s] = Cancelling
              /\ \A t : pending[s] = Submitting(t) =>
                          OvertakeSubmissions[s] = Submitting(Overtake(t))
<1>1. OvertakeSubmissions = [s \in Session |-> OvertakeSubmissions[s]]
  BY DEF OvertakeSubmissions
<1>2. \A s \in Session :
        OvertakeSubmissions[s] = IF pending[s].op = "submit"
                                 THEN Submitting(Overtake(pending[s].ticket))
                                 ELSE pending[s]
  BY DEF OvertakeSubmissions
<1>3. "idle" # "submit" /\ "cancel" # "submit"
  OBVIOUS
<1> QED
  BY <1>1, <1>2, <1>3, Ops

\* A handler keeps its kind of work, overtaken or not, across a registry step.
LEMMA HandlersKept ==
  ASSUME GInv, Good(reg, reg'), CancelPartyTickets,
         NEW s \in Session, pending'[s] = OvertakeSubmissions[s],
         s \in online => s \in online'
  PROVE  Handler(s)'
<1>1. Handler(s)
  BY DEF GInv
<1>2. CASE pending[s] = Idle
  BY <1>2, OvertakeAt DEF Handler
<1>3. CASE pending[s] = Cancelling
  BY <1>3, OvertakeAt DEF Handler
<1>4. ASSUME NEW t \in Ticket, SubmittedBy(reg, s, t)
      PROVE  Handler(s)'
  <2>1. pending[s] = Submitting(t) /\ t.owner = s /\ s \in online /\ Fits(reg, t)
    BY <1>4 DEF SubmittedBy
  <2>2. /\ Overtake(t) \in Ticket /\ Overtake(t).owner = s
        /\ Fits(reg', Overtake(t))
    BY <2>1, HookKeeps
  <2>3. pending'[s] = Submitting(Overtake(t))
    BY <2>1, OvertakeAt
  <2>4. PICK o \in Ticket : o = Overtake(t)
    BY <2>2
  <2>5. SubmittedBy(reg, s, o)'
    BY <2>1, <2>2, <2>3, <2>4 DEF SubmittedBy
  <2> QED
    BY <2>5 DEF Handler
<1> QED
  BY <1>1, <1>2, <1>3, <1>4 DEF Handler

-----------------------------------------------------------------------------
\* Everybody is online and idle at the start, and the pool is empty.
LEMMA GatewayStarts == GatewayInit => GInv
BY InitInv, Ops DEF GatewayInit, GInv, Handler, NoTicketOfGoneSession

\* A message of a party member.
LEMMA PartyMessageKeeps ==
  ASSUME GInv, NEW s \in Session, PartyMessage(s)
  PROVE  GInv'
<1>1. Good(reg, reg')
  BY NextGood DEF PartyMessage, Next, SessionStep, GInv
<1>2. CancelPartyTickets /\ pending' = OvertakeSubmissions /\ online' = online
  BY DEF PartyMessage
<1>3. \A x \in Session : Handler(x)'
  BY <1>1, <1>2, HandlersKept
<1>4. NoTicketOfGoneSession'
  <2> SUFFICES ASSUME NEW t \in tickets'
               PROVE  t.owner \in online' \/ pending'[t.owner] = Cancelling
    BY DEF NoTicketOfGoneSession
  <2>1. t \in tickets /\ t.owner \in Session
    BY <1>1, <1>2, HookKeeps DEF GInv, Ticket
  <2>2. t.owner \in online \/ pending[t.owner] = Cancelling
    BY <2>1 DEF GInv, NoTicketOfGoneSession
  <2> QED
    BY <1>2, <2>1, <2>2, OvertakeAt
<1>5. /\ pending' = [x \in Session |-> pending'[x]]
      /\ online' \subseteq Session /\ tickets' \subseteq Ticket
  BY <1>1, <1>2, HookKeeps, OvertakeAt DEF GInv
<1> QED
  BY <1>1, <1>2, <1>3, <1>4, <1>5, HookKeeps DEF GInv

\* The session's disconnect, up to the cleanup of its tickets.
LEMMA DisconnectKeeps ==
  ASSUME GInv, NEW s \in Session, Disconnect(s)
  PROVE  GInv'
<1>1. Good(reg, reg')
  BY DisconnectGood DEF Disconnect, GInv
<1>2. /\ CancelPartyTickets /\ online' = online \ {s}
      /\ pending' = [OvertakeSubmissions EXCEPT ![s] = Cancelling]
      /\ pending[s] = Idle
  BY DEF Disconnect
<1>3. /\ pending' = [x \in Session |-> pending'[x]]
      /\ \A x \in Session :
           pending'[x] = IF x = s THEN Cancelling ELSE OvertakeSubmissions[x]
  BY <1>2, OvertakeAt
<1>4. ASSUME NEW x \in Session PROVE Handler(x)'
  <2>1. CASE x = s
    BY <1>3, <2>1 DEF Handler
  <2>2. CASE x # s
    BY <1>1, <1>2, <1>3, <2>2, HandlersKept
  <2> QED
    BY <2>1, <2>2
<1>5. NoTicketOfGoneSession'
  <2> SUFFICES ASSUME NEW t \in tickets'
               PROVE  t.owner \in online' \/ pending'[t.owner] = Cancelling
    BY DEF NoTicketOfGoneSession
  <2>1. t \in tickets /\ t.owner \in Session
    BY <1>1, <1>2, HookKeeps DEF GInv, Ticket
  <2>2. t.owner \in online \/ pending[t.owner] = Cancelling
    BY <2>1 DEF GInv, NoTicketOfGoneSession
  <2> QED
    BY <1>2, <1>3, <2>1, <2>2, OvertakeAt
<1>6. online' \subseteq Session /\ tickets' \subseteq Ticket
  BY <1>1, <1>2, HookKeeps DEF GInv
<1> QED
  BY <1>1, <1>2, <1>3, <1>4, <1>5, <1>6, HookKeeps DEF GInv

\* The idle sweep of the registry calls no hook, and touches no party that
\* has a member.
LEMMA SweepKeeps ==
  ASSUME GInv, Sweep
  PROVE  GInv'
<1>1. IInv /\ Good(reg, reg') /\ IInv'
  BY NextGood DEF Sweep, Next, GInv, Good, IInv
<1>2. reg'.notified = {}
  BY DEF Sweep, SweepIdle, Begin, GInv, IInv, RegInv, Registry
<1>3. online' = online /\ pending' = pending /\ tickets' = tickets
  BY DEF Sweep
<1>4. \A t : Fits(reg, t) => Fits(reg', t)
  BY <1>1, <1>2, StillFits
<1>5. \A x \in Session : Handler(x)'
  BY <1>3, <1>4 DEF GInv, Handler, SubmittedBy
<1> QED
  BY <1>1, <1>3, <1>4, <1>5 DEF GInv, NoTicketOfGoneSession

\* A step of the handler of s that makes no registry call.
LEMMA HandlerStepKeeps ==
  ASSUME GInv, NEW s \in Session, UNCHANGED <<reg, online>>,
         NEW w, pending' = [pending EXCEPT ![s] = w],
         Handler(s)',
         tickets' \subseteq Ticket,
         \A t \in tickets' : Fits(reg, t),
         \A t \in tickets' : t.owner \in online \/ (t.owner # s /\ t \in tickets)
  PROVE  GInv'
<1>1. IInv'
  BY SameRegistry DEF GInv
<1>2. /\ pending' = [x \in Session |-> pending'[x]]
      /\ \A x \in Session : x # s => pending'[x] = pending[x]
  BY DEF GInv
<1>3. ASSUME NEW x \in Session PROVE Handler(x)'
  BY <1>2 DEF GInv, Handler, SubmittedBy
<1>4. NoTicketOfGoneSession'
  BY <1>2 DEF GInv, NoTicketOfGoneSession, Ticket
<1> QED
  BY <1>1, <1>2, <1>3, <1>4 DEF GInv

\* The snapshot lists the party's members: it fits.
LEMMA ReadPartyKeeps ==
  ASSUME GInv, NEW s \in Session, NEW p \in PartyID, ReadParty(s, p)
  PROVE  GInv'
<1>1. PICK t \in Ticket :
        t = [party |-> p, owner |-> s, users |-> MembersOf(reg, p), overtaken |-> FALSE]
  BY DEF Ticket, MembersOf
<1>2. /\ pending' = [pending EXCEPT ![s] = Submitting(t)]
      /\ s \in online /\ p \in reg.parties /\ pending[s] = Idle
      /\ UNCHANGED <<reg, online, tickets>>
  BY <1>1 DEF ReadParty
<1>3. t.owner = s /\ Fits(reg, t)
  BY <1>1, <1>2 DEF Fits
<1>4. pending'[s] = Submitting(t)
  BY <1>2 DEF GInv
<1>5. SubmittedBy(reg, s, t)'
  BY <1>2, <1>3, <1>4 DEF SubmittedBy
<1>6. Handler(s)'
  BY <1>5 DEF Handler
<1>7. /\ tickets' \subseteq Ticket /\ \A x \in tickets' : Fits(reg, x)
      /\ \A x \in tickets' : x.owner \in online \/ (x.owner # s /\ x \in tickets)
  BY <1>2, Ops DEF GInv, NoTicketOfGoneSession
<1> QED
  BY <1>2, <1>6, <1>7, HandlerStepKeeps

\* Submit, accepting the ticket or refusing it: the session is still online.
LEMMA SubmitKeeps ==
  ASSUME GInv, NEW s \in Session, SubmitParty(s) \/ SubmitRejected(s)
  PROVE  GInv'
<1>1. "idle" # "submit" /\ "cancel" # "submit"
  OBVIOUS
<1>2. pending[s].op = "submit" /\ Handler(s)
  BY DEF SubmitParty, SubmitRejected, GInv
<1>3. PICK t \in Ticket : SubmittedBy(reg, s, t)
  BY <1>1, <1>2, Ops DEF Handler
<1>4. pending[s].ticket = t /\ t.owner = s /\ s \in online /\ Fits(reg, t)
  BY <1>3, Ops DEF SubmittedBy
<1>5. /\ tickets' \in {tickets, tickets \cup {t}}
      /\ pending' = [pending EXCEPT ![s] = Idle]
      /\ UNCHANGED <<reg, online>>
  BY <1>4 DEF SubmitParty, SubmitRejected
<1>6. Handler(s)'
  BY <1>5 DEF GInv, Handler
<1>7. pending[s] # Cancelling
  BY <1>1, <1>2, Ops
<1>8. /\ tickets' \subseteq Ticket /\ \A x \in tickets' : Fits(reg, x)
      /\ \A x \in tickets' : x.owner \in online \/ (x.owner # s /\ x \in tickets)
  BY <1>4, <1>5, <1>7 DEF GInv, NoTicketOfGoneSession
<1> QED
  BY <1>5, <1>6, <1>8, HandlerStepKeeps

\* The cleanup takes every ticket the session owns.
LEMMA CancelKeeps ==
  ASSUME GInv, NEW s \in Session, CancelSessionTickets(s)
  PROVE  GInv'
<1>1. /\ tickets' = tickets \ OwnedBy(s)
      /\ pending' = [pending EXCEPT ![s] = Idle]
      /\ UNCHANGED <<reg, online>>
  BY DEF CancelSessionTickets
<1>2. Handler(s)'
  BY <1>1 DEF GInv, Handler
<1>3. \A t \in tickets' : t \in tickets /\ t.owner # s
  BY <1>1 DEF OwnedBy
<1>4. tickets' \subseteq Ticket /\ \A t \in tickets' : Fits(reg, t)
  BY <1>3 DEF GInv
<1> QED
  BY <1>1, <1>2, <1>3, <1>4, HandlerStepKeeps

\* A ticket may leave the pool at any time.
LEMMA TicketGoneKeeps ==
  ASSUME GInv, NEW t, TicketGone(t)
  PROVE  GInv'
<1>1. tickets' \subseteq tickets /\ UNCHANGED <<reg, online, pending>>
  BY DEF TicketGone
<1>2. IInv'
  BY <1>1, SameRegistry DEF GInv
<1>3. \A x \in Session : Handler(x)'
  BY <1>1 DEF GInv, Handler, SubmittedBy
<1> QED
  BY <1>1, <1>2, <1>3 DEF GInv, NoTicketOfGoneSession

\* The invariant holds in every reachable state of the gateway.
THEOREM GatewayInvariance == GatewaySpec => []GInv
<1>1. GInv /\ [GatewayNext]_vars => GInv'
  <2> SUFFICES ASSUME GInv, [GatewayNext]_vars
               PROVE  GInv'
    OBVIOUS
  <2>1. ASSUME NEW s \in Session,
               \/ PartyMessage(s)
               \/ \E p \in PartyID : ReadParty(s, p)
               \/ SubmitParty(s)
               \/ SubmitRejected(s)
               \/ Disconnect(s)
               \/ CancelSessionTickets(s)
        PROVE  GInv'
    BY <2>1, PartyMessageKeeps, ReadPartyKeeps, SubmitKeeps, DisconnectKeeps, CancelKeeps
  <2>2. CASE UNCHANGED vars
    <3>1. tickets' = tickets /\ UNCHANGED <<reg, online, pending>>
      BY <2>2 DEF vars
    <3>2. IInv'
      BY <3>1, SameRegistry DEF GInv
    <3>3. \A x \in Session : Handler(x)'
      BY <3>1 DEF GInv, Handler, SubmittedBy
    <3> QED
      BY <3>1, <3>2, <3>3 DEF GInv, NoTicketOfGoneSession
  <2> QED
    BY <2>1, <2>2, TicketGoneKeeps, SweepKeeps DEF GatewayNext
<1> QED
  BY <1>1, GatewayStarts, PTL DEF GatewaySpec

\* Every ticket in the pool lists exactly the members of an existing party,
\* after every interleaving of party messages, submissions and disconnects,
\* unless a membership change overtook its submission.
THEOREM TicketsAlwaysList == GatewaySpec => []TicketsListTheParty
<1>1. GInv => TicketsListTheParty
  BY DEF GInv, Fits, TicketsListTheParty
<1> QED
  BY <1>1, GatewayInvariance, PTL

\* No ticket outlives its session's disconnect.
THEOREM GoneSessionsHaveNoTicket == GatewaySpec => []NoTicketOfGoneSession
<1>1. GInv => NoTicketOfGoneSession
  BY DEF GInv
<1> QED
  BY <1>1, GatewayInvariance, PTL

-----------------------------------------------------------------------------
(***************************************************************************)
(* What the gateway does to the registry is what PartyProofs is about: the *)
(* gateway implements Party, with the registry for the registry, and the   *)
(* theorems on the registry hold of the gateway with all its handlers.     *)
(***************************************************************************)

\* Parties have a member, so that a sweep that drops none of them is what the
\* disconnect of a session without a party does to the registry: nothing.
LEMMA IdleCallIsASweep ==
  ASSUME IInv, reg' = Begin(reg)
  PROVE  SweepIdle
<1>1. reg \in Registry /\ Led(reg)
  BY DEF IInv, RegInv
<1>2. {p \in reg.parties : MembersOf(reg, p) # {}} = reg.parties
  <2>1. \A p \in reg.parties : reg.leader[p] \in MembersOf(reg, p)
    BY <1>1 DEF Led, MembersOf, IsMember
  <2> QED
    BY <2>1
<1>3. [Begin(reg) EXCEPT !.parties = reg.parties] = Begin(reg)
  BY <1>1 DEF Begin, Registry
<1>4. [Begin(reg) EXCEPT !.parties = {p \in @ : MembersOf(reg, p) # {}}]
        = [Begin(reg) EXCEPT !.parties = {p \in reg.parties : MembersOf(reg, p) # {}}]
  BY <1>1 DEF Begin, Registry
<1> QED
  BY <1>2, <1>3, <1>4 DEF SweepIdle

\* Every step of the gateway is a step of the registry, or leaves it alone.
LEMMA GatewayStepImplements ==
  ASSUME IInv, GatewayNext
  PROVE  Next \/ UNCHANGED reg
<1>1. ASSUME NEW s \in Session, PartyMessage(s)
      PROVE  Next
  BY <1>1 DEF PartyMessage, Next, SessionStep
<1>2. ASSUME NEW s \in Session, Disconnect(s)
      PROVE  Next
  <2>1. CASE LeaveSession(s)
    BY <2>1 DEF Next, SessionStep
  <2>2. CASE reg' = Begin(reg)
    BY <2>2, IdleCallIsASweep DEF Next
  <2> QED
    BY <1>2, <2>1, <2>2 DEF Disconnect
<1>3. ASSUME NEW s \in Session,
             \/ \E p \in PartyID : ReadParty(s, p)
             \/ SubmitParty(s)
             \/ SubmitRejected(s)
             \/ CancelSessionTickets(s)
      PROVE  UNCHANGED reg
  BY <1>3 DEF ReadParty, SubmitParty, SubmitRejected, CancelSessionTickets
<1>4. ASSUME NEW t \in tickets, TicketGone(t)
      PROVE  UNCHANGED reg
  BY <1>4 DEF TicketGone
<1>5. ASSUME Sweep PROVE Next
  BY <1>5 DEF Sweep, Next
<1> QED
  BY <1>1, <1>2, <1>3, <1>4, <1>5 DEF GatewayNext

\* Whatever the sessions send and whenever they disconnect, the registry
\* behaves as Party says.
THEOREM GatewayImplementsParty == GatewaySpec => Spec
<1>1. GInv /\ [GatewayNext]_vars => [Next]_reg
  BY GatewayStepImplements DEF GInv, vars
<1>2. GatewayInit => Init
  BY DEF GatewayInit
<1> QED
  BY <1>1, <1>2, GatewayInvariance, PTL DEF GatewaySpec, Spec

\* Under the gateway, too, the hook is called for every party whose members
\* change, and leadership moves by promotion or to the oldest member only.
THEOREM GatewayKeepsSuccession == GatewaySpec => HookOnMembershipChange /\ Succession
BY GatewayImplementsParty, HookAlwaysCalled, SuccessionHolds

\* In single-party mode a session that bySess knows is a member of its party:
\* the branch of LeaveSession for a "pending join request only" is never taken.
SessionsLeaveAsMembers ==
  SingleParty =>
    \A s \in Session : reg.bySess[s] # NoParty =>
      /\ reg.bySess[s] \in reg.parties
      /\ reg.members[reg.bySess[s]][Owner[s]] = s

\* However requests, acceptances and disconnects interleave, LeaveSession never
\* meets a session with a join request only: that is why a disconnect leaves
\* the request behind (NoRequestOfGoneSession is violated).
THEOREM RequestsAreNotIndexed == GatewaySpec => []SessionsLeaveAsMembers
<1>1. TypeOK /\ IndexesAgree => SessionsLeaveAsMembers
  <2> SUFFICES ASSUME TypeOK, IndexesAgree, SingleParty,
                      NEW s \in Session, reg.bySess[s] # NoParty
               PROVE  /\ reg.bySess[s] \in reg.parties
                      /\ reg.members[reg.bySess[s]][Owner[s]] = s
    BY DEF SessionsLeaveAsMembers
  <2>1. reg.bySess[s] \in PartyID
    BY DEF TypeOK, Registry
  <2> QED
    BY <2>1 DEF IndexesAgree
<1> QED
  BY <1>1, GatewayImplementsParty, TypeCorrect, IndexesAlwaysAgree, PTL
=============================================================================
