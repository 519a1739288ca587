---------------------------- MODULE PartyGateway ----------------------------
(***************************************************************************)
(* The socket gateway's use of the party registry and of the matchmaker:   *)
(* internal/socket/socket_party.go, handlePartyMatchmakerAdd and           *)
(* handleDisconnect of internal/socket/socket.go, and the hook installed   *)
(* by internal/api/server.go.                                              *)
(*                                                                         *)
(* A session's messages are handled one after the other by its readPump,   *)
(* and its disconnect after the last of them; the handlers of different    *)
(* sessions interleave.  A handler makes one registry call, which is one   *)
(* action of Party, except two: adding a party ticket reads the party, and *)
(* submits what it read in a later step; a disconnect leaves the party,    *)
(* and cancels the session's tickets in a later step.  pending records     *)
(* what such a handler has still to do.                                    *)
(*                                                                         *)
(* The hook runs with the registry's mutex held, and takes the             *)
(* matchmaker's: RemovePartyAll is part of the registry's step.            *)
(*                                                                         *)
(* Abstracted: the replies and broadcasts, the stream tracker (messages go *)
(* to the registry's members, not to its entries), a ticket's counts, id   *)
(* and limits (a rejected ticket is a submission that adds nothing).       *)
(* Sessions that reconnect under their old id within a grace period are    *)
(* left out: the default period is zero.                                   *)
(***************************************************************************)
EXTENDS Party

CONSTANT MaxTickets     \* bounds the model: the tickets in the pool at a time

ASSUME GatewayAssumption == MaxTickets \in Nat \ {0}

VARIABLES
  online,     \* the sessions whose readPump runs
  pending,    \* what the handler running for a session has still to do
  tickets     \* the party tickets in the matchmaker's pool

vars == <<reg, online, pending, tickets>>

Idle == [op |-> "idle"]
Cancelling == [op |-> "cancel"]

(***************************************************************************)
(* A party ticket: the party it names, the session that owns it and the    *)
(* users it lists.  overtaken is a history field: the party's members      *)
(* changed between the handler's reading of the party and its submission.  *)
(***************************************************************************)
Ticket == [party : PartyID, owner : Session, users : SUBSET User, overtaken : BOOLEAN]
Submitting(t) == [op |-> "submit", ticket |-> t]

GatewayInit ==
  /\ Init
  /\ online = Session
  /\ pending = [s \in Session |-> Idle]
  /\ tickets = {}

-----------------------------------------------------------------------------
\* Mutant: the hook looks at the tickets the party's leader owns only.
CancelPartyTickets_LeaderOnly ==
  tickets' = {t \in tickets :
                ~(t.party \in reg'.notified /\ LeaderSession(reg, t.party, t.owner))}

\* The hook of api/server.go, for every party the registry step notified:
\* RemovePartyAll cancels the party's tickets.
CancelPartyTickets == tickets' = {t \in tickets : t.party \notin reg'.notified}

\* A submission under way for a notified party has been overtaken.
Overtake(t) == IF t.party \in reg'.notified THEN [t EXCEPT !.overtaken = TRUE] ELSE t

OvertakeSubmissions ==
  [x \in Session |-> IF pending[x].op = "submit"
                     THEN Submitting(Overtake(pending[x].ticket))
                     ELSE pending[x]]

\* A handler that makes one registry call: any but the disconnect's.
PartyMessage(s) ==
  /\ s \in online
  /\ pending[s] = Idle
  /\ \E p \in PartyID :
       \/ \E asked \in AskedSizes, o \in BOOLEAN : Create(s, p, asked, o)
       \/ JoinOpen(s, p)
       \/ JoinClosed(s, p)
       \/ Leave(s, p)
       \/ Close(s, p)
       \/ \E t \in Session : Promote(s, p, t) \/ Accept(s, p, t) \/ Remove(s, p, t)
       \/ \E o \in BOOLEAN : Update(s, p, o)
  /\ CancelPartyTickets
  /\ pending' = OvertakeSubmissions
  /\ UNCHANGED online

\* handlePartyMatchmakerAdd, up to the snapshot of the party.  The leader is
\* checked by user; the leader's presence is the calling session.
ReadParty(s, p) ==
  /\ s \in online
  /\ pending[s] = Idle
  /\ p \in reg.parties
  /\ reg.leader[p] = Owner[s]
  /\ pending' = [pending EXCEPT ![s] =
       Submitting([party |-> p, owner |-> s, users |-> MembersOf(reg, p), overtaken |-> FALSE])]
  /\ UNCHANGED <<reg, online, tickets>>

\* handlePartyMatchmakerAdd, from the snapshot to SubmitParty.
SubmitParty(s) ==
  /\ pending[s].op = "submit"
  /\ Cardinality(tickets) < MaxTickets
  /\ tickets' = tickets \cup {pending[s].ticket}
  /\ pending' = [pending EXCEPT ![s] = Idle]
  /\ UNCHANGED <<reg, online>>

\* Submit refuses: an invalid ticket, the rate limit or the ticket limit.
SubmitRejected(s) ==
  /\ pending[s].op = "submit"
  /\ pending' = [pending EXCEPT ![s] = Idle]
  /\ UNCHANGED <<reg, online, tickets>>

\* handlePartyMatchmakerRemove: anybody who knows a ticket's id may cancel it.
\* A ticket also leaves the pool when it is matched or expires.
TicketGone(t) ==
  /\ tickets' = tickets \ {t}
  /\ UNCHANGED <<reg, online, pending>>

\* handleDisconnect, up to leaveAllParties.  PartyRegistry.LeaveSession does
\* nothing for a session that bySess does not know.
Disconnect(s) ==
  /\ s \in online
  /\ pending[s] = Idle
  /\ online' = online \ {s}
  /\ \/ LeaveSession(s)
     \/ /\ reg.bySess[s] = NoParty
        /\ reg' = Begin(reg)
  /\ CancelPartyTickets
  /\ pending' = [OvertakeSubmissions EXCEPT ![s] = Cancelling]

OwnedBy(s) == {t \in tickets : t.owner = s}

\* Mutant: the cleanup leaves the tickets to the party hook.
CancelSessionTickets_Skipped(s) ==
  /\ pending[s] = Cancelling
  /\ pending' = [pending EXCEPT ![s] = Idle]
  /\ UNCHANGED <<reg, online, tickets>>

\* handleDisconnect, the cleanup StartGracePeriod schedules: RemoveSessionAll.
CancelSessionTickets(s) ==
  /\ pending[s] = Cancelling
  /\ tickets' = tickets \ OwnedBy(s)
  /\ pending' = [pending EXCEPT ![s] = Idle]
  /\ UNCHANGED <<reg, online>>

Sweep ==
  /\ SweepIdle
  /\ UNCHANGED <<online, pending, tickets>>

GatewayNext ==
  \/ \E s \in Session :
       \/ PartyMessage(s)
       \/ \E p \in PartyID : ReadParty(s, p)
       \/ SubmitParty(s)
       \/ SubmitRejected(s)
       \/ Disconnect(s)
       \/ CancelSessionTickets(s)
  \/ \E t \in tickets : TicketGone(t)
  \/ Sweep

GatewaySpec == GatewayInit /\ [][GatewayNext]_vars

-----------------------------------------------------------------------------
(* Properties.                                                             *)

\* A party ticket in the pool lists exactly the current members of a party
\* that still exists, whoever left, was kicked, accepted or disconnected
\* since it was submitted; the one exception is a submission overtaken by a
\* membership change between the handler's snapshot and SubmitParty.
TicketsListTheParty ==
  \A t \in tickets : ~t.overtaken =>
    /\ t.party \in reg.parties
    /\ t.users = MembersOf(reg, t.party)

\* Once a session's disconnect has run to its end, no ticket it owned is in
\* the pool: not even one submitted while the session was closing.
NoTicketOfGoneSession ==
  \A t \in tickets : t.owner \in online \/ pending[t.owner] = Cancelling

\* A disconnected session leaves no join request behind: LeaveSession
\* "removes the session from whatever party it is in", and has a branch for
\* the session with a "pending join request only".
NoRequestOfGoneSession ==
  \A s \in Session \ online, p \in reg.parties : reg.requests[p][Owner[s]] # s
=============================================================================
