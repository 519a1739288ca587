------------------------------- MODULE Party -------------------------------
(***************************************************************************)
(* The party registry, internal/party/party.go.                            *)
(*                                                                         *)
(* The registry keeps three maps under one mutex: the parties, the party   *)
(* of a user (byUser) and the party of a session (bySess).  Every exported *)
(* method takes the mutex for its whole body, so each one is one action;   *)
(* the hook that cancels the party's matchmaker tickets is called inside   *)
(* the critical section, and the parties it was called for are recorded in *)
(* the field notified.                                                     *)
(*                                                                         *)
(* The whole registry is one record, and the helpers of the code that run  *)
(* with the mutex held (leaveLocked, the insertion of a member) are        *)
(* operators from registries to registries, composed as the methods do.    *)
(*                                                                         *)
(* Abstracted: names, labels and their validation, the hidden flag,        *)
(* member properties, LastActive and activity (nothing reads them), and    *)
(* JoinedAt, which is only ever compared: joinedBefore keeps the order.    *)
(* A call that returns an error changes nothing and is no step.  A party   *)
(* id is a fresh UUID: an id that is not in the registry, reused once the  *)
(* party is gone.                                                          *)
(***************************************************************************)
EXTENDS Integers, FiniteSets

CONSTANTS
  User,             \* user ids
  Session,          \* session ids
  Owner,            \* the user each session was authenticated for
  PartyID,          \* party ids
  AskedSizes,       \* the max_size values clients send (0: use the default)
  DefaultMaxSize,   \* Config.DefaultMaxSize
  AbsoluteMaxSize,  \* Config.AbsoluteMaxSize
  SingleParty,      \* Config.SingleParty; the server sets it
  NoUser, NoSession, NoParty

ASSUME PartyAssumption ==
  /\ IsFiniteSet(User)
  /\ Owner \in [Session -> User]
  /\ AskedSizes \subseteq Nat
  /\ DefaultMaxSize \in Nat \ {0}
  /\ AbsoluteMaxSize \in Nat \ {0}
  /\ SingleParty \in BOOLEAN
  /\ NoUser \notin User
  /\ NoSession \notin Session
  /\ NoParty \notin PartyID

VARIABLE reg        \* party.Registry

Nobody == [u \in User |-> NoSession]

(***************************************************************************)
(* The type of the registry.  members and requests map the users of a      *)
(* party to the session they joined, or asked to join, with.               *)
(***************************************************************************)
Registry ==
  [ parties      : SUBSET PartyID,
    leader       : [PartyID -> User \cup {NoUser}],
    open         : [PartyID -> BOOLEAN],
    maxSize      : [PartyID -> Nat],
    members      : [PartyID -> [User -> Session \cup {NoSession}]],
    requests     : [PartyID -> [User -> Session \cup {NoSession}]],
    joinedBefore : [PartyID -> SUBSET (User \X User)],
    byUser       : [User -> PartyID \cup {NoParty}],
    bySess       : [Session -> PartyID \cup {NoParty}],
    notified     : SUBSET PartyID ]

Init ==
  reg = [ parties      |-> {},
          leader       |-> [p \in PartyID |-> NoUser],
          open         |-> [p \in PartyID |-> FALSE],
          maxSize      |-> [p \in PartyID |-> 0],
          members      |-> [p \in PartyID |-> Nobody],
          requests     |-> [p \in PartyID |-> Nobody],
          joinedBefore |-> [p \in PartyID |-> {}],
          byUser       |-> [u \in User |-> NoParty],
          bySess       |-> [s \in Session |-> NoParty],
          notified     |-> {} ]

-----------------------------------------------------------------------------
(* What the methods ask of the registry.                                   *)

IsMember(r, p, u)  == p \in r.parties /\ r.members[p][u] # NoSession
IsPending(r, p, u) == p \in r.parties /\ r.requests[p][u] # NoSession

MembersOf(r, p)    == {u \in User : IsMember(r, p, u)}
RequestersOf(r, p) == {u \in User : IsPending(r, p, u)}

\* requireLeader: the caller's session is the one the leader joined with.
LeaderSession(r, p, s) ==
  /\ p \in r.parties
  /\ r.leader[p] \in User
  /\ r.members[p][r.leader[p]] = s

HasRoom(r, p) == Cardinality(MembersOf(r, p)) < r.maxSize[p]

\* Mutant: succession in map order, without the sort by JoinedAt.
Heirs_AnyMember(r, p, u) ==
  LET rest == MembersOf(r, p) \ {u} IN IF rest = {} THEN {NoUser} ELSE rest

\* The members that nobody left in the party joined before, once u is gone:
\* who leaveLocked may promote (more than one only if JoinedAt ties).
Heirs(r, p, u) ==
  LET rest == MembersOf(r, p) \ {u}
  IN  IF rest = {} THEN {NoUser}
      ELSE {h \in rest : \A o \in rest : <<o, h>> \notin r.joinedBefore[p]}

-----------------------------------------------------------------------------
(* What the methods do to the registry, with the mutex held.               *)

\* A method starts: no hook has been called on its behalf yet.
Begin(r) == [r EXCEPT !.notified = {}]

\* delete(r.parties, p), with the party's struct out of reach from now on.
Drop(r, p) ==
  [r EXCEPT !.parties = @ \ {p},
            !.leader[p] = NoUser,
            !.open[p] = FALSE,
            !.maxSize[p] = 0,
            !.members[p] = Nobody,
            !.requests[p] = Nobody,
            !.joinedBefore[p] = {}]

\* Mutant: a member's old join request is not deleted.
AddMember_KeepRequest(r, p, u, s) ==
  [r EXCEPT !.members[p][u] = s,
            !.joinedBefore[p] = @ \cup (MembersOf(r, p) \X {u}),
            !.byUser[u] = p,
            !.bySess[s] = p]

\* Insert u, with session s, as a member of p, the most recent one.
AddMember(r, p, u, s) ==
  [r EXCEPT !.members[p][u] = s,
            !.requests[p][u] = NoSession,
            !.joinedBefore[p] = @ \cup (MembersOf(r, p) \X {u}),
            !.byUser[u] = p,
            !.bySess[s] = p]

\* Mutant: the session index keeps its entry.
DropMember_KeepSession(r, p, u) ==
  [r EXCEPT !.members[p][u] = NoSession,
            !.joinedBefore[p] = {e \in @ : e[1] # u /\ e[2] # u},
            !.byUser[u] = NoParty]

\* Delete the member u of p from the three maps.
DropMember(r, p, u) ==
  [r EXCEPT !.members[p][u] = NoSession,
            !.joinedBefore[p] = {e \in @ : e[1] # u /\ e[2] # u},
            !.byUser[u] = NoParty,
            !.bySess[r.members[p][u]] = NoParty]

\* Delete the pending join request of u.
DropRequest(r, p, u) == [r EXCEPT !.requests[p][u] = NoSession]

\* Call the membership hook for p.
Notify(r, p) == [r EXCEPT !.notified = @ \cup {p}]

\* Mutant: nobody is promoted when the leader leaves.
LeaveLocked_NoPromotion(r, p, u, h) ==
  IF ~IsMember(r, p, u)
  THEN IF p \in r.parties THEN DropRequest(r, p, u) ELSE r
  ELSE IF MembersOf(r, p) = {u}
  THEN Notify(Drop(DropMember(r, p, u), p), p)
  ELSE Notify(DropMember(r, p, u), p)

\* Mutant: the hook is called only when the party ends.
LeaveLocked_HookOnDrop(r, p, u, h) ==
  IF ~IsMember(r, p, u)
  THEN IF p \in r.parties THEN DropRequest(r, p, u) ELSE r
  ELSE IF MembersOf(r, p) = {u}
  THEN Notify(Drop(DropMember(r, p, u), p), p)
  ELSE [DropMember(r, p, u) EXCEPT !.leader[p] = IF @ = u THEN h ELSE @]

\* leaveLocked; h is the member it promotes if u led the party.
LeaveLocked(r, p, u, h) ==
  IF ~IsMember(r, p, u)
  THEN IF p \in r.parties THEN DropRequest(r, p, u) ELSE r
  ELSE IF MembersOf(r, p) = {u}
  THEN Notify(Drop(DropMember(r, p, u), p), p)
  ELSE Notify([DropMember(r, p, u) EXCEPT !.leader[p] = IF @ = u THEN h ELSE @], p)

-----------------------------------------------------------------------------
(* One action per method, called on behalf of session s.                   *)

\* In single-party mode the creator first leaves the party byUser names.
Create(s, p, asked, isOpen) ==
  LET u    == Owner[s]
      size == IF asked = 0 THEN DefaultMaxSize ELSE asked
      prev == IF SingleParty THEN reg.byUser[u] ELSE NoParty
  IN  /\ p \notin reg.parties
      /\ size \in 1..AbsoluteMaxSize
      /\ \E h \in Heirs(reg, prev, u) :
           LET left == LeaveLocked(Begin(reg), prev, u, h)
           IN  reg' = AddMember([left EXCEPT !.parties = @ \cup {p},
                                             !.leader[p] = u,
                                             !.open[p] = isOpen,
                                             !.maxSize[p] = size], p, u, s)

\* The checks Join makes before it looks at Open.
MayJoin(r, p, u) ==
  /\ p \in r.parties
  /\ ~IsMember(r, p, u)
  /\ SingleParty => r.byUser[u] \in {NoParty, p}
  /\ HasRoom(r, p)

JoinOpen(s, p) ==
  /\ MayJoin(reg, p, Owner[s])
  /\ reg.open[p]
  /\ reg' = Notify(AddMember(Begin(reg), p, Owner[s], s), p)

\* A party that is not open queues the request; bySess is not told.
JoinClosed(s, p) ==
  /\ MayJoin(reg, p, Owner[s])
  /\ ~reg.open[p]
  /\ ~IsPending(reg, p, Owner[s])
  /\ Cardinality(RequestersOf(reg, p)) < reg.maxSize[p]
  /\ reg' = [Begin(reg) EXCEPT !.requests[p][Owner[s]] = s]

\* Leave names the party and the user; any session of the user may call it.
Leave(s, p) ==
  LET u == Owner[s]
  IN  /\ IsMember(reg, p, u) \/ IsPending(reg, p, u)
      /\ \E h \in Heirs(reg, p, u) : reg' = LeaveLocked(Begin(reg), p, u, h)

\* LeaveSession looks the party up in bySess; only the entry of the session's
\* user can carry the session.
LeaveSession(s) ==
  LET u == Owner[s]
      p == reg.bySess[s]
      cleared == [Begin(reg) EXCEPT !.bySess[s] = NoParty]
  IN  /\ p # NoParty
      /\ IF p \in reg.parties /\ reg.members[p][u] = s
         THEN \E h \in Heirs(reg, p, u) : reg' = LeaveLocked(Begin(reg), p, u, h)
         ELSE reg' = IF p \in reg.parties /\ reg.requests[p][u] = s
                     THEN DropRequest(cleared, p, u) ELSE cleared

Promote(s, p, t) ==
  /\ LeaderSession(reg, p, s)
  /\ reg.members[p][Owner[t]] = t
  /\ reg' = [Begin(reg) EXCEPT !.leader[p] = Owner[t]]

\* Mutant: the room left when the request was queued is not checked again.
Accept_NoRoomCheck(s, p, t) ==
  LET u    == Owner[t]
      prev == IF SingleParty /\ reg.byUser[u] # p THEN reg.byUser[u] ELSE NoParty
  IN  /\ LeaderSession(reg, p, s)
      /\ reg.requests[p][u] = t
      /\ \E h \in Heirs(reg, prev, u) :
           reg' = Notify(AddMember(LeaveLocked(Begin(reg), prev, u, h), p, u, t), p)

\* Mutant: the requester is inserted with the accepting leader's session.
Accept_LeaderSession(s, p, t) ==
  LET u    == Owner[t]
      prev == IF SingleParty /\ reg.byUser[u] # p THEN reg.byUser[u] ELSE NoParty
  IN  /\ LeaderSession(reg, p, s)
      /\ HasRoom(reg, p)
      /\ reg.requests[p][u] = t
      /\ \E h \in Heirs(reg, prev, u) :
           reg' = Notify(AddMember(LeaveLocked(Begin(reg), prev, u, h), p, u, s), p)

\* Accept moves the requester out of the party byUser names, if another one.
Accept(s, p, t) ==
  LET u    == Owner[t]
      prev == IF SingleParty /\ reg.byUser[u] # p THEN reg.byUser[u] ELSE NoParty
  IN  /\ LeaderSession(reg, p, s)
      /\ HasRoom(reg, p)
      /\ reg.requests[p][u] = t
      /\ \E h \in Heirs(reg, prev, u) :
           reg' = Notify(AddMember(LeaveLocked(Begin(reg), prev, u, h), p, u, t), p)

\* Remove rejects a pending request or, failing that, kicks a member.
Remove(s, p, t) ==
  LET u == Owner[t]
  IN  /\ LeaderSession(reg, p, s)
      /\ ~(s = t /\ reg.leader[p] = u)
      /\ \/ /\ reg.requests[p][u] = t
            /\ reg' = DropRequest(Begin(reg), p, u)
         \/ /\ reg.requests[p][u] # t
            /\ reg.members[p][u] = t
            /\ reg' = Notify(DropMember(Begin(reg), p, u), p)

\* Close deletes every member from the two indexes, then the party.
Close(s, p) ==
  /\ LeaderSession(reg, p, s)
  /\ reg' = LET inside == MembersOf(reg, p)
                sess == {reg.members[p][u] : u \in inside}
            IN  Notify(Drop([Begin(reg) EXCEPT
                         !.byUser = [u \in User |-> IF u \in inside THEN NoParty ELSE @[u]],
                         !.bySess = [x \in Session |-> IF x \in sess THEN NoParty ELSE @[x]]],
                       p), p)

\* Update may open or close the party; pending requests stay.
Update(s, p, isOpen) ==
  /\ LeaderSession(reg, p, s)
  /\ reg' = [Begin(reg) EXCEPT !.open[p] = isOpen]

\* The idle sweep drops the parties without members.
SweepIdle ==
  reg' = [Begin(reg) EXCEPT !.parties = {p \in @ : MembersOf(reg, p) # {}}]

SessionStep(s) ==
  \/ \E p \in PartyID :
       \/ \E asked \in AskedSizes, o \in BOOLEAN : Create(s, p, asked, o)
       \/ JoinOpen(s, p)
       \/ JoinClosed(s, p)
       \/ Leave(s, p)
       \/ Close(s, p)
       \/ \E t \in Session : Promote(s, p, t) \/ Accept(s, p, t) \/ Remove(s, p, t)
       \/ \E o \in BOOLEAN : Update(s, p, o)
  \/ LeaveSession(s)

Next == SweepIdle \/ \E s \in Session : SessionStep(s)

Spec == Init /\ [][Next]_reg

-----------------------------------------------------------------------------
(* Properties.                                                             *)

\* The registry has its type, and every session in a party is its user's:
\* members and join requests are keyed by the user the session belongs to.
TypeOK ==
  /\ reg \in Registry
  /\ \A p \in PartyID, u \in User, s \in Session :
       reg.members[p][u] = s \/ reg.requests[p][u] = s => Owner[s] = u

\* requireLeader can always be satisfied: whatever order members leave, are
\* kicked, promoted or pulled into another party by Accept, the leader of a
\* party is one of its members (so a party is never empty nor orphaned).
LeaderIsMember == \A p \in reg.parties : reg.leader[p] \in MembersOf(reg, p)

\* In single-party mode the three maps agree, although each method updates
\* them entry by entry: byUser and bySess name a party exactly when it lists
\* the user, with that session, as a member.  LeaveSession and the
\* single-party checks of Create, Join and Accept depend on it.
IndexesAgree ==
  SingleParty =>
    /\ \A u \in User, p \in PartyID : reg.byUser[u] = p <=> IsMember(reg, p, u)
    /\ \A s \in Session, p \in PartyID :
         reg.bySess[s] = p <=> p \in reg.parties /\ reg.members[p][Owner[s]] = s

\* A party never holds more members, nor more pending requests, than
\* MaxSize: Join checks when the request is queued, Accept when it is
\* granted, and the party may have filled up or been reopened in between.
WithinMaxSize ==
  \A p \in reg.parties :
    /\ Cardinality(MembersOf(reg, p)) <= reg.maxSize[p]
    /\ Cardinality(RequestersOf(reg, p)) <= reg.maxSize[p]

\* Nobody is at once a member and a requester of a party, even when the
\* party is opened while the request is pending: Remove looks at requests
\* first, so a leftover request would shield its member from being kicked.
NoMemberPending ==
  \A p \in reg.parties : MembersOf(reg, p) \cap RequestersOf(reg, p) = {}

\* The hook that cancels matchmaker tickets is called in every step that
\* changes the members of an existing party, for that party: also for the
\* party a creator or an accepted requester is silently taken out of.
HookOnMembershipChange ==
  [][\A p \in reg.parties :
        MembersOf(reg, p)' # MembersOf(reg, p) => p \in reg'.notified]_reg

\* Leadership moves only by promotion to a member, or, when the leader goes,
\* to the member who had been in the party longest; never otherwise.
Succession ==
  [][\A p \in reg.parties \cap reg'.parties :
        reg'.leader[p] # reg.leader[p] =>
          \/ MembersOf(reg, p)' = MembersOf(reg, p)
          \/ /\ MembersOf(reg, p)' = MembersOf(reg, p) \ {reg.leader[p]}
             /\ \A u \in MembersOf(reg, p)' \ {reg'.leader[p]} :
                  <<reg'.leader[p], u>> \in reg.joinedBefore[p]]_reg
=============================================================================
