---------------------------- MODULE PartyProofs ----------------------------
(***************************************************************************)
(* Theorems about the party registry, for every set of users, sessions and *)
(* party ids.                                                              *)
(*                                                                         *)
(* The methods of the registry are compositions of a few operators on      *)
(* registries.  The proofs follow that structure: one lemma says what each *)
(* operator does to every entry of the maps (the ...At lemmas), one says   *)
(* that it preserves the invariant, and an action is then a composition of *)
(* operators that preserve it.                                             *)
(***************************************************************************)
EXTENDS Party, FiniteSetTheorems, TLAPS

\* The session a user joined, or asked to join, a party with is the user's.
OwnSessions(r) ==
  \A p \in PartyID, u \in User, s \in Session :
    r.members[p][u] = s \/ r.requests[p][u] = s => Owner[s] = u

\* A party id that is not in the registry has no member and no requester.
Blank(r) ==
  \A p \in PartyID \ r.parties, u \in User :
    r.members[p][u] = NoSession /\ r.requests[p][u] = NoSession

\* The leader of a party is one of its members.
Led(r) ==
  \A p \in r.parties : r.leader[p] \in User /\ r.members[p][r.leader[p]] # NoSession

\* Nobody is both a member and a requester.
Disjoint(r) ==
  \A p \in r.parties, u \in User :
    r.members[p][u] = NoSession \/ r.requests[p][u] = NoSession

\* byUser and bySess are the inverse images of members.
Indexed(r) ==
  /\ \A u \in User, p \in PartyID : r.byUser[u] = p <=> r.members[p][u] # NoSession
  /\ \A s \in Session, p \in PartyID : r.bySess[s] = p <=> r.members[p][Owner[s]] = s

\* The inductive invariant.
RegInv(r) ==
  /\ r \in Registry
  /\ OwnSessions(r)
  /\ Blank(r)
  /\ Led(r)
  /\ Disjoint(r)
  /\ SingleParty => Indexed(r)

-----------------------------------------------------------------------------
(* What each operator does to every entry of the registry.                 *)

\* The parts of PartyAssumption that the proofs use most.
LEMMA Constants ==
  /\ NoUser \notin User /\ NoSession \notin Session /\ NoParty \notin PartyID
  /\ \A s \in Session : Owner[s] \in User
BY PartyAssumption DEF PartyAssumption

\* The empty member list is a member list.
LEMMA NobodyType == Nobody \in [User -> Session \cup {NoSession}]
BY DEF Nobody

\* d is r without the party p.
Dropped(r, p, d) ==
  /\ d \in Registry
  /\ d.parties = r.parties \ {p}
  /\ d.byUser = r.byUser
  /\ d.bySess = r.bySess
  /\ d.notified = r.notified
  /\ \A q \in PartyID, v \in User :
       /\ d.members[q][v] = IF q = p THEN NoSession ELSE r.members[q][v]
       /\ d.requests[q][v] = IF q = p THEN NoSession ELSE r.requests[q][v]
  /\ \A q \in PartyID : q # p => /\ d.leader[q] = r.leader[q]
                                 /\ d.maxSize[q] = r.maxSize[q]

\* Drop (delete(r.parties, id)) clears one party and leaves the others alone.
LEMMA DropAt ==
  ASSUME NEW r \in Registry, NEW p \in PartyID
  PROVE  Dropped(r, p, Drop(r, p))
<1> DEFINE d == Drop(r, p)
<1>1. d \in Registry
  BY NobodyType, ZenonT(60) DEF Registry, Drop
<1>2. \A q \in PartyID, v \in User :
        /\ d.members[q][v] = IF q = p THEN NoSession ELSE r.members[q][v]
        /\ d.requests[q][v] = IF q = p THEN NoSession ELSE r.requests[q][v]
  BY DEF Registry, Drop, Nobody
<1>3. \A q \in PartyID : q # p => /\ d.leader[q] = r.leader[q]
                                 /\ d.maxSize[q] = r.maxSize[q]
  BY DEF Registry, Drop
<1>4. /\ d.parties = r.parties \ {p} /\ d.byUser = r.byUser
      /\ d.bySess = r.bySess /\ d.notified = r.notified
  BY DEF Registry, Drop
<1> QED
  BY <1>1, <1>2, <1>3, <1>4 DEF Dropped

\* d is r without the member u of p.
MemberDropped(r, p, u, d) ==
  /\ d \in Registry
  /\ d.parties = r.parties
  /\ d.leader = r.leader
  /\ d.maxSize = r.maxSize
  /\ d.requests = r.requests
  /\ d.notified = r.notified
  /\ \A q \in PartyID, v \in User :
       d.members[q][v] = IF q = p /\ v = u THEN NoSession ELSE r.members[q][v]
  /\ \A v \in User : d.byUser[v] = IF v = u THEN NoParty ELSE r.byUser[v]
  /\ \A s \in Session :
       d.bySess[s] = IF s = r.members[p][u] THEN NoParty ELSE r.bySess[s]

\* DropMember deletes one member of one party, and its two index entries.
LEMMA DropMemberAt ==
  ASSUME NEW r \in Registry, NEW p \in PartyID, NEW u \in User
  PROVE  MemberDropped(r, p, u, DropMember(r, p, u))
<1> DEFINE d == DropMember(r, p, u)
<1>1. d \in Registry
  BY DEF Registry, DropMember
<1>2. /\ d.parties = r.parties /\ d.leader = r.leader /\ d.maxSize = r.maxSize
      /\ d.requests = r.requests /\ d.notified = r.notified
  BY DEF Registry, DropMember
<1>3. \A q \in PartyID, v \in User :
        d.members[q][v] = IF q = p /\ v = u THEN NoSession ELSE r.members[q][v]
  BY DEF Registry, DropMember
<1>4. \A v \in User : d.byUser[v] = IF v = u THEN NoParty ELSE r.byUser[v]
  BY DEF Registry, DropMember
<1>5. \A s \in Session :
        d.bySess[s] = IF s = r.members[p][u] THEN NoParty ELSE r.bySess[s]
  BY DEF Registry, DropMember
<1> QED
  BY <1>1, <1>2, <1>3, <1>4, <1>5 DEF MemberDropped

\* a is r with the member u of p, who joined with session s.
MemberAdded(r, p, u, s, a) ==
  /\ a \in Registry
  /\ a.parties = r.parties
  /\ a.leader = r.leader
  /\ a.maxSize = r.maxSize
  /\ a.notified = r.notified
  /\ \A q \in PartyID, v \in User :
       /\ a.members[q][v] = IF q = p /\ v = u THEN s ELSE r.members[q][v]
       /\ a.requests[q][v] = IF q = p /\ v = u THEN NoSession ELSE r.requests[q][v]
  /\ \A v \in User : a.byUser[v] = IF v = u THEN p ELSE r.byUser[v]
  /\ \A t \in Session : a.bySess[t] = IF t = s THEN p ELSE r.bySess[t]

\* AddMember enters one member, drops its request and sets its index entries.
LEMMA AddMemberAt ==
  ASSUME NEW r \in Registry, NEW p \in PartyID, NEW u \in User, NEW s \in Session
  PROVE  MemberAdded(r, p, u, s, AddMember(r, p, u, s))
<1> DEFINE a == AddMember(r, p, u, s)
<1>1. a \in Registry
  BY ZenonT(100) DEF Registry, AddMember, MembersOf
<1>2. /\ a.parties = r.parties /\ a.leader = r.leader /\ a.maxSize = r.maxSize
      /\ a.notified = r.notified
  BY DEF Registry, AddMember
<1>3. \A q \in PartyID, v \in User :
        a.members[q][v] = IF q = p /\ v = u THEN s ELSE r.members[q][v]
  BY DEF Registry, AddMember
<1>4. \A q \in PartyID, v \in User :
        a.requests[q][v] = IF q = p /\ v = u THEN NoSession ELSE r.requests[q][v]
  BY DEF Registry, AddMember
<1>5. \A v \in User : a.byUser[v] = IF v = u THEN p ELSE r.byUser[v]
  BY DEF Registry, AddMember
<1>6. \A t \in Session : a.bySess[t] = IF t = s THEN p ELSE r.bySess[t]
  BY DEF Registry, AddMember
<1> QED
  BY <1>1, <1>2, <1>3, <1>4, <1>5, <1>6 DEF MemberAdded

\* Notify only records that the hook was called for p.
LEMMA NotifyAt ==
  ASSUME NEW r \in Registry, NEW p \in PartyID
  PROVE  LET n == Notify(r, p)
         IN  /\ n \in Registry
             /\ n.parties = r.parties /\ n.leader = r.leader
             /\ n.maxSize = r.maxSize
             /\ n.members = r.members /\ n.requests = r.requests
             /\ n.byUser = r.byUser /\ n.bySess = r.bySess
             /\ n.notified = r.notified \cup {p}
BY DEF Registry, Notify

\* Begin only clears the record of the calls of the hook.
LEMMA BeginAt ==
  ASSUME NEW r \in Registry
  PROVE  LET b == Begin(r)
         IN  /\ b \in Registry
             /\ b.parties = r.parties /\ b.leader = r.leader
             /\ b.maxSize = r.maxSize
             /\ b.members = r.members /\ b.requests = r.requests
             /\ b.byUser = r.byUser /\ b.bySess = r.bySess
             /\ b.joinedBefore = r.joinedBefore
             /\ b.notified = {}
BY DEF Registry, Begin

-----------------------------------------------------------------------------
(* Operators that preserve the invariant.                                  *)

\* The hook and the start of a method change no map.
LEMMA NotifyInv ==
  ASSUME NEW r, RegInv(r), NEW p \in PartyID
  PROVE  RegInv(Notify(r, p))
<1> r \in Registry
  BY DEF RegInv
<1> QED
  BY NotifyAt, SMTT(30) DEF RegInv, OwnSessions, Blank, Led, Disjoint, Indexed

\* The start of a method preserves the invariant.
LEMMA BeginInv ==
  ASSUME NEW r, RegInv(r)
  PROVE  RegInv(Begin(r))
<1> r \in Registry
  BY DEF RegInv
<1> QED
  BY BeginAt DEF RegInv, OwnSessions, Blank, Led, Disjoint, Indexed

\* A member who is not the leader can be deleted.
LEMMA DropMemberInv ==
  ASSUME NEW r, RegInv(r), NEW p \in r.parties, NEW u \in User,
         r.members[p][u] # NoSession, r.leader[p] # u
  PROVE  RegInv(DropMember(r, p, u))
<1>1. r \in Registry /\ p \in PartyID
  BY DEF RegInv, Registry
<1> SUFFICES ASSUME NEW d, MemberDropped(r, p, u, d)
             PROVE  RegInv(d)
  BY <1>1, DropMemberAt
<1>2. /\ OwnSessions(r) /\ Blank(r) /\ Led(r) /\ Disjoint(r)
      /\ SingleParty => Indexed(r)
  BY DEF RegInv
<1>3. OwnSessions(d)
  <2> SUFFICES ASSUME NEW q \in PartyID, NEW v \in User, NEW s \in Session,
                      d.members[q][v] = s \/ d.requests[q][v] = s
               PROVE  Owner[s] = v
    BY DEF OwnSessions
  <2> QED
    BY <1>1, <1>2, Constants DEF OwnSessions, MemberDropped
<1>4. Blank(d)
  BY <1>1, <1>2 DEF Blank, MemberDropped
<1>5. Led(d)
  <2> SUFFICES ASSUME NEW q \in d.parties
               PROVE  d.leader[q] \in User /\ d.members[q][d.leader[q]] # NoSession
    BY DEF Led
  <2>1. /\ q \in PartyID /\ q \in r.parties /\ d.leader[q] = r.leader[q]
        /\ r.leader[q] \in User /\ r.members[q][r.leader[q]] # NoSession
    BY <1>1, <1>2 DEF Led, MemberDropped, Registry
  <2> QED
    BY <2>1 DEF MemberDropped
<1>6. Disjoint(d)
  BY <1>1, <1>2 DEF Disjoint, MemberDropped, Registry
<1>7. ASSUME SingleParty PROVE Indexed(d)
  <2>1. ASSUME NEW v \in User, NEW q \in PartyID
        PROVE  d.byUser[v] = q <=> d.members[q][v] # NoSession
    BY <1>1, <1>2, <1>7, Constants DEF Indexed, MemberDropped
  <2>2. ASSUME NEW s \in Session, NEW q \in PartyID
        PROVE  d.bySess[s] = q <=> d.members[q][Owner[s]] = s
    <3>1. Owner[s] \in User /\ NoParty # q /\ NoSession # s
      BY Constants
    <3>2. r.members[p][u] \in Session /\ Owner[r.members[p][u]] = u
      BY <1>1, <1>2 DEF OwnSessions, Registry
    <3>3. CASE s = r.members[p][u]
      BY <1>1, <1>2, <1>7, <3>1, <3>2, <3>3 DEF Indexed, MemberDropped
    <3>4. CASE s # r.members[p][u]
      BY <1>1, <1>2, <1>7, <3>1, <3>2, <3>4 DEF Indexed, MemberDropped
    <3> QED
      BY <3>3, <3>4
  <2> QED
    BY <2>1, <2>2 DEF Indexed
<1> QED
  BY <1>3, <1>4, <1>5, <1>6, <1>7 DEF RegInv, MemberDropped

\* d is r without the join request of u.
RequestDropped(r, p, u, d) ==
  /\ d \in Registry
  /\ d.parties = r.parties
  /\ d.leader = r.leader
  /\ d.maxSize = r.maxSize
  /\ d.members = r.members
  /\ d.byUser = r.byUser
  /\ d.bySess = r.bySess
  /\ d.notified = r.notified
  /\ \A q \in PartyID, v \in User :
       d.requests[q][v] = IF q = p /\ v = u THEN NoSession ELSE r.requests[q][v]

\* DropRequest deletes one pending request.
LEMMA DropRequestAt ==
  ASSUME NEW r \in Registry, NEW p \in PartyID, NEW u \in User
  PROVE  RequestDropped(r, p, u, DropRequest(r, p, u))
<1> DEFINE d == DropRequest(r, p, u)
<1>1. d \in Registry
  BY DEF Registry, DropRequest
<1>2. \A q \in PartyID, v \in User :
        d.requests[q][v] = IF q = p /\ v = u THEN NoSession ELSE r.requests[q][v]
  BY DEF Registry, DropRequest
<1>3. /\ d.parties = r.parties /\ d.leader = r.leader /\ d.maxSize = r.maxSize
      /\ d.members = r.members /\ d.byUser = r.byUser /\ d.bySess = r.bySess
      /\ d.notified = r.notified
  BY DEF Registry, DropRequest
<1> QED
  BY <1>1, <1>2, <1>3 DEF RequestDropped

\* A pending request can be deleted at any time.
LEMMA DropRequestInv ==
  ASSUME NEW r, RegInv(r), NEW p \in PartyID, NEW u \in User
  PROVE  RegInv(DropRequest(r, p, u))
<1>1. r \in Registry
  BY DEF RegInv
<1> SUFFICES ASSUME NEW d, RequestDropped(r, p, u, d)
             PROVE  RegInv(d)
  BY <1>1, DropRequestAt
<1>2. /\ OwnSessions(r) /\ Blank(r) /\ Led(r) /\ Disjoint(r)
      /\ SingleParty => Indexed(r)
  BY DEF RegInv
<1>3. OwnSessions(d)
  <2> SUFFICES ASSUME NEW q \in PartyID, NEW v \in User, NEW s \in Session,
                      d.members[q][v] = s \/ d.requests[q][v] = s
               PROVE  Owner[s] = v
    BY DEF OwnSessions
  <2> QED
    BY <1>1, <1>2, Constants DEF OwnSessions, RequestDropped
<1>4. Blank(d)
  BY <1>1, <1>2 DEF Blank, RequestDropped
<1>5. Led(d)
  BY <1>1, <1>2 DEF Led, RequestDropped
<1>6. Disjoint(d)
  <2> SUFFICES ASSUME NEW q \in r.parties, NEW v \in User
               PROVE  d.members[q][v] = NoSession \/ d.requests[q][v] = NoSession
    BY DEF Disjoint, RequestDropped
  <2> QED
    BY <1>1, <1>2 DEF Disjoint, RequestDropped, Registry
<1>7. SingleParty => Indexed(d)
  BY <1>2 DEF Indexed, RequestDropped
<1> QED
  BY <1>3, <1>4, <1>5, <1>6, <1>7 DEF RegInv, RequestDropped

\* A user who is in no party can become a member of a party that has a leader,
\* or be the first member of a party whose leader he is.
LEMMA AddMemberInv ==
  ASSUME NEW r, NEW p \in r.parties, NEW u \in User, NEW s \in Session,
         Owner[s] = u,
         r \in Registry, OwnSessions(r), Blank(r), Disjoint(r),
         SingleParty => Indexed(r) /\ \A q \in PartyID : r.members[q][u] = NoSession,
         \A q \in r.parties :
           /\ r.leader[q] \in User
           /\ r.members[q][r.leader[q]] # NoSession \/ (q = p /\ r.leader[q] = u)
  PROVE  RegInv(AddMember(r, p, u, s))
<1>1. p \in PartyID
  BY DEF Registry
<1> SUFFICES ASSUME NEW a, MemberAdded(r, p, u, s, a)
             PROVE  RegInv(a)
  BY <1>1, AddMemberAt
<1>3. OwnSessions(a)
  <2> SUFFICES ASSUME NEW q \in PartyID, NEW v \in User, NEW t \in Session,
                      a.members[q][v] = t \/ a.requests[q][v] = t
               PROVE  Owner[t] = v
    BY DEF OwnSessions
  <2> QED
    BY <1>1, Constants DEF OwnSessions, MemberAdded
<1>4. Blank(a)
  BY <1>1 DEF Blank, MemberAdded
<1>5. Led(a)
  <2> SUFFICES ASSUME NEW q \in a.parties
               PROVE  a.leader[q] \in User /\ a.members[q][a.leader[q]] # NoSession
    BY DEF Led
  <2>1. /\ q \in PartyID /\ q \in r.parties /\ a.leader[q] = r.leader[q]
        /\ r.leader[q] \in User /\ s # NoSession
    BY <1>1, Constants DEF MemberAdded, Registry
  <2> QED
    BY <2>1 DEF MemberAdded
<1>6. Disjoint(a)
  <2> SUFFICES ASSUME NEW q \in r.parties, NEW v \in User
               PROVE  a.members[q][v] = NoSession \/ a.requests[q][v] = NoSession
    BY DEF Disjoint, MemberAdded
  <2> QED
    BY <1>1 DEF Disjoint, MemberAdded, Registry
<1>7. ASSUME SingleParty PROVE Indexed(a)
  <2>1. ASSUME NEW v \in User, NEW q \in PartyID
        PROVE  a.byUser[v] = q <=> a.members[q][v] # NoSession
    BY <1>1, <1>7, Constants DEF Indexed, MemberAdded
  <2>2. ASSUME NEW t \in Session, NEW q \in PartyID
        PROVE  a.bySess[t] = q <=> a.members[q][Owner[t]] = t
    <3>1. Owner[t] \in User /\ NoParty # q /\ NoSession # t
      BY Constants
    <3>2. CASE t = s
      BY <1>1, <1>7, <3>1, <3>2 DEF Indexed, MemberAdded
    <3>3. CASE t # s
      BY <1>1, <1>7, <3>1, <3>3 DEF Indexed, MemberAdded
    <3> QED
      BY <3>2, <3>3
  <2> QED
    BY <2>1, <2>2 DEF Indexed
<1> QED
  BY <1>3, <1>4, <1>5, <1>6, <1>7 DEF RegInv, MemberAdded

-----------------------------------------------------------------------------
(* leaveLocked.                                                            *)

\* l is what is left of r when u has left p, as far as the callers care:
\* entries are only deleted, only entries of p, and the hook is told.
Left(r, p, u, l) ==
  /\ l.parties \subseteq r.parties
  /\ \A q \in r.parties : q # p => q \in l.parties
  /\ \A q \in l.parties : l.maxSize[q] = r.maxSize[q]
  /\ \A q \in PartyID, v \in User :
       /\ l.members[q][v] \in {NoSession, r.members[q][v]}
       /\ l.requests[q][v] \in {NoSession, r.requests[q][v]}
       /\ q # p => /\ l.members[q][v] = r.members[q][v]
                   /\ l.requests[q][v] = r.requests[q][v]
       /\ q = p /\ v = u => l.members[q][v] = NoSession
       /\ l.members[q][v] # r.members[q][v] => q \in l.notified
  /\ r.notified \subseteq l.notified

\* Leaving a party one is no member of: at most a request goes.
LEMMA LeaveAsOutsider ==
  ASSUME NEW r, RegInv(r), NEW p \in PartyID \cup {NoParty}, NEW u \in User, NEW h,
         ~IsMember(r, p, u)
  PROVE  RegInv(LeaveLocked(r, p, u, h)) /\ Left(r, p, u, LeaveLocked(r, p, u, h))
<1>1. r \in Registry /\ Blank(r)
  BY DEF RegInv
<1>2. \A q \in PartyID : q = p => r.members[q][u] = NoSession
  BY <1>1 DEF IsMember, Blank
<1>3. CASE p \in r.parties
  <2>1. p \in PartyID
    BY <1>1, <1>3 DEF Registry
  <2>2. LeaveLocked(r, p, u, h) = DropRequest(r, p, u)
    BY <1>3 DEF LeaveLocked
  <2>3. RequestDropped(r, p, u, DropRequest(r, p, u))
    BY <1>1, <2>1, DropRequestAt
  <2>4. Left(r, p, u, DropRequest(r, p, u))
    BY <1>2, <2>3 DEF RequestDropped, Left
  <2> QED
    BY <2>1, <2>2, <2>4, DropRequestInv
<1>4. CASE p \notin r.parties
  <2>1. LeaveLocked(r, p, u, h) = r
    BY <1>4 DEF LeaveLocked
  <2> QED
    BY <1>2, <2>1 DEF Left
<1> QED
  BY <1>3, <1>4

\* The last member leaves: the party is dissolved.
LEMMA LeaveLast ==
  ASSUME NEW r, RegInv(r), NEW p \in PartyID, NEW u \in User, NEW h,
         IsMember(r, p, u), MembersOf(r, p) = {u}
  PROVE  RegInv(LeaveLocked(r, p, u, h)) /\ Left(r, p, u, LeaveLocked(r, p, u, h))
<1>1. /\ r \in Registry /\ OwnSessions(r) /\ Blank(r) /\ Led(r) /\ Disjoint(r)
      /\ SingleParty => Indexed(r)
  BY DEF RegInv
<1>2. p \in r.parties /\ r.members[p][u] # NoSession
  BY DEF IsMember
<1>3. \A v \in User : v # u => r.members[p][v] = NoSession
  BY <1>2 DEF MembersOf, IsMember
<1>4. LeaveLocked(r, p, u, h) = Notify(Drop(DropMember(r, p, u), p), p)
  BY DEF LeaveLocked
<1> SUFFICES ASSUME NEW m, MemberDropped(r, p, u, m),
                    NEW d, Dropped(m, p, d)
             PROVE  RegInv(Notify(d, p)) /\ Left(r, p, u, Notify(d, p))
  <2>1. MemberDropped(r, p, u, DropMember(r, p, u))
    BY <1>1, DropMemberAt
  <2>2. Dropped(DropMember(r, p, u), p, Drop(DropMember(r, p, u), p))
    BY <2>1, DropAt DEF MemberDropped
  <2> QED
    BY <1>4, <2>1, <2>2
<1>5. /\ d.parties = r.parties \ {p}
      /\ \A q \in PartyID, v \in User :
           /\ d.members[q][v] = IF q = p THEN NoSession ELSE r.members[q][v]
           /\ d.requests[q][v] = IF q = p THEN NoSession ELSE r.requests[q][v]
      /\ \A q \in PartyID : q # p => /\ d.leader[q] = r.leader[q]
                                     /\ d.maxSize[q] = r.maxSize[q]
      /\ \A v \in User : d.byUser[v] = IF v = u THEN NoParty ELSE r.byUser[v]
      /\ \A s \in Session :
           d.bySess[s] = IF s = r.members[p][u] THEN NoParty ELSE r.bySess[s]
  BY DEF MemberDropped, Dropped
<1>6. d \in Registry
  BY DEF Dropped
<1>7. RegInv(d)
  <2>1. OwnSessions(d)
    <3> SUFFICES ASSUME NEW q \in PartyID, NEW v \in User, NEW s \in Session,
                        d.members[q][v] = s \/ d.requests[q][v] = s
                 PROVE  Owner[s] = v
      BY DEF OwnSessions
    <3> QED
      BY <1>1, <1>5, Constants DEF OwnSessions
  <2>2. Blank(d)
    BY <1>1, <1>5 DEF Blank
  <2>3. Led(d)
    <3> SUFFICES ASSUME NEW q \in r.parties, q # p
                 PROVE  d.leader[q] \in User /\ d.members[q][d.leader[q]] # NoSession
      BY <1>5 DEF Led
    <3>1. q \in PartyID /\ d.leader[q] = r.leader[q] /\ r.leader[q] \in User
      BY <1>1, <1>5 DEF Led, Registry
    <3> QED
      BY <1>1, <1>5, <3>1 DEF Led
  <2>4. Disjoint(d)
    BY <1>1, <1>5 DEF Disjoint, Registry
  <2>5. ASSUME SingleParty PROVE Indexed(d)
    <3>1. ASSUME NEW v \in User, NEW q \in PartyID
          PROVE  d.byUser[v] = q <=> d.members[q][v] # NoSession
      <4>1. CASE v = u
        BY <1>1, <1>2, <1>5, <2>5, <4>1, Constants DEF Indexed
      <4>2. CASE v # u
        BY <1>1, <1>3, <1>5, <2>5, <4>2, Constants DEF Indexed
      <4> QED
        BY <4>1, <4>2
    <3>2. ASSUME NEW s \in Session, NEW q \in PartyID
          PROVE  d.bySess[s] = q <=> d.members[q][Owner[s]] = s
      <4>1. Owner[s] \in User /\ NoParty # q /\ NoSession # s
        BY Constants
      <4>2. r.members[p][u] \in Session /\ Owner[r.members[p][u]] = u
        BY <1>1, <1>2 DEF OwnSessions, Registry
      <4>3. CASE s = r.members[p][u]
        BY <1>1, <1>2, <1>5, <2>5, <4>1, <4>2, <4>3 DEF Indexed
      <4>4. CASE s # r.members[p][u]
        BY <1>1, <1>3, <1>5, <2>5, <4>1, <4>2, <4>4 DEF Indexed
      <4> QED
        BY <4>3, <4>4
    <3> QED
      BY <3>1, <3>2 DEF Indexed
  <2> QED
    BY <1>6, <2>1, <2>2, <2>3, <2>4, <2>5 DEF RegInv
<1>8. Left(r, p, u, Notify(d, p))
  <2>1. /\ Notify(d, p).parties = d.parties /\ Notify(d, p).maxSize = d.maxSize
        /\ Notify(d, p).members = d.members /\ Notify(d, p).requests = d.requests
        /\ Notify(d, p).notified = r.notified \cup {p}
    BY <1>6, NotifyAt DEF Dropped, MemberDropped
  <2> QED
    BY <1>1, <1>5, <2>1 DEF Left, Registry
<1> QED
  BY <1>7, <1>8, NotifyInv

\* A member leaves and others stay: if he led the party, h leads it now.
LEMMA LeaveOthers ==
  ASSUME NEW r, RegInv(r), NEW p \in PartyID, NEW u \in User, NEW h \in Heirs(r, p, u),
         IsMember(r, p, u), MembersOf(r, p) # {u}
  PROVE  RegInv(LeaveLocked(r, p, u, h)) /\ Left(r, p, u, LeaveLocked(r, p, u, h))
<1>1. /\ r \in Registry /\ OwnSessions(r) /\ Blank(r) /\ Led(r) /\ Disjoint(r)
      /\ SingleParty => Indexed(r)
  BY DEF RegInv
<1>2. p \in r.parties /\ r.members[p][u] # NoSession
  BY DEF IsMember
<1>3. h \in User /\ h # u /\ r.members[p][h] # NoSession
  <2>1. MembersOf(r, p) \ {u} # {}
    BY <1>2 DEF MembersOf, IsMember
  <2>2. h \in MembersOf(r, p) \ {u}
    BY <2>1 DEF Heirs
  <2> QED
    BY <2>2 DEF MembersOf, IsMember
<1> DEFINE heired(m) == [m EXCEPT !.leader[p] = IF @ = u THEN h ELSE @]
<1>4. LeaveLocked(r, p, u, h) = Notify(heired(DropMember(r, p, u)), p)
  BY <1>2 DEF LeaveLocked, IsMember
<1> SUFFICES ASSUME NEW m, MemberDropped(r, p, u, m)
             PROVE  /\ RegInv(Notify(heired(m), p))
                    /\ Left(r, p, u, Notify(heired(m), p))
  BY <1>1, <1>4, DropMemberAt
<1> DEFINE d == heired(m)
<1>5. /\ d \in Registry
      /\ d.parties = m.parties /\ d.maxSize = m.maxSize
      /\ d.members = m.members /\ d.requests = m.requests
      /\ d.byUser = m.byUser /\ d.bySess = m.bySess /\ d.notified = m.notified
      /\ \A q \in PartyID :
           d.leader[q] = IF q = p /\ m.leader[p] = u THEN h ELSE m.leader[q]
  BY <1>3 DEF MemberDropped, Registry
<1> HIDE DEF d, heired
<1>6. OwnSessions(d)
  <2> SUFFICES ASSUME NEW q \in PartyID, NEW v \in User, NEW s \in Session,
                      d.members[q][v] = s \/ d.requests[q][v] = s
               PROVE  Owner[s] = v
    BY DEF OwnSessions
  <2> QED
    BY <1>1, <1>5, Constants DEF OwnSessions, MemberDropped
<1>7. Blank(d)
  BY <1>1, <1>5 DEF Blank, MemberDropped
<1>8. Led(d)
  <2> SUFFICES ASSUME NEW q \in r.parties
               PROVE  d.leader[q] \in User /\ d.members[q][d.leader[q]] # NoSession
    BY <1>5 DEF Led, MemberDropped
  <2>1. q \in PartyID /\ r.leader[q] \in User /\ r.members[q][r.leader[q]] # NoSession
    BY <1>1 DEF Led, Registry
  <2>2. CASE q = p /\ r.leader[p] = u
    BY <1>3, <1>5, <2>1, <2>2 DEF MemberDropped
  <2>3. CASE ~(q = p /\ r.leader[p] = u)
    BY <1>5, <2>1, <2>3 DEF MemberDropped
  <2> QED
    BY <2>2, <2>3
<1>9. Disjoint(d)
  BY <1>1, <1>5 DEF Disjoint, MemberDropped, Registry
<1>10. ASSUME SingleParty PROVE Indexed(d)
  <2>1. ASSUME NEW v \in User, NEW q \in PartyID
        PROVE  d.byUser[v] = q <=> d.members[q][v] # NoSession
    BY <1>1, <1>2, <1>5, <1>10, Constants DEF Indexed, MemberDropped
  <2>2. ASSUME NEW s \in Session, NEW q \in PartyID
        PROVE  d.bySess[s] = q <=> d.members[q][Owner[s]] = s
    <3>1. Owner[s] \in User /\ NoParty # q /\ NoSession # s
      BY Constants
    <3>2. r.members[p][u] \in Session /\ Owner[r.members[p][u]] = u
      BY <1>1, <1>2 DEF OwnSessions, Registry
    <3>3. CASE s = r.members[p][u]
      BY <1>1, <1>5, <1>10, <3>1, <3>2, <3>3 DEF Indexed, MemberDropped
    <3>4. CASE s # r.members[p][u]
      BY <1>1, <1>5, <1>10, <3>1, <3>2, <3>4 DEF Indexed, MemberDropped
    <3> QED
      BY <3>3, <3>4
  <2> QED
    BY <2>1, <2>2 DEF Indexed
<1>11. RegInv(d)
  BY <1>5, <1>6, <1>7, <1>8, <1>9, <1>10 DEF RegInv
<1>12. Left(r, p, u, Notify(d, p))
  <2>1. /\ Notify(d, p).parties = r.parties /\ Notify(d, p).maxSize = r.maxSize
        /\ Notify(d, p).members = m.members /\ Notify(d, p).requests = r.requests
        /\ Notify(d, p).notified = r.notified \cup {p}
    BY <1>5, NotifyAt DEF MemberDropped
  <2> QED
    BY <1>1, <2>1 DEF Left, Registry, MemberDropped
<1> QED
  BY <1>11, <1>12, NotifyInv DEF d

\* leaveLocked preserves the invariant, whoever leaves and whoever is the heir.
LEMMA LeaveInv ==
  ASSUME NEW r, RegInv(r), NEW p \in PartyID \cup {NoParty}, NEW u \in User,
         NEW h \in Heirs(r, p, u)
  PROVE  RegInv(LeaveLocked(r, p, u, h)) /\ Left(r, p, u, LeaveLocked(r, p, u, h))
<1>1. CASE ~IsMember(r, p, u)
  BY <1>1, LeaveAsOutsider
<1>2. CASE IsMember(r, p, u)
  <2>1. p \in PartyID
    BY <1>2 DEF IsMember, RegInv, Registry
  <2> QED
    BY <1>2, <2>1, LeaveLast, LeaveOthers
<1> QED
  BY <1>1, <1>2

-----------------------------------------------------------------------------
(* The size bound, and the membership hook.                                *)

Sized(r) ==
  \A p \in r.parties :
    /\ Cardinality(MembersOf(r, p)) <= r.maxSize[p]
    /\ Cardinality(RequestersOf(r, p)) <= r.maxSize[p]

\* The members and the requesters of a party are finitely many.
LEMMA FiniteMembers ==
  ASSUME NEW r, NEW p
  PROVE  /\ IsFiniteSet(MembersOf(r, p)) /\ IsFiniteSet(RequestersOf(r, p))
         /\ Cardinality(MembersOf(r, p)) \in Nat
         /\ Cardinality(RequestersOf(r, p)) \in Nat
<1>1. MembersOf(r, p) \subseteq User /\ RequestersOf(r, p) \subseteq User
  BY DEF MembersOf, RequestersOf
<1> QED
  BY <1>1, PartyAssumption, FS_Subset, FS_CardinalityType DEF PartyAssumption

\* Deleting entries keeps the bound.
LEMMA ShrinkSized ==
  ASSUME NEW r \in Registry, Sized(r), NEW l \in Registry,
         l.parties \subseteq r.parties,
         \A q \in l.parties : l.maxSize[q] = r.maxSize[q],
         \A q \in l.parties, v \in User :
           /\ l.members[q][v] \in {NoSession, r.members[q][v]}
           /\ l.requests[q][v] \in {NoSession, r.requests[q][v]}
  PROVE  Sized(l)
<1> SUFFICES ASSUME NEW q \in l.parties
             PROVE  /\ Cardinality(MembersOf(l, q)) <= l.maxSize[q]
                    /\ Cardinality(RequestersOf(l, q)) <= l.maxSize[q]
  BY DEF Sized
<1>1. /\ MembersOf(l, q) \subseteq MembersOf(r, q)
      /\ RequestersOf(l, q) \subseteq RequestersOf(r, q)
  BY DEF MembersOf, RequestersOf, IsMember, IsPending
<1>2. /\ Cardinality(MembersOf(l, q)) <= Cardinality(MembersOf(r, q))
      /\ Cardinality(RequestersOf(l, q)) <= Cardinality(RequestersOf(r, q))
  BY <1>1, FiniteMembers, FS_Subset
<1>3. q \in PartyID /\ l.maxSize[q] \in Nat
  BY DEF Registry
<1> QED
  BY <1>2, <1>3, FiniteMembers DEF Sized

\* A party with room can take one more member.
LEMMA GrowSized ==
  ASSUME NEW r \in Registry, Sized(r), NEW p \in r.parties, NEW u \in User,
         NEW s \in Session, HasRoom(r, p),
         NEW a, MemberAdded(r, p, u, s, a)
  PROVE  Sized(a)
<1> SUFFICES ASSUME NEW q \in r.parties
             PROVE  /\ Cardinality(MembersOf(a, q)) <= a.maxSize[q]
                    /\ Cardinality(RequestersOf(a, q)) <= a.maxSize[q]
  BY DEF Sized, MemberAdded
<1>1. /\ q \in PartyID /\ q \in a.parties
      /\ a.maxSize[q] = r.maxSize[q] /\ r.maxSize[q] \in Nat
  BY DEF MemberAdded, Registry
<1>2. RequestersOf(a, q) \subseteq RequestersOf(r, q)
  BY <1>1 DEF RequestersOf, IsPending, MemberAdded
<1>3. Cardinality(RequestersOf(a, q)) <= Cardinality(RequestersOf(r, q))
  BY <1>2, FiniteMembers, FS_Subset
<1>4. CASE q # p
  <2>1. MembersOf(a, q) = MembersOf(r, q)
    BY <1>1, <1>4 DEF MembersOf, IsMember, MemberAdded
  <2> QED
    BY <1>1, <1>3, <2>1, FiniteMembers DEF Sized
<1>5. CASE q = p
  <2>1. MembersOf(a, q) \subseteq MembersOf(r, q) \cup {u}
    BY <1>1, <1>5 DEF MembersOf, IsMember, MemberAdded
  <2>2. /\ IsFiniteSet(MembersOf(r, q) \cup {u})
        /\ Cardinality(MembersOf(r, q) \cup {u}) <= Cardinality(MembersOf(r, q)) + 1
    <3>1. IsFiniteSet(MembersOf(r, q)) /\ Cardinality(MembersOf(r, q)) \in Nat
      BY FiniteMembers
    <3>2. /\ IsFiniteSet(MembersOf(r, q) \cup {u})
          /\ Cardinality(MembersOf(r, q) \cup {u}) =
               IF u \in MembersOf(r, q) THEN Cardinality(MembersOf(r, q))
               ELSE Cardinality(MembersOf(r, q)) + 1
      BY <3>1, FS_AddElement
    <3> QED
      BY <3>1, <3>2
  <2>3. Cardinality(MembersOf(a, q)) <= Cardinality(MembersOf(r, q) \cup {u})
    BY <2>1, <2>2, FS_Subset
  <2>4. Cardinality(MembersOf(r, q) \cup {u}) \in Nat
    BY <2>2, FS_CardinalityType
  <2> QED
    BY <1>1, <1>3, <1>5, <2>2, <2>3, <2>4, FiniteMembers DEF Sized, HasRoom
<1> QED
  BY <1>4, <1>5

\* A step from r to n that changes the members of a party of r tells the hook.
Hooked(r, n) ==
  \A p \in r.parties : MembersOf(n, p) # MembersOf(r, p) => p \in n.notified

\* A step calls the hook as it should if the parties whose entries it changed
\* are among those it notified.
LEMMA HookedByEntries ==
  ASSUME NEW r \in Registry, NEW n \in Registry, Blank(n),
         \A q \in r.parties, v \in User :
           n.members[q][v] # r.members[q][v] => q \in n.notified
  PROVE  Hooked(r, n)
<1> SUFFICES ASSUME NEW p \in r.parties, p \notin n.notified
             PROVE  MembersOf(n, p) = MembersOf(r, p)
  BY DEF Hooked
<1>1. p \in PartyID /\ \A v \in User : n.members[p][v] = r.members[p][v]
  BY DEF Registry
<1>2. p \notin n.parties => \A v \in User : n.members[p][v] = NoSession
  BY <1>1 DEF Blank
<1> QED
  BY <1>1, <1>2 DEF MembersOf, IsMember

\* What a step must establish.
Good(r, n) == RegInv(n) /\ Sized(n) /\ Hooked(r, n)

-----------------------------------------------------------------------------
(* The steps.                                                              *)

\* The start of a method keeps the bound on the size of the parties.
LEMMA BeginGood ==
  ASSUME NEW r, RegInv(r), Sized(r)
  PROVE  /\ RegInv(Begin(r)) /\ Sized(Begin(r)) /\ Begin(r) \in Registry
         /\ Begin(r).parties = r.parties /\ Begin(r).leader = r.leader
         /\ Begin(r).maxSize = r.maxSize
         /\ Begin(r).members = r.members /\ Begin(r).requests = r.requests
         /\ Begin(r).byUser = r.byUser /\ Begin(r).bySess = r.bySess
         /\ Begin(r).joinedBefore = r.joinedBefore
<1> r \in Registry
  BY DEF RegInv
<1> QED
  BY BeginInv, BeginAt DEF Sized, MembersOf, RequestersOf, IsMember, IsPending

\* Heirs only looks at the fields that Begin keeps.
LEMMA HeirsBegin ==
  ASSUME NEW r \in Registry, NEW p, NEW u
  PROVE  Heirs(Begin(r), p, u) = Heirs(r, p, u)
BY BeginAt DEF Heirs, MembersOf, IsMember

\* A user in no party is added to a party with room.
LEMMA AddGood ==
  ASSUME NEW r, RegInv(r), Sized(r), NEW p \in r.parties,
         NEW u \in User, NEW s \in Session, Owner[s] = u, HasRoom(r, p),
         SingleParty => \A q \in PartyID : r.members[q][u] = NoSession
  PROVE  /\ RegInv(Notify(AddMember(r, p, u, s), p))
         /\ Sized(Notify(AddMember(r, p, u, s), p))
<1>1. r \in Registry /\ p \in PartyID
  BY DEF RegInv, Registry
<1>2. RegInv(AddMember(r, p, u, s))
  <2>1. \A q \in r.parties :
          r.leader[q] \in User /\ r.members[q][r.leader[q]] # NoSession
    BY DEF RegInv, Led
  <2> QED
    BY <1>1, <2>1, AddMemberInv DEF RegInv
<1>3. MemberAdded(r, p, u, s, AddMember(r, p, u, s))
  BY <1>1, AddMemberAt
<1>4. Sized(AddMember(r, p, u, s))
  BY <1>1, <1>3, GrowSized
<1>5. AddMember(r, p, u, s) \in Registry
  BY <1>3 DEF MemberAdded
<1>6. Sized(Notify(AddMember(r, p, u, s), p))
  <2> SUFFICES ASSUME NEW a, a \in Registry, Sized(a)
               PROVE  Sized(Notify(a, p))
    BY <1>4, <1>5
  <2>1. /\ Notify(a, p).parties = a.parties /\ Notify(a, p).maxSize = a.maxSize
        /\ Notify(a, p).members = a.members /\ Notify(a, p).requests = a.requests
    BY <1>1, NotifyAt
  <2> QED
    BY <2>1 DEF Sized, MembersOf, RequestersOf, IsMember, IsPending
<1> QED
  BY <1>1, <1>2, <1>6, NotifyInv

\* Leaving preserves the whole invariant and calls the hook.
LEMMA LeaveGood ==
  ASSUME RegInv(reg), Sized(reg), NEW p \in PartyID, NEW u \in User,
         NEW h \in Heirs(reg, p, u), reg' = LeaveLocked(Begin(reg), p, u, h)
  PROVE  Good(reg, reg')
<1>1. reg \in Registry
  BY DEF RegInv
<1>2. RegInv(reg') /\ Left(Begin(reg), p, u, reg')
  BY <1>1, BeginGood, HeirsBegin, LeaveInv
<1>3. reg' \in Registry /\ Blank(reg')
  BY <1>2 DEF RegInv
<1>4. \A q \in reg.parties : q \in PartyID
  BY <1>1 DEF Registry
<1>5. Sized(reg')
  <2>1. \A q \in reg'.parties : q \in PartyID
    BY <1>3 DEF Registry
  <2> QED
    BY <1>1, <1>2, <1>3, <2>1, BeginGood, ShrinkSized DEF Left
<1>6. Hooked(reg, reg')
  BY <1>1, <1>2, <1>3, <1>4, BeginGood, HookedByEntries DEF Left
<1> QED
  BY <1>2, <1>5, <1>6 DEF Good

\* Join of an open party enters the session or changes nothing.
LEMMA JoinOpenGood ==
  ASSUME RegInv(reg), Sized(reg), NEW s \in Session, NEW p \in PartyID, JoinOpen(s, p)
  PROVE  Good(reg, reg')
<1> DEFINE u == Owner[s]
<1> DEFINE b == Begin(reg)
<1>1. /\ reg \in Registry /\ u \in User
      /\ p \in reg.parties /\ HasRoom(reg, p) /\ reg.members[p][u] = NoSession
      /\ SingleParty => reg.byUser[u] \in {NoParty, p}
      /\ reg' = Notify(AddMember(b, p, u, s), p)
  BY Constants DEF RegInv, JoinOpen, MayJoin, IsMember
<1>2. /\ RegInv(b) /\ Sized(b) /\ p \in b.parties /\ b \in Registry
      /\ b.members = reg.members
  BY <1>1, BeginGood
<1>3. HasRoom(b, p)
  BY <1>1, BeginGood DEF HasRoom, MembersOf, IsMember
<1>4. SingleParty => \A q \in PartyID : reg.members[q][u] = NoSession
  BY <1>1, Constants DEF RegInv, Indexed
<1>5. RegInv(reg') /\ Sized(reg')
  BY <1>1, <1>2, <1>3, <1>4, AddGood
<1>6. reg' \in Registry /\ Blank(reg')
  BY <1>5 DEF RegInv
<1>7. \A q \in reg.parties, v \in User :
        reg'.members[q][v] # reg.members[q][v] => q \in reg'.notified
  <2>1. MemberAdded(b, p, u, s, AddMember(b, p, u, s))
    BY <1>1, <1>2, AddMemberAt
  <2>2. /\ reg'.members = AddMember(b, p, u, s).members
        /\ p \in reg'.notified
    BY <1>1, <2>1, NotifyAt DEF MemberAdded
  <2> QED
    BY <1>1, <1>2, <2>1, <2>2 DEF MemberAdded, Registry
<1> QED
  BY <1>1, <1>5, <1>6, <1>7, HookedByEntries DEF Good

\* Join of a closed party queues a request or changes nothing.
LEMMA JoinClosedGood ==
  ASSUME RegInv(reg), Sized(reg), NEW s \in Session, NEW p \in PartyID, JoinClosed(s, p)
  PROVE  Good(reg, reg')
<1> DEFINE u == Owner[s]
<1>1. /\ reg \in Registry /\ u \in User
      /\ p \in reg.parties /\ reg.members[p][u] = NoSession
      /\ Cardinality(RequestersOf(reg, p)) < reg.maxSize[p]
      /\ reg' = [Begin(reg) EXCEPT !.requests[p][u] = s]
  BY Constants DEF RegInv, JoinClosed, MayJoin, IsMember
<1>2. /\ reg' \in Registry
      /\ reg'.parties = reg.parties /\ reg'.leader = reg.leader
      /\ reg'.maxSize = reg.maxSize /\ reg'.members = reg.members
      /\ reg'.byUser = reg.byUser /\ reg'.bySess = reg.bySess
      /\ \A q \in PartyID, v \in User :
           reg'.requests[q][v] = IF q = p /\ v = u THEN s ELSE reg.requests[q][v]
  BY <1>1, BeginGood, ZenonT(60) DEF Registry
<1>3. /\ OwnSessions(reg) /\ Blank(reg) /\ Led(reg) /\ Disjoint(reg)
      /\ SingleParty => Indexed(reg)
  BY DEF RegInv
<1>4. RegInv(reg')
  <2>1. OwnSessions(reg')
    BY <1>2, <1>3 DEF OwnSessions
  <2>2. Blank(reg')
    BY <1>1, <1>2, <1>3 DEF Blank
  <2>3. Led(reg')
    BY <1>2, <1>3 DEF Led
  <2>4. Disjoint(reg')
    BY <1>1, <1>2, <1>3 DEF Disjoint, Registry
  <2>5. SingleParty => Indexed(reg')
    BY <1>2, <1>3 DEF Indexed
  <2> QED
    BY <1>2, <2>1, <2>2, <2>3, <2>4, <2>5 DEF RegInv
<1>5. Sized(reg')
  <2> SUFFICES ASSUME NEW q \in reg.parties
               PROVE  /\ Cardinality(MembersOf(reg', q)) <= reg.maxSize[q]
                      /\ Cardinality(RequestersOf(reg', q)) <= reg.maxSize[q]
    BY <1>2 DEF Sized
  <2>1. q \in PartyID /\ reg.maxSize[q] \in Nat
    BY <1>1 DEF Registry
  <2>2. MembersOf(reg', q) = MembersOf(reg, q)
    BY <1>2 DEF MembersOf, IsMember
  <2>3. CASE q # p
    <3>1. RequestersOf(reg', q) = RequestersOf(reg, q)
      BY <1>2, <2>1, <2>3 DEF RequestersOf, IsPending
    <3> QED
      BY <2>2, <3>1 DEF Sized
  <2>4. CASE q = p
    <3>1. RequestersOf(reg', q) \subseteq RequestersOf(reg, q) \cup {u}
      BY <1>2, <2>1, <2>4 DEF RequestersOf, IsPending
    <3>2. /\ IsFiniteSet(RequestersOf(reg, q))
          /\ Cardinality(RequestersOf(reg, q)) \in Nat
          /\ Cardinality(RequestersOf(reg', q)) \in Nat
      BY FiniteMembers
    <3>3. /\ IsFiniteSet(RequestersOf(reg, q) \cup {u})
          /\ Cardinality(RequestersOf(reg, q) \cup {u}) =
               IF u \in RequestersOf(reg, q) THEN Cardinality(RequestersOf(reg, q))
               ELSE Cardinality(RequestersOf(reg, q)) + 1
      BY <3>2, FS_AddElement
    <3>4. Cardinality(RequestersOf(reg', q)) <= Cardinality(RequestersOf(reg, q) \cup {u})
      BY <3>1, <3>3, FS_Subset
    <3> QED
      BY <1>1, <2>1, <2>2, <2>4, <3>2, <3>3, <3>4 DEF Sized
  <2> QED
    BY <2>3, <2>4
<1>6. Hooked(reg, reg')
  BY <1>2 DEF Hooked, MembersOf, IsMember
<1> QED
  BY <1>4, <1>5, <1>6 DEF Good

\* Promote and Update change one field of one party, and no membership.
LEMMA SameMembersGood ==
  ASSUME RegInv(reg), Sized(reg), NEW n \in Registry,
         n.parties = reg.parties, n.maxSize = reg.maxSize,
         n.members = reg.members, n.requests = reg.requests,
         n.byUser = reg.byUser, n.bySess = reg.bySess, Led(n)
  PROVE  Good(reg, n)
<1>1. RegInv(n)
  BY DEF RegInv, OwnSessions, Blank, Disjoint, Indexed
<1>2. Sized(n) /\ Hooked(reg, n)
  BY DEF Sized, Hooked, MembersOf, RequestersOf, IsMember, IsPending
<1> QED
  BY <1>1, <1>2 DEF Good

\* Promote hands the party to another member.
LEMMA PromoteGood ==
  ASSUME RegInv(reg), Sized(reg), NEW s \in Session, NEW p \in PartyID,
         NEW t \in Session, Promote(s, p, t)
  PROVE  Good(reg, reg')
<1>1. /\ reg \in Registry /\ Owner[t] \in User /\ t # NoSession
      /\ p \in reg.parties /\ reg.members[p][Owner[t]] = t
      /\ reg' = [Begin(reg) EXCEPT !.leader[p] = Owner[t]]
  BY Constants DEF RegInv, Promote, LeaderSession
<1>2. /\ reg' \in Registry
      /\ reg'.parties = reg.parties /\ reg'.requests = reg.requests
      /\ reg'.maxSize = reg.maxSize /\ reg'.members = reg.members
      /\ reg'.byUser = reg.byUser /\ reg'.bySess = reg.bySess
      /\ \A q \in PartyID : reg'.leader[q] = IF q = p THEN Owner[t] ELSE reg.leader[q]
  BY <1>1, BeginGood DEF Registry
<1>3. Led(reg')
  <2> SUFFICES ASSUME NEW q \in reg.parties
               PROVE  /\ reg'.leader[q] \in User
                      /\ reg.members[q][reg'.leader[q]] # NoSession
    BY <1>2 DEF Led
  <2>1. q \in PartyID /\ reg.leader[q] \in User /\ reg.members[q][reg.leader[q]] # NoSession
    BY <1>1 DEF RegInv, Led, Registry
  <2> QED
    BY <1>1, <1>2, <2>1
<1> QED
  BY <1>2, <1>3, SameMembersGood

\* Update only opens or closes the party.
LEMMA UpdateGood ==
  ASSUME RegInv(reg), Sized(reg), NEW s \in Session, NEW p \in PartyID,
         NEW o \in BOOLEAN, Update(s, p, o)
  PROVE  Good(reg, reg')
<1>1. /\ reg \in Registry
      /\ reg' = [Begin(reg) EXCEPT !.open[p] = o]
  BY DEF RegInv, Update
<1>2. /\ reg' \in Registry
      /\ reg'.parties = reg.parties /\ reg'.requests = reg.requests
      /\ reg'.maxSize = reg.maxSize /\ reg'.members = reg.members
      /\ reg'.byUser = reg.byUser /\ reg'.bySess = reg.bySess
      /\ reg'.leader = reg.leader
  BY <1>1, BeginGood DEF Registry
<1>3. Led(reg')
  BY <1>2 DEF Led, RegInv
<1> QED
  BY <1>2, <1>3, SameMembersGood

\* No party is ever without members, so the sweep finds nothing to drop.
LEMMA SweepIdleGood ==
  ASSUME RegInv(reg), Sized(reg), SweepIdle
  PROVE  Good(reg, reg')
<1>1. reg \in Registry /\ Led(reg)
  BY DEF RegInv
<1>2. {p \in reg.parties : MembersOf(reg, p) # {}} = reg.parties
  <2> SUFFICES ASSUME NEW p \in reg.parties
               PROVE  reg.leader[p] \in MembersOf(reg, p)
    OBVIOUS
  <2> QED
    BY <1>1 DEF Led, MembersOf, IsMember
<1>3. reg' = [Begin(reg) EXCEPT !.parties = reg.parties]
  BY <1>1, <1>2, BeginGood DEF SweepIdle
<1>4. /\ reg' \in Registry
      /\ reg'.parties = reg.parties /\ reg'.requests = reg.requests
      /\ reg'.maxSize = reg.maxSize /\ reg'.members = reg.members
      /\ reg'.byUser = reg.byUser /\ reg'.bySess = reg.bySess
      /\ reg'.leader = reg.leader
  BY <1>3, <1>1, BeginGood DEF Registry
<1>5. Led(reg')
  BY <1>1, <1>4 DEF Led
<1> QED
  BY <1>4, <1>5, SameMembersGood

\* What is left of a registry after entries were deleted and the hook told.
LEMMA ShrinkGood ==
  ASSUME RegInv(reg), Sized(reg), NEW n, RegInv(n),
         n.parties \subseteq reg.parties,
         \A q \in n.parties : n.maxSize[q] = reg.maxSize[q],
         \A q \in PartyID, v \in User :
           /\ n.members[q][v] \in {NoSession, reg.members[q][v]}
           /\ n.requests[q][v] \in {NoSession, reg.requests[q][v]}
           /\ n.members[q][v] # reg.members[q][v] => q \in n.notified
  PROVE  Good(reg, n)
<1>1. /\ reg \in Registry /\ n \in Registry /\ Blank(n)
      /\ \A q \in reg.parties : q \in PartyID
      /\ \A q \in n.parties : q \in PartyID
  BY DEF RegInv, Registry
<1>2. Sized(n)
  BY <1>1, ShrinkSized
<1>3. Hooked(reg, n)
  BY <1>1, HookedByEntries
<1> QED
  BY <1>2, <1>3 DEF Good

\* Remove kicks a member other than the leader, or drops a request.
LEMMA RemoveGood ==
  ASSUME RegInv(reg), Sized(reg), NEW s \in Session, NEW p \in PartyID,
         NEW t \in Session, Remove(s, p, t)
  PROVE  Good(reg, reg')
<1> DEFINE u == Owner[t]
<1> DEFINE b == Begin(reg)
<1>1. /\ reg \in Registry /\ u \in User /\ t # NoSession
      /\ p \in reg.parties /\ reg.leader[p] \in User
      /\ reg.members[p][reg.leader[p]] = s
      /\ ~(s = t /\ reg.leader[p] = u)
  BY Constants DEF RegInv, Remove, LeaderSession
<1>2. /\ RegInv(b) /\ Sized(b) /\ b \in Registry
      /\ b.parties = reg.parties /\ b.leader = reg.leader
      /\ b.maxSize = reg.maxSize
      /\ b.members = reg.members /\ b.requests = reg.requests
  BY <1>1, BeginGood
<1>3. CASE reg' = DropRequest(b, p, u)
  <2>1. RequestDropped(b, p, u, reg') /\ RegInv(reg')
    BY <1>1, <1>2, <1>3, DropRequestAt, DropRequestInv
  <2> QED
    BY <1>2, <2>1, ShrinkGood DEF RequestDropped
<1>4. CASE /\ reg.members[p][u] = t
           /\ reg' = Notify(DropMember(b, p, u), p)
  <2>1. reg.leader[p] # u
    BY <1>1, <1>4
  <2>2. /\ MemberDropped(b, p, u, DropMember(b, p, u))
        /\ RegInv(DropMember(b, p, u))
    BY <1>1, <1>2, <1>4, <2>1, DropMemberAt, DropMemberInv
  <2>3. DropMember(b, p, u) \in Registry
    BY <2>2 DEF MemberDropped
  <2>4. /\ RegInv(reg')
        /\ reg'.parties = reg.parties /\ reg'.maxSize = reg.maxSize
        /\ reg'.requests = reg.requests
        /\ reg'.members = DropMember(b, p, u).members
        /\ p \in reg'.notified
    BY <1>2, <1>4, <2>2, <2>3, NotifyAt, NotifyInv DEF MemberDropped
  <2>5. \A q \in PartyID, v \in User :
          reg'.members[q][v] = IF q = p /\ v = u THEN NoSession ELSE reg.members[q][v]
    BY <1>2, <2>2, <2>4 DEF MemberDropped
  <2> QED
    BY <2>4, <2>5, ShrinkGood
<1> QED
  BY <1>3, <1>4 DEF Remove

\* LeaveSession leaves the party that bySess names, if any.
LEMMA LeaveSessionGood ==
  ASSUME RegInv(reg), Sized(reg), NEW s \in Session, LeaveSession(s)
  PROVE  Good(reg, reg')
<1> DEFINE p == reg.bySess[s]
<1> DEFINE u == Owner[s]
<1>1. reg \in Registry /\ p \in PartyID /\ u \in User /\ s # NoSession
  BY Constants DEF RegInv, LeaveSession, Registry
<1>2. CASE p \in reg.parties /\ reg.members[p][u] = s
  <2>1. PICK h \in Heirs(reg, p, u) : reg' = LeaveLocked(Begin(reg), p, u, h)
    BY <1>2 DEF LeaveSession
  <2> QED
    BY <1>1, <2>1, LeaveGood
<1>3. CASE ~(p \in reg.parties /\ reg.members[p][u] = s)
  <2>1. ~SingleParty
    BY <1>1, <1>3 DEF RegInv, Indexed, Blank
  <2> DEFINE c == [Begin(reg) EXCEPT !.bySess[s] = NoParty]
  <2>2. /\ c \in Registry
        /\ c.parties = reg.parties /\ c.leader = reg.leader
        /\ c.maxSize = reg.maxSize
        /\ c.members = reg.members /\ c.requests = reg.requests
    BY <1>1, BeginGood DEF Registry
  <2> HIDE DEF c
  <2>3. RegInv(c)
    BY <2>1, <2>2 DEF RegInv, OwnSessions, Blank, Led, Disjoint
  <2>4. CASE reg' = c
    BY <2>2, <2>3, <2>4, ShrinkGood
  <2>5. CASE reg' = DropRequest(c, p, u)
    <3>1. RequestDropped(c, p, u, reg') /\ RegInv(reg')
      BY <1>1, <2>2, <2>3, <2>5, DropRequestAt, DropRequestInv
    <3> QED
      BY <2>2, <3>1, ShrinkGood DEF RequestDropped
  <2> QED
    BY <1>3, <2>4, <2>5 DEF LeaveSession, c
<1> QED
  BY <1>2, <1>3

\* Close removes the party and the index entries of all of its members.
LEMMA CloseGood ==
  ASSUME RegInv(reg), Sized(reg), NEW s \in Session, NEW p \in PartyID, Close(s, p)
  PROVE  Good(reg, reg')
<1>1. /\ reg \in Registry /\ p \in reg.parties
      /\ OwnSessions(reg) /\ Blank(reg) /\ Led(reg) /\ Disjoint(reg)
      /\ SingleParty => Indexed(reg)
  BY DEF RegInv, Close, LeaderSession
<1> DEFINE inside == MembersOf(reg, p)
<1> DEFINE sess == {reg.members[p][u] : u \in inside}
<1> DEFINE c == [Begin(reg) EXCEPT
                   !.byUser = [u \in User |-> IF u \in inside THEN NoParty ELSE @[u]],
                   !.bySess = [x \in Session |-> IF x \in sess THEN NoParty ELSE @[x]]]
<1>2. reg' = Notify(Drop(c, p), p)
  BY DEF Close
<1>3. /\ c \in Registry
      /\ c.parties = reg.parties /\ c.leader = reg.leader
      /\ c.maxSize = reg.maxSize
      /\ c.members = reg.members /\ c.requests = reg.requests
      /\ \A v \in User : c.byUser[v] = IF v \in inside THEN NoParty ELSE reg.byUser[v]
      /\ \A x \in Session : c.bySess[x] = IF x \in sess THEN NoParty ELSE reg.bySess[x]
  BY <1>1, BeginGood, ZenonT(60) DEF Registry
<1> HIDE DEF c
<1> SUFFICES ASSUME NEW d, Dropped(c, p, d)
             PROVE  Good(reg, Notify(d, p))
  BY <1>2, <1>3, DropAt
<1>4. /\ d \in Registry /\ d.parties = reg.parties \ {p}
      /\ d.byUser = c.byUser /\ d.bySess = c.bySess
      /\ \A q \in PartyID, v \in User :
           /\ d.members[q][v] = IF q = p THEN NoSession ELSE reg.members[q][v]
           /\ d.requests[q][v] = IF q = p THEN NoSession ELSE reg.requests[q][v]
      /\ \A q \in PartyID : q # p => /\ d.leader[q] = reg.leader[q]
                                     /\ d.maxSize[q] = reg.maxSize[q]
  BY <1>3 DEF Dropped
<1>5. OwnSessions(d)
  <2> SUFFICES ASSUME NEW q \in PartyID, NEW v \in User, NEW x \in Session,
                      d.members[q][v] = x \/ d.requests[q][v] = x
               PROVE  Owner[x] = v
    BY DEF OwnSessions
  <2> QED
    BY <1>1, <1>4, Constants DEF OwnSessions
<1>6. Blank(d)
  BY <1>1, <1>4 DEF Blank
<1>7. Led(d)
  <2> SUFFICES ASSUME NEW q \in reg.parties, q # p
               PROVE  d.leader[q] \in User /\ d.members[q][d.leader[q]] # NoSession
    BY <1>4 DEF Led
  <2>1. q \in PartyID /\ d.leader[q] = reg.leader[q] /\ reg.leader[q] \in User
    BY <1>1, <1>4 DEF Led, Registry
  <2> QED
    BY <1>1, <1>4, <2>1 DEF Led
<1>8. Disjoint(d)
  BY <1>1, <1>4 DEF Disjoint, Registry
<1>9. ASSUME SingleParty PROVE Indexed(d)
  <2>1. ASSUME NEW v \in User, NEW q \in PartyID
        PROVE  d.byUser[v] = q <=> d.members[q][v] # NoSession
    <3>1. v \in inside <=> reg.byUser[v] = p
      BY <1>1, <1>9 DEF Indexed, MembersOf, IsMember, Registry
    <3> HIDE DEF inside
    <3> QED
      BY <1>1, <1>3, <1>4, <1>9, <3>1, Constants DEF Indexed
  <2>2. ASSUME NEW x \in Session, NEW q \in PartyID
        PROVE  d.bySess[x] = q <=> d.members[q][Owner[x]] = x
    <3>1. Owner[x] \in User /\ NoParty # q /\ NoSession # x
      BY Constants
    <3>2. x \in sess <=> reg.members[p][Owner[x]] = x
      BY <1>1, <3>1 DEF MembersOf, IsMember, OwnSessions, Registry
    <3> HIDE DEF sess, inside
    <3>3. p \in PartyID
      BY <1>1 DEF Registry
    <3> QED
      BY <1>1, <1>3, <1>4, <1>9, <3>1, <3>2, <3>3 DEF Indexed
  <2> QED
    BY <2>1, <2>2 DEF Indexed
<1>10. RegInv(d)
  BY <1>4, <1>5, <1>6, <1>7, <1>8, <1>9 DEF RegInv
<1>11. /\ RegInv(Notify(d, p))
       /\ Notify(d, p).parties = d.parties /\ Notify(d, p).maxSize = d.maxSize
       /\ Notify(d, p).members = d.members /\ Notify(d, p).requests = d.requests
       /\ p \in Notify(d, p).notified
  <2>1. p \in PartyID
    BY <1>1 DEF Registry
  <2>2. /\ Notify(d, p).parties = d.parties /\ Notify(d, p).maxSize = d.maxSize
        /\ Notify(d, p).members = d.members /\ Notify(d, p).requests = d.requests
        /\ Notify(d, p).notified = d.notified \cup {p}
    BY <1>4, <2>1, NotifyAt
  <2> QED
    BY <1>10, <2>1, <2>2, NotifyInv
<1>12. \A q \in d.parties : q \in PartyID /\ q # p
  BY <1>1, <1>4 DEF Registry
<1> SUFFICES ASSUME NEW n, RegInv(n),
                    n.parties = d.parties, n.maxSize = d.maxSize,
                    n.members = d.members, n.requests = d.requests,
                    p \in n.notified
             PROVE  Good(reg, n)
  BY <1>11
<1>13. /\ n.parties \subseteq reg.parties
       /\ \A q \in n.parties : n.maxSize[q] = reg.maxSize[q]
  BY <1>4, <1>12
<1>14. \A q \in PartyID, v \in User :
         /\ n.members[q][v] \in {NoSession, reg.members[q][v]}
         /\ n.requests[q][v] \in {NoSession, reg.requests[q][v]}
         /\ n.members[q][v] # reg.members[q][v] => q \in n.notified
  BY <1>4
<1> QED
  BY <1>13, <1>14, ShrinkGood

\* Accept moves a requester from the party he is in, if any, to this one.
LEMMA AcceptGood ==
  ASSUME RegInv(reg), Sized(reg), NEW s \in Session, NEW p \in PartyID,
         NEW t \in Session, Accept(s, p, t)
  PROVE  Good(reg, reg')
<1> DEFINE u == Owner[t]
<1> DEFINE b == Begin(reg)
<1> DEFINE prev == IF SingleParty /\ reg.byUser[u] # p THEN reg.byUser[u] ELSE NoParty
<1>1. /\ reg \in Registry /\ u \in User /\ t # NoSession
      /\ p \in reg.parties /\ HasRoom(reg, p) /\ reg.requests[p][u] = t
      /\ prev \in PartyID \cup {NoParty} /\ prev # p
  BY Constants DEF RegInv, Accept, LeaderSession, Registry
<1>2. PICK h \in Heirs(reg, prev, u) :
        reg' = Notify(AddMember(LeaveLocked(b, prev, u, h), p, u, t), p)
  BY DEF Accept
<1>3. /\ RegInv(b) /\ Sized(b) /\ b \in Registry
      /\ b.parties = reg.parties /\ b.maxSize = reg.maxSize
      /\ b.members = reg.members /\ b.requests = reg.requests
  BY <1>1, BeginGood
<1> DEFINE left == LeaveLocked(b, prev, u, h)
<1>4. RegInv(left) /\ Left(b, prev, u, left)
  <2>1. h \in Heirs(b, prev, u)
    BY <1>1, HeirsBegin
  <2> QED
    BY <1>1, <1>3, <2>1, LeaveInv
<1> HIDE DEF left
<1>5. left \in Registry /\ p \in left.parties
  BY <1>1, <1>3, <1>4 DEF RegInv, Left
<1>6. Sized(left)
  <2>1. \A q \in left.parties : q \in PartyID
    BY <1>5 DEF Registry
  <2> QED
    BY <1>3, <1>4, <1>5, <2>1, ShrinkSized DEF Left
<1>7. HasRoom(left, p)
  <2>1. MembersOf(left, p) = MembersOf(reg, p)
    BY <1>1, <1>3, <1>4, <1>5 DEF MembersOf, IsMember, Left
  <2> QED
    BY <1>1, <1>3, <1>4, <1>5, <2>1 DEF HasRoom, Left
<1>8. ASSUME SingleParty, NEW q \in PartyID PROVE left.members[q][u] = NoSession
  <2>1. reg.members[p][u] = NoSession
    BY <1>1 DEF RegInv, Disjoint
  <2>2. CASE q = prev
    BY <1>1, <1>4, <2>2 DEF Left
  <2>3. CASE q # prev
    <3>1. reg.byUser[u] = q <=> reg.members[q][u] # NoSession
      BY <1>1, <1>8 DEF RegInv, Indexed
    <3>2. reg.byUser[u] # p
      BY <1>1, <1>8, <2>1 DEF RegInv, Indexed
    <3>3. reg.members[q][u] = NoSession
      BY <1>8, <2>3, <3>1, <3>2
    <3> QED
      BY <1>1, <1>3, <1>4, <2>3, <3>3 DEF Left
  <2> QED
    BY <2>2, <2>3
<1>9. RegInv(reg') /\ Sized(reg')
  BY <1>1, <1>2, <1>4, <1>5, <1>6, <1>7, <1>8, AddGood DEF left
<1>10. reg' \in Registry /\ Blank(reg')
  BY <1>9 DEF RegInv
<1>11. ASSUME NEW q \in reg.parties, NEW v \in User, reg'.members[q][v] # reg.members[q][v]
       PROVE  q \in reg'.notified
  <2> SUFFICES ASSUME NEW a, MemberAdded(left, p, u, t, a), reg' = Notify(a, p)
               PROVE  q \in reg'.notified
    BY <1>1, <1>2, <1>5, AddMemberAt DEF left
  <2>1. q \in PartyID
    BY <1>1 DEF Registry
  <2>2. reg'.members = a.members /\ reg'.notified = a.notified \cup {p}
    BY <1>1, NotifyAt DEF MemberAdded
  <2>3. CASE q = p
    BY <2>2, <2>3
  <2>4. CASE q # p
    <3>1. left.members[q][v] # b.members[q][v]
      BY <1>3, <1>11, <2>1, <2>2, <2>4 DEF MemberAdded
    <3> QED
      BY <1>4, <2>1, <2>2, <3>1 DEF Left, MemberAdded
  <2> QED
    BY <2>3, <2>4
<1> QED
  BY <1>1, <1>9, <1>10, <1>11, HookedByEntries DEF Good

\* Create leaves the old party, if any, and starts a new one led by its creator.
LEMMA CreateGood ==
  ASSUME RegInv(reg), Sized(reg), NEW s \in Session, NEW p \in PartyID,
         NEW asked \in AskedSizes, NEW o \in BOOLEAN, Create(s, p, asked, o)
  PROVE  Good(reg, reg')
<1> DEFINE u == Owner[s]
<1> DEFINE b == Begin(reg)
<1> DEFINE size == IF asked = 0 THEN DefaultMaxSize ELSE asked
<1> DEFINE prev == IF SingleParty THEN reg.byUser[u] ELSE NoParty
<1>1. /\ reg \in Registry /\ u \in User /\ s # NoSession
      /\ p \notin reg.parties /\ size \in Nat /\ size >= 1
      /\ prev \in PartyID \cup {NoParty}
  <2>1. size \in 1..AbsoluteMaxSize /\ AbsoluteMaxSize \in Nat
    BY PartyAssumption DEF Create, PartyAssumption
  <2>2. size \in Nat /\ size >= 1
    BY <2>1
  <2> HIDE DEF size
  <2> QED
    BY <2>2, Constants DEF RegInv, Create, Registry
<1> DEFINE make(l) == [l EXCEPT !.parties = @ \cup {p}, !.leader[p] = u,
                                !.open[p] = o, !.maxSize[p] = size]
<1>2. PICK h \in Heirs(reg, prev, u) :
        reg' = AddMember(make(LeaveLocked(b, prev, u, h)), p, u, s)
  BY DEF Create
<1>3. /\ RegInv(b) /\ Sized(b) /\ b \in Registry
      /\ b.parties = reg.parties /\ b.maxSize = reg.maxSize
      /\ b.members = reg.members /\ b.requests = reg.requests
  BY <1>1, BeginGood
<1> DEFINE left == LeaveLocked(b, prev, u, h)
<1>4. RegInv(left) /\ Left(b, prev, u, left)
  <2>1. h \in Heirs(b, prev, u)
    BY <1>1, HeirsBegin
  <2> QED
    BY <1>1, <1>3, <2>1, LeaveInv
<1> HIDE DEF left, size, prev
<1>5. left \in Registry /\ p \notin left.parties
  BY <1>1, <1>3, <1>4 DEF RegInv, Left
<1>6. Sized(left)
  <2>1. \A q \in left.parties : q \in PartyID
    BY <1>5 DEF Registry
  <2> QED
    BY <1>3, <1>4, <1>5, <2>1, ShrinkSized DEF Left
<1>7. ASSUME SingleParty, NEW q \in PartyID PROVE left.members[q][u] = NoSession
  <2>1. CASE q = prev
    BY <1>1, <1>4, <2>1 DEF Left
  <2>2. CASE q # prev
    <3>1. reg.members[q][u] = NoSession
      BY <1>1, <1>7, <2>2 DEF RegInv, Indexed, prev
    <3> QED
      BY <1>1, <1>3, <1>4, <2>2, <3>1 DEF Left
  <2> QED
    BY <2>1, <2>2
<1> DEFINE made == make(left)
<1>8. /\ made \in Registry /\ made.parties = left.parties \cup {p}
      /\ \A q \in PartyID :
           /\ made.leader[q] = IF q = p THEN u ELSE left.leader[q]
           /\ made.maxSize[q] = IF q = p THEN size ELSE left.maxSize[q]
      /\ made.members = left.members /\ made.requests = left.requests
      /\ made.byUser = left.byUser /\ made.bySess = left.bySess
      /\ made.notified = left.notified
  BY <1>1, <1>5 DEF Registry
<1>9. reg' = AddMember(made, p, u, s)
  BY <1>2 DEF left
<1> HIDE DEF made
<1>10. /\ p \in made.parties /\ OwnSessions(made) /\ Blank(made) /\ Disjoint(made)
       /\ SingleParty => Indexed(made)
       /\ \A v \in User : made.members[p][v] = NoSession /\ made.requests[p][v] = NoSession
  <2>1. \A v \in User : left.members[p][v] = NoSession /\ left.requests[p][v] = NoSession
    BY <1>4, <1>5 DEF RegInv, Blank
  <2>2. OwnSessions(made) /\ Blank(made) /\ (SingleParty => Indexed(made))
    BY <1>4, <1>8 DEF RegInv, OwnSessions, Blank, Indexed
  <2>3. Disjoint(made)
    BY <1>4, <1>8, <2>1 DEF RegInv, Disjoint
  <2> QED
    BY <1>8, <2>1, <2>2, <2>3
<1>11. ASSUME NEW q \in made.parties
       PROVE  /\ made.leader[q] \in User
              /\ made.members[q][made.leader[q]] # NoSession \/ (q = p /\ made.leader[q] = u)
  <2>1. q \in PartyID
    BY <1>8 DEF Registry
  <2>2. CASE q = p
    BY <1>1, <1>8, <2>1, <2>2
  <2>3. CASE q # p
    BY <1>4, <1>8, <2>1, <2>3 DEF RegInv, Led
  <2> QED
    BY <2>2, <2>3
<1>12. RegInv(reg')
  BY <1>1, <1>7, <1>8, <1>9, <1>10, <1>11, AddMemberInv
<1>13. Sized(made) /\ HasRoom(made, p)
  <2>1. ASSUME NEW q \in left.parties
        PROVE  /\ MembersOf(made, q) = MembersOf(left, q)
               /\ RequestersOf(made, q) = RequestersOf(left, q)
               /\ made.maxSize[q] = left.maxSize[q]
    BY <1>5, <1>8 DEF MembersOf, RequestersOf, IsMember, IsPending, Registry
  <2>2. MembersOf(made, p) = {} /\ RequestersOf(made, p) = {} /\ made.maxSize[p] = size
    BY <1>8, <1>10 DEF MembersOf, RequestersOf, IsMember, IsPending
  <2>3. Cardinality(MembersOf(made, p)) = 0 /\ Cardinality(RequestersOf(made, p)) = 0
    BY <2>2, FS_EmptySet
  <2> QED
    BY <1>1, <1>6, <1>8, <2>1, <2>2, <2>3 DEF Sized, HasRoom
<1>14. MemberAdded(made, p, u, s, reg')
  BY <1>1, <1>8, <1>9, AddMemberAt
<1>15. Sized(reg')
  BY <1>1, <1>8, <1>10, <1>13, <1>14, GrowSized
<1>16. ASSUME NEW q \in reg.parties, NEW v \in User, reg'.members[q][v] # reg.members[q][v]
       PROVE  q \in reg'.notified
  <2>1. q \in PartyID /\ q # p
    BY <1>1 DEF Registry
  <2>2. left.members[q][v] # b.members[q][v]
    BY <1>3, <1>8, <1>14, <1>16, <2>1 DEF MemberAdded
  <2> QED
    BY <1>4, <1>8, <1>14, <2>1, <2>2 DEF Left, MemberAdded
<1> QED
  BY <1>1, <1>12, <1>15, <1>16, HookedByEntries DEF Good, RegInv

-----------------------------------------------------------------------------
(* The order in which the members joined, and who leads next.              *)

\* Of two members of a party, one joined before the other.
Ordered(r) ==
  \A p \in PartyID : \A v, w \in MembersOf(r, p) :
    v # w => <<v, w>> \in r.joinedBefore[p] \/ <<w, v>> \in r.joinedBefore[p]

\* The step from r to n hands a party on to a member, or to the heir.
Lineage(r, n) ==
  \A p \in r.parties \cap n.parties :
    n.leader[p] # r.leader[p] =>
      \/ MembersOf(n, p) = MembersOf(r, p)
      \/ /\ MembersOf(n, p) = MembersOf(r, p) \ {r.leader[p]}
         /\ \A u \in MembersOf(n, p) \ {n.leader[p]} :
              <<n.leader[p], u>> \in r.joinedBefore[p]

Orderly(r, n) == Ordered(n) /\ Lineage(r, n)

\* A step that only hands a party on to one of its members.
LEMMA SameMembersOrderly ==
  ASSUME NEW r, NEW n, Ordered(r), n.parties = r.parties,
         n.members = r.members, n.joinedBefore = r.joinedBefore
  PROVE  Orderly(r, n)
BY DEF Orderly, Ordered, Lineage, MembersOf, IsMember

\* A step that deletes members and leaves the leaders.
LEMMA ShrinkOrderly ==
  ASSUME NEW r, NEW n, Ordered(r),
         \A q \in PartyID : MembersOf(n, q) \subseteq MembersOf(r, q),
         \A q \in r.parties \cap n.parties : n.leader[q] = r.leader[q],
         \A q \in PartyID : \A v, w \in MembersOf(n, q) :
           <<v, w>> \in r.joinedBefore[q] => <<v, w>> \in n.joinedBefore[q]
  PROVE  Orderly(r, n)
<1>1. Ordered(n) BY DEF Ordered
<1>2. Lineage(r, n) BY DEF Lineage
<1> QED BY <1>1, <1>2 DEF Orderly

\* DropMember takes one user out of the order.
LEMMA DropMemberOrder ==
  ASSUME NEW r \in Registry, NEW p \in PartyID, NEW u \in User
  PROVE  /\ \A q \in PartyID \ {p} :
              DropMember(r, p, u).joinedBefore[q] = r.joinedBefore[q]
         /\ \A v, w \in User \ {u} :
              <<v, w>> \in r.joinedBefore[p] =>
                <<v, w>> \in DropMember(r, p, u).joinedBefore[p]
BY DEF Registry, DropMember

\* Drop leaves the order of the other parties.
LEMMA DropOrder ==
  ASSUME NEW r \in Registry, NEW p \in PartyID
  PROVE  \A q \in PartyID \ {p} : Drop(r, p).joinedBefore[q] = r.joinedBefore[q]
BY DEF Registry, Drop

\* AddMember puts one user behind all members.
LEMMA AddMemberOrder ==
  ASSUME NEW r \in Registry, NEW p \in r.parties, NEW u \in User, NEW s \in Session, Ordered(r),
         NEW a, a = AddMember(r, p, u, s)
  PROVE  /\ Ordered(a) /\ a.leader = r.leader /\ a.parties = r.parties
         /\ \A q \in PartyID \ {p} : MembersOf(a, q) = MembersOf(r, q)
<1>1. p \in PartyID BY DEF Registry
<1>2. MemberAdded(r, p, u, s, a) BY <1>1, AddMemberAt
<1>3. /\ \A q \in PartyID \ {p} : a.joinedBefore[q] = r.joinedBefore[q]
      /\ a.joinedBefore[p] = r.joinedBefore[p] \cup (MembersOf(r, p) \X {u})
  BY <1>1 DEF Registry, AddMember
<1>4. \A q \in PartyID \ {p} : MembersOf(a, q) = MembersOf(r, q)
  BY <1>2 DEF MemberAdded, MembersOf, IsMember
<1>5. MembersOf(a, p) \subseteq MembersOf(r, p) \cup {u}
  BY <1>1, <1>2 DEF MemberAdded, MembersOf, IsMember
<1>6. ASSUME NEW v \in MembersOf(a, p), NEW w \in MembersOf(a, p), v # w
      PROVE  <<v, w>> \in a.joinedBefore[p] \/ <<w, v>> \in a.joinedBefore[p]
  <2>1. CASE v = u
    BY <1>3, <1>5, <1>6, <2>1
  <2>2. CASE w = u
    BY <1>3, <1>5, <1>6, <2>2
  <2>3. CASE v # u /\ w # u
    BY <1>1, <1>3, <1>5, <1>6, <2>3 DEF Ordered
  <2> QED BY <2>1, <2>2, <2>3
<1>7. Ordered(a)
  <2>1. ASSUME NEW q \in PartyID \ {p}, NEW v \in MembersOf(a, q), NEW w \in MembersOf(a, q), v # w
        PROVE  <<v, w>> \in a.joinedBefore[q] \/ <<w, v>> \in a.joinedBefore[q]
    BY <1>3, <1>4, <2>1 DEF Ordered
  <2> QED BY <1>6, <2>1 DEF Ordered
<1> QED BY <1>2, <1>4, <1>7 DEF MemberAdded

\* Of a party that u leaves and others do not, the heir is the eldest.
LEMMA HeirIsEldest ==
  ASSUME NEW r, Ordered(r), NEW p \in PartyID, NEW u, NEW h \in Heirs(r, p, u),
         MembersOf(r, p) \ {u} # {}
  PROVE  /\ h \in MembersOf(r, p) \ {u}
         /\ \A v \in MembersOf(r, p) \ {u, h} : <<h, v>> \in r.joinedBefore[p]
<1>1. h \in MembersOf(r, p) \ {u} /\ \A o \in MembersOf(r, p) \ {u} : <<o, h>> \notin r.joinedBefore[p]
  BY DEF Heirs
<1> QED BY <1>1 DEF Ordered

\* leaveLocked hands a party on to its eldest member when its leader leaves.
LEMMA LeaveOrderly ==
  ASSUME NEW r, RegInv(r), Ordered(r), NEW p \in PartyID \cup {NoParty}, NEW u \in User,
         NEW h \in Heirs(r, p, u), NEW l, l = LeaveLocked(r, p, u, h)
  PROVE  Orderly(r, l) /\ \A q \in PartyID \ {p} : l.leader[q] = r.leader[q]
<1>1. r \in Registry BY DEF RegInv
<1>2. CASE ~IsMember(r, p, u) /\ p \in r.parties
  <2>1. p \in PartyID /\ l = DropRequest(r, p, u) BY <1>1, <1>2 DEF LeaveLocked, Registry
  <2>2. /\ l.parties = r.parties /\ l.members = r.members /\ l.leader = r.leader
        /\ l.joinedBefore = r.joinedBefore
    BY <1>1, <2>1 DEF DropRequest, Registry
  <2> QED BY <2>2, SameMembersOrderly
<1>3. CASE ~IsMember(r, p, u) /\ p \notin r.parties
  BY <1>3, SameMembersOrderly DEF LeaveLocked
<1>4. CASE IsMember(r, p, u)
  <2>1. p \in r.parties /\ p \in PartyID BY <1>1, <1>4 DEF IsMember, Registry
  <2>2. PICK m : m = DropMember(r, p, u) OBVIOUS
  <2>3. MemberDropped(r, p, u, m) BY <1>1, <2>1, <2>2, DropMemberAt
  <2>4. /\ \A q \in PartyID \ {p} : m.joinedBefore[q] = r.joinedBefore[q]
        /\ \A v, w \in User \ {u} :
             <<v, w>> \in r.joinedBefore[p] => <<v, w>> \in m.joinedBefore[p]
    BY <1>1, <2>1, <2>2, DropMemberOrder
  <2>5. /\ \A q \in PartyID \ {p} : MembersOf(m, q) = MembersOf(r, q)
        /\ MembersOf(m, p) = MembersOf(r, p) \ {u}
    BY <2>1, <2>3 DEF MemberDropped, MembersOf, IsMember
  <2>6. CASE MembersOf(r, p) = {u}
    <3>1. PICK d : d = Drop(m, p) OBVIOUS
    <3>2. Dropped(m, p, d) /\ \A q \in PartyID \ {p} : d.joinedBefore[q] = r.joinedBefore[q]
      BY <2>1, <2>3, <2>4, <3>1, DropAt, DropOrder DEF MemberDropped
    <3>3. l = Notify(d, p) BY <1>4, <2>2, <2>6, <3>1 DEF LeaveLocked
    <3>4. /\ l.parties = r.parties \ {p} /\ l.members = d.members /\ l.leader = d.leader
          /\ l.joinedBefore = d.joinedBefore
      BY <2>1, <2>3, <3>2, <3>3, NotifyAt DEF MemberDropped, Dropped, Notify, Registry
    <3>5. \A q \in PartyID \ {p} : l.leader[q] = r.leader[q]
      BY <2>3, <3>2, <3>4 DEF Dropped, MemberDropped
    <3>6. MembersOf(l, p) = {} BY <2>1, <3>4 DEF MembersOf, IsMember
    <3>7. \A q \in PartyID \ {p} : MembersOf(l, q) = MembersOf(r, q)
      BY <2>3, <3>2, <3>4 DEF MembersOf, IsMember, Dropped, MemberDropped
    <3>8. Orderly(r, l)
      <4>1. \A q \in PartyID : MembersOf(l, q) \subseteq MembersOf(r, q) BY <3>6, <3>7
      <4>2. \A q \in r.parties \cap l.parties : l.leader[q] = r.leader[q]
        BY <1>1, <3>4, <3>5 DEF Registry
      <4>3. \A q \in PartyID : \A v, w \in MembersOf(l, q) :
              <<v, w>> \in r.joinedBefore[q] => <<v, w>> \in l.joinedBefore[q]
        BY <3>2, <3>4, <3>6
      <4> QED BY <4>1, <4>2, <4>3, ShrinkOrderly
    <3> QED BY <3>5, <3>8
  <2>7. CASE MembersOf(r, p) # {u}
    <3>1. MembersOf(r, p) \ {u} # {} BY <1>4, <2>7 DEF MembersOf
    <3>2. /\ h \in MembersOf(r, p) \ {u}
          /\ \A v \in MembersOf(r, p) \ {u, h} : <<h, v>> \in r.joinedBefore[p]
      BY <2>1, <3>1, HeirIsEldest
    <3>3. PICK d : d = [m EXCEPT !.leader[p] = IF @ = u THEN h ELSE @] OBVIOUS
    <3>4. l = Notify(d, p) BY <1>4, <2>2, <2>7, <3>3 DEF LeaveLocked
    <3>5. /\ d \in Registry /\ d.parties = m.parties /\ d.members = m.members
          /\ d.joinedBefore = m.joinedBefore
          /\ \A q \in PartyID : d.leader[q] = IF q = p /\ m.leader[p] = u THEN h ELSE m.leader[q]
      <4>1. h \in User BY <3>2 DEF MembersOf
      <4> QED BY <2>1, <2>3, <3>3, <4>1 DEF MemberDropped, Registry
    <3>6. /\ l.parties = r.parties /\ l.members = m.members /\ l.joinedBefore = m.joinedBefore
          /\ \A q \in PartyID : l.leader[q] = IF q = p /\ r.leader[p] = u THEN h ELSE r.leader[q]
      BY <2>1, <2>3, <3>4, <3>5 DEF Notify, Registry, MemberDropped
    <3>7. \A q \in PartyID : MembersOf(l, q) = IF q = p THEN MembersOf(r, p) \ {u} ELSE MembersOf(r, q)
      <4>1. \A q \in PartyID : MembersOf(l, q) = MembersOf(m, q)
        BY <2>3, <3>6 DEF MembersOf, IsMember, MemberDropped
      <4> QED BY <2>5, <4>1
    <3>8. Ordered(l)
      <4>1. \A v \in MembersOf(l, p) : v \in User \ {u} /\ v \in MembersOf(r, p)
        BY <2>1, <3>7 DEF MembersOf
      <4>2. ASSUME NEW v \in MembersOf(l, p), NEW w \in MembersOf(l, p), v # w
            PROVE  <<v, w>> \in l.joinedBefore[p] \/ <<w, v>> \in l.joinedBefore[p]
        <5>1. <<v, w>> \in r.joinedBefore[p] \/ <<w, v>> \in r.joinedBefore[p]
          BY <2>1, <4>1, <4>2 DEF Ordered
        <5> QED BY <2>4, <3>6, <4>1, <5>1
      <4>3. ASSUME NEW q \in PartyID \ {p}, NEW v \in MembersOf(l, q), NEW w \in MembersOf(l, q), v # w
            PROVE  <<v, w>> \in l.joinedBefore[q] \/ <<w, v>> \in l.joinedBefore[q]
        BY <2>4, <3>6, <3>7, <4>3 DEF Ordered
      <4> QED BY <4>2, <4>3 DEF Ordered
    <3>9. Lineage(r, l)
      <4> SUFFICES ASSUME NEW q \in r.parties, l.leader[q] # r.leader[q]
                   PROVE  /\ MembersOf(l, q) = MembersOf(r, q) \ {r.leader[q]}
                          /\ \A v \in MembersOf(l, q) \ {l.leader[q]} :
                               <<l.leader[q], v>> \in r.joinedBefore[q]
        BY DEF Lineage
      <4>1. q \in PartyID BY <1>1 DEF Registry
      <4>2. q = p /\ r.leader[p] = u /\ l.leader[p] = h BY <3>6, <4>1
      <4> QED BY <2>1, <3>2, <3>7, <4>2
    <3> QED BY <3>6, <3>8, <3>9 DEF Orderly
  <2> QED BY <2>6, <2>7
<1> QED BY <1>2, <1>3, <1>4

\* A user who left one party, or none, is added to another one: to a party of
\* the registry, or to the new one p, which had no member.
LEMMA MoveOrderly ==
  ASSUME RegInv(reg), Ordered(reg), NEW prev \in PartyID \cup {NoParty}, NEW u \in User,
         NEW h \in Heirs(reg, prev, u), NEW p \in PartyID, NEW s \in Session,
         NEW l, l = LeaveLocked(Begin(reg), prev, u, h),
         NEW m \in Registry, p \in m.parties, m.parties \subseteq l.parties \cup {p},
         m.members = l.members,
         \A q \in PartyID \ {p} :
           m.leader[q] = l.leader[q] /\ m.joinedBefore[q] = l.joinedBefore[q],
         IF p \in reg.parties
         THEN /\ p # prev /\ p \in l.parties
              /\ m.leader[p] = l.leader[p] /\ m.joinedBefore[p] = l.joinedBefore[p]
         ELSE \A v \in User : l.members[p][v] = NoSession,
         NEW a, a = AddMember(m, p, u, s)
  PROVE  Orderly(reg, a)
<1>1. /\ reg \in Registry /\ RegInv(Begin(reg)) /\ Begin(reg) \in Registry
      /\ Begin(reg).parties = reg.parties /\ Begin(reg).leader = reg.leader
      /\ Begin(reg).members = reg.members /\ Begin(reg).joinedBefore = reg.joinedBefore
  BY BeginInv, BeginAt DEF RegInv
<1>2. \A q : MembersOf(Begin(reg), q) = MembersOf(reg, q) BY <1>1 DEF MembersOf, IsMember
<1>3. Ordered(Begin(reg)) BY <1>1, <1>2 DEF Ordered
<1>4. h \in Heirs(Begin(reg), prev, u) BY <1>1, HeirsBegin
<1>5. /\ Orderly(Begin(reg), l)
      /\ \A q \in PartyID \ {prev} : l.leader[q] = reg.leader[q]
  <2>1. /\ Orderly(Begin(reg), l)
        /\ \A q \in PartyID \ {prev} : l.leader[q] = Begin(reg).leader[q]
    BY <1>1, <1>3, <1>4, LeaveOrderly
  <2> QED BY <1>1, <2>1
<1>6. \A q \in PartyID \ {p} : MembersOf(m, q) \subseteq MembersOf(l, q)
  BY DEF MembersOf, IsMember
<1>7. Ordered(m)
  <2>1. ASSUME NEW q \in PartyID \ {p}, NEW v \in MembersOf(m, q), NEW w \in MembersOf(m, q), v # w
        PROVE  <<v, w>> \in m.joinedBefore[q] \/ <<w, v>> \in m.joinedBefore[q]
    BY <1>5, <1>6, <2>1 DEF Orderly, Ordered
  <2>2. ASSUME NEW v \in MembersOf(m, p), NEW w \in MembersOf(m, p), v # w
        PROVE  <<v, w>> \in m.joinedBefore[p] \/ <<w, v>> \in m.joinedBefore[p]
    <3>1. v \in User /\ l.members[p][v] # NoSession /\ w \in User /\ l.members[p][w] # NoSession
      BY <2>2 DEF MembersOf, IsMember
    <3>2. p \in reg.parties /\ m.joinedBefore[p] = l.joinedBefore[p] BY <3>1
    <3>3. v \in MembersOf(l, p) /\ w \in MembersOf(l, p) BY <3>1, <3>2 DEF MembersOf, IsMember
    <3> QED BY <1>5, <2>2, <3>2, <3>3 DEF Orderly, Ordered
  <2> QED BY <2>1, <2>2 DEF Ordered
<1>8. /\ Ordered(a) /\ a.leader = m.leader /\ a.parties = m.parties
      /\ \A q \in PartyID \ {p} : MembersOf(a, q) = MembersOf(m, q)
  BY <1>7, AddMemberOrder
<1>9. Lineage(reg, a)
  <2> SUFFICES ASSUME NEW q \in reg.parties, q \in a.parties, a.leader[q] # reg.leader[q]
               PROVE  \/ MembersOf(a, q) = MembersOf(reg, q)
                      \/ /\ MembersOf(a, q) = MembersOf(reg, q) \ {reg.leader[q]}
                         /\ \A v \in MembersOf(a, q) \ {a.leader[q]} :
                              <<a.leader[q], v>> \in reg.joinedBefore[q]
    BY DEF Lineage
  <2>1. q \in PartyID /\ q # p
    <3>1. q \in PartyID BY <1>1 DEF Registry
    <3>2. CASE q = p BY <1>5, <1>8, <3>1, <3>2
    <3> QED BY <3>1, <3>2
  <2>2. q \in l.parties /\ a.leader[q] = l.leader[q] BY <1>8, <2>1
  <2>3. MembersOf(a, q) = MembersOf(l, q) BY <1>8, <2>1, <2>2 DEF MembersOf, IsMember
  <2> QED BY <1>1, <1>2, <1>5, <2>2, <2>3 DEF Orderly, Lineage
<1> QED BY <1>8, <1>9 DEF Orderly

\* What the hook is told changes neither order nor leaders.
LEMMA NotifyOrderly ==
  ASSUME NEW r, NEW a \in Registry, NEW p \in PartyID, Orderly(r, a)
  PROVE  Orderly(r, Notify(a, p))
<1> SUFFICES ASSUME NEW n, n.parties = a.parties, n.leader = a.leader, n.members = a.members,
                    n.joinedBefore = a.joinedBefore
             PROVE  Orderly(r, n)
  BY DEF Notify, Registry
<1> QED BY DEF Orderly, Ordered, Lineage, MembersOf, IsMember

\* Steps that add no member to a party that has others.
LEMMA PlainOrderly ==
  ASSUME RegInv(reg), Ordered(reg), NEW s \in Session, NEW p \in PartyID, NEW t \in Session,
         NEW o \in BOOLEAN, JoinClosed(s, p) \/ Promote(s, p, t) \/ Update(s, p, o)
  PROVE  Orderly(reg, reg')
<1>1. reg \in Registry BY DEF RegInv
<1>2. PICK b : b = Begin(reg) OBVIOUS
<1>3. b \in Registry /\ b.parties = reg.parties /\ b.members = reg.members
      /\ b.joinedBefore = reg.joinedBefore
  BY <1>1, <1>2, BeginAt
<1>4. \/ reg' = [b EXCEPT !.requests[p][Owner[s]] = s]
      \/ reg' = [b EXCEPT !.leader[p] = Owner[t]]
      \/ reg' = [b EXCEPT !.open[p] = o]
  BY <1>2 DEF JoinClosed, Promote, Update
<1>5. /\ reg'.parties = reg.parties /\ reg'.members = reg.members
      /\ reg'.joinedBefore = reg.joinedBefore
  BY <1>3, <1>4 DEF Registry
<1> QED BY <1>5, SameMembersOrderly

\* The sweep drops parties that have no member.
LEMMA SweepIdleOrderly ==
  ASSUME RegInv(reg), Ordered(reg), SweepIdle PROVE Orderly(reg, reg')
<1>1. reg \in Registry BY DEF RegInv
<1>2. /\ reg'.parties \subseteq reg.parties /\ reg'.members = reg.members
      /\ reg'.joinedBefore = reg.joinedBefore /\ reg'.leader = reg.leader
  BY <1>1, BeginAt DEF SweepIdle, Registry
<1>3. \A q \in PartyID : MembersOf(reg', q) \subseteq MembersOf(reg, q)
  BY <1>2 DEF MembersOf, IsMember
<1> QED BY <1>2, <1>3, ShrinkOrderly

\* A kick takes out a member who does not lead.
LEMMA RemoveOrderly ==
  ASSUME RegInv(reg), Ordered(reg), NEW s \in Session, NEW p \in PartyID, NEW t \in Session,
         Remove(s, p, t)
  PROVE  Orderly(reg, reg')
<1>1. reg \in Registry /\ Owner[t] \in User BY Constants DEF RegInv
<1>2. PICK b : b = Begin(reg) OBVIOUS
<1>3. /\ b \in Registry /\ b.parties = reg.parties /\ b.members = reg.members
      /\ b.leader = reg.leader /\ b.joinedBefore = reg.joinedBefore
  BY <1>1, <1>2, BeginAt
<1>4. CASE reg' = DropRequest(b, p, Owner[t])
  <2>1. /\ reg'.parties = reg.parties /\ reg'.members = reg.members
        /\ reg'.joinedBefore = reg.joinedBefore
    BY <1>3, <1>4 DEF DropRequest, Registry
  <2> QED BY <2>1, SameMembersOrderly
<1>5. CASE reg' = Notify(DropMember(b, p, Owner[t]), p)
  <2>1. PICK d : d = DropMember(b, p, Owner[t]) OBVIOUS
  <2>2. MemberDropped(b, p, Owner[t], d) BY <1>1, <1>3, <2>1, DropMemberAt
  <2>3. /\ \A q \in PartyID \ {p} : d.joinedBefore[q] = reg.joinedBefore[q]
        /\ \A v, w \in User \ {Owner[t]} :
             <<v, w>> \in reg.joinedBefore[p] => <<v, w>> \in d.joinedBefore[p]
    BY <1>1, <1>3, <2>1, DropMemberOrder
  <2>4. \A q \in PartyID : MembersOf(d, q) = MembersOf(reg, q) \ IF q = p THEN {Owner[t]} ELSE {}
    BY <1>1, <1>3, <2>2 DEF MembersOf, IsMember, MemberDropped
  <2>5. \A q \in PartyID : MembersOf(d, q) \subseteq User BY DEF MembersOf
  <2>6. \A q \in PartyID : \A v, w \in MembersOf(d, q) :
          <<v, w>> \in reg.joinedBefore[q] => <<v, w>> \in d.joinedBefore[q]
    BY <2>3, <2>4, <2>5
  <2>7. Orderly(reg, d) BY <1>3, <2>2, <2>4, <2>6, ShrinkOrderly DEF MemberDropped
  <2> QED BY <1>5, <2>1, <2>2, <2>7, NotifyOrderly DEF MemberDropped
<1> QED BY <1>2, <1>4, <1>5 DEF Remove

\* Close takes a party out, and leaves the others.
LEMMA CloseOrderly ==
  ASSUME RegInv(reg), Ordered(reg), NEW s \in Session, NEW p \in PartyID, Close(s, p)
  PROVE  Orderly(reg, reg')
<1>1. reg \in Registry BY DEF RegInv
<1>2. PICK c : /\ c \in Registry /\ c.parties = reg.parties /\ c.members = reg.members
               /\ c.leader = reg.leader /\ c.joinedBefore = reg.joinedBefore
               /\ reg' = Notify(Drop(c, p), p)
  <2> DEFINE inside == MembersOf(reg, p)
  <2> DEFINE sess == {reg.members[p][u] : u \in inside}
  <2> DEFINE c == [Begin(reg) EXCEPT
                     !.byUser = [u \in User |-> IF u \in inside THEN NoParty ELSE @[u]],
                     !.bySess = [x \in Session |-> IF x \in sess THEN NoParty ELSE @[x]]]
  <2>1. /\ c \in Registry /\ c.parties = reg.parties /\ c.members = reg.members
        /\ c.leader = reg.leader /\ c.joinedBefore = reg.joinedBefore
    BY <1>1, BeginAt, ZenonT(60) DEF Registry
  <2>2. reg' = Notify(Drop(c, p), p) BY DEF Close
  <2> HIDE DEF c
  <2> QED BY <2>1, <2>2
<1>3. PICK d : d = Drop(c, p) OBVIOUS
<1>4. Dropped(c, p, d) /\ \A q \in PartyID \ {p} : d.joinedBefore[q] = reg.joinedBefore[q]
  BY <1>2, <1>3, DropAt, DropOrder
<1>5. \A q \in PartyID : MembersOf(d, q) = IF q = p THEN {} ELSE MembersOf(reg, q)
  BY <1>2, <1>4 DEF Dropped, MembersOf, IsMember
<1>6. \A q \in reg.parties \cap d.parties : d.leader[q] = reg.leader[q]
  BY <1>1, <1>2, <1>4 DEF Dropped, Registry
<1>7. \A q \in PartyID : \A v, w \in MembersOf(d, q) :
        <<v, w>> \in reg.joinedBefore[q] => <<v, w>> \in d.joinedBefore[q]
  BY <1>4, <1>5
<1>8. Orderly(reg, d) BY <1>5, <1>6, <1>7, ShrinkOrderly
<1> QED BY <1>2, <1>3, <1>4, <1>8, NotifyOrderly DEF Dropped

\* Leaving, by the party or by the session.
LEMMA LeavesOrderly ==
  ASSUME RegInv(reg), Ordered(reg), NEW p \in PartyID, NEW u \in User,
         NEW h \in Heirs(reg, p, u), reg' = LeaveLocked(Begin(reg), p, u, h)
  PROVE  Orderly(reg, reg')
<1>1. PICK b : b = Begin(reg) OBVIOUS
<1>2. /\ RegInv(b) /\ b.parties = reg.parties /\ b.members = reg.members
      /\ b.leader = reg.leader /\ b.joinedBefore = reg.joinedBefore
  BY <1>1, BeginInv, BeginAt DEF RegInv
<1>3. h \in Heirs(b, p, u) BY <1>1, HeirsBegin DEF RegInv
<1>4. \A q : MembersOf(b, q) = MembersOf(reg, q) BY <1>2 DEF MembersOf, IsMember
<1>5. Ordered(b) BY <1>2, <1>4 DEF Ordered
<1>6. Orderly(b, reg') BY <1>1, <1>2, <1>3, <1>5, LeaveOrderly
<1> QED BY <1>2, <1>4, <1>6 DEF Orderly, Lineage

\* A session that disconnects leaves its party, or at most takes a request back.
LEMMA LeaveSessionOrderly ==
  ASSUME RegInv(reg), Ordered(reg), NEW s \in Session, LeaveSession(s)
  PROVE  Orderly(reg, reg')
<1>1. reg \in Registry /\ Owner[s] \in User /\ reg.bySess[s] \in PartyID
  BY Constants DEF RegInv, LeaveSession, Registry
<1>2. CASE \E h \in Heirs(reg, reg.bySess[s], Owner[s]) :
             reg' = LeaveLocked(Begin(reg), reg.bySess[s], Owner[s], h)
  BY <1>1, <1>2, LeavesOrderly
<1>3. ASSUME NEW c, c = [Begin(reg) EXCEPT !.bySess[s] = NoParty],
             reg' = c \/ reg' = DropRequest(c, reg.bySess[s], Owner[s])
      PROVE  Orderly(reg, reg')
  <2>1. /\ c \in Registry /\ c.parties = reg.parties /\ c.members = reg.members
        /\ c.joinedBefore = reg.joinedBefore
    BY <1>1, <1>3, BeginAt, ZenonT(60) DEF Registry
  <2>2. /\ reg'.parties = reg.parties /\ reg'.members = reg.members
        /\ reg'.joinedBefore = reg.joinedBefore
    BY <1>3, <2>1 DEF DropRequest, Registry
  <2> QED BY <2>2, SameMembersOrderly
<1> QED BY <1>2, <1>3 DEF LeaveSession

\* Who joins an open party comes last in it.
LEMMA JoinOpenOrderly ==
  ASSUME RegInv(reg), Ordered(reg), NEW s \in Session, NEW p \in PartyID, JoinOpen(s, p)
  PROVE  Orderly(reg, reg')
<1>1. reg \in Registry /\ Owner[s] \in User /\ p \in reg.parties
  BY Constants DEF RegInv, JoinOpen, MayJoin
<1>2. PICK b : b = Begin(reg) OBVIOUS
<1>3. /\ b \in Registry /\ b.parties = reg.parties /\ b.members = reg.members
      /\ b.leader = reg.leader /\ b.joinedBefore = reg.joinedBefore
  BY <1>1, <1>2, BeginAt
<1>4. Ordered(b) BY <1>3 DEF Ordered, MembersOf, IsMember
<1>5. PICK a : a = AddMember(b, p, Owner[s], s) OBVIOUS
<1>6. Ordered(a) /\ a.leader = reg.leader BY <1>1, <1>3, <1>4, <1>5, AddMemberOrder
<1>7. Orderly(reg, a) BY <1>6 DEF Orderly, Lineage
<1>8. a \in Registry BY <1>1, <1>3, <1>5, AddMemberAt DEF MemberAdded
<1> QED BY <1>2, <1>5, <1>7, <1>8, NotifyOrderly DEF JoinOpen

\* Who is accepted leaves the old party, and comes last in the new one.
LEMMA AcceptOrderly ==
  ASSUME RegInv(reg), Ordered(reg), NEW s \in Session, NEW p \in PartyID, NEW t \in Session,
         Accept(s, p, t)
  PROVE  Orderly(reg, reg')
<1>1. PICK prev : prev = IF SingleParty /\ reg.byUser[Owner[t]] # p THEN reg.byUser[Owner[t]]
                         ELSE NoParty
  OBVIOUS
<1>2. /\ reg \in Registry /\ Owner[t] \in User /\ p \in reg.parties /\ p # prev
      /\ prev \in PartyID \cup {NoParty}
  BY <1>1, Constants DEF RegInv, Accept, LeaderSession, Registry
<1>3. PICK h \in Heirs(reg, prev, Owner[t]) :
        reg' = Notify(AddMember(LeaveLocked(Begin(reg), prev, Owner[t], h), p, Owner[t], t), p)
  BY <1>1 DEF Accept
<1>4. PICK l : l = LeaveLocked(Begin(reg), prev, Owner[t], h) OBVIOUS
<1>5. RegInv(l) /\ Left(Begin(reg), prev, Owner[t], l)
  BY <1>2, <1>4, BeginInv, HeirsBegin, LeaveInv
<1>6. l \in Registry /\ p \in l.parties BY <1>2, <1>5, BeginAt DEF RegInv, Left
<1>7. PICK a : a = AddMember(l, p, Owner[t], t) OBVIOUS
<1>8. Orderly(reg, a) BY <1>2, <1>4, <1>6, <1>7, MoveOrderly
<1>9. a \in Registry BY <1>2, <1>6, <1>7, AddMemberAt DEF MemberAdded
<1> QED BY <1>2, <1>3, <1>4, <1>7, <1>8, <1>9, NotifyOrderly

\* Who creates a party leaves the old one, and is alone in the new one.
LEMMA CreateOrderly ==
  ASSUME RegInv(reg), Ordered(reg), NEW s \in Session, NEW p \in PartyID,
         NEW asked \in AskedSizes, NEW o \in BOOLEAN, Create(s, p, asked, o)
  PROVE  Orderly(reg, reg')
<1>1. PICK prev : prev = IF SingleParty THEN reg.byUser[Owner[s]] ELSE NoParty OBVIOUS
<1>2. PICK size : size = IF asked = 0 THEN DefaultMaxSize ELSE asked OBVIOUS
<1>3. /\ reg \in Registry /\ Owner[s] \in User /\ p \notin reg.parties
      /\ prev \in PartyID \cup {NoParty} /\ size \in Nat
  BY <1>1, <1>2, Constants, PartyAssumption DEF RegInv, Create, Registry, PartyAssumption
<1>4. PICK h \in Heirs(reg, prev, Owner[s]) :
        reg' = AddMember([LeaveLocked(Begin(reg), prev, Owner[s], h)
                            EXCEPT !.parties = @ \cup {p}, !.leader[p] = Owner[s],
                                   !.open[p] = o, !.maxSize[p] = size], p, Owner[s], s)
  BY <1>1, <1>2 DEF Create
<1>5. PICK l : l = LeaveLocked(Begin(reg), prev, Owner[s], h) OBVIOUS
<1>6. RegInv(l) /\ Left(Begin(reg), prev, Owner[s], l)
  BY <1>3, <1>5, BeginInv, HeirsBegin, LeaveInv
<1>7. l \in Registry /\ p \notin l.parties BY <1>3, <1>6, BeginAt DEF RegInv, Left
<1>8. \A v \in User : l.members[p][v] = NoSession BY <1>6, <1>7 DEF RegInv, Blank
<1>9. PICK m : m = [l EXCEPT !.parties = @ \cup {p}, !.leader[p] = Owner[s],
                             !.open[p] = o, !.maxSize[p] = size]
  OBVIOUS
<1>10. /\ m \in Registry /\ m.parties = l.parties \cup {p} /\ m.members = l.members
       /\ m.joinedBefore = l.joinedBefore
       /\ \A q \in PartyID \ {p} : m.leader[q] = l.leader[q]
  BY <1>3, <1>7, <1>9 DEF Registry
<1>11. reg' = AddMember(m, p, Owner[s], s) BY <1>4, <1>5, <1>9
<1> QED BY <1>3, <1>5, <1>8, <1>10, <1>11, MoveOrderly

-----------------------------------------------------------------------------
(* The theorems.                                                           *)

\* The inductive invariant of the registry.
IInv == RegInv(reg) /\ Sized(reg)

\* The registry starts empty.
LEMMA InitInv == Init => IInv
<1> SUFFICES ASSUME Init
             PROVE  IInv
  OBVIOUS
<1>1. reg \in Registry /\ reg.parties = {}
  BY NobodyType DEF Init, Registry
<1>2. \A p \in PartyID, u \in User :
        reg.members[p][u] = NoSession /\ reg.requests[p][u] = NoSession
  BY DEF Init, Nobody
<1>3. /\ \A u \in User : reg.byUser[u] = NoParty
      /\ \A s \in Session : reg.bySess[s] = NoParty
  BY DEF Init
<1>4. OwnSessions(reg) /\ Indexed(reg)
  BY <1>2, <1>3, Constants DEF OwnSessions, Indexed
<1>5. Blank(reg) /\ Led(reg) /\ Disjoint(reg) /\ Sized(reg)
  BY <1>1, <1>2 DEF Blank, Led, Disjoint, Sized
<1> QED
  BY <1>1, <1>4, <1>5 DEF IInv, RegInv

\* Every method of the registry preserves the invariant and calls the hook.
LEMMA NextGood == IInv /\ Next => Good(reg, reg')
<1> SUFFICES ASSUME RegInv(reg), Sized(reg), Next
             PROVE  Good(reg, reg')
  BY DEF IInv
<1>1. CASE SweepIdle
  BY <1>1, SweepIdleGood
<1>2. CASE \E s \in Session : SessionStep(s)
  <2>1. PICK s \in Session : SessionStep(s)
    BY <1>2
  <2>2. CASE LeaveSession(s)
    BY <2>2, LeaveSessionGood
  <2>3. ASSUME NEW p \in PartyID,
               \/ \E asked \in AskedSizes, o \in BOOLEAN : Create(s, p, asked, o)
               \/ JoinOpen(s, p)
               \/ JoinClosed(s, p)
               \/ Leave(s, p)
               \/ Close(s, p)
               \/ \E t \in Session : Promote(s, p, t) \/ Accept(s, p, t) \/ Remove(s, p, t)
               \/ \E o \in BOOLEAN : Update(s, p, o)
        PROVE  Good(reg, reg')
    <3>1. ASSUME Leave(s, p) PROVE Good(reg, reg')
      BY <3>1, Constants, LeaveGood DEF Leave
    <3> QED
      BY <2>3, <3>1, CreateGood, JoinOpenGood, JoinClosedGood, CloseGood,
         PromoteGood, AcceptGood, RemoveGood, UpdateGood
  <2> QED
    BY <2>1, <2>2, <2>3 DEF SessionStep
<1> QED
  BY <1>1, <1>2 DEF Next

\* Every method keeps the order and hands the party on as it should.
LEMMA NextOrderly == IInv /\ Ordered(reg) /\ Next => Orderly(reg, reg')
<1> SUFFICES ASSUME RegInv(reg), Ordered(reg), Next PROVE Orderly(reg, reg')
  BY DEF IInv
<1>1. CASE SweepIdle BY <1>1, SweepIdleOrderly
<1>2. ASSUME NEW s \in Session, LeaveSession(s) PROVE Orderly(reg, reg')
  BY <1>2, LeaveSessionOrderly
<1>3. ASSUME NEW s \in Session, NEW p \in PartyID, JoinOpen(s, p) \/ Leave(s, p) \/ Close(s, p)
      PROVE  Orderly(reg, reg')
  BY <1>3, Constants, JoinOpenOrderly, LeavesOrderly, CloseOrderly DEF Leave
<1>4. ASSUME NEW s \in Session, NEW p \in PartyID, NEW t \in Session,
             Accept(s, p, t) \/ Remove(s, p, t)
      PROVE  Orderly(reg, reg')
  BY <1>4, AcceptOrderly, RemoveOrderly
<1>5. ASSUME NEW s \in Session, NEW p \in PartyID, NEW t \in Session, NEW o \in BOOLEAN,
             JoinClosed(s, p) \/ Promote(s, p, t) \/ Update(s, p, o)
      PROVE  Orderly(reg, reg')
  BY <1>5, PlainOrderly
<1>6. ASSUME NEW s \in Session, NEW p \in PartyID, NEW asked \in AskedSizes, NEW o \in BOOLEAN,
             Create(s, p, asked, o)
      PROVE  Orderly(reg, reg')
  BY <1>6, CreateOrderly
<1> QED BY <1>1, <1>2, <1>3, <1>4, <1>5, <1>6 DEF Next, SessionStep

\* The inductive invariant holds in every reachable state of the registry.
THEOREM Invariance == Spec => []IInv
<1>1. Init => IInv
  BY InitInv
<1>2. IInv /\ [Next]_reg => IInv'
  <2>1. IInv /\ Next => IInv'
    BY NextGood DEF Good, IInv
  <2>2. IInv /\ UNCHANGED reg => IInv'
    BY DEF IInv, RegInv, Sized, OwnSessions, Blank, Led, Disjoint, Indexed,
           MembersOf, RequestersOf, IsMember, IsPending
  <2> QED
    BY <2>1, <2>2
<1> QED
  BY <1>1, <1>2, PTL DEF Spec

\* The registry is well typed, and every session listed in a party or in a
\* join request belongs to the user it is listed under.
THEOREM TypeCorrect == Spec => []TypeOK
<1>1. IInv => TypeOK
  BY DEF IInv, RegInv, OwnSessions, TypeOK
<1> QED
  BY <1>1, Invariance, PTL

\* The leader of every party is one of its members, after every sequence of
\* creates, joins, accepts, promotions, kicks, leaves and disconnects.
THEOREM LeaderAlwaysMember == Spec => []LeaderIsMember
<1>1. IInv => LeaderIsMember
  BY DEF IInv, RegInv, Led, LeaderIsMember, MembersOf, IsMember
<1> QED
  BY <1>1, Invariance, PTL

\* With single-party mode on, byUser and bySess are exactly the inverse of
\* the parties' member lists.
THEOREM IndexesAlwaysAgree == Spec => []IndexesAgree
<1>1. IInv => IndexesAgree
  <2> SUFFICES ASSUME IInv, SingleParty
               PROVE  /\ \A u \in User, p \in PartyID :
                           reg.byUser[u] = p <=> IsMember(reg, p, u)
                      /\ \A s \in Session, p \in PartyID :
                           reg.bySess[s] = p <=>
                             p \in reg.parties /\ reg.members[p][Owner[s]] = s
    BY DEF IndexesAgree
  <2>1. Blank(reg) /\ Indexed(reg)
    BY DEF IInv, RegInv
  <2>2. ASSUME NEW u \in User, NEW p \in PartyID
        PROVE  reg.byUser[u] = p <=> IsMember(reg, p, u)
    BY <2>1 DEF Blank, Indexed, IsMember
  <2>3. ASSUME NEW s \in Session, NEW p \in PartyID
        PROVE  reg.bySess[s] = p <=> p \in reg.parties /\ reg.members[p][Owner[s]] = s
    <3>1. Owner[s] \in User /\ s # NoSession
      BY Constants
    <3> QED
      BY <2>1, <3>1 DEF Blank, Indexed
  <2> QED
    BY <2>2, <2>3
<1> QED
  BY <1>1, Invariance, PTL

\* No party exceeds its MaxSize, in members or in pending join requests.
THEOREM AlwaysWithinMaxSize == Spec => []WithinMaxSize
<1>1. IInv => WithinMaxSize
  BY DEF IInv, Sized, WithinMaxSize
<1> QED
  BY <1>1, Invariance, PTL

\* A member of a party has no pending request to join it.
THEOREM NeverMemberAndPending == Spec => []NoMemberPending
<1>1. IInv => NoMemberPending
  BY DEF IInv, RegInv, Disjoint, NoMemberPending, MembersOf, RequestersOf, IsMember, IsPending
<1> QED
  BY <1>1, Invariance, PTL

\* Every step that changes who is in a party calls the membership hook for it.
THEOREM HookAlwaysCalled == Spec => HookOnMembershipChange
<1>1. IInv /\ [Next]_reg =>
        [\A p \in reg.parties :
           MembersOf(reg, p)' # MembersOf(reg, p) => p \in reg'.notified]_reg
  BY NextGood DEF Good, Hooked, MembersOf, IsMember
<1> QED
  BY <1>1, Invariance, PTL DEF Spec, HookOnMembershipChange

\* Leadership moves by promotion to a member or, when the leader goes, to the
\* member who joined before all others that stay.
THEOREM SuccessionHolds == Spec => Succession
<1>1. Init => Ordered(reg) BY DEF Init, Ordered, MembersOf, IsMember
<1>2. IInv /\ Ordered(reg) /\ [Next]_reg => Ordered(reg)'
  <2>1. IInv /\ Ordered(reg) /\ Next => Ordered(reg)' BY NextOrderly DEF Orderly, Ordered, MembersOf, IsMember
  <2>2. Ordered(reg) /\ UNCHANGED reg => Ordered(reg)' BY DEF Ordered, MembersOf, IsMember
  <2> QED BY <2>1, <2>2
<1>3. Spec => []Ordered(reg) BY <1>1, <1>2, Invariance, PTL DEF Spec
<1>4. IInv /\ Ordered(reg) /\ [Next]_reg =>
        [\A p \in reg.parties \cap reg'.parties :
           reg'.leader[p] # reg.leader[p] =>
             \/ MembersOf(reg, p)' = MembersOf(reg, p)
             \/ /\ MembersOf(reg, p)' = MembersOf(reg, p) \ {reg.leader[p]}
                /\ \A u \in MembersOf(reg, p)' \ {reg'.leader[p]} :
                     <<reg'.leader[p], u>> \in reg.joinedBefore[p]]_reg
  BY NextOrderly DEF Orderly, Lineage, MembersOf, IsMember
<1> QED BY <1>3, <1>4, Invariance, PTL DEF Spec, Succession
=============================================================================
