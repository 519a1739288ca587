---------------------------- MODULE SocialProofs ----------------------------
(* Theorems about a group's rows under transactions that read what is        *)
(* committed, for any number of users and of requests at once, and about the *)
(* friend edges.                                                             *)
EXTENDS MCSocial, FiniteSetTheorems, TLAPS

-----------------------------------------------------------------------------
(* Groups.  What an open transaction has read, and what follows from it.   *)

Roles == SuperAdmin..NoEdge

USE DEF SuperAdmin, Admin, Member, JoinRequest, Banned, NoEdge, Roles

TxTyped(t) ==
  /\ t.op \in Ops
  /\ t.server \in BOOLEAN
  /\ t.who \subseteq User
  /\ t.seen \in [t.who -> Roles]
  /\ t.led \in BOOLEAN

\* What the checks of each operation establish about the roles it saw.
Sound(t) ==
  /\ t.op = "join" => \E u \in User : t.who = {u} /\ t.seen[u] = NoEdge
  /\ t.op = "add" => \A u \in t.who : t.seen[u] \in {NoEdge, JoinRequest}
  /\ t.op \in {"kick", "ban"} => t.server \/ \A u \in t.who : t.seen[u] # SuperAdmin
  /\ t.op = "promote" => \A u \in t.who : t.seen[u] \in {Admin, Member}
  /\ t.op = "demote" => \A u \in t.who : t.seen[u] \in {SuperAdmin, Admin}
  /\ t.op \in {"leave", "demote"} => t.led \/ \A u \in t.who : t.seen[u] # SuperAdmin

\* The transaction holds the groups row, and has compared the count with the
\* limit.
HoldsRow(t) == t.op \in {"join", "add"}

Admitted(t) ==
  /\ Active
  /\ t.op = "join" /\ group.open => group.count < group.max
  /\ t.op = "add" => group.count + Cardinality(t.who) <= group.max

Open(t) == TxTyped(t) /\ Sound(t)

Transactions ==
  /\ tx = [p \in Request |-> tx[p]]
  /\ \A p \in Request : tx[p] # Idle => Open(tx[p])

\* One transaction at most holds the row, and what it compared still holds.
RowHeld ==
  \A p \in Request : HoldsRow(tx[p]) =>
    /\ Admitted(tx[p])
    /\ \A q \in Request : HoldsRow(tx[q]) => q = p

RowsTyped ==
  /\ group \in [status : {"absent", "active", "disabled"}, open : BOOLEAN,
                count : Nat, max : Nat \ {0}]
  /\ role \in [User -> Roles]
  /\ mine \in [User -> Roles]
  /\ excuse \subseteq {"stale", "server"}

\* Before the group is created there is no edge and no transaction.
Absent ==
  group.status = "absent" =>
    /\ \A u \in User : role[u] = NoEdge /\ mine[u] = NoEdge
    /\ \A p \in Request : tx[p] = Idle

GroupInv ==
  /\ RowsTyped /\ Transactions /\ RowHeld /\ Absent
  /\ CountMatchesMembers /\ EdgesPaired /\ ActiveHasSuperadmin

\* What the constants are assumed to be.
LEMMA Limits ==
  /\ MaxCounts \subseteq Nat \ {0} /\ Server \notin User
  /\ IsFiniteSet(User)
BY GroupsAssumption, UsersAssumption

\* A set of users is finite.
LEMMA UsersFinite ==
  ASSUME NEW S \in SUBSET User
  PROVE  IsFiniteSet(S) /\ Cardinality(S) \in Nat
BY Limits, FS_Subset, FS_CardinalityType

\* At first there is no group, no edge and no transaction.
LEMMA GroupsInitInv == GroupsInit => GroupInv
<1> SUFFICES ASSUME GroupsInit PROVE GroupInv
  OBVIOUS
<1>1. RowsTyped
  <2>1. group \in [status : {"absent", "active", "disabled"}, open : BOOLEAN,
                   count : Nat, max : Nat \ {0}]
    <3>1. 0 \in Nat /\ 1 \in Nat \ {0} OBVIOUS
    <3> QED BY <3>1, Zenon DEF GroupsInit
  <2> QED BY <2>1 DEF GroupsInit, RowsTyped
<1>3. Absent /\ CountMatchesMembers /\ EdgesPaired /\ ActiveHasSuperadmin
  BY DEF GroupsInit, Absent, CountMatchesMembers, EdgesPaired, ActiveHasSuperadmin, Active
<1>2. Transactions /\ RowHeld
  BY DEF GroupsInit, Transactions, RowHeld, HoldsRow, Idle
<1> QED BY <1>1, <1>2, <1>3 DEF GroupInv

-----------------------------------------------------------------------------
(* Steps that change one transaction and no row.                           *)

\* A transaction begins, goes on or ends, and writes nothing.
LEMMA SwapInv ==
  ASSUME GroupInv, NEW p \in Request, NEW t,
         tx' = [tx EXCEPT ![p] = t], UNCHANGED <<group, role, mine, excuse>>,
         t # Idle => Open(t) /\ group.status # "absent",
         HoldsRow(t) => Admitted(t) /\ ~RowLocked
  PROVE  GroupInv'
<1>1. tx'[p] = t /\ \A q \in Request \ {p} : tx'[q] = tx[q]
  BY DEF GroupInv, Transactions
<1>2. Transactions'
  BY <1>1, SMTT(30) DEF GroupInv, Transactions, Open, TxTyped, Sound
<1>3. RowHeld'
  BY <1>1 DEF GroupInv, RowHeld, RowLocked, HoldsRow, Admitted, Active
<1>4. /\ RowsTyped' /\ Absent'
      /\ CountMatchesMembers' /\ EdgesPaired' /\ ActiveHasSuperadmin'
  BY <1>1 DEF GroupInv, RowsTyped, Absent, CountMatchesMembers, EdgesPaired,
              ActiveHasSuperadmin, Active, Members, SuperAdmins, Edges
<1> QED BY <1>2, <1>3, <1>4 DEF GroupInv

\* What a transaction leaves in tx, of a read for which the checks held.
Begun(op, by, who) ==
  [op |-> op, server |-> by = Server, who |-> who,
   seen |-> [u \in who |-> role[u]], led |-> SuperAdmins \ who # {}]

\* What an operation has read and checked makes a sound transaction.
LEMMA BegunInv ==
  ASSUME GroupInv, NEW p \in Request, NEW op \in Ops, NEW by, NEW who \in SUBSET User,
         Read(p, op, by, who), Sound(Begun(op, by, who)), group.status # "absent",
         op \in {"join", "add"} => Admitted(Begun(op, by, who)) /\ ~RowLocked
  PROVE  GroupInv'
<1> DEFINE t == Begun(op, by, who)
<1>1. tx' = [tx EXCEPT ![p] = t] /\ UNCHANGED <<group, role, mine, excuse>>
  BY DEF Read, Begun
<1>2. t.op = op /\ t.server = (by = Server) /\ t.who = who
      /\ t.seen = [u \in who |-> role[u]] /\ t.led = (SuperAdmins \ who # {})
  BY DEF Begun
<1>3. t.seen \in [t.who -> Roles]
  BY <1>2 DEF GroupInv, RowsTyped
<1>4. t.server \in BOOLEAN /\ t.led \in BOOLEAN
  BY <1>2, Zenon
<1>5. Open(t)
  BY <1>2, <1>3, <1>4 DEF Open, TxTyped
<1>6. HoldsRow(t) => Admitted(t) /\ ~RowLocked
  BY <1>2 DEF HoldsRow
<1> HIDE DEF t
<1> QED BY <1>1, <1>5, <1>6, SwapInv

\* The first part of every operation: what it reads, and its checks.
LEMMA ReadInv == ASSUME GroupInv, NEW p \in Request, GroupsRead(p) PROVE GroupInv'
<1>0. role \in [User -> Roles] /\ Server \notin User
  BY Limits DEF GroupInv, RowsTyped
<1>9. ASSUME NEW u \in User, role[u] # NoEdge PROVE group.status # "absent"
  BY <1>9 DEF GroupInv, Absent
<1> USE DEF Ops
<1>1. ASSUME NEW u \in User, JoinGroup(p, u) PROVE GroupInv'
  <2>1. Sound(Begun("join", u, {u}))
    BY <1>1 DEF JoinGroup, Sound, Begun
  <2>2. Admitted(Begun("join", u, {u}))
    BY <1>1 DEF JoinGroup, Admitted, Begun
  <2> QED BY <1>1, <2>1, <2>2, BegunInv DEF JoinGroup, Active
<1>2. ASSUME NEW u \in User, LeaveGroup(p, u) PROVE GroupInv'
  <2>1. CASE SuperAdmins = {u} /\ Members = {u}
    <3>1. Read(p, "sweep", u, {u}) BY <1>2, <2>1 DEF LeaveGroup
    <3>2. Sound(Begun("sweep", u, {u})) BY DEF Sound, Begun
    <3> QED BY <1>2, <1>9, <3>1, <3>2, BegunInv DEF LeaveGroup
  <2>2. CASE ~(SuperAdmins = {u} /\ Members = {u})
    <3>1. Read(p, "leave", u, {u}) BY <1>2, <2>2 DEF LeaveGroup
    <3>2. role[u] = SuperAdmin => SuperAdmins \ {u} # {}
      BY <1>2, <2>2 DEF LeaveGroup, MayLeave, SuperAdmins
    <3>3. Sound(Begun("leave", u, {u})) BY <3>2 DEF Sound, Begun
    <3> QED BY <1>2, <1>9, <3>1, <3>3, BegunInv DEF LeaveGroup
  <2> QED BY <2>1, <2>2
<1>3. ASSUME NEW by \in User \cup {Server}, DeleteGroup(p, by) PROVE GroupInv'
  <2>1. Sound(Begun("sweep", by, {})) BY DEF Sound, Begun
  <2> QED BY <1>3, <2>1, BegunInv DEF DeleteGroup
<1>4. ASSUME NEW by \in User \cup {Server}, NEW u \in User, KickMember(p, by, u) PROVE GroupInv'
  <2>1. by # Server => role[u] # SuperAdmin
    BY <1>0, <1>4 DEF KickMember, Rank
  <2>2. Sound(Begun("kick", by, {u})) BY <2>1 DEF Sound, Begun
  <2> QED BY <1>4, <1>9, <2>2, BegunInv DEF KickMember
<1>5. ASSUME NEW by \in User \cup {Server}, NEW u \in User, PromoteMember(p, by, u) PROVE GroupInv'
  <2>1. Sound(Begun("promote", by, {u}))
    BY <1>5 DEF PromoteMember, Sound, Begun
  <2> QED BY <1>5, <1>9, <2>1, BegunInv DEF PromoteMember
<1>6. ASSUME NEW by \in User \cup {Server}, NEW u \in User, DemoteMember(p, by, u) PROVE GroupInv'
  <2>1. role[u] = SuperAdmin => SuperAdmins \ {u} # {}
    BY <1>6 DEF DemoteMember, SuperAdmins
  <2>2. Sound(Begun("demote", by, {u}))
    BY <1>6, <2>1 DEF DemoteMember, Sound, Begun
  <2> QED BY <1>6, <1>9, <2>2, BegunInv DEF DemoteMember
<1>7. ASSUME NEW by \in User \cup {Server}, NEW who \in SUBSET User, AddGroupUsers(p, by, who)
      PROVE  GroupInv'
  <2>1. Sound(Begun("add", by, Addable(who))) BY DEF Sound, Begun, Addable
  <2>2. Admitted(Begun("add", by, Addable(who)))
    BY <1>7 DEF AddGroupUsers, Admitted, Begun
  <2>3. Addable(who) \in SUBSET User BY DEF Addable
  <2> QED BY <1>7, <2>1, <2>2, <2>3, BegunInv DEF AddGroupUsers, Active
<1>8. ASSUME NEW by \in User \cup {Server}, NEW who \in SUBSET User, BanGroupUsers(p, by, who)
      PROVE  GroupInv'
  <2>1. by # Server => \A u \in Bannable(by, who) : role[u] # SuperAdmin
    BY <1>0 DEF Bannable, Rank
  <2>2. Bannable(by, who) \in SUBSET User BY DEF Bannable
  <2>3. Sound(Begun("ban", by, Bannable(by, who))) BY <2>1 DEF Sound, Begun
  <2> QED BY <1>8, <2>2, <2>3, BegunInv DEF BanGroupUsers
<1> QED BY <1>1, <1>2, <1>3, <1>4, <1>5, <1>6, <1>7, <1>8 DEF GroupsRead, Lists

\* The sweep notes the edges there are, and deletes none before the commit.
LEMMA SweepInv == ASSUME GroupInv, NEW p \in Request, SweepEdges(p) PROVE GroupInv'
<1>1. PICK t : /\ t = [op |-> "disable", server |-> tx[p].server, who |-> Edges,
                        seen |-> [u \in Edges |-> role[u]], led |-> FALSE]
               /\ tx' = [tx EXCEPT ![p] = t] /\ UNCHANGED <<group, role, mine, excuse>>
  BY DEF SweepEdges
<1>2. tx[p].server \in BOOLEAN
  BY DEF SweepEdges, GroupInv, Transactions, Open, TxTyped, Idle
<1>3. Edges \subseteq User /\ [u \in Edges |-> role[u]] \in [Edges -> Roles]
  BY DEF Edges, GroupInv, RowsTyped
<1>4. Open(t)
  BY <1>1, <1>2, <1>3 DEF Open, TxTyped, Sound, Ops
<1>5. group.status # "absent"
  BY DEF SweepEdges, GroupInv, Absent, Idle
<1> QED BY <1>1, <1>4, <1>5, SwapInv DEF HoldsRow

\* A transaction that is rolled back writes nothing.
LEMMA AbortInv == ASSUME GroupInv, NEW p \in Request, Abort(p) PROVE GroupInv'
BY SwapInv DEF Abort, HoldsRow, Idle

-----------------------------------------------------------------------------
(* Steps of the groups row alone, and the creation.                        *)

\* The group begins with its creator, as a superadmin and as its one member.
LEMMA CreateGroupInv ==
  ASSUME GroupInv, NEW u \in User, NEW open \in BOOLEAN, NEW max \in MaxCounts,
         CreateGroup(u, open, max)
  PROVE  GroupInv'
<1>1. /\ group' = [status |-> "active", open |-> open, count |-> 1, max |-> max]
      /\ role' = [role EXCEPT ![u] = SuperAdmin] /\ mine' = [mine EXCEPT ![u] = SuperAdmin]
      /\ tx' = tx /\ excuse' = excuse
      /\ role \in [User -> Roles] /\ mine \in [User -> Roles] /\ max \in Nat \ {0}
      /\ \A v \in User : role[v] = NoEdge /\ mine[v] = NoEdge
  BY Limits DEF CreateGroup, GroupInv, RowsTyped, Absent
<1>2. Members' = {u} /\ SuperAdmins' = {u}
  BY <1>1 DEF Members, SuperAdmins
<1>3. Cardinality(Members') = 1
  BY <1>2, FS_Singleton
<1>4. RowsTyped'
  <2>1. group' \in [status : {"absent", "active", "disabled"}, open : BOOLEAN,
                    count : Nat, max : Nat \ {0}]
    <3>1. 1 \in Nat OBVIOUS
    <3> QED BY <1>1, <3>1, Zenon
  <2> QED BY <1>1, <2>1 DEF RowsTyped, GroupInv
<1>5. Transactions' /\ RowHeld'
  BY <1>1 DEF CreateGroup, GroupInv, Transactions, Open, TxTyped, Sound, RowHeld, Admitted, Active
<1>6. Absent' /\ CountMatchesMembers' /\ EdgesPaired' /\ ActiveHasSuperadmin'
  BY <1>1, <1>2, <1>3 DEF Absent, CountMatchesMembers, EdgesPaired, ActiveHasSuperadmin
<1> QED BY <1>4, <1>5, <1>6 DEF GroupInv

\* An update of the row waits for whoever holds it.
LEMMA UpdateInv ==
  ASSUME GroupInv, ~RowLocked, UNCHANGED <<role, mine, tx, excuse>>,
         \/ \E open \in BOOLEAN : group' = [group EXCEPT !.open = open]
         \/ \E max \in MaxCounts : group' = [group EXCEPT !.max = max]
  PROVE  GroupInv'
<1>1. /\ group' \in [status : {"absent", "active", "disabled"}, open : BOOLEAN,
                     count : Nat, max : Nat \ {0}]
      /\ group'.status = group.status /\ group'.count = group.count
  <2>1. CASE \E open \in BOOLEAN : group' = [group EXCEPT !.open = open]
    <3>1. PICK open \in BOOLEAN : group' = [group EXCEPT !.open = open] BY <2>1
    <3>2. group' \in [status : {"absent", "active", "disabled"}, open : BOOLEAN,
                      count : Nat, max : Nat \ {0}]
      BY <3>1, Zenon DEF GroupInv, RowsTyped
    <3> QED BY <3>1, <3>2 DEF GroupInv, RowsTyped
  <2>2. CASE \E max \in MaxCounts : group' = [group EXCEPT !.max = max]
    BY <2>2, Limits DEF GroupInv, RowsTyped
  <2> QED BY <2>1, <2>2
<1>2. RowsTyped' BY <1>1 DEF GroupInv, RowsTyped
<1>3. Transactions' /\ RowHeld'
  BY DEF GroupInv, Transactions, Open, TxTyped, Sound, RowHeld, RowLocked, HoldsRow
<1>4. Absent' /\ CountMatchesMembers' /\ EdgesPaired' /\ ActiveHasSuperadmin'
  BY <1>1 DEF GroupInv, Absent, CountMatchesMembers, EdgesPaired, ActiveHasSuperadmin,
              Active, Members, SuperAdmins, Edges
<1> QED BY <1>2, <1>3, <1>4 DEF GroupInv

-----------------------------------------------------------------------------
(* Commits.                                                                *)

\* The transaction of a commit is over; the row is written by its holder, or
\* while nobody holds it.
LEMMA CommitInv ==
  ASSUME GroupInv, NEW p \in Request, tx' = [tx EXCEPT ![p] = Idle],
         HoldsRow(tx[p]) \/ ~RowLocked \/ group' = group
  PROVE  Transactions' /\ RowHeld'
<1>1. tx'[p] = Idle /\ \A q \in Request \ {p} : tx'[q] = tx[q]
  BY DEF GroupInv, Transactions
<1>2. ~HoldsRow(Idle)
  BY DEF HoldsRow, Idle
<1>3. Transactions'
  BY <1>1 DEF GroupInv, Transactions, Open, TxTyped, Sound
<1>4. RowHeld'
  BY <1>1, <1>2 DEF GroupInv, RowHeld, RowLocked, HoldsRow, Admitted, Active
<1> QED BY <1>3, <1>4

\* What a commit that no other transaction overtook has seen is still so.
LEMMA Fresh ==
  ASSUME GroupInv, NEW p \in Request, tx[p] # Idle, Excuse(p)
  PROVE  /\ excuse \subseteq excuse' /\ excuse' \subseteq {"stale", "server"}
         /\ "stale" \notin excuse' =>
              /\ \A u \in tx[p].who : role[u] = tx[p].seen[u]
              /\ tx[p].op \in {"leave", "demote"} /\ tx[p].led => ~(SuperAdmins \subseteq tx[p].who)
         /\ excuse' = {} =>
              ~(tx[p].op \in {"kick", "ban"} /\ tx[p].server /\ tx[p].who \cap SuperAdmins # {})
BY DEF GroupInv, RowsTyped, Excuse, Overtaken

\* A write of edges, to roles that are one.
LEMMA Written ==
  ASSUME GroupInv, NEW p \in Request, tx[p] # Idle,
         NEW r \in [tx[p].who -> Roles], NEW m \in [tx[p].who -> Roles],
         Write(p, tx[p].who, r, m)
  PROVE  /\ tx[p].who \subseteq User
         /\ role' \in [User -> Roles] /\ mine' \in [User -> Roles]
         /\ \A u \in User : role'[u] = IF u \in tx[p].who THEN r[u] ELSE role[u]
         /\ \A u \in User : mine'[u] = IF u \in tx[p].who THEN m[u] ELSE mine[u]
         /\ tx' = [tx EXCEPT ![p] = Idle]
BY DEF GroupInv, RowsTyped, Transactions, Open, TxTyped, Write

\* The holder of the row adds its users: no one has left or joined by then.
LEMMA WriteJoinInv == ASSUME GroupInv, NEW p \in Request, WriteJoin(p) PROVE GroupInv'
<1> DEFINE to == IF group.open THEN Member ELSE JoinRequest
           r == All(tx[p].who, to)
<1>1. /\ tx[p].op = "join" /\ tx[p] # Idle
      /\ Write(p, tx[p].who, r, r) /\ Excuse(p)
      /\ group' = IF group.open THEN [group EXCEPT !.count = @ + 1] ELSE group
  BY DEF WriteJoin, Idle
<1>2. PICK u \in User : tx[p].who = {u} /\ tx[p].seen[u] = NoEdge
  BY <1>1 DEF GroupInv, Transactions, Open, Sound
<1>3. r \in [tx[p].who -> Roles]
  BY DEF All
<1>4. /\ role' \in [User -> Roles] /\ mine' \in [User -> Roles]
      /\ \A v \in User : role'[v] = (IF v = u THEN to ELSE role[v])
                         /\ mine'[v] = (IF v = u THEN to ELSE mine[v])
      /\ tx' = [tx EXCEPT ![p] = Idle]
  BY <1>1, <1>2, <1>3, Written, SMTT(30) DEF All
<1>5. Transactions' /\ RowHeld'
  BY <1>1, <1>4, CommitInv DEF HoldsRow
<1>6. Active
  BY <1>1 DEF GroupInv, RowHeld, HoldsRow, Admitted
<1>7. /\ group' \in [status : {"absent", "active", "disabled"}, open : BOOLEAN,
                     count : Nat, max : Nat \ {0}]
      /\ group'.status = "active"
      /\ group'.count = group.count + (IF group.open THEN 1 ELSE 0)
  BY <1>1, <1>6 DEF GroupInv, RowsTyped, Active
<1>8. RowsTyped' /\ Absent'
  BY <1>1, <1>4, <1>7, Fresh DEF RowsTyped, Absent
<1>9. CountMatchesMembers'
  <2> SUFFICES ASSUME "stale" \notin excuse' PROVE group'.count = Cardinality(Members')
    BY DEF CountMatchesMembers
  <2>1. role[u] = NoEdge /\ "stale" \notin excuse
    BY <1>1, <1>2, Fresh
  <2>2. group.count = Cardinality(Members) /\ u \notin Members
    BY <1>6, <2>1 DEF GroupInv, CountMatchesMembers, Members
  <2>3. Members' = IF group.open THEN Members \cup {u} ELSE Members
    BY <1>4, <2>1 DEF Members
  <2>4. Members \in SUBSET User BY DEF Members
  <2> QED BY <1>7, <2>2, <2>3, <2>4, UsersFinite, FS_AddElement
<1>10. EdgesPaired'
  BY <1>1, <1>4, <1>7, Fresh DEF GroupInv, EdgesPaired
<1>11. ActiveHasSuperadmin'
  <2> SUFFICES ASSUME excuse' = {} PROVE SuperAdmins' # {}
    BY DEF ActiveHasSuperadmin
  <2>1. role[u] = NoEdge /\ excuse = {}
    BY <1>1, <1>2, Fresh
  <2> QED BY <1>4, <1>6, <2>1 DEF GroupInv, ActiveHasSuperadmin, SuperAdmins
<1> QED BY <1>5, <1>8, <1>9, <1>10, <1>11 DEF GroupInv

\* A join and an add write while they hold the row: their check still stands.
LEMMA WriteAddInv == ASSUME GroupInv, NEW p \in Request, WriteAdd(p) PROVE GroupInv'
<1> DEFINE who == tx[p].who
           r == All(who, Member)
<1>1. /\ tx[p].op = "add" /\ tx[p] # Idle
      /\ Write(p, who, r, r) /\ Excuse(p)
      /\ group' = [group EXCEPT !.count = @ + Cardinality(who)]
  BY DEF WriteAdd, Idle
<1>2. who \in SUBSET User /\ \A u \in who : tx[p].seen[u] \in {NoEdge, JoinRequest}
  BY <1>1 DEF GroupInv, Transactions, Open, TxTyped, Sound
<1>3. r \in [who -> Roles]
  BY DEF All
<1>4. /\ role' \in [User -> Roles] /\ mine' \in [User -> Roles]
      /\ \A v \in User : role'[v] = (IF v \in tx[p].who THEN Member ELSE role[v])
                         /\ mine'[v] = (IF v \in tx[p].who THEN Member ELSE mine[v])
      /\ tx' = [tx EXCEPT ![p] = Idle]
  BY <1>1, <1>3, Written DEF All
<1>5. Transactions' /\ RowHeld'
  BY <1>1, <1>4, CommitInv DEF HoldsRow
<1>6. Active
  BY <1>1 DEF GroupInv, RowHeld, HoldsRow, Admitted
<1>7. Cardinality(who) \in Nat
  BY <1>2, UsersFinite
<1>8. /\ group' \in [status : {"absent", "active", "disabled"}, open : BOOLEAN,
                     count : Nat, max : Nat \ {0}]
      /\ group'.status = "active"
      /\ group'.count = group.count + Cardinality(who)
  BY <1>1, <1>6, <1>7 DEF GroupInv, RowsTyped, Active
<1>9. RowsTyped' /\ Absent'
  BY <1>1, <1>4, <1>8, Fresh DEF RowsTyped, Absent
<1>10. CountMatchesMembers'
  <2> SUFFICES ASSUME "stale" \notin excuse' PROVE group'.count = Cardinality(Members')
    BY DEF CountMatchesMembers
  <2>1. "stale" \notin excuse /\ \A u \in who : role[u] \in {NoEdge, JoinRequest}
    BY <1>1, <1>2, Fresh
  <2>2. group.count = Cardinality(Members) /\ Members \cap who = {}
    BY <1>6, <2>1 DEF GroupInv, CountMatchesMembers, Members
  <2>3. Members' = Members \cup who
    BY <1>2, <1>4 DEF Members
  <2>4. Members \in SUBSET User BY DEF Members
  <2>5. /\ IsFiniteSet(Members) /\ Cardinality(Members) \in Nat
        /\ IsFiniteSet(who) /\ Cardinality({}) = 0
    BY <1>2, <2>4, UsersFinite, FS_EmptySet
  <2>6. Cardinality(Members \cup who) = Cardinality(Members) + Cardinality(who) - Cardinality({})
    BY <2>2, <2>5, FS_Union
  <2> QED BY <1>7, <1>8, <2>2, <2>3, <2>5, <2>6
<1>11. EdgesPaired'
  BY <1>1, <1>4, <1>8, Fresh DEF GroupInv, EdgesPaired
<1>12. ActiveHasSuperadmin'
  <2> SUFFICES ASSUME excuse' = {} PROVE SuperAdmins' # {}
    BY DEF ActiveHasSuperadmin
  <2>1. excuse = {} /\ \A u \in who : role[u] \in {NoEdge, JoinRequest}
    BY <1>1, <1>2, Fresh
  <2> QED BY <1>4, <1>6, <2>1 DEF GroupInv, ActiveHasSuperadmin, SuperAdmins
<1> QED BY <1>5, <1>9, <1>10, <1>11, <1>12 DEF GroupInv

\* The subtraction of the members that a removal read.
LEMMA Uncounted ==
  ASSUME GroupInv, NEW p \in Request, tx[p] # Idle, Uncount(p)
  PROVE  /\ group' \in [status : {"absent", "active", "disabled"}, open : BOOLEAN,
                        count : Nat, max : Nat \ {0}]
         /\ group'.status = group.status
         /\ Counted(p) \in SUBSET User
         /\ group'.count = Less(Cardinality(Counted(p)))
         /\ group'.count <= group.count
         /\ ~RowLocked \/ group' = group
<1>1. Counted(p) \in SUBSET User
  BY DEF Counted, GroupInv, Transactions, Open, TxTyped
<1>2. Cardinality(Counted(p)) \in Nat /\ (Counted(p) = {} => Cardinality(Counted(p)) = 0)
  BY <1>1, UsersFinite, FS_EmptySet
<1>3. /\ Less(Cardinality(Counted(p))) \in Nat
      /\ Less(Cardinality(Counted(p))) <= group.count
      /\ Counted(p) = {} => Less(Cardinality(Counted(p))) = group.count
  BY <1>2 DEF Less, GroupInv, RowsTyped
<1>4. group' = [group EXCEPT !.count = Less(Cardinality(Counted(p)))]
  BY DEF Uncount
<1>5. Counted(p) = {} => group' = group
  BY <1>3, <1>4 DEF GroupInv, RowsTyped
<1> QED BY <1>1, <1>3, <1>4, <1>5 DEF Uncount, GroupInv, RowsTyped

\* WriteKick, WriteBan and WriteLeave: members that were read are no more.
LEMMA RemovalInv ==
  ASSUME GroupInv, NEW p \in Request, tx[p].op \in {"kick", "ban", "leave"},
         NEW to \in {NoEdge, Banned}, to = Banned <=> tx[p].op = "ban",
         Write(p, tx[p].who, All(tx[p].who, to), All(tx[p].who, NoEdge)),
         Uncount(p), Excuse(p)
  PROVE  GroupInv'
<1> DEFINE who == tx[p].who
<1>1. tx[p] # Idle
  BY DEF Idle
<1>2. who \in SUBSET User /\ Sound(tx[p])
  BY <1>1 DEF GroupInv, Transactions, Open, TxTyped
<1>3. All(who, to) \in [who -> Roles] /\ All(who, NoEdge) \in [who -> Roles]
  BY DEF All
<1>4. /\ role' \in [User -> Roles] /\ mine' \in [User -> Roles]
      /\ \A v \in User : role'[v] = (IF v \in tx[p].who THEN to ELSE role[v])
                         /\ mine'[v] = (IF v \in tx[p].who THEN NoEdge ELSE mine[v])
      /\ tx' = [tx EXCEPT ![p] = Idle]
  BY <1>1, <1>3, Written DEF All
<1>5. Transactions' /\ RowHeld'
  BY <1>1, <1>4, CommitInv, Uncounted
<1>6. RowsTyped'
  BY <1>1, <1>4, Uncounted, Fresh DEF RowsTyped
<1>7. Absent'
  BY <1>1, Uncounted DEF GroupInv, Absent
<1>8. CountMatchesMembers'
  <2> SUFFICES ASSUME "stale" \notin excuse', Active'
               PROVE group'.count = Cardinality(Members')
    BY DEF CountMatchesMembers
  <2>1. "stale" \notin excuse /\ \A u \in who : role[u] = tx[p].seen[u]
    BY <1>1, Fresh
  <2>2. group.count = Cardinality(Members)
    BY <1>1, <2>1, Uncounted DEF GroupInv, CountMatchesMembers, Active
  <2>3. Counted(p) \subseteq Members /\ Members' = Members \ Counted(p)
    BY <1>2, <1>4, <2>1 DEF Members, Counted
  <2>4. Members \in SUBSET User BY DEF Members
  <2>5. /\ IsFiniteSet(Members) /\ Cardinality(Members) \in Nat
        /\ IsFiniteSet(Counted(p)) /\ Cardinality(Counted(p)) \in Nat
        /\ Cardinality(Counted(p)) <= Cardinality(Members)
    BY <2>3, <2>4, UsersFinite, FS_Subset
  <2>6. Members \cap Counted(p) = Counted(p) BY <2>3
  <2>7. Cardinality(Members \ Counted(p)) =
          Cardinality(Members) - Cardinality(Members \cap Counted(p))
    BY <2>5, FS_Difference
  <2>8. Cardinality(Members \ Counted(p)) = Cardinality(Members) - Cardinality(Counted(p))
    BY <2>6, <2>7
  <2>9. group'.count = Less(Cardinality(Counted(p)))
    BY <1>1, Uncounted
  <2> QED BY <2>2, <2>3, <2>5, <2>8, <2>9 DEF Less
<1>9. EdgesPaired'
  <2> SUFFICES ASSUME "stale" \notin excuse'
               PROVE  /\ \A u \in User : mine'[u] = IF role'[u] = Banned THEN NoEdge ELSE role'[u]
                      /\ group'.status = "disabled" => \A u \in Edges' : role'[u] = Banned
    BY DEF EdgesPaired
  <2>1. EdgesPaired /\ "stale" \notin excuse /\ group'.status = group.status
    BY <1>1, Fresh, Uncounted DEF GroupInv
  <2> QED BY <1>4, <2>1 DEF EdgesPaired, Edges
<1>10. ActiveHasSuperadmin'
  <2> SUFFICES ASSUME excuse' = {}, Active' PROVE SuperAdmins' # {}
    BY DEF ActiveHasSuperadmin
  <2>1. /\ excuse = {} /\ \A u \in who : role[u] = tx[p].seen[u]
        /\ tx[p].op = "leave" /\ tx[p].led => ~(SuperAdmins \subseteq tx[p].who)
        /\ ~(tx[p].op \in {"kick", "ban"} /\ tx[p].server /\ tx[p].who \cap SuperAdmins # {})
    BY <1>1, Fresh
  <2>2. SuperAdmins # {}
    BY <1>1, <2>1, Uncounted DEF GroupInv, ActiveHasSuperadmin, Active
  <2>3. SuperAdmins \ who # {}
    BY <1>2, <2>1, <2>2 DEF Sound, SuperAdmins
  <2> QED BY <1>4, <2>3 DEF SuperAdmins
<1> QED BY <1>5, <1>6, <1>7, <1>8, <1>9, <1>10 DEF GroupInv

\* A promotion and a demotion change a role and not the count.
LEMMA WriteRankInv == ASSUME GroupInv, NEW p \in Request, WriteRank(p) PROVE GroupInv'
<1> DEFINE who == tx[p].who
           d == IF tx[p].op = "promote" THEN -1 ELSE 1
           new == [u \in who |-> tx[p].seen[u] + d]
<1>1. /\ tx[p].op \in {"promote", "demote"} /\ tx[p] # Idle
      /\ Write(p, who, Ranked(role, who, new), Ranked(mine, who, new))
      /\ Excuse(p) /\ group' = group
  BY DEF WriteRank, Idle
<1>2. who \in SUBSET User /\ Sound(tx[p]) /\ role \in [User -> Roles] /\ mine \in [User -> Roles]
  BY <1>1 DEF GroupInv, RowsTyped, Transactions, Open, TxTyped
<1>3. \A u \in who : new[u] \in SuperAdmin..Member
  BY <1>1, <1>2 DEF Sound
<1> HIDE DEF new
<1>4. Ranked(role, who, new) \in [who -> Roles] /\ Ranked(mine, who, new) \in [who -> Roles]
  BY <1>3 DEF Ranked
<1>5. /\ role' \in [User -> Roles] /\ mine' \in [User -> Roles]
      /\ \A v \in User : role'[v] = (IF v \in who THEN Ranked(role, who, new)[v] ELSE role[v])
      /\ \A v \in User : mine'[v] = (IF v \in who THEN Ranked(mine, who, new)[v] ELSE mine[v])
      /\ tx' = [tx EXCEPT ![p] = Idle]
  BY <1>1, <1>4, Written
<1>6. /\ \A v \in who : role'[v] = (IF role[v] = NoEdge THEN NoEdge ELSE new[v])
                        /\ mine'[v] = (IF mine[v] = NoEdge THEN NoEdge ELSE new[v])
      /\ \A v \in User \ who : role'[v] = role[v] /\ mine'[v] = mine[v]
  BY <1>2, <1>5 DEF Ranked
<1>7. Transactions' /\ RowHeld'
  BY <1>1, <1>5, CommitInv
<1>8. RowsTyped'
  BY <1>1, <1>5, Fresh DEF GroupInv, RowsTyped
<1>9. Absent'
  BY <1>1, <1>2, <1>6 DEF GroupInv, Absent
<1>10. "stale" \notin excuse' =>
         /\ "stale" \notin excuse
         /\ \A u \in who : role[u] = tx[p].seen[u] /\ role[u] \in SuperAdmin..Member
  BY <1>1, <1>2, Fresh DEF Sound
<1>11. CountMatchesMembers'
  <2>1. "stale" \notin excuse' => Members' = Members
    BY <1>2, <1>3, <1>6, <1>10 DEF Members
  <2> QED BY <1>1, <1>10, <2>1 DEF GroupInv, CountMatchesMembers, Active
<1>12. EdgesPaired'
  <2> SUFFICES ASSUME "stale" \notin excuse'
               PROVE  /\ \A u \in User : mine'[u] = IF role'[u] = Banned THEN NoEdge ELSE role'[u]
                      /\ group'.status = "disabled" => \A u \in Edges' : role'[u] = Banned
    BY DEF EdgesPaired
  <2>1. EdgesPaired /\ "stale" \notin excuse BY <1>10 DEF GroupInv
  <2>2. \A u \in who : mine[u] = role[u] BY <1>2, <1>10, <2>1 DEF EdgesPaired
  <2>3. \A u \in User : mine'[u] = IF role'[u] = Banned THEN NoEdge ELSE role'[u]
    BY <1>2, <1>3, <1>6, <1>10, <2>1, <2>2 DEF EdgesPaired
  <2>4. group.status = "disabled" => who = {}
    BY <1>2, <1>10, <2>1 DEF EdgesPaired, Edges
  <2>5. group'.status = "disabled" => \A u \in Edges' : role'[u] = Banned
    BY <1>1, <1>6, <2>1, <2>4 DEF EdgesPaired, Edges
  <2> QED BY <2>3, <2>5
<1>13. ActiveHasSuperadmin'
  <2> SUFFICES ASSUME excuse' = {}, Active' PROVE SuperAdmins' # {}
    BY DEF ActiveHasSuperadmin
  <2>1. /\ excuse = {} /\ "stale" \notin excuse'
        /\ tx[p].op = "demote" /\ tx[p].led => ~(SuperAdmins \subseteq who)
    BY <1>1, Fresh
  <2>2. SuperAdmins # {}
    BY <1>1, <2>1 DEF GroupInv, ActiveHasSuperadmin, Active
  <2>3. SuperAdmins \ who # {}
    BY <1>1, <1>2, <1>10, <2>1, <2>2 DEF Sound, SuperAdmins
  <2> QED BY <1>6, <2>3 DEF SuperAdmins
<1> QED BY <1>7, <1>8, <1>9, <1>11, <1>12, <1>13 DEF GroupInv

\* The commit of a deletion takes the edges the sweep saw, and the count.
LEMMA DisableInv == ASSUME GroupInv, NEW p \in Request, Disable(p) PROVE GroupInv'
<1> DEFINE who == tx[p].who
<1>1. /\ tx[p] # Idle /\ ~RowLocked
      /\ Write(p, who, All(who, NoEdge), All(who, NoEdge))
      /\ group' = [group EXCEPT !.status = "disabled", !.count = 0]
      /\ excuse' = IF Edges \subseteq who THEN excuse ELSE excuse \cup {"stale"}
  BY DEF Disable, Idle
<1>2. All(who, NoEdge) \in [who -> Roles]
  BY DEF All
<1>3. /\ who \subseteq User
      /\ role' \in [User -> Roles] /\ mine' \in [User -> Roles]
      /\ \A v \in User : role'[v] = (IF v \in tx[p].who THEN NoEdge ELSE role[v])
                         /\ mine'[v] = (IF v \in tx[p].who THEN NoEdge ELSE mine[v])
      /\ tx' = [tx EXCEPT ![p] = Idle]
  BY <1>1, <1>2, Written DEF All
<1>4. Transactions' /\ RowHeld'
  BY <1>1, <1>3, CommitInv
<1>5. RowsTyped' /\ group'.status = "disabled"
  BY <1>1, <1>3 DEF GroupInv, RowsTyped
<1>6. Absent' /\ CountMatchesMembers' /\ ActiveHasSuperadmin'
  BY <1>5 DEF Absent, CountMatchesMembers, ActiveHasSuperadmin, Active
<1>7. EdgesPaired'
  BY <1>1, <1>3 DEF GroupInv, EdgesPaired, Edges
<1> QED BY <1>4, <1>5, <1>6, <1>7 DEF GroupInv

-----------------------------------------------------------------------------
\* Every step keeps the invariant of the group.
LEMMA GroupsNextInv == GroupInv /\ [GroupsNext]_groupVars => GroupInv'
<1> SUFFICES ASSUME GroupInv, [GroupsNext]_groupVars PROVE GroupInv'
  OBVIOUS
<1>1. ASSUME NEW u \in User, NEW open \in BOOLEAN, NEW max \in MaxCounts,
             CreateGroup(u, open, max)
      PROVE  GroupInv'
  BY <1>1, CreateGroupInv
<1>2. ASSUME NEW by, NEW open \in BOOLEAN, UpdateGroup(by, open) PROVE GroupInv'
  BY <1>2, UpdateInv DEF UpdateGroup
<1>3. ASSUME NEW max \in MaxCounts, UpdateGroupMaxCount(max) PROVE GroupInv'
  BY <1>3, UpdateInv DEF UpdateGroupMaxCount
<1>4. ASSUME NEW p \in Request, GroupsRead(p) PROVE GroupInv'
  BY <1>4, ReadInv
<1>5. ASSUME NEW p \in Request, GroupsWrite(p) PROVE GroupInv'
  <2>1. CASE WriteKick(p) BY <2>1, RemovalInv DEF WriteKick
  <2>2. CASE WriteBan(p) BY <2>2, RemovalInv DEF WriteBan
  <2>3. CASE WriteLeave(p) BY <2>3, RemovalInv DEF WriteLeave
  <2> QED BY <1>5, <2>1, <2>2, <2>3, WriteJoinInv, WriteAddInv, SweepInv, DisableInv,
             WriteRankInv, AbortInv DEF GroupsWrite
<1>6. CASE UNCHANGED groupVars
  BY <1>6 DEF groupVars, GroupInv, RowsTyped, Transactions, Open, TxTyped, Sound, RowHeld,
              HoldsRow, Admitted, Absent, CountMatchesMembers, EdgesPaired,
              ActiveHasSuperadmin, Active, Members, SuperAdmins, Edges
<1> QED BY <1>1, <1>2, <1>3, <1>4, <1>5, <1>6 DEF GroupsNext

\* The invariant of the group holds in every behaviour.
LEMMA GroupsInvariance == GroupsSpec => []GroupInv
BY GroupsInitInv, GroupsNextInv, PTL DEF GroupsSpec

\* edge_count of an active group counts its members, whatever JoinGroup,
\* AddGroupUsers, kicks, bans and departures interleave, unless one of them
\* wrote what another had changed since it read (groups.go).
THEOREM CountsMembers == GroupsSpec => []CountMatchesMembers
<1>1. GroupInv => CountMatchesMembers BY DEF GroupInv
<1> QED BY <1>1, GroupsInvariance, PTL

\* The edges of a group come in pairs (groups.go), up to such stale writes.
THEOREM PairsOfEdges == GroupsSpec => []EdgesPaired
<1>1. GroupInv => EdgesPaired BY DEF GroupInv
<1> QED BY <1>1, GroupsInvariance, PTL

\* An active group keeps a superadmin (LeaveGroup, DemoteMember, the ranks that
\* KickMember and BanGroupUsers compare), up to such writes and the server's own.
THEOREM KeepsSuperadmin == GroupsSpec => []ActiveHasSuperadmin
<1>1. GroupInv => ActiveHasSuperadmin BY DEF GroupInv
<1> QED BY <1>1, GroupsInvariance, PTL

Growth == group'.count > group.count => group'.count <= group'.max

\* A step that makes the group larger leaves it within its limit of that moment.
LEMMA StepGrowth == GroupInv /\ [GroupsNext]_groupVars => Growth
<1> SUFFICES ASSUME GroupInv, [GroupsNext]_groupVars PROVE Growth
  OBVIOUS
<1>1. group.count \in Nat /\ group.max \in Nat /\ RowsTyped
  BY DEF GroupInv, RowsTyped
<1>2. CASE UNCHANGED group
  BY <1>1, <1>2 DEF Growth
<1>3. ASSUME NEW u \in User, NEW open \in BOOLEAN, NEW max \in MaxCounts,
             CreateGroup(u, open, max)
      PROVE  Growth
  BY <1>3, Limits DEF CreateGroup, Growth
<1>4. ASSUME NEW by, NEW open \in BOOLEAN, UpdateGroup(by, open) PROVE Growth
  BY <1>1, <1>4 DEF UpdateGroup, RowsTyped, Growth
<1>5. ASSUME NEW max \in MaxCounts, UpdateGroupMaxCount(max) PROVE Growth
  BY <1>1, <1>5 DEF UpdateGroupMaxCount, RowsTyped, Growth
<1>6. ASSUME NEW p \in Request, WriteJoin(p) PROVE Growth
  <2>1. group.open => group.count < group.max
    BY <1>6 DEF WriteJoin, GroupInv, RowHeld, HoldsRow, Admitted
  <2> QED BY <1>1, <1>6, <2>1 DEF WriteJoin, RowsTyped, Growth
<1>7. ASSUME NEW p \in Request, WriteAdd(p) PROVE Growth
  <2>1. group.count + Cardinality(tx[p].who) <= group.max
    BY <1>7 DEF WriteAdd, GroupInv, RowHeld, HoldsRow, Admitted
  <2>2. group'.count = group.count + Cardinality(tx[p].who) /\ group'.max = group.max
    BY <1>1, <1>7 DEF WriteAdd, RowsTyped
  <2> QED BY <2>1, <2>2 DEF Growth
<1>8. ASSUME NEW p \in Request, WriteKick(p) \/ WriteBan(p) \/ WriteLeave(p) PROVE Growth
  <2>1. tx[p] # Idle /\ Uncount(p)
    BY <1>8 DEF WriteKick, WriteBan, WriteLeave, Idle
  <2>2. group'.count <= group.count /\ group'.count \in Nat
    BY <2>1, Uncounted
  <2> QED BY <1>1, <2>2 DEF Growth
<1>9. ASSUME NEW p \in Request, Disable(p) PROVE Growth
  BY <1>1, <1>9 DEF Disable, RowsTyped, Growth
<1>10. ASSUME NEW p \in Request,
              GroupsRead(p) \/ SweepEdges(p) \/ WriteRank(p) \/ Abort(p)
       PROVE  UNCHANGED group
  BY <1>10 DEF GroupsRead, JoinGroup, LeaveGroup, DeleteGroup, KickMember, PromoteMember,
               DemoteMember, AddGroupUsers, BanGroupUsers, Read, SweepEdges, WriteRank, Abort
<1> QED BY <1>2, <1>3, <1>4, <1>5, <1>6, <1>7, <1>8, <1>9, <1>10
        DEF GroupsNext, GroupsWrite, groupVars

\* No interleaving of JoinGroup and AddGroupUsers, which select the row FOR
\* UPDATE, takes edge_count past max_count (groups.go).
THEOREM GrowsWithinMax == GroupsSpec => CountGrowsWithinMax
<1>1. GroupInv /\ [GroupsNext]_groupVars =>
        [group'.count > group.count => group'.count <= group'.max]_groupVars
  BY StepGrowth DEF Growth
<1> QED BY <1>1, GroupsInvariance, PTL DEF GroupsSpec, CountGrowsWithinMax

-----------------------------------------------------------------------------
(* Friends.  What each statement does to the rows and the counts.          *)

Graph == [edge : [User -> [User -> EdgeStates]], count : [User -> Nat]]

\* The rows of x.
Row(g, x) == {y \in User : g.edge[x][y] # "none"}

Legal(g) == \A x, y \in User : LegalPair(g.edge[x][y], g.edge[y][x])
Counts(g) == \A x \in User : g.count[x] = Cardinality(Row(g, x))
Fit(g) == Legal(g) /\ Counts(g)

\* h is g with the rows between u and v set to a and b.
PairSet(g, h, u, v, a, b) ==
  \A x, y \in User :
    h.edge[x][y] = IF x = u /\ y = v THEN a
                   ELSE IF x = v /\ y = u THEN b ELSE g.edge[x][y]

\* The rows that a change of one pair adds, less those that it takes.
Gain(old, new) == IF old = "none" /\ new # "none" THEN 1
                  ELSE IF old # "none" /\ new = "none" THEN -1 ELSE 0

\* The rows of a user are finitely many.
LEMMA RowCard ==
  ASSUME NEW g \in Graph, NEW x \in User
  PROVE  IsFiniteSet(Row(g, x)) /\ Cardinality(Row(g, x)) \in Nat
<1>1. Row(g, x) \in SUBSET User BY DEF Row
<1> QED BY <1>1, UsersFinite

\* A change of one edge of a user changes the number of its rows by Gain.
LEMMA RowGain ==
  ASSUME NEW g \in Graph, NEW h \in Graph, NEW x \in User, NEW y \in User,
         \A z \in User \ {y} : h.edge[x][z] = g.edge[x][z]
  PROVE  Cardinality(Row(h, x)) = Cardinality(Row(g, x)) + Gain(g.edge[x][y], h.edge[x][y])
<1>1. IsFiniteSet(Row(g, x)) /\ Cardinality(Row(g, x)) \in Nat
  BY RowCard
<1>2. CASE g.edge[x][y] = "none" /\ h.edge[x][y] # "none"
  <2>1. Row(h, x) = Row(g, x) \cup {y} /\ y \notin Row(g, x)
    BY <1>2 DEF Row
  <2> QED BY <1>1, <1>2, <2>1, FS_AddElement DEF Gain
<1>3. CASE g.edge[x][y] # "none" /\ h.edge[x][y] = "none"
  <2>1. Row(h, x) = Row(g, x) \ {y} /\ y \in Row(g, x)
    BY <1>3 DEF Row
  <2> QED BY <1>1, <1>3, <2>1, FS_RemoveElement DEF Gain
<1>4. CASE g.edge[x][y] = "none" <=> h.edge[x][y] = "none"
  <2>1. Row(h, x) = Row(g, x)
    BY <1>4 DEF Row
  <2> QED BY <1>1, <1>4, <2>1 DEF Gain
<1> QED BY <1>2, <1>3, <1>4

\* Two users are two.
LEMMA PairCard ==
  ASSUME NEW x, NEW y, x # y
  PROVE  IsFiniteSet({x, y}) /\ Cardinality({x, y}) = 2
<1>1. IsFiniteSet({x}) /\ Cardinality({x}) = 1
  BY FS_Singleton
<1>2. Cardinality({x} \cup {y}) = Cardinality({x}) + 1 /\ IsFiniteSet({x} \cup {y})
  BY <1>1, FS_AddElement
<1>3. {x} \cup {y} = {x, y}
  OBVIOUS
<1> QED BY <1>1, <1>2, <1>3

\* A change of one pair to a legal one, with the counts that go with it.
LEMMA PairFit ==
  ASSUME NEW g \in Graph, NEW h \in Graph, Fit(g),
         NEW u \in User, NEW v \in User, u # v, NEW a, NEW b,
         PairSet(g, h, u, v, a, b), LegalPair(a, b), LegalPair(b, a),
         \A x \in User \ {u, v} : h.count[x] = g.count[x],
         h.count[u] = g.count[u] + Gain(g.edge[u][v], a),
         h.count[v] = g.count[v] + Gain(g.edge[v][u], b)
  PROVE  Fit(h)
<1>1. Legal(h)
  BY DEF Fit, Legal, PairSet
<1>2. ASSUME NEW x \in User \ {u, v} PROVE h.count[x] = Cardinality(Row(h, x))
  <2>1. Row(h, x) = Row(g, x) BY DEF Row, PairSet
  <2> QED BY <2>1 DEF Fit, Counts
<1>3. h.edge[u][v] = a /\ h.edge[v][u] = b
  BY DEF PairSet
<1>4. h.count[u] = Cardinality(Row(h, u))
  <2>1. \A z \in User \ {v} : h.edge[u][z] = g.edge[u][z] BY DEF PairSet
  <2>2. Cardinality(Row(h, u)) = Cardinality(Row(g, u)) + Gain(g.edge[u][v], h.edge[u][v])
    BY <2>1, RowGain
  <2> QED BY <1>3, <2>2 DEF Fit, Counts
<1>5. h.count[v] = Cardinality(Row(h, v))
  <2>1. \A z \in User \ {u} : h.edge[v][z] = g.edge[v][z] BY DEF PairSet
  <2>2. Cardinality(Row(h, v)) = Cardinality(Row(g, v)) + Gain(g.edge[v][u], h.edge[v][u])
    BY <2>1, RowGain
  <2> QED BY <1>3, <2>2 DEF Fit, Counts
<1> QED BY <1>1, <1>2, <1>4, <1>5 DEF Fit, Counts

\* The counts of rows that are there are positive.
LEMMA Positive ==
  ASSUME NEW g \in Graph, Fit(g), NEW x \in User, NEW y \in User, g.edge[x][y] # "none"
  PROVE  g.count[x] > 0
<1>1. y \in Row(g, x) BY DEF Row
<1>2. IsFiniteSet(Row(g, x)) /\ Cardinality(Row(g, x)) \in Nat BY RowCard
<1>3. Cardinality(Row(g, x)) # 0 BY <1>1, <1>2, FS_EmptySet
<1> QED BY <1>2, <1>3 DEF Fit, Counts

\* h is g with one row set, with the rows of a set made friends, with a count
\* up, with a count down.
SetTo(g, h, u, v, st) ==
  /\ h \in Graph /\ h.count = g.count
  /\ \A x, y \in User : h.edge[x][y] = IF x = u /\ y = v THEN st ELSE g.edge[x][y]
AcceptTo(g, h, rows) ==
  /\ h \in Graph /\ h.count = g.count
  /\ \A x, y \in User : h.edge[x][y] = IF <<x, y>> \in rows THEN "friend" ELSE g.edge[x][y]
UpTo(g, h, u) ==
  /\ h \in Graph /\ h.edge = g.edge /\ h.count[u] = g.count[u] + 1
  /\ \A x \in User \ {u} : h.count[x] = g.count[x]
DownTo(g, h, u) ==
  /\ h \in Graph /\ h.edge = g.edge
  /\ g.count[u] > 0 => h.count[u] = g.count[u] - 1
  /\ \A x \in User \ {u} : h.count[x] = g.count[x]

\* Set writes the one edge, in one direction.
LEMMA SetAt ==
  ASSUME NEW g \in Graph, NEW u \in User, NEW v \in User, NEW st \in EdgeStates
  PROVE  SetTo(g, Set(g, u, v, st), u, v, st)
BY DEF Set, Graph, SetTo

\* Up adds one to the count of one user.
LEMMA UpAt == ASSUME NEW g \in Graph, NEW u \in User PROVE UpTo(g, Up(g, u), u)
<1>1. g.edge \in [User -> [User -> EdgeStates]] /\ g.count \in [User -> Nat]
  BY DEF Graph
<1>2. Up(g, u) \in Graph
  BY DEF Up, Graph
<1>3. /\ Up(g, u).edge = g.edge
      /\ Up(g, u).count = [g.count EXCEPT ![u] = @ + 1]
  BY DEF Up, Graph
<1> QED BY <1>1, <1>2, <1>3 DEF UpTo

\* Down takes one from the count of one user, and stops at zero.
LEMMA DownAt == ASSUME NEW g \in Graph, NEW u \in User PROVE DownTo(g, Down(g, u), u)
<1>1. g.edge \in [User -> [User -> EdgeStates]] /\ g.count \in [User -> Nat]
  BY DEF Graph
<1> DEFINE n == IF g.count[u] > 0 THEN g.count[u] - 1 ELSE 0
<1>2. n \in Nat
  BY <1>1
<1>3. Down(g, u) = [g EXCEPT !.count[u] = n]
  BY DEF Down
<1> HIDE DEF n
<1>4. Down(g, u) \in Graph
  BY <1>2, <1>3 DEF Graph
<1>5. Down(g, u).edge = g.edge /\ Down(g, u).count = [g.count EXCEPT ![u] = n]
  BY <1>3 DEF Graph
<1> QED BY <1>1, <1>4, <1>5 DEF n, DownTo

\* A graph is its edges and its counts.
LEMMA SameGraph ==
  ASSUME NEW g \in Graph, NEW h \in Graph, h.count = g.count,
         \A x, y \in User : h.edge[x][y] = g.edge[x][y]
  PROVE  h = g /\ h.edge = g.edge
<1>1. /\ g.edge \in [User -> [User -> EdgeStates]] /\ h.edge \in [User -> [User -> EdgeStates]]
  BY DEF Graph
<1>2. \A x \in User : h.edge[x] = g.edge[x]
  BY <1>1
<1>3. h.edge = g.edge
  BY <1>1, <1>2
<1> QED BY <1>3 DEF Graph

\* A graph whose rows are given by a table of edges.
LEMMA Tabled ==
  ASSUME NEW g \in Graph, NEW e \in [User -> [User -> EdgeStates]]
  PROVE  /\ [g EXCEPT !.edge = e] \in Graph
         /\ [g EXCEPT !.edge = e].count = g.count /\ [g EXCEPT !.edge = e].edge = e
BY DEF Graph

\* Accept makes the given rows friends, and leaves the others.
LEMMA AcceptAt ==
  ASSUME NEW g \in Graph, NEW rows
  PROVE  AcceptTo(g, Accept(g, rows), rows)
<1> DEFINE e == [x \in User |-> [y \in User |->
                   IF <<x, y>> \in rows THEN "friend" ELSE g.edge[x][y]]]
<1>1. e \in [User -> [User -> EdgeStates]]
  BY DEF Graph, EdgeStates
<1>2. \A x, y \in User : e[x][y] = IF <<x, y>> \in rows THEN "friend" ELSE g.edge[x][y]
  OBVIOUS
<1>3. Accept(g, rows) = [g EXCEPT !.edge = e]
  BY DEF Accept
<1> HIDE DEF e
<1>4. Accept(g, rows) \in Graph /\ Accept(g, rows).count = g.count /\ Accept(g, rows).edge = e
  BY <1>1, <1>3, Tabled
<1> QED BY <1>2, <1>4 DEF AcceptTo

\* Accept of no rows does nothing.
LEMMA AcceptNone == ASSUME NEW g \in Graph PROVE Accept(g, {}) = g
<1>1. AcceptTo(g, Accept(g, {}), {})
  BY AcceptAt
<1>2. PICK h : h = Accept(g, {})
  OBVIOUS
<1>3. h \in Graph /\ h.count = g.count /\ \A x, y \in User : h.edge[x][y] = g.edge[x][y]
  BY <1>1, <1>2 DEF AcceptTo
<1>4. h = g
  BY <1>3, SameGraph
<1> QED BY <1>2, <1>4

\* The rows an acceptance may change are pairs of users.
LEMMA AcceptableType ==
  ASSUME NEW g, NEW u \in User, NEW v \in User
  PROVE  Acceptable(g, u, v) \subseteq User \X User
BY DEF Acceptable

\* In legal rows the accepting UPDATE finds both rows of an invite, or none.
LEMMA AcceptableLegal ==
  ASSUME NEW g \in Graph, Legal(g), NEW u \in User, NEW v \in User, u # v
  PROVE  \/ /\ Acceptable(g, u, v) = {} /\ Cardinality(Acceptable(g, u, v)) # 2
         \/ /\ Acceptable(g, u, v) = {<<v, u>>, <<u, v>>}
            /\ Cardinality(Acceptable(g, u, v)) = 2
            /\ g.edge[v][u] = "sent" /\ g.edge[u][v] = "received"
<1>1. g.edge[v][u] = "sent" <=> g.edge[u][v] = "received"
  BY DEF Legal, LegalPair
<1>2. CASE g.edge[v][u] = "sent"
  <2>1. Acceptable(g, u, v) = {<<v, u>>, <<u, v>>}
    BY <1>1, <1>2 DEF Acceptable
  <2>2. <<v, u>> # <<u, v>>
    OBVIOUS
  <2>3. Cardinality({<<v, u>>, <<u, v>>}) = 2
    BY <2>2, PairCard
  <2>4. Cardinality(Acceptable(g, u, v)) = 2
    BY <2>1, <2>3
  <2> QED BY <1>1, <1>2, <2>1, <2>4
<1>3. CASE g.edge[v][u] # "sent"
  <2>1. Acceptable(g, u, v) = {} BY <1>1, <1>3 DEF Acceptable
  <2> QED BY <2>1, FS_EmptySet
<1> QED BY <1>2, <1>3

\* An acceptance keeps edges and counts fit for each other.
LEMMA AcceptFit ==
  ASSUME NEW g \in Graph, Fit(g), NEW u \in User, NEW v \in User, u # v
  PROVE  Fit(Accept(g, Acceptable(g, u, v)))
<1>1. CASE Acceptable(g, u, v) = {}
  BY <1>1, AcceptNone
<1>2. CASE /\ Acceptable(g, u, v) = {<<v, u>>, <<u, v>>}
           /\ g.edge[v][u] = "sent" /\ g.edge[u][v] = "received"
  <2>1. AcceptTo(g, Accept(g, Acceptable(g, u, v)), Acceptable(g, u, v))
    BY AcceptAt
  <2>2. PICK h : h = Accept(g, Acceptable(g, u, v))
    OBVIOUS
  <2>3. h \in Graph /\ h.count = g.count
    BY <2>1, <2>2 DEF AcceptTo
  <2>4. \A x, y \in User : <<x, y>> \in Acceptable(g, u, v)
                             <=> (x = u /\ y = v) \/ (x = v /\ y = u)
    BY <1>2
  <2>5. PairSet(g, h, u, v, "friend", "friend")
    BY <2>1, <2>2, <2>4 DEF PairSet, AcceptTo
  <2>6. g.count[u] \in Nat /\ g.count[v] \in Nat
    BY DEF Graph
  <2>7. Fit(h)
    BY <1>2, <2>3, <2>5, <2>6, PairFit DEF Gain, LegalPair
  <2> QED BY <2>2, <2>7
<1> QED BY <1>1, <1>2, AcceptableLegal DEF Fit

\* What the INSERT does to the rows and counts of the two.
Inserted(g, h, u, v) ==
  \E a, b \in EdgeStates :
    /\ h \in Graph
    /\ a = (IF g.edge[u][v] = "none" THEN "sent" ELSE g.edge[u][v])
    /\ b = (IF g.edge[v][u] = "none" THEN "received" ELSE g.edge[v][u])
    /\ PairSet(g, h, u, v, a, b)
    /\ a = g.edge[u][v] /\ b = g.edge[v][u] => h = g
    /\ a # g.edge[u][v] =>
         /\ h.count[u] = g.count[u] + 1 /\ h.count[v] = g.count[v] + 1
         /\ \A x \in User \ {u, v} : h.count[x] = g.count[x]

\* InsertInvite writes both directions of an invite, and counts both.
LEMMA InsertAt ==
  ASSUME NEW g \in Graph, NEW u \in User, NEW v \in User, u # v
  PROVE  Inserted(g, InsertInvite(g, u, v), u, v)
<1>1. PICK a \in EdgeStates : a = IF g.edge[u][v] = "none" THEN "sent" ELSE g.edge[u][v]
  BY DEF Graph, EdgeStates
<1>2. PICK b \in EdgeStates : b = IF g.edge[v][u] = "none" THEN "received" ELSE g.edge[v][u]
  BY DEF Graph, EdgeStates
<1>3. PICK one : one = Set(g, u, v, a) OBVIOUS
<1>4. PICK both : both = Set(one, v, u, b) OBVIOUS
<1>5. PICK up : up = Up(both, u) OBVIOUS
<1>6. PICK h : h = InsertInvite(g, u, v) OBVIOUS
<1>7. h = IF both.edge = g.edge THEN g ELSE Up(up, v)
  <2>1. InsertInvite(g, u, v) =
          LET two == Set(Set(g, u, v, IF g.edge[u][v] = "none" THEN "sent" ELSE g.edge[u][v]),
                         v, u, IF g.edge[v][u] = "none" THEN "received" ELSE g.edge[v][u])
          IN IF two.edge = g.edge THEN g ELSE Up(Up(two, u), v)
    BY Zenon DEF InsertInvite
  <2>2. InsertInvite(g, u, v) =
          LET two == Set(Set(g, u, v, a), v, u, b)
          IN IF two.edge = g.edge THEN g ELSE Up(Up(two, u), v)
    BY <1>1, <1>2, <2>1, Zenon
  <2> QED BY <1>3, <1>4, <1>5, <1>6, <2>2, Zenon
<1>8. SetTo(g, one, u, v, a)
  BY <1>3, SetAt
<1>9. SetTo(one, both, v, u, b)
  <2>1. one \in Graph BY <1>8 DEF SetTo
  <2> QED BY <1>4, <2>1, SetAt
<1>10. UpTo(both, up, u)
  BY <1>5, <1>9, UpAt DEF SetTo
<1>11. both \in Graph /\ both.count = g.count
  BY <1>8, <1>9 DEF SetTo
<1>12. PairSet(g, both, u, v, a, b)
  BY <1>8, <1>9 DEF SetTo, PairSet
<1>13. CASE both.edge = g.edge
  <2>1. a = g.edge[u][v] BY <1>12, <1>13 DEF PairSet
  <2>2. h = g BY <1>7, <1>13
  <2>3. PairSet(g, h, u, v, a, b) BY <1>12, <1>13, <2>2 DEF PairSet
  <2> QED BY <1>1, <1>2, <1>6, <2>1, <2>2, <2>3 DEF Inserted
<1>14. CASE both.edge # g.edge
  <2>1. UpTo(up, h, v) BY <1>7, <1>10, <1>14, UpAt DEF UpTo
  <2>2. h \in Graph /\ h.edge = both.edge BY <1>10, <2>1 DEF UpTo
  <2>3. g.count[u] \in Nat /\ g.count[v] \in Nat BY DEF Graph
  <2>4. /\ h.count[u] = g.count[u] + 1 /\ h.count[v] = g.count[v] + 1
        /\ \A x \in User \ {u, v} : h.count[x] = g.count[x]
    BY <1>10, <1>11, <2>1, <2>3 DEF UpTo
  <2>5. ~(a = g.edge[u][v] /\ b = g.edge[v][u])
    <3>1. SUFFICES ASSUME a = g.edge[u][v], b = g.edge[v][u] PROVE both.edge = g.edge
      BY <1>14
    <3>2. \A x, y \in User : both.edge[x][y] = g.edge[x][y]
      BY <1>12, <3>1 DEF PairSet
    <3> QED BY <1>11, <3>2, SameGraph
  <2>6. PairSet(g, h, u, v, a, b) BY <1>12, <2>2 DEF PairSet
  <2> QED BY <1>1, <1>2, <1>6, <2>2, <2>4, <2>5, <2>6 DEF Inserted
<1> QED BY <1>13, <1>14

\* An invite keeps edges and counts fit for each other, where neither blocks.
LEMMA InsertFit ==
  ASSUME NEW g \in Graph, Fit(g), NEW u \in User, NEW v \in User, u # v,
         "blocked" \notin {g.edge[u][v], g.edge[v][u]}
  PROVE  Fit(InsertInvite(g, u, v))
<1>1. LegalPair(g.edge[u][v], g.edge[v][u])
  BY DEF Fit, Legal
<1>2. PICK h : h = InsertInvite(g, u, v)
  OBVIOUS
<1>3. PICK a, b \in EdgeStates :
    /\ h \in Graph
    /\ a = (IF g.edge[u][v] = "none" THEN "sent" ELSE g.edge[u][v])
    /\ b = (IF g.edge[v][u] = "none" THEN "received" ELSE g.edge[v][u])
    /\ PairSet(g, h, u, v, a, b)
    /\ a = g.edge[u][v] /\ b = g.edge[v][u] => h = g
    /\ a # g.edge[u][v] =>
         /\ h.count[u] = g.count[u] + 1 /\ h.count[v] = g.count[v] + 1
         /\ \A x \in User \ {u, v} : h.count[x] = g.count[x]
  BY <1>2, InsertAt DEF Inserted
<1>4. CASE g.edge[u][v] # "none"
  <2>1. g.edge[v][u] # "none" BY <1>1, <1>4 DEF LegalPair
  <2> QED BY <1>2, <1>3, <1>4, <2>1
<1>5. CASE g.edge[u][v] = "none"
  <2>1. g.edge[v][u] = "none" BY <1>1, <1>5 DEF LegalPair
  <2>2. a = "sent" /\ b = "received" BY <1>3, <1>5, <2>1
  <2>3. Fit(h)
    BY <1>3, <1>5, <2>1, <2>2, PairFit DEF Gain, LegalPair
  <2> QED BY <1>2, <2>3
<1> QED BY <1>4, <1>5

\* BlockUser, for any graph, and for one that fits.
BlockedTo(g, h, u, v) ==
  \E b \in EdgeStates :
    /\ h \in Graph
    /\ b = (IF g.edge[v][u] \in {"none", "blocked"} THEN g.edge[v][u] ELSE "none")
    /\ PairSet(g, h, u, v, "blocked", b)
    /\ h.count[u] = g.count[u] + (IF g.edge[u][v] = "none" THEN 1 ELSE 0)
    /\ g.count[v] > 0 =>
         h.count[v] = g.count[v] - (IF g.edge[v][u] \in {"none", "blocked"} THEN 0 ELSE 1)
    /\ g.edge[v][u] \in {"none", "blocked"} => h.count[v] = g.count[v]
    /\ \A x \in User \ {u, v} : h.count[x] = g.count[x]

\* Block writes the one direction, and deletes the other unless it is a block too.
LEMMA BlockAt ==
  ASSUME NEW g \in Graph, NEW u \in User, NEW v \in User, u # v
  PROVE  BlockedTo(g, Block(g, u, v), u, v)
<1>1. PICK b \in EdgeStates :
        b = IF g.edge[v][u] \in {"none", "blocked"} THEN g.edge[v][u] ELSE "none"
  BY DEF Graph, EdgeStates
<1>2. PICK one : one = Set(g, u, v, "blocked") OBVIOUS
<1>3. PICK own : own = IF g.edge[u][v] = "none" THEN Up(one, u) ELSE one OBVIOUS
<1>4. PICK two : two = Set(own, v, u, "none") OBVIOUS
<1>5. PICK h : h = Block(g, u, v) OBVIOUS
<1>6. h = IF own.edge[v][u] \in {"none", "blocked"} THEN own ELSE Down(two, v)
  BY <1>2, <1>3, <1>4, <1>5, Zenon DEF Block
<1>7. SetTo(g, one, u, v, "blocked")
  BY <1>2, SetAt DEF EdgeStates
<1>8. g.count[u] \in Nat /\ g.count[v] \in Nat
  BY DEF Graph
<1>9. /\ own \in Graph /\ own.edge = one.edge
      /\ own.count[u] = g.count[u] + (IF g.edge[u][v] = "none" THEN 1 ELSE 0)
      /\ \A x \in User \ {u} : own.count[x] = g.count[x]
  <2>1. CASE g.edge[u][v] = "none"
    <3>1. UpTo(one, own, u) BY <1>3, <1>7, <2>1, UpAt DEF SetTo
    <3> QED BY <1>7, <2>1, <3>1 DEF UpTo, SetTo
  <2>2. CASE g.edge[u][v] # "none"
    BY <1>3, <1>7, <1>8, <2>2 DEF SetTo
  <2> QED BY <2>1, <2>2
<1>10. own.edge[v][u] = g.edge[v][u]
  BY <1>7, <1>9 DEF SetTo
<1>11. CASE g.edge[v][u] \in {"none", "blocked"}
  <2>1. h = own BY <1>6, <1>10, <1>11
  <2>2. PairSet(g, h, u, v, "blocked", b)
    BY <1>1, <1>7, <1>9, <1>11, <2>1 DEF SetTo, PairSet
  <2>3. h.count[v] = g.count[v]
    BY <1>9, <2>1
  <2> QED BY <1>1, <1>5, <1>8, <1>9, <1>11, <2>1, <2>2, <2>3 DEF BlockedTo
<1>12. CASE g.edge[v][u] \notin {"none", "blocked"}
  <2>1. SetTo(own, two, v, u, "none")
    BY <1>4, <1>9, SetAt DEF EdgeStates
  <2>2. DownTo(two, h, v)
    BY <1>6, <1>10, <1>12, <2>1, DownAt DEF SetTo
  <2>3. h \in Graph /\ h.edge = two.edge
    BY <2>2 DEF DownTo
  <2>4. PairSet(g, h, u, v, "blocked", b)
    BY <1>1, <1>7, <1>9, <1>12, <2>1, <2>3 DEF SetTo, PairSet
  <2>5. /\ h.count[u] = own.count[u]
        /\ g.count[v] > 0 => h.count[v] = g.count[v] - 1
        /\ \A x \in User \ {u, v} : h.count[x] = g.count[x]
    BY <1>9, <2>1, <2>2 DEF SetTo, DownTo
  <2> QED BY <1>1, <1>5, <1>9, <1>12, <2>3, <2>4, <2>5 DEF BlockedTo
<1> QED BY <1>11, <1>12

\* A block keeps edges and counts fit for each other.
LEMMA BlockFit ==
  ASSUME NEW g \in Graph, Fit(g), NEW u \in User, NEW v \in User, u # v
  PROVE  Fit(Block(g, u, v))
<1>1. PICK h : h = Block(g, u, v)
  OBVIOUS
<1>2. PICK b \in EdgeStates :
    /\ h \in Graph
    /\ b = (IF g.edge[v][u] \in {"none", "blocked"} THEN g.edge[v][u] ELSE "none")
    /\ PairSet(g, h, u, v, "blocked", b)
    /\ h.count[u] = g.count[u] + (IF g.edge[u][v] = "none" THEN 1 ELSE 0)
    /\ g.count[v] > 0 =>
         h.count[v] = g.count[v] - (IF g.edge[v][u] \in {"none", "blocked"} THEN 0 ELSE 1)
    /\ g.edge[v][u] \in {"none", "blocked"} => h.count[v] = g.count[v]
    /\ \A x \in User \ {u, v} : h.count[x] = g.count[x]
  <2>1. BlockedTo(g, h, u, v) BY <1>1, BlockAt
  <2> QED BY <2>1 DEF BlockedTo
<1>3. g.count[u] \in Nat /\ g.count[v] \in Nat
  BY DEF Graph
<1>4. g.edge[v][u] # "none" => g.count[v] > 0
  BY Positive
<1>5. LegalPair("blocked", b) /\ LegalPair(b, "blocked")
  BY <1>2 DEF LegalPair
<1>6. h.count[u] = g.count[u] + Gain(g.edge[u][v], "blocked")
  BY <1>2, <1>3 DEF Gain
<1>7. h.count[v] = g.count[v] + Gain(g.edge[v][u], b)
  BY <1>2, <1>3, <1>4 DEF Gain
<1>8. Fit(h)
  BY <1>2, <1>5, <1>6, <1>7, PairFit
<1> QED BY <1>1, <1>8

\* deleteFriendTx: the rows in any graph.
Rest(g, rows) ==
  [g EXCEPT !.edge = [x \in User |-> [y \in User |->
     IF <<x, y>> \in rows THEN "none" ELSE g.edge[x][y]]]]

RestTo(g, h, rows) ==
  /\ h \in Graph /\ h.count = g.count
  /\ \A x, y \in User : h.edge[x][y] = IF <<x, y>> \in rows THEN "none" ELSE g.edge[x][y]

\* Rest deletes the given rows, and leaves the others.
LEMMA RestAt ==
  ASSUME NEW g \in Graph, NEW rows
  PROVE  RestTo(g, Rest(g, rows), rows)
<1> DEFINE e == [x \in User |-> [y \in User |->
                   IF <<x, y>> \in rows THEN "none" ELSE g.edge[x][y]]]
<1>1. e \in [User -> [User -> EdgeStates]]
  BY DEF Graph, EdgeStates
<1>2. \A x, y \in User : e[x][y] = IF <<x, y>> \in rows THEN "none" ELSE g.edge[x][y]
  OBVIOUS
<1>3. Rest(g, rows) = [g EXCEPT !.edge = e]
  BY DEF Rest
<1> HIDE DEF e
<1>4. Rest(g, rows) \in Graph /\ Rest(g, rows).count = g.count /\ Rest(g, rows).edge = e
  BY <1>1, <1>3, Tabled
<1> QED BY <1>2, <1>4 DEF RestTo

\* Delete deletes the user's row, and the other's unless it is a block.
LEMMA DeleteAt ==
  ASSUME NEW g \in Graph, NEW u \in User, NEW v \in User, u # v
  PROVE  LET h == Delete(g, u, v) rows == Deletable(g, u, v)
         IN  /\ h \in Graph
             /\ \A x, y \in User :
                  h.edge[x][y] = IF <<x, y>> \in rows THEN "none" ELSE g.edge[x][y]
<1>1. PICK rows : rows = Deletable(g, u, v) OBVIOUS
<1>2. PICK rest : rest = Rest(g, rows) OBVIOUS
<1>3. PICK h : h = Delete(g, u, v) OBVIOUS
<1>4. RestTo(g, rest, rows)
  BY <1>2, RestAt
<1>5. h = CASE rows = {} -> g
            [] Cardinality(rows) = 1 -> Down(rest, u)
            [] OTHER -> Down(Down(rest, u), v)
  BY <1>1, <1>2, <1>3 DEF Delete, Rest
<1>6. DownTo(rest, Down(rest, u), u)
  BY <1>4, DownAt DEF RestTo
<1>7. DownTo(Down(rest, u), Down(Down(rest, u), v), v)
  BY <1>6, DownAt DEF DownTo
<1>8. /\ h \in Graph
      /\ \A x, y \in User :
           h.edge[x][y] = IF <<x, y>> \in rows THEN "none" ELSE g.edge[x][y]
  <2>1. CASE rows = {}
    <3>1. h = g BY <1>5, <2>1, FS_EmptySet
    <3>2. \A x, y \in User : <<x, y>> \notin rows BY <2>1
    <3> QED BY <3>1, <3>2
  <2>2. CASE rows # {} /\ Cardinality(rows) = 1
    <3>1. h = Down(rest, u) BY <1>5, <2>2
    <3> QED BY <1>4, <1>6, <3>1 DEF RestTo, DownTo
  <2>3. CASE rows # {} /\ Cardinality(rows) # 1
    <3>1. h = Down(Down(rest, u), v) BY <1>5, <2>3
    <3>2. h \in Graph /\ h.edge = rest.edge
      BY <1>6, <1>7, <3>1 DEF DownTo
    <3> QED BY <1>4, <3>2 DEF RestTo
  <2> QED BY <2>1, <2>2, <2>3
<1> QED BY <1>1, <1>3, <1>8

\* A deletion keeps edges and counts fit for each other.
LEMMA DeleteFit ==
  ASSUME NEW g \in Graph, Fit(g), NEW u \in User, NEW v \in User, u # v
  PROVE  Fit(Delete(g, u, v))
<1>1. PICK rows : rows = Deletable(g, u, v) OBVIOUS
<1>2. PICK rest : rest = Rest(g, rows) OBVIOUS
<1>3. PICK h : h = Delete(g, u, v) OBVIOUS
<1>4. RestTo(g, rest, rows)
  BY <1>2, RestAt
<1>5. h = CASE rows = {} -> g
            [] Cardinality(rows) = 1 -> Down(rest, u)
            [] OTHER -> Down(Down(rest, u), v)
  BY <1>1, <1>2, <1>3 DEF Delete, Rest
<1>6. LegalPair(g.edge[u][v], g.edge[v][u])
  BY DEF Fit, Legal
<1>7. g.count[u] \in Nat /\ g.count[v] \in Nat
  BY DEF Graph
<1>8. /\ g.edge[u][v] # "none" => g.count[u] > 0
      /\ g.edge[v][u] # "none" => g.count[v] > 0
  BY Positive
<1>9. <<u, v>> # <<v, u>>
  OBVIOUS
<1>10. CASE g.edge[u][v] = "none"
  <2>1. rows = {}
    BY <1>1, <1>6, <1>9, <1>10 DEF Deletable, LegalPair
  <2>2. h = g BY <1>5, <2>1, FS_EmptySet
  <2> QED BY <1>3, <2>2
<1>11. CASE g.edge[u][v] = "blocked"
  <2>1. rows = {<<u, v>>}
    BY <1>1, <1>6, <1>9, <1>11 DEF Deletable, LegalPair
  <2>2. Cardinality(rows) = 1
    BY <2>1, FS_Singleton
  <2>3. rows # {}
    BY <2>1
  <2>4. h = Down(rest, u)
    BY <1>5, <2>2, <2>3
  <2>5. DownTo(rest, h, u)
    BY <1>4, <2>4, DownAt DEF RestTo
  <2>6. \A x, y \in User : <<x, y>> \in rows <=> x = u /\ y = v
    BY <2>1
  <2>7. h \in Graph /\ PairSet(g, h, u, v, "none", g.edge[v][u])
    <3>1. \A x, y \in User :
            rest.edge[x][y] = IF x = u /\ y = v THEN "none" ELSE g.edge[x][y]
      BY <1>4, <2>6 DEF RestTo
    <3>2. h \in Graph /\ h.edge = rest.edge
      BY <2>5 DEF DownTo
    <3> QED BY <3>1, <3>2 DEF PairSet
  <2>8. g.edge[v][u] \in {"none", "blocked"}
    BY <1>6, <1>11 DEF LegalPair
  <2>9. /\ h.count[u] = g.count[u] + Gain(g.edge[u][v], "none")
        /\ h.count[v] = g.count[v] + Gain(g.edge[v][u], g.edge[v][u])
        /\ \A x \in User \ {u, v} : h.count[x] = g.count[x]
    BY <1>4, <1>7, <1>8, <1>11, <2>5 DEF RestTo, DownTo, Gain
  <2>10. LegalPair("none", g.edge[v][u]) /\ LegalPair(g.edge[v][u], "none")
    BY <2>8 DEF LegalPair
  <2>11. Fit(h)
    BY <2>7, <2>9, <2>10, PairFit
  <2> QED BY <1>3, <2>11
<1>12. CASE g.edge[u][v] \notin {"none", "blocked"}
  <2>1. g.edge[v][u] \notin {"none", "blocked"}
    BY <1>6, <1>12 DEF LegalPair
  <2>2. rows = {<<u, v>>, <<v, u>>}
    BY <1>1, <1>12, <2>1 DEF Deletable
  <2>3. Cardinality(rows) = 2
    BY <1>9, <2>2, PairCard
  <2>4. rows # {}
    BY <2>2
  <2>5. PICK one : one = Down(rest, u) OBVIOUS
  <2>6. h = Down(one, v)
    BY <1>5, <2>3, <2>4, <2>5
  <2>7. DownTo(rest, one, u)
    BY <1>4, <2>5, DownAt DEF RestTo
  <2>8. DownTo(one, h, v)
    BY <2>6, <2>7, DownAt DEF DownTo
  <2>9. \A x, y \in User : <<x, y>> \in rows <=> (x = u /\ y = v) \/ (x = v /\ y = u)
    BY <2>2
  <2>10. h \in Graph /\ h.edge = rest.edge
    BY <2>7, <2>8 DEF DownTo
  <2>11. PairSet(g, h, u, v, "none", "none")
    <3>1. ASSUME NEW x \in User, NEW y \in User
          PROVE  h.edge[x][y] = (IF <<x, y>> \in rows THEN "none" ELSE g.edge[x][y])
      BY <1>4, <2>10 DEF RestTo
    <3>2. ASSUME NEW x \in User, NEW y \in User
          PROVE  h.edge[x][y] = (IF x = u /\ y = v THEN "none"
                                 ELSE IF x = v /\ y = u THEN "none" ELSE g.edge[x][y])
      <4>1. h.edge[x][y] = (IF <<x, y>> \in rows THEN "none" ELSE g.edge[x][y])
        BY <3>1
      <4>2. <<x, y>> \in rows <=> (x = u /\ y = v) \/ (x = v /\ y = u)
        BY <2>9
      <4> QED BY <4>1, <4>2, ZenonT(30)
    <3> QED BY <3>2, ZenonT(30) DEF PairSet
  <2>12. /\ h.count[u] = g.count[u] + Gain(g.edge[u][v], "none")
         /\ h.count[v] = g.count[v] + Gain(g.edge[v][u], "none")
         /\ \A x \in User \ {u, v} : h.count[x] = g.count[x]
    BY <1>4, <1>7, <1>8, <1>12, <2>1, <2>7, <2>8 DEF RestTo, DownTo, Gain
  <2>13. LegalPair("none", "none")
    BY DEF LegalPair
  <2>14. Fit(h)
    BY <2>10, <2>11, <2>12, <2>13, PairFit
  <2> QED BY <1>3, <2>14
<1> QED BY <1>10, <1>11, <1>12

\* resetUserFriends.
Erased(g, u, x, y) == (x = u \/ y = u) /\ g.edge[x][y] \notin {"none", "blocked"}
Lost(g, u, x) == {y \in User : Erased(g, u, x, y)}
Minus(c, n) == IF c > n THEN c - n ELSE 0

ResetTo(g, h, u) ==
  /\ h \in Graph
  /\ \A x, y \in User : h.edge[x][y] = IF Erased(g, u, x, y) THEN "none" ELSE g.edge[x][y]
  /\ \A x \in User : h.count[x] = Minus(g.count[x], Cardinality(Lost(g, u, x)))

\* Reset deletes every row to and from a user but the blocks.
LEMMA ResetAt ==
  ASSUME NEW g \in Graph, NEW u \in User
  PROVE  ResetTo(g, Reset(g, u), u)
<1>1. PICK e : e = [x \in User |-> [y \in User |->
                      IF Erased(g, u, x, y) THEN "none" ELSE g.edge[x][y]]]
  OBVIOUS
<1>2. PICK c : c = [x \in User |-> Minus(g.count[x], Cardinality(Lost(g, u, x)))]
  OBVIOUS
<1>3. e \in [User -> [User -> EdgeStates]]
  BY <1>1 DEF Graph, EdgeStates
<1>4. c \in [User -> Nat]
  <2>1. ASSUME NEW x \in User PROVE Cardinality(Lost(g, u, x)) \in Nat
    <3>1. Lost(g, u, x) \in SUBSET User BY DEF Lost
    <3> QED BY <3>1, UsersFinite
  <2>2. \A x \in User : g.count[x] \in Nat
    BY DEF Graph
  <2> QED BY <1>2, <2>1, <2>2 DEF Minus
<1>5. Reset(g, u) = [edge |-> e, count |-> c]
  BY <1>1, <1>2, Zenon DEF Reset, Erased, Lost, Minus
<1>6. PICK h : h = Reset(g, u)
  OBVIOUS
<1>7. h \in Graph /\ h.edge = e /\ h.count = c
  BY <1>3, <1>4, <1>5, <1>6 DEF Graph
<1>8. ResetTo(g, h, u)
  BY <1>1, <1>2, <1>7 DEF ResetTo
<1> QED BY <1>6, <1>8

\* A reset keeps edges and counts fit for each other.
LEMMA ResetFit ==
  ASSUME NEW g \in Graph, Fit(g), NEW u \in User
  PROVE  Fit(Reset(g, u))
<1>1. PICK h : h = Reset(g, u)
  OBVIOUS
<1>2. ResetTo(g, h, u)
  BY <1>1, ResetAt
<1>3. Legal(h)
  <2>1. SUFFICES ASSUME NEW x \in User, NEW y \in User
                 PROVE  LegalPair(h.edge[x][y], h.edge[y][x])
    BY DEF Legal
  <2>2. LegalPair(g.edge[x][y], g.edge[y][x])
    BY DEF Fit, Legal
  <2>3. /\ h.edge[x][y] = IF Erased(g, u, x, y) THEN "none" ELSE g.edge[x][y]
        /\ h.edge[y][x] = IF Erased(g, u, y, x) THEN "none" ELSE g.edge[y][x]
    BY <1>2 DEF ResetTo
  <2> QED BY <2>2, <2>3 DEF LegalPair, Erased
<1>4. ASSUME NEW x \in User PROVE h.count[x] = Cardinality(Row(h, x))
  <2>1. Lost(g, u, x) \subseteq Row(g, x)
    BY DEF Lost, Erased, Row
  <2>2. Row(h, x) = Row(g, x) \ Lost(g, u, x)
    BY <1>2 DEF ResetTo, Lost, Erased, Row
  <2>3. IsFiniteSet(Row(g, x)) /\ Cardinality(Row(g, x)) \in Nat
    BY RowCard
  <2>4. /\ Cardinality(Lost(g, u, x)) \in Nat
        /\ Cardinality(Lost(g, u, x)) <= Cardinality(Row(g, x))
    BY <2>1, <2>3, FS_Subset, FS_CardinalityType
  <2>5. Row(g, x) \cap Lost(g, u, x) = Lost(g, u, x)
    BY <2>1
  <2>6. Cardinality(Row(g, x) \ Lost(g, u, x))
          = Cardinality(Row(g, x)) - Cardinality(Row(g, x) \cap Lost(g, u, x))
    BY <2>3, FS_Difference
  <2>7. Cardinality(Row(h, x)) = Cardinality(Row(g, x)) - Cardinality(Lost(g, u, x))
    BY <2>2, <2>5, <2>6
  <2>8. h.count[x] = Minus(Cardinality(Row(g, x)), Cardinality(Lost(g, u, x)))
    BY <1>2 DEF ResetTo, Fit, Counts
  <2> QED BY <2>3, <2>4, <2>7, <2>8 DEF Minus
<1>5. Fit(h)
  BY <1>3, <1>4 DEF Fit, Counts
<1> QED BY <1>1, <1>5

\* addFriendTx, run to its end after a reset or not.
LEMMA ImportAt ==
  ASSUME NEW g \in Graph, NEW u \in User, NEW v \in User, u # v
  PROVE  Import(g, u, v) \in Graph
<1>1. PICK a : a = Accept(g, Acceptable(g, u, v))
  OBVIOUS
<1>2. a \in Graph
  <2>1. AcceptTo(g, a, Acceptable(g, u, v)) BY <1>1, AcceptAt
  <2> QED BY <2>1 DEF AcceptTo
<1>3. Import(g, u, v) \in {a, InsertInvite(a, u, v)}
  BY <1>1 DEF Import
<1>4. InsertInvite(a, u, v) \in Graph
  <2>1. Inserted(a, InsertInvite(a, u, v), u, v) BY <1>2, InsertAt
  <2> QED BY <2>1 DEF Inserted
<1> QED BY <1>2, <1>3, <1>4

\* An import of a user not blocked keeps edges and counts fit for each other.
LEMMA ImportFit ==
  ASSUME NEW g \in Graph, Fit(g), NEW u \in User, NEW v \in User, u # v,
         g.edge[u][v] # "blocked"
  PROVE  Fit(Import(g, u, v))
<1>1. PICK a : a = Accept(g, Acceptable(g, u, v))
  OBVIOUS
<1>2. AcceptTo(g, a, Acceptable(g, u, v))
  BY <1>1, AcceptAt
<1>3. a \in Graph /\ Fit(a)
  BY <1>1, <1>2, AcceptFit DEF AcceptTo
<1>4. a.edge[u][v] # "blocked"
  BY <1>2 DEF AcceptTo
<1>5. CASE Import(g, u, v) = a
  BY <1>3, <1>5
<1>6. CASE Import(g, u, v) # a
  <2>1. Import(g, u, v) = InsertInvite(a, u, v) /\ a.edge[v][u] # "blocked"
    BY <1>1, <1>6 DEF Import
  <2> QED BY <1>3, <1>4, <2>1, InsertFit
<1> QED BY <1>5, <1>6

-----------------------------------------------------------------------------
(* Friends.  The invariant: while no pair is broken, the rows and counts   *)
(* fit, so that an invite never finds half of a pair to accept.            *)

InviteTyped(i) ==
  /\ i.from \in User /\ i.to \in User /\ i.from # i.to
  /\ i.half \subseteq User \X User /\ i.free \in BOOLEAN

Invites ==
  /\ DOMAIN invite = Request
  /\ invite = [p \in Request |-> invite[p]]
  /\ \A p \in Request : invite[p] # NoInvite => InviteTyped(invite[p])

Unbroken ==
  broken = {} =>
    Fit(graph) /\ \A p \in Request : invite[p] # NoInvite => invite[p].half = {}

FriendsInv ==
  /\ graph \in Graph /\ Invites /\ Unbroken
  /\ broken \subseteq {"overtaken", "imported"}

\* At first there is no edge and every count is zero.
LEMMA FriendsInitInv == FriendsInit => FriendsInv
<1> SUFFICES ASSUME FriendsInit PROVE FriendsInv
  OBVIOUS
<1>1. graph \in Graph
  BY DEF FriendsInit, Graph, EdgeStates
<1>2. /\ \A x, y \in User : graph.edge[x][y] = "none"
      /\ \A x \in User : graph.count[x] = 0
  BY DEF FriendsInit
<1>3. ASSUME NEW x \in User PROVE Row(graph, x) = {}
  BY <1>2 DEF Row
<1>4. Fit(graph)
  BY <1>2, <1>3, FS_EmptySet DEF Fit, Legal, LegalPair, Counts
<1> QED BY <1>1, <1>4 DEF FriendsInit, FriendsInv, Invites, Unbroken

\* The operations that commit what one statement makes of the rows.
LEMMA RowsWritten ==
  ASSUME FriendsInv, UNCHANGED invite,
         graph' \in Graph, broken' \subseteq {"overtaken", "imported"},
         broken \subseteq broken', broken' = {} => Fit(graph')
  PROVE  FriendsInv'
<1>1. Invites'
  BY DEF FriendsInv, Invites
<1>2. Unbroken'
  BY DEF FriendsInv, Unbroken
<1> QED BY <1>1, <1>2 DEF FriendsInv

\* The step of an acceptance.
LEMMA AcceptInv ==
  ASSUME FriendsInv, NEW u \in User, NEW v \in User, AcceptFriend(u, v)
  PROVE  FriendsInv'
<1>1. u # v /\ graph' = Accept(graph, Acceptable(graph, u, v)) /\ UNCHANGED <<invite, broken>>
  BY DEF AcceptFriend, Commit
<1>2. AcceptTo(graph, graph', Acceptable(graph, u, v))
  BY <1>1, AcceptAt DEF FriendsInv
<1>3. graph' \in Graph
  BY <1>2 DEF AcceptTo
<1>4. broken = {} => Fit(graph')
  BY <1>1, AcceptFit DEF FriendsInv, Unbroken
<1> QED BY <1>1, <1>3, <1>4, RowsWritten DEF FriendsInv

\* The step of a block.
LEMMA BlockInv ==
  ASSUME FriendsInv, NEW u \in User, NEW v \in User, BlockUser(u, v)
  PROVE  FriendsInv'
<1>1. u # v /\ graph' = Block(graph, u, v) /\ UNCHANGED <<invite, broken>>
  BY DEF BlockUser, Commit
<1>2. BlockedTo(graph, graph', u, v)
  BY <1>1, BlockAt DEF FriendsInv
<1>3. graph' \in Graph
  BY <1>2 DEF BlockedTo
<1>4. broken = {} => Fit(graph')
  BY <1>1, BlockFit DEF FriendsInv, Unbroken
<1> QED BY <1>1, <1>3, <1>4, RowsWritten DEF FriendsInv

\* The step of a deletion.
LEMMA DeleteInv ==
  ASSUME FriendsInv, NEW u \in User, NEW v \in User, DeleteFriend(u, v)
  PROVE  FriendsInv'
<1>1. u # v /\ graph' = Delete(graph, u, v) /\ UNCHANGED <<invite, broken>>
  BY DEF DeleteFriend, Commit
<1>2. graph' \in Graph
  BY <1>1, DeleteAt DEF FriendsInv
<1>3. broken = {} => Fit(graph')
  BY <1>1, DeleteFit DEF FriendsInv, Unbroken
<1> QED BY <1>1, <1>2, <1>3, RowsWritten DEF FriendsInv

\* The step of an import, its reset included.
LEMMA ImportInv ==
  ASSUME FriendsInv, NEW u \in User, NEW v \in User, NEW reset \in BOOLEAN,
         ImportFriend(u, v, reset)
  PROVE  FriendsInv'
<1>1. PICK g : g = IF reset THEN Reset(graph, u) ELSE graph
  OBVIOUS
<1>2. /\ u # v /\ graph' = Import(g, u, v) /\ UNCHANGED invite
      /\ broken' = broken \cup (IF graph.edge[u][v] = "blocked" THEN {"imported"} ELSE {})
  BY <1>1 DEF ImportFriend, Commit
<1>3. graph \in Graph /\ ResetTo(graph, Reset(graph, u), u)
  BY ResetAt DEF FriendsInv
<1>4. g \in Graph
  BY <1>1, <1>3 DEF ResetTo
<1>5. g.edge[u][v] # graph.edge[u][v] => g.edge[u][v] = "none"
  BY <1>1, <1>3 DEF ResetTo
<1>6. Fit(graph) => Fit(g)
  BY <1>1, <1>3, ResetFit
<1>7. graph' \in Graph
  BY <1>2, <1>4, ImportAt
<1>8. ASSUME broken' = {} PROVE Fit(graph')
  <2>1. broken = {} /\ graph.edge[u][v] # "blocked"
    BY <1>2, <1>8
  <2>2. Fit(g) /\ g.edge[u][v] # "blocked"
    BY <1>5, <1>6, <2>1 DEF FriendsInv, Unbroken
  <2> QED BY <1>2, <1>4, <2>2, ImportFit
<1>9. broken \subseteq broken' /\ broken' \subseteq {"overtaken", "imported"}
  BY <1>2 DEF FriendsInv
<1> QED BY <1>2, <1>7, <1>8, <1>9, RowsWritten

\* The first part of an invite reads, and writes nothing.
LEMMA BeginInv ==
  ASSUME FriendsInv, NEW p \in Request, NEW u \in User, NEW v \in User, BeginInvite(p, u, v)
  PROVE  FriendsInv'
<1>1. PICK i : i = [from |-> u, to |-> v, half |-> Acceptable(graph, u, v),
                    free |-> graph.edge[v][u] # "blocked"]
  OBVIOUS
<1>2. /\ u # v /\ UNCHANGED <<graph, broken>> /\ invite' = [invite EXCEPT ![p] = i]
      /\ Cardinality(Acceptable(graph, u, v)) < 2
  BY <1>1 DEF BeginInvite
<1>3. InviteTyped(i)
  BY <1>1, <1>2, AcceptableType DEF InviteTyped
<1>4. broken = {} => i.half = {}
  <2>1. SUFFICES ASSUME broken = {} PROVE Acceptable(graph, u, v) = {}
    BY <1>1
  <2>2. graph \in Graph /\ Legal(graph)
    BY <2>1 DEF FriendsInv, Unbroken, Fit
  <2>3. \/ Acceptable(graph, u, v) = {}
        \/ Cardinality(Acceptable(graph, u, v)) = 2
    BY <1>2, <2>2, AcceptableLegal
  <2> QED BY <1>2, <2>3
<1>5. \A q \in Request : invite'[q] = IF q = p THEN i ELSE invite[q]
  BY <1>2 DEF FriendsInv, Invites
<1>6. Invites'
  BY <1>2, <1>3, <1>5 DEF FriendsInv, Invites
<1>7. Unbroken'
  BY <1>2, <1>4, <1>5 DEF FriendsInv, Unbroken
<1> QED BY <1>2, <1>6, <1>7 DEF FriendsInv

\* An invite that was begun is gone.
LEMMA ClearInvite ==
  ASSUME FriendsInv, NEW p \in Request, invite' = [invite EXCEPT ![p] = NoInvite]
  PROVE  Invites' /\ \A q \in Request : invite'[q] # NoInvite => invite'[q] = invite[q]
<1>1. \A q \in Request : invite'[q] = IF q = p THEN NoInvite ELSE invite[q]
  BY DEF FriendsInv, Invites
<1> QED BY <1>1 DEF FriendsInv, Invites

\* The second part of an invite writes what it read allows, or is excused.
LEMMA CommitInviteInv ==
  ASSUME FriendsInv, NEW p \in Request, CommitInvite(p)
  PROVE  FriendsInv'
<1>1. PICK i : i = invite[p]
  OBVIOUS
<1>2. PICK g : g = Accept(graph, i.half)
  OBVIOUS
<1>3. /\ i # NoInvite
      /\ graph' = IF i.free THEN InsertInvite(g, i.from, i.to) ELSE g
      /\ broken' = broken \cup
           (IF i.free /\ "blocked" \in {graph.edge[i.from][i.to], graph.edge[i.to][i.from]}
            THEN {"overtaken"} ELSE {})
      /\ invite' = [invite EXCEPT ![p] = NoInvite]
  BY <1>1, <1>2 DEF CommitInvite
<1>4. InviteTyped(i)
  BY <1>1, <1>3 DEF FriendsInv, Invites
<1>5. graph \in Graph
  BY DEF FriendsInv
<1>6. g \in Graph
  <2>1. AcceptTo(graph, g, i.half) BY <1>2, <1>5, AcceptAt
  <2> QED BY <2>1 DEF AcceptTo
<1>7. graph' \in Graph
  <2>1. Inserted(g, InsertInvite(g, i.from, i.to), i.from, i.to)
    BY <1>4, <1>6, InsertAt DEF InviteTyped
  <2>2. InsertInvite(g, i.from, i.to) \in Graph
    BY <2>1 DEF Inserted
  <2> QED BY <1>3, <1>6, <2>2
<1>8. ASSUME broken' = {} PROVE Fit(graph')
  <2>1. broken = {}
    BY <1>3, <1>8
  <2>2. i.free => "blocked" \notin {graph.edge[i.from][i.to], graph.edge[i.to][i.from]}
    BY <1>3, <1>8
  <2>3. Fit(graph) /\ i.half = {}
    BY <1>1, <1>3, <2>1 DEF FriendsInv, Unbroken
  <2>4. g = graph
    BY <1>2, <1>5, <2>3, AcceptNone
  <2> QED BY <1>3, <1>4, <1>5, <2>2, <2>3, <2>4, InsertFit DEF InviteTyped
<1>9. Invites' /\ \A q \in Request : invite'[q] # NoInvite => invite'[q] = invite[q]
  BY <1>3, ClearInvite
<1>10. broken \subseteq broken' /\ broken' \subseteq {"overtaken", "imported"}
  BY <1>3 DEF FriendsInv
<1>11. Unbroken'
  BY <1>8, <1>9, <1>10 DEF FriendsInv, Unbroken
<1> QED BY <1>7, <1>9, <1>10, <1>11 DEF FriendsInv

\* Every step keeps the invariant of the friends.
LEMMA FriendsNextInv == FriendsInv /\ [FriendsNext]_friendVars => FriendsInv'
<1> SUFFICES ASSUME FriendsInv, [FriendsNext]_friendVars PROVE FriendsInv'
  OBVIOUS
<1>1. CASE UNCHANGED friendVars
  BY <1>1 DEF friendVars, FriendsInv, Invites, Unbroken
<1>2. ASSUME NEW p \in Request, AbortInvite(p) PROVE FriendsInv'
  <2>1. UNCHANGED <<graph, broken>> /\ invite' = [invite EXCEPT ![p] = NoInvite]
    BY <1>2 DEF AbortInvite
  <2>2. Invites' /\ \A q \in Request : invite'[q] # NoInvite => invite'[q] = invite[q]
    BY <2>1, ClearInvite
  <2>3. Unbroken'
    BY <2>1, <2>2 DEF FriendsInv, Unbroken
  <2> QED BY <2>1, <2>2, <2>3 DEF FriendsInv
<1> QED BY <1>1, <1>2, AcceptInv, BlockInv, DeleteInv, ImportInv, BeginInv, CommitInviteInv
        DEF FriendsNext

\* The invariant of the friends holds in every behaviour.
LEMMA FriendsInvariance == FriendsSpec => []FriendsInv
BY FriendsInitInv, FriendsNextInv, PTL DEF FriendsSpec

\* AddFriend, BlockUser, DeleteFriend and the imports, in any interleaving of
\* the transactions, keep the two rows of each pair and the counts together, up
\* to a write of an invite after a block, or of an import across one's own.
THEOREM KeepsEdgesTogether == FriendsSpec => []EdgesFitTogether
<1>1. FriendsInv => EdgesFitTogether
  BY DEF FriendsInv, Unbroken, EdgesFitTogether, Fit, Legal, Counts, Row
<1> QED BY <1>1, FriendsInvariance, PTL

\* No row that is blocked changes, save by the blocker's own delete.
BlockLeft(u, v) == graph.edge[u][v] = "blocked" /\ graph'.edge[u][v] # "blocked"

\* Of the steps that keep the history clean only a deletion by its owner lifts
\* a block.
LEMMA StepBlocks ==
  ASSUME FriendsInv, FriendsNext, broken = {}, NEW x \in User, NEW y \in User, BlockLeft(x, y)
  PROVE  DeleteFriend(x, y)
<1>1. graph \in Graph /\ graph.edge[x][y] = "blocked" /\ graph'.edge[x][y] # "blocked"
  BY DEF FriendsInv, BlockLeft
<1>2. ASSUME NEW g \in Graph, NEW u \in User, NEW v \in User, g.edge[x][y] = "blocked"
      PROVE  Accept(g, Acceptable(g, u, v)).edge[x][y] = "blocked"
  <2>1. AcceptTo(g, Accept(g, Acceptable(g, u, v)), Acceptable(g, u, v))
    BY <1>2, AcceptAt
  <2>2. <<x, y>> \notin Acceptable(g, u, v)
    BY <1>2 DEF Acceptable
  <2> QED BY <1>2, <2>1, <2>2 DEF AcceptTo
<1>3. ASSUME NEW g \in Graph, NEW u \in User, NEW v \in User, u # v, g.edge[x][y] = "blocked"
      PROVE  InsertInvite(g, u, v).edge[x][y] = "blocked"
  <2>1. Inserted(g, InsertInvite(g, u, v), u, v)
    BY <1>3, InsertAt
  <2>2. PICK a, b \in EdgeStates :
          /\ a = (IF g.edge[u][v] = "none" THEN "sent" ELSE g.edge[u][v])
          /\ b = (IF g.edge[v][u] = "none" THEN "received" ELSE g.edge[v][u])
          /\ PairSet(g, InsertInvite(g, u, v), u, v, a, b)
    BY <2>1 DEF Inserted
  <2> QED BY <1>3, <2>2 DEF PairSet
<1>4. ASSUME NEW u \in User, NEW v \in User, AcceptFriend(u, v) PROVE FALSE
  BY <1>1, <1>2, <1>4 DEF AcceptFriend, Commit
<1>5. ASSUME NEW u \in User, NEW v \in User, BlockUser(u, v) PROVE FALSE
  <2>1. u # v /\ graph' = Block(graph, u, v)
    BY <1>5 DEF BlockUser, Commit
  <2>2. BlockedTo(graph, graph', u, v)
    BY <1>1, <2>1, BlockAt
  <2>3. PICK b \in EdgeStates :
          /\ b = (IF graph.edge[v][u] \in {"none", "blocked"} THEN graph.edge[v][u] ELSE "none")
          /\ PairSet(graph, graph', u, v, "blocked", b)
    BY <2>2 DEF BlockedTo
  <2> QED BY <1>1, <2>3 DEF PairSet
<1>6. ASSUME NEW u \in User, NEW v \in User, DeleteFriend(u, v) PROVE DeleteFriend(x, y)
  <2>1. u # v /\ graph' = Delete(graph, u, v)
    BY <1>6 DEF DeleteFriend, Commit
  <2>2. graph'.edge[x][y] = IF <<x, y>> \in Deletable(graph, u, v)
                            THEN "none" ELSE graph.edge[x][y]
    BY <1>1, <2>1, DeleteAt
  <2>3. <<x, y>> \in Deletable(graph, u, v)
    BY <1>1, <2>2
  <2>4. x = u /\ y = v
    BY <1>1, <2>3 DEF Deletable
  <2> QED BY <1>6, <2>4
<1>7. ASSUME NEW u \in User, NEW v \in User, NEW reset \in BOOLEAN, ImportFriend(u, v, reset)
      PROVE  FALSE
  <2>1. PICK g : g = IF reset THEN Reset(graph, u) ELSE graph
    OBVIOUS
  <2>2. u # v /\ graph' = Import(g, u, v)
    BY <1>7, <2>1 DEF ImportFriend, Commit
  <2>3. ResetTo(graph, Reset(graph, u), u)
    BY <1>1, ResetAt
  <2>4. g \in Graph /\ g.edge[x][y] = "blocked"
    BY <1>1, <2>1, <2>3 DEF ResetTo, Erased
  <2>5. PICK a : a = Accept(g, Acceptable(g, u, v))
    OBVIOUS
  <2>6. a \in Graph
    <3>1. AcceptTo(g, a, Acceptable(g, u, v)) BY <2>4, <2>5, AcceptAt
    <3> QED BY <3>1 DEF AcceptTo
  <2>7. a.edge[x][y] = "blocked"
    BY <1>2, <2>4, <2>5
  <2>8. graph' = a \/ graph' = InsertInvite(a, u, v)
    BY <2>2, <2>5 DEF Import
  <2> QED BY <1>1, <1>3, <2>2, <2>6, <2>7, <2>8
<1>8. ASSUME NEW p \in Request, CommitInvite(p) PROVE FALSE
  <2>1. PICK i : i = invite[p]
    OBVIOUS
  <2>2. i # NoInvite /\ graph' = IF i.free THEN InsertInvite(Accept(graph, i.half), i.from, i.to)
                                 ELSE Accept(graph, i.half)
    BY <1>8, <2>1 DEF CommitInvite
  <2>3. InviteTyped(i) /\ i.half = {}
    BY <2>1, <2>2 DEF FriendsInv, Invites, Unbroken
  <2>4. Accept(graph, i.half) = graph
    BY <1>1, <2>3, AcceptNone
  <2>5. graph' = graph \/ graph' = InsertInvite(graph, i.from, i.to)
    BY <2>2, <2>4
  <2> QED BY <1>1, <1>3, <2>3, <2>5 DEF InviteTyped
<1>9. ASSUME NEW p \in Request, NEW u \in User, NEW v \in User,
             BeginInvite(p, u, v) \/ AbortInvite(p)
      PROVE  FALSE
  BY <1>1, <1>9 DEF BeginInvite, AbortInvite
<1>10. CASE \E p \in Request : AbortInvite(p)
  BY <1>1, <1>10 DEF AbortInvite
<1> QED BY <1>4, <1>5, <1>6, <1>7, <1>8, <1>9, <1>10 DEF FriendsNext

\* While no pair is broken, only the blocker's own delete lifts a block,
\* whatever invites and imports are on their way (BlockUser, addFriendTx).
THEOREM OnlyBlockerUnblocks == FriendsSpec => BlockStands
<1>1. FriendsInv /\ [FriendsNext]_friendVars =>
        [broken = {} => \A u, v \in User :
           graph.edge[u][v] = "blocked" /\ graph'.edge[u][v] # "blocked"
             => DeleteFriend(u, v)]_friendVars
  BY StepBlocks DEF BlockLeft
<1> QED BY <1>1, FriendsInvariance, PTL DEF FriendsSpec, BlockStands
-----------------------------------------------------------------------------
(* Groups and friends together                                               *)

\* A behaviour of the two tables is one of each.
LEMMA BothTables == Spec => GroupsSpec /\ FriendsSpec
<1>1. Init => GroupsInit /\ FriendsInit BY DEF Init
<1>2. [Next]_socialVars => [GroupsNext]_groupVars /\ [FriendsNext]_friendVars
  BY DEF Next, socialVars
<1> QED BY <1>1, <1>2, PTL DEF Spec, GroupsSpec, FriendsSpec

\* Groups, roles, counts, rows, and what the open transactions have read keep
\* their types, whatever requests interleave and also where a pair is broken.
THEOREM SocialTypes == Spec => []SocialTypeOK
<1>1. GroupInv => GroupsTypeOK
  <2> SUFFICES ASSUME GroupInv PROVE GroupsTypeOK OBVIOUS
  <2>1. TxType
    BY DEF GroupInv, Transactions, Open, TxTyped, TxType, Roles
  <2> QED BY <2>1 DEF GroupInv, RowsTyped, GroupsTypeOK, Roles
<1>2. FriendsInv => FriendsTypeOK
  BY DEF FriendsInv, Graph, Invites, InviteTyped, FriendsTypeOK
<1>3. GroupInv /\ FriendsInv => SocialTypeOK BY <1>1, <1>2 DEF SocialTypeOK
<1> QED BY <1>3, BothTables, GroupsInvariance, FriendsInvariance, PTL
===============================================================================
