-------------------------------- MODULE Groups --------------------------------
(***************************************************************************)
(* One group of internal/social/groups.go under concurrent requests.       *)
(*                                                                         *)
(* Every operation is a PostgreSQL transaction at the default isolation,   *)
(* READ COMMITTED: a SELECT sees what is committed when it runs, a write   *)
(* waits for the rows it needs, and nobody sees it before the commit.  So  *)
(* an operation is two steps: the SELECTs with the checks on them, which   *)
(* leave in tx what was read, then the writes with the commit.             *)
(* JoinGroup and AddGroupUsers read the groups row FOR UPDATE: between     *)
(* their steps no other transaction can write that row (RowLocked).        *)
(* Where the group is disabled there is a step more, since the edges to    *)
(* delete are chosen by a statement before the one that takes the row.     *)
(* Abort is a rollback: a deadlock found by the database, a lost           *)
(* connection, a cancelled request.                                        *)
(*                                                                         *)
(* Abstracted: the group's texts, cursors and listings, notifications and  *)
(* channel messages, and position, which only orders lists.                *)
(***************************************************************************)
EXTENDS Users

CONSTANTS
  Server,    \* the caller of the runtime and the console: the empty caller id
  MaxCounts, \* the max_count values in use
  MaxAdd,   \* bound: the users that one request to add names
  MaxBan    \* bound: the users that one request to ban names

ASSUME GroupsAssumption ==
  /\ Server \notin User
  /\ MaxCounts \subseteq Nat \ {0}
  /\ MaxAdd \in Nat /\ MaxBan \in Nat

VARIABLES
  group,  \* the row in groups
  role,   \* group_edge from the group to a user
  mine,   \* group_edge from a user to the group
  tx,     \* what each open transaction has read
  excuse  \* history: what may have broken an invariant

groupVars == <<group, role, mine, tx, excuse>>

SuperAdmin == 0
Admin == 1
Member == 2
JoinRequest == 3
Banned == 4
NoEdge == 5   \* no row

Idle == [op |-> "idle"]
Ops == {"join", "add", "kick", "ban", "leave", "sweep", "disable", "promote", "demote"}

GroupsInit ==
  /\ group = [status |-> "absent", open |-> FALSE, count |-> 0, max |-> 1]
  /\ role = [u \in User |-> NoEdge]
  /\ mine = [u \in User |-> NoEdge]
  /\ tx = [p \in Request |-> Idle]
  /\ excuse = {}

Active == group.status = "active"
Members == {u \in User : role[u] <= Member}
SuperAdmins == {u \in User : role[u] = SuperAdmin}
Edges == {u \in User : role[u] # NoEdge}

Lists(n) == {who \in SUBSET User : Cardinality(who) \in 1..n}

\* The empty caller id passes every check, as if it outranked everyone.
Rank(by) == IF by = Server THEN SuperAdmin - 1 ELSE role[by]

\* GREATEST(edge_count - n, 0).
Less(n) == IF group.count > n THEN group.count - n ELSE 0

\* Mutant: the row is read without FOR UPDATE.
RowLocked_NoForUpdate == FALSE

\* The groups row is held by a transaction that selected it FOR UPDATE.
RowLocked == \E p \in Request : tx[p].op \in {"join", "add"}

\* Edges that another transaction has deleted and not committed yet.
EdgeLocked(p, u) == \E q \in Request \ {p} : tx[q].op = "disable" /\ u \in tx[q].who

\* A transaction that has made its reads: the roles of the users it is about,
\* and (led) whether the group has a superadmin besides them.
Read(p, op, by, who) ==
  /\ tx[p] = Idle
  /\ tx' = [tx EXCEPT ![p] = [op |-> op, server |-> by = Server, who |-> who,
                              seen |-> [u \in who |-> role[u]],
                              led |-> SuperAdmins \ who # {}]]
  /\ UNCHANGED <<group, role, mine, excuse>>

\* The commit: edges of the users in who become r (m in the other direction).
Write(p, who, r, m) ==
  /\ \A u \in who : ~EdgeLocked(p, u)
  /\ role' = [u \in User |-> IF u \in who THEN r[u] ELSE role[u]]
  /\ mine' = [u \in User |-> IF u \in who THEN m[u] ELSE mine[u]]
  /\ tx' = [tx EXCEPT ![p] = Idle]

All(who, r) == [u \in who |-> r]

\* What p read is no longer so.
Overtaken(p) ==
  \/ \E u \in tx[p].who : role[u] # tx[p].seen[u]
  \/ tx[p].op \in {"leave", "demote"} /\ tx[p].led /\ SuperAdmins \subseteq tx[p].who

\* History only: a write after a stale read, or the server removing superadmins.
Excuse(p) ==
  excuse' = excuse
    \cup (IF Overtaken(p) THEN {"stale"} ELSE {})
    \cup (IF /\ tx[p].op \in {"kick", "ban"} /\ tx[p].server
              /\ tx[p].who \cap SuperAdmins # {}
          THEN {"server"} ELSE {})

-----------------------------------------------------------------------------
(* Operations that are one step.                                           *)

\* CreateGroupWithParams.
CreateGroup(u, open, max) ==
  /\ group.status = "absent"
  /\ group' = [status |-> "active", open |-> open, count |-> 1, max |-> max]
  /\ role' = [role EXCEPT ![u] = SuperAdmin]
  /\ mine' = [mine EXCEPT ![u] = SuperAdmin]
  /\ UNCHANGED <<tx, excuse>>

\* UpdateGroup; of what it sets only the state matters here.
UpdateGroup(by, open) ==
  /\ Active /\ ~RowLocked
  /\ Rank(by) <= Admin
  /\ group' = [group EXCEPT !.open = open]
  /\ UNCHANGED <<role, mine, tx, excuse>>

\* UpdateGroupMaxCount: by the runtime; it may go below the count.
UpdateGroupMaxCount(max) ==
  /\ Active /\ ~RowLocked
  /\ group' = [group EXCEPT !.max = max]
  /\ UNCHANGED <<role, mine, tx, excuse>>

Abort(p) ==
  /\ tx[p] # Idle
  /\ tx' = [tx EXCEPT ![p] = Idle]
  /\ UNCHANGED <<group, role, mine, excuse>>

-----------------------------------------------------------------------------
(* Joining.                                                                *)

JoinGroup(p, u) ==
  /\ Active /\ ~RowLocked
  /\ role[u] = NoEdge
  /\ group.open => group.count < group.max
  /\ Read(p, "join", u, {u})

WriteJoin(p) ==
  /\ tx[p].op = "join"
  /\ LET r == All(tx[p].who, IF group.open THEN Member ELSE JoinRequest) IN
     Write(p, tx[p].who, r, r)
  /\ group' = IF group.open THEN [group EXCEPT !.count = @ + 1] ELSE group
  /\ Excuse(p)

\* The users in the list that AddGroupUsers does not skip.
Addable(who) == {u \in who : role[u] \in {NoEdge, JoinRequest}}

AddGroupUsers(p, by, who) ==
  /\ Active /\ ~RowLocked
  /\ Rank(by) <= Admin
  /\ Addable(who) # {}
  /\ group.count + Cardinality(Addable(who)) <= group.max
  /\ Read(p, "add", by, Addable(who))

WriteAdd(p) ==
  /\ tx[p].op = "add"
  /\ LET r == All(tx[p].who, Member) IN Write(p, tx[p].who, r, r)
  /\ group' = [group EXCEPT !.count = @ + Cardinality(tx[p].who)]
  /\ Excuse(p)

-----------------------------------------------------------------------------
(* Removing.                                                               *)

\* The users of p that it read as members, whom the count loses.
Counted(p) == {u \in tx[p].who : tx[p].seen[u] <= Member}

\* Mutant: a kicked join request is subtracted like a member.
Uncount_Requests(p) ==
  /\ ~RowLocked
  /\ group' = [group EXCEPT !.count = Less(Cardinality(tx[p].who))]

\* A removal touches the groups row only if there is a member to subtract.
Uncount(p) ==
  /\ Counted(p) # {} => ~RowLocked
  /\ group' = [group EXCEPT !.count = Less(Cardinality(Counted(p)))]

KickMember(p, by, u) ==
  /\ by # u
  /\ role[u] # NoEdge
  /\ Rank(by) <= Admin /\ ~(Rank(by) >= role[u] /\ role[u] <= Member)
  /\ Read(p, "kick", by, {u})

WriteKick(p) ==
  /\ tx[p].op = "kick"
  /\ LET none == All(tx[p].who, NoEdge) IN Write(p, tx[p].who, none, none)
  /\ Uncount(p)
  /\ Excuse(p)

\* Those in the list whom the ban of this caller reaches.
Bannable(by, who) ==
  {u \in who \ {by} : ~(role[u] <= Rank(by) /\ role[u] <= Member)}

BanGroupUsers(p, by, who) ==
  /\ group.status # "absent"
  /\ Rank(by) <= Admin
  /\ Bannable(by, who) # {}
  /\ Read(p, "ban", by, Bannable(by, who))

\* Mutant: the ban leaves the edge from the user to the group.
WriteBan_KeepsOwnEdge(p) ==
  /\ tx[p].op = "ban"
  /\ Write(p, tx[p].who, All(tx[p].who, Banned), mine)
  /\ Uncount(p)
  /\ Excuse(p)

\* Both edges are deleted, then the one from the group inserted.
WriteBan(p) ==
  /\ tx[p].op = "ban"
  /\ Write(p, tx[p].who, All(tx[p].who, Banned), All(tx[p].who, NoEdge))
  /\ Uncount(p)
  /\ Excuse(p)

\* Mutant: the last superadmin is not asked about the others.
MayLeave_NoLastCheck(u) == TRUE

\* The last superadmin may leave only as the last member.
MayLeave(u) == role[u] = SuperAdmin /\ SuperAdmins = {u} => Members = {u}

\* LeaveGroup: a banned user's leave changes nothing.
LeaveGroup(p, u) ==
  /\ role[u] <= JoinRequest
  /\ MayLeave(u)
  /\ Read(p, IF SuperAdmins = {u} /\ Members = {u} THEN "sweep" ELSE "leave", u, {u})

WriteLeave(p) ==
  /\ tx[p].op = "leave"
  /\ LET none == All(tx[p].who, NoEdge) IN Write(p, tx[p].who, none, none)
  /\ Uncount(p)
  /\ Excuse(p)

-----------------------------------------------------------------------------
(* Disabling the group: by DeleteGroup, or as its last member leaves.      *)

\* The role is read before the transaction begins.
DeleteGroup(p, by) ==
  /\ group.status # "absent"
  /\ Rank(by) <= SuperAdmin
  /\ Read(p, "sweep", by, {})

\* DELETE FROM group_edge: the edges that are there now.
SweepEdges(p) ==
  /\ tx[p].op = "sweep"
  /\ \A u \in Edges : ~EdgeLocked(p, u)
  /\ tx' = [tx EXCEPT ![p] = [op |-> "disable", server |-> tx[p].server, who |-> Edges,
                              seen |-> [u \in Edges |-> role[u]], led |-> FALSE]]
  /\ UNCHANGED <<group, role, mine, excuse>>

\* UPDATE groups SET disable_time, edge_count = 0, and the commit.
Disable(p) ==
  /\ tx[p].op = "disable"
  /\ ~RowLocked
  /\ LET none == All(tx[p].who, NoEdge) IN Write(p, tx[p].who, none, none)
  /\ group' = [group EXCEPT !.status = "disabled", !.count = 0]
  /\ excuse' = IF Edges \subseteq tx[p].who THEN excuse ELSE excuse \cup {"stale"}

-----------------------------------------------------------------------------
(* Changing ranks.  The UPDATE sets the rows it finds, whatever is there.  *)

Ranked(r, who, new) == [u \in who |-> IF r[u] = NoEdge THEN NoEdge ELSE new[u]]

Outranks(by, u) == Rank(by) <= Admin /\ Rank(by) < role[u]

\* Mutant: there is no highest rank.
PromoteMember_NoHighest(p, by, u) ==
  /\ role[u] <= Member
  /\ Outranks(by, u)
  /\ Read(p, "promote", by, {u})

PromoteMember(p, by, u) ==
  /\ role[u] \in {Admin, Member}
  /\ Outranks(by, u)
  /\ Read(p, "promote", by, {u})

DemoteMember(p, by, u) ==
  /\ role[u] \in {SuperAdmin, Admin}
  /\ Outranks(by, u)
  /\ SuperAdmins # {u}
  /\ Read(p, "demote", by, {u})

WriteRank(p) ==
  /\ tx[p].op \in {"promote", "demote"}
  /\ LET d == IF tx[p].op = "promote" THEN -1 ELSE 1
         new == [u \in tx[p].who |-> tx[p].seen[u] + d] IN
     /\ Write(p, tx[p].who, Ranked(role, tx[p].who, new), Ranked(mine, tx[p].who, new))
  /\ Excuse(p)
  /\ UNCHANGED group

-----------------------------------------------------------------------------

GroupsRead(p) ==
  \/ \E u \in User : JoinGroup(p, u) \/ LeaveGroup(p, u)
  \/ \E by \in User \cup {Server} :
       \/ DeleteGroup(p, by)
       \/ \E u \in User : \/ KickMember(p, by, u)
                          \/ PromoteMember(p, by, u)
                          \/ DemoteMember(p, by, u)
       \/ \E who \in Lists(MaxAdd) : AddGroupUsers(p, by, who)
       \/ \E who \in Lists(MaxBan) : BanGroupUsers(p, by, who)

GroupsWrite(p) ==
  \/ WriteJoin(p) \/ WriteAdd(p) \/ WriteKick(p) \/ WriteBan(p) \/ WriteLeave(p)
  \/ SweepEdges(p) \/ Disable(p) \/ WriteRank(p) \/ Abort(p)

GroupsNext ==
  \/ \E u \in User, open \in BOOLEAN, max \in MaxCounts : CreateGroup(u, open, max)
  \/ \E by \in User \cup {Server}, open \in BOOLEAN : UpdateGroup(by, open)
  \/ \E max \in MaxCounts : UpdateGroupMaxCount(max)
  \/ \E p \in Request : GroupsRead(p) \/ GroupsWrite(p)

GroupsSpec == GroupsInit /\ [][GroupsNext]_groupVars

-----------------------------------------------------------------------------
(* Properties.                                                             *)

TxType ==
  \A p \in Request : tx[p] # Idle =>
    /\ tx[p].op \in Ops
    /\ tx[p].server \in BOOLEAN
    /\ tx[p].who \subseteq User
    /\ tx[p].seen \in [tx[p].who -> SuperAdmin..NoEdge]
    /\ tx[p].led \in BOOLEAN

\* The types of the rows and of the open transactions.
GroupsTypeOK ==
  /\ group.status \in {"absent", "active", "disabled"}
  /\ group.open \in BOOLEAN
  /\ group.count \in Nat
  /\ group.max \in Nat \ {0}
  /\ role \in [User -> SuperAdmin..NoEdge]
  /\ mine \in [User -> SuperAdmin..NoEdge]
  /\ TxType
  /\ excuse \subseteq {"stale", "server"}

\* JoinGroup, AddGroupUsers: whatever requests interleave, a step that adds to
\* edge_count leaves it within max_count; only UpdateGroupMaxCount may put the
\* limit below the count.
CountGrowsWithinMax ==
  [][group'.count > group.count => group'.count <= group'.max]_groupVars

\* edge_count of an active group is the number of its members, as long as no
\* transaction has written after a role it had read was changed: that, as when
\* two requests kick one member, is the only way the two part.
CountMatchesMembers ==
  "stale" \in excuse \/ (Active => group.count = Cardinality(Members))

\* Each membership and request has an edge in both directions with one state, a
\* ban only that of the group; a disabled group keeps bans at most; up to stale reads.
EdgesPaired ==
  "stale" \in excuse \/
    /\ \A u \in User : mine[u] = IF role[u] = Banned THEN NoEdge ELSE role[u]
    /\ group.status = "disabled" => \A u \in Edges : role[u] = Banned

\* "cannot leave as last superadmin while others remain": an active group has a
\* superadmin, unless the server removed one or two transactions overtook each
\* other.
ActiveHasSuperadmin ==
  excuse # {} \/ (Active => SuperAdmins # {})
===============================================================================
