------------------------------- MODULE Friends -------------------------------
(***************************************************************************)
(* The friend edges of internal/social/friends.go and import.go: a row in  *)
(* user_edge for each direction, and users.edge_count, the rows of a user. *)
(*                                                                         *)
(* The isolation is READ COMMITTED, as in module Groups.  AddFriend is two *)
(* steps, as its INSERT looks for a block, then waits for the rows that    *)
(* other transactions are writing, and skips those that exist by then      *)
(* (ON CONFLICT DO NOTHING).  Each other operation begins with a statement *)
(* that takes the rows it decides by, and is one step; so is an import,    *)
(* whose interleavings are not modelled.                                   *)
(*                                                                         *)
(* Abstracted: metadata, positions, listings, notifications, the requests  *)
(* to Facebook and Steam; an import of several friends is several imports. *)
(***************************************************************************)
EXTENDS Users

CONSTANTS
  MaxFriends,  \* Config.MaxFriends
  MaxPending   \* Config.MaxPending

ASSUME FriendsAssumption == MaxFriends \in Nat \ {0} /\ MaxPending \in Nat \ {0}

VARIABLES
  graph,  \* edge: the rows; count: users.edge_count
  invite, \* the AddFriend that each request has begun
  broken  \* history: what may have made a pair illegal

friendVars == <<graph, invite, broken>>

EdgeStates == {"none", "friend", "sent", "received", "blocked"}

NoInvite == [from |-> "nobody"]

FriendsInit ==
  /\ graph = [edge |-> [u \in User |-> [v \in User |-> "none"]],
              count |-> [u \in User |-> 0]]
  /\ invite = [p \in Request |-> NoInvite]
  /\ broken = {}

-----------------------------------------------------------------------------
(* The statements, as functions of a graph.                                *)

Set(g, u, v, st) == [g EXCEPT !.edge[u][v] = st]

\* edge_count - 1 WHERE edge_count > 0.
Down(g, u) == [g EXCEPT !.count[u] = IF @ > 0 THEN @ - 1 ELSE 0]
Up(g, u) == [g EXCEPT !.count[u] = @ + 1]

\* The rows that the accepting UPDATE of addFriendTx finds.
Acceptable(g, u, v) ==
  (IF g.edge[v][u] = "sent" THEN {<<v, u>>} ELSE {})
    \cup (IF g.edge[u][v] = "received" THEN {<<u, v>>} ELSE {})

Accept(g, rows) ==
  [g EXCEPT !.edge = [x \in User |-> [y \in User |->
     IF <<x, y>> \in rows THEN "friend" ELSE g.edge[x][y]]]]

CountOf(g, u, st) == Cardinality({v \in User : g.edge[u][v] = st})

WithinLimits(g, u) ==
  CountOf(g, u, "friend") < MaxFriends /\ CountOf(g, u, "sent") < MaxPending

\* The INSERT of both rows, and the UPDATE of both counts if any is new.
InsertInvite(g, u, v) ==
  LET row(x, y, st) == IF g.edge[x][y] = "none" THEN st ELSE g.edge[x][y]
      both == Set(Set(g, u, v, row(u, v, "sent")), v, u, row(v, u, "received"))
  IN IF both.edge = g.edge THEN g ELSE Up(Up(both, u), v)

\* Mutant: the row of the blocker is left, whatever it says.
Block_KeepsOther(g, u, v) ==
  IF g.edge[u][v] = "none" THEN Up(Set(g, u, v, "blocked"), u) ELSE Set(g, u, v, "blocked")

\* BlockUser.
Block(g, u, v) ==
  LET own == IF g.edge[u][v] = "none"
             THEN Up(Set(g, u, v, "blocked"), u)
             ELSE Set(g, u, v, "blocked")
  IN IF own.edge[v][u] \in {"none", "blocked"} THEN own ELSE Down(Set(own, v, u, "none"), v)

\* Mutant: the blocks against the user go too.
Deletable_BlocksToo(g, u, v) == {x \in {<<u, v>>, <<v, u>>} : g.edge[x[1]][x[2]] # "none"}

\* deleteFriendTx: what it deletes, then the counts by the number of rows.
Deletable(g, u, v) ==
  {x \in {<<u, v>>, <<v, u>>} :
     g.edge[x[1]][x[2]] # "none" /\ (x = <<v, u>> => g.edge[v][u] # "blocked")}

Delete(g, u, v) ==
  LET rows == Deletable(g, u, v)
      rest == [g EXCEPT !.edge = [x \in User |-> [y \in User |->
                 IF <<x, y>> \in rows THEN "none" ELSE g.edge[x][y]]]]
  IN CASE rows = {} -> g
       [] Cardinality(rows) = 1 -> Down(rest, u)
       [] OTHER -> Down(Down(rest, u), v)

\* resetUserFriends: all rows from and to u that are not blocks.
Reset(g, u) ==
  LET gone(x, y) == (x = u \/ y = u) /\ g.edge[x][y] \notin {"none", "blocked"}
      lost(x) == Cardinality({y \in User : gone(x, y)})
  IN [edge |-> [x \in User |-> [y \in User |-> IF gone(x, y) THEN "none" ELSE g.edge[x][y]]],
      count |-> [x \in User |-> IF g.count[x] > lost(x) THEN g.count[x] - lost(x) ELSE 0]]

\* addFriendTx run to its end; in an import an error skips the friend, and
\* does not undo what was accepted.
Import(g, u, v) ==
  LET a == Accept(g, Acceptable(g, u, v)) IN
  IF \/ Cardinality(Acceptable(g, u, v)) = 2
     \/ ~WithinLimits(a, u)
     \/ a.edge[v][u] = "blocked"
  THEN a ELSE InsertInvite(a, u, v)

-----------------------------------------------------------------------------
(* The operations.                                                         *)

Commit(g) == graph' = g /\ g # graph

\* AddFriendWithOpts: a block of one's own stops it, an invite that is there
\* is accepted.
AcceptFriend(u, v) ==
  /\ u # v
  /\ graph.edge[u][v] # "blocked"
  /\ Cardinality(Acceptable(graph, u, v)) = 2
  /\ Commit(Accept(graph, Acceptable(graph, u, v)))
  /\ UNCHANGED <<invite, broken>>

\* Otherwise the limits, and the snapshot of the INSERT.  A row that the
\* UPDATE found alone is a friend's when the transaction commits.
BeginInvite(p, u, v) ==
  /\ invite[p] = NoInvite
  /\ u # v
  /\ graph.edge[u][v] # "blocked"
  /\ Cardinality(Acceptable(graph, u, v)) < 2
  /\ WithinLimits(Accept(graph, Acceptable(graph, u, v)), u)
  /\ invite' = [invite EXCEPT ![p] = [from |-> u, to |-> v, half |-> Acceptable(graph, u, v),
                                      free |-> graph.edge[v][u] # "blocked"]]
  /\ UNCHANGED <<graph, broken>>

CommitInvite(p) ==
  /\ invite[p] # NoInvite
  /\ LET i == invite[p]
         g == Accept(graph, i.half)
     IN /\ graph' = IF i.free THEN InsertInvite(g, i.from, i.to) ELSE g
        /\ broken' = broken \cup
             (IF i.free /\ "blocked" \in {graph.edge[i.from][i.to], graph.edge[i.to][i.from]}
              THEN {"overtaken"} ELSE {})
  /\ invite' = [invite EXCEPT ![p] = NoInvite]

AbortInvite(p) ==
  /\ invite[p] # NoInvite
  /\ invite' = [invite EXCEPT ![p] = NoInvite]
  /\ UNCHANGED <<graph, broken>>

BlockUser(u, v) ==
  /\ u # v
  /\ Commit(Block(graph, u, v))
  /\ UNCHANGED <<invite, broken>>

\* DeleteFriend, and UnblockUser.
DeleteFriend(u, v) ==
  /\ u # v
  /\ Commit(Delete(graph, u, v))
  /\ UNCHANGED <<invite, broken>>

\* ImportFacebookFriends, ImportSteamFriends.
ImportFriend(u, v, reset) ==
  /\ u # v
  /\ Commit(Import(IF reset THEN Reset(graph, u) ELSE graph, u, v))
  /\ broken' = broken \cup (IF graph.edge[u][v] = "blocked" THEN {"imported"} ELSE {})
  /\ UNCHANGED invite

FriendsNext ==
  \/ \E u, v \in User :
       \/ AcceptFriend(u, v) \/ BlockUser(u, v) \/ DeleteFriend(u, v)
       \/ \E reset \in BOOLEAN : ImportFriend(u, v, reset)
       \/ \E p \in Request : BeginInvite(p, u, v)
  \/ \E p \in Request : CommitInvite(p) \/ AbortInvite(p)

FriendsSpec == FriendsInit /\ [][FriendsNext]_friendVars

-----------------------------------------------------------------------------
(* Properties.                                                             *)

\* The types of the rows, the counts and the open invites.
FriendsTypeOK ==
  /\ graph.edge \in [User -> [User -> EdgeStates]]
  /\ graph.count \in [User -> Nat]
  /\ \A p \in Request : invite[p] # NoInvite =>
       /\ invite[p].from \in User /\ invite[p].to \in User
       /\ invite[p].half \subseteq User \X User
       /\ invite[p].free \in BOOLEAN
  /\ broken \subseteq {"overtaken", "imported"}

LegalPair(a, b) ==
  \/ a = b /\ a \in {"none", "friend", "blocked"}
  \/ {a, b} = {"sent", "received"}
  \/ {a, b} = {"blocked", "none"}

\* The two rows of a pair fit each other, and edge_count is the number of rows,
\* through all interleavings of AddFriend, BlockUser, DeleteFriend and imports,
\* save that an invite was overtaken by a block, or an import ignored one.
EdgesFitTogether ==
  broken # {} \/
    /\ \A u, v \in User : LegalPair(graph.edge[u][v], graph.edge[v][u])
    /\ \A u \in User : graph.count[u] = Cardinality({v \in User : graph.edge[u][v] # "none"})

\* BlockUser: only the blocker's own delete lifts a block; no invite that began
\* before it, no import and no delete of another does, no pair being broken yet.
BlockStands ==
  [][broken = {} =>
       \A u, v \in User :
         graph.edge[u][v] = "blocked" /\ graph'.edge[u][v] # "blocked" => DeleteFriend(u, v)
    ]_friendVars

\* "GetFriends returns all active mutual friends of a user" (friends.go:378).
FriendsAreMutual ==
  \A u, v \in User : graph.edge[u][v] = "friend" => graph.edge[v][u] = "friend"
===============================================================================
