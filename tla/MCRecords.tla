------------------------------ MODULE MCRecords ------------------------------
(* The records of one board, with two users, two servers and two calls at a  *)
(* time; or the wallets of two accounts and two stored objects, with two     *)
(* transactions at a time.  Nothing in them is shared; a behaviour is of one *)
(* or of the other.                                                          *)
EXTENDS Leaderboards, Economy, TLC

CONSTANTS a1, a2, x1, x2, v1, v2

VARIABLE scene

recordsVars == <<boardVars, economyVars, scene>>

Rename(n, a) == [do |-> "account", row |-> a, n |-> n]
Write(n, o, v, version) == [do |-> "write", row |-> o, n |-> n, value |-> v, version |-> version]
Delete(n, o, version, server, named) ==
  [do |-> "delete", row |-> o, n |-> n, version |-> version, server |-> server, named |-> named]
Earn(n, a, delta) == [do |-> "earn", row |-> a, n |-> n, delta |-> delta]
Logged(statements) == [statements |-> statements, logged |-> TRUE]

MCPlace == x1 :> 1 @@ x2 :> 2

MCPlans ==
  { Logged({Earn(1, a2, 1), Earn(2, a1, -1)}),
    [statements |-> {Earn(1, a1, 1), Earn(2, a1, 1), Earn(3, a1, -1)}, logged |-> FALSE],
    Logged({Write(1, x2, v1, AnyVersion), Write(2, x1, v2, AnyVersion)}),
    Logged({Write(1, x1, v1, v2)}),
    Logged({Write(1, x1, v2, v1), Write(2, x2, v1, NewOnly)}),
    Logged({Delete(1, x2, AnyVersion, TRUE, TRUE), Delete(2, x1, AnyVersion, TRUE, TRUE)}),
    Logged({Delete(1, x1, v1, FALSE, TRUE)}),
    Logged({Rename(1, a2), Rename(2, a1), Earn(1, a1, -1)}),
    Logged({Write(1, x2, v2, AnyVersion), Delete(1, x1, AnyVersion, TRUE, FALSE),
            Delete(2, x2, AnyVersion, TRUE, TRUE)}) }

Init == /\ BoardInit /\ EconomyInit
        /\ \/ scene = "places" /\ joinRequired
           \/ scene = "caches" /\ ~joinRequired /\ Count = 0 /\ size = 0
           \/ scene = "economy" /\ ~tournament /\ size = 0
        /\ scene # "economy" => /\ \A u \in User : wallet[u] = 0
                                /\ \A o \in Object : stored[o] = Absent

\* The bound on calls or transactions is reached, and all have ended.
BoardRests == Quiet /\ calls = MaxCalls /\ UNCHANGED boardVars
EconomyRests == /\ opened = MaxOpened /\ \A c \in Request : txn[c].stage = "idle"
                /\ UNCHANGED economyVars

Next ==
  /\ scene' = scene
  /\ \/ scene = "places" /\ building' = building /\ (BoardNext \/ BoardRests)
        /\ UNCHANGED economyVars
     \/ scene = "caches" /\ (BoardNext \/ BoardRests) /\ UNCHANGED economyVars
     \/ scene = "economy" /\ (EconomyNext \/ EconomyRests) /\ UNCHANGED boardVars

Spec == Init /\ [][Next]_recordsVars

Sym == {f @@ g @@ h : f \in Permutations(Owner), g \in Permutations(Request),
                      h \in Permutations(Host)}
===============================================================================
