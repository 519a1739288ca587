------------------------------ MODULE MCSocial ------------------------------
(* The groups and the friends are tables of their own, and no transaction  *)
(* touches both; a behaviour is of one or of the other.                    *)
EXTENDS Groups, Friends, TLC

VARIABLE scene

socialVars == <<groupVars, friendVars, scene>>

Init == GroupsInit /\ FriendsInit /\ scene \in {"groups", "friends"}

Next ==
  \/ scene = "groups" /\ GroupsNext /\ UNCHANGED <<friendVars, scene>>
  \/ scene = "friends" /\ FriendsNext /\ UNCHANGED <<groupVars, scene>>

Spec == Init /\ [][Next]_socialVars

\* Groups and users, members and friends have their types.
SocialTypeOK == GroupsTypeOK /\ FriendsTypeOK

Sym == {f @@ g : f \in Permutations(User), g \in Permutations(Request)}

\* What follows a stale write in a group, or a broken pair, is not explored.
NothingBroken == "stale" \notin excuse /\ broken = {}
=============================================================================
