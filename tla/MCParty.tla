------------------------------ MODULE MCParty ------------------------------
(* The registry alone, with three users, one of them with two sessions, and  *)
(* parties of several sizes; or the gateway, with the tickets of parties of  *)
(* two and the handlers of two users, one of them with two sessions; or the  *)
(* connections of one user's two sessions, with their status, which share no *)
(* state with the parties.                                                   *)
EXTENDS PartyGateway, SessionStatus, TLC

CONSTANTS u1, u2, u3, s1, s2, s3, s4, c1, c2, c3

VARIABLE scene

partyVars == <<vars, sessionVars, scene>>

MCUser == {u1, u2, u3}
MCSession == {s1, s2, s3, s4}
MCOwner == s1 :> u1 @@ s2 :> u1 @@ s3 :> u2 @@ s4 :> u3

MCSidOf == c1 :> s1 @@ c2 :> s1 @@ c3 :> s2
MCUserOf == s1 :> u1 @@ s2 :> u1

MCInit ==
  /\ scene \in {"registry", "gateway", "sessions"}
  /\ IF scene = "gateway"
     THEN Init /\ online = Session \ {s4} /\ tickets = {} /\ pending = [s \in Session |-> Idle]
     ELSE GatewayInit
  /\ SessionsInit /\ (scene # "sessions" => ~grace)

\* The gateway's parties are two at a time, of two.
SmallParties == /\ Cardinality(reg'.parties) <= 2
                /\ \A p \in reg'.parties : reg'.maxSize[p] = 2

\* Two of the connections at most, of one session or of two; c2 after c1.
TwoConnections == /\ Cardinality({c \in Conn : at'[c] # "new"}) <= 2
                  /\ at'[c2] # "new" => at'[c1] # "new"

MCNext ==
  /\ scene' = scene
  /\ CASE scene = "registry" -> Next /\ UNCHANGED <<online, pending, tickets, sessionVars>>
       [] scene = "gateway" -> GatewayNext /\ SmallParties /\ UNCHANGED sessionVars
       [] scene = "sessions" -> SessionsNext /\ TwoConnections /\ UNCHANGED vars

MCSpec == MCInit /\ [][MCNext]_partyVars

\* No more goroutines wait for room in the event queue.
OneLate == Len(late) <= 1

Symmetry == Permutations(PartyID)
============================================================================
