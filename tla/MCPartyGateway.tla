--------------------------- MODULE MCPartyGateway ---------------------------
(* Two users, one of them with two sessions, and two parties.              *)
EXTENDS PartyGateway, TLC

CONSTANTS u1, u2, s1, s2, s3

MCUser == {u1, u2}
MCSession == {s1, s2, s3}
MCOwner == s1 :> u1 @@ s2 :> u1 @@ s3 :> u2

Symmetry == Permutations(PartyID)
=============================================================================
