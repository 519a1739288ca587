--------------------------- MODULE MCMatchGateway ---------------------------
(* Two sessions.  The first one may try to join twice, or once; the leaves *)
(* of the second one compete for the queue.                                *)
EXTENDS MatchGateway, TLC

CONSTANTS s1, s2, c1, c2

MCCaller == c1 :> s1 @@ c2 :> s1
=============================================================================
