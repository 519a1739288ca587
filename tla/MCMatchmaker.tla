---------------------------- MODULE MCMatchmaker ----------------------------
(* Four tickets that compete in one queue: two of one party, one that asks *)
(* for an even size, one for an exact size.                                *)
EXTENDS Matchmaker, TLC

CONSTANTS t1, t2, t3, t4, s1, s2, p1, q1

A(min, max, multiple, count, party, session, queue) ==
  [min |-> min, max |-> max, multiple |-> multiple, count |-> count,
   party |-> party, session |-> session, queue |-> queue]

MCAsk ==
  t1 :> A(2, 3, 1, 1, NoParty, s1, q1) @@
  t2 :> A(2, 4, 1, 1, p1,      s1, q1) @@
  t3 :> A(2, 4, 2, 2, NoParty, s2, q1) @@
  t4 :> A(2, 2, 1, 1, p1,      s1, q1)

MCMinPlayers == q1 :> 2

\* Game code returns no group, two of tickets it is shown, or one of any.
MCHooks(S, K) ==
  {{}} \cup {{g, h} : g, h \in SUBSET S} \cup {{g} : g \in SUBSET K}
=============================================================================
