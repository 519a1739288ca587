----------------------- MODULE MCTournamentSchedule -----------------------
(* Boards of every kind: tournaments of one occurrence with and without an  *)
(* end, recurring ones with and without an end, leaderboards with resets.   *)
(* Two nodes of a worker each that share Redis, or one node of two workers  *)
(* without it.                                                              *)
EXTENDS TournamentSchedule, TLC

CONSTANTS n1, n2, w1, w2

BoardOf(start, end, duration, period) ==
  [start |-> start, end |-> end, duration |-> duration, period |-> period]

\* Two tournaments, of which three callbacks are due in the end: one more than
\* the queue holds.
Crowded ==
  [table : {<<BoardOf(0, 0, 1, 0), BoardOf(0, 2, 1, 0)>>},
   redis : {FALSE}, home : {w1 :> n1 @@ w2 :> n1}]

Recurring ==
  [table : {<<BoardOf(1, 3, 1, 2), BoardOf(1, 0, 0, 2)>>, <<BoardOf(1, 0, 1, 2)>>},
   redis : {FALSE}, home : {w1 :> n1 @@ w2 :> n1}]

TwoNodes ==
  [table : {<<BoardOf(0, 0, 1, 0)>>,
            <<BoardOf(2, 3, 1, 0)>>,
            <<BoardOf(2, 0, 1, 0), BoardOf(1, 0, 0, 2)>>},
   redis : {TRUE}, home : {w1 :> n1 @@ w2 :> n2}]

DeploymentsOf == Crowded \union Recurring \union TwoNodes
=============================================================================
