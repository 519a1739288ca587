-------------------------------- MODULE Users --------------------------------
(***************************************************************************)
(* What the models of the social tables share: the users, and the slots in *)
(* which requests run at the same time, each in a transaction of its own.  *)
(***************************************************************************)
EXTENDS Integers, FiniteSets

CONSTANTS
  User,
  Request  \* transactions that may be open at once

ASSUME UsersAssumption == IsFiniteSet(User) /\ IsFiniteSet(Request)
===============================================================================
