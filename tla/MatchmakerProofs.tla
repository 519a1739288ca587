-------------------------- MODULE MatchmakerProofs --------------------------
(***************************************************************************)
(* The matchmaker's indexes agree, its ticket limit holds and it           *)
(* implements the abstract pool of MatchPool, for every set of tickets,    *)
(* whatever they ask for, every configuration and whatever groups game     *)
(* code returns.                                                           *)
(*                                                                         *)
(* The invariant adds to the checked ones what makes them inductive: what  *)
(* a Tick has in hand at each stage, and that the tickets of a match that  *)
(* was announced have the status "matched", so that they cannot come back. *)
(***************************************************************************)
EXTENDS Matchmaker, FiniteSetTheorems, TLAPS

-----------------------------------------------------------------------------
(* The inductive invariant.                                                *)

Limits ==
  \A s \in Session : IsFiniteSet(owned[s]) /\ Cardinality(owned[s]) <= MaxTickets

\* Between queues a Tick holds no ticket; the candidate groups are acceptable
\* unless a hook wrote them.
Ticking ==
  /\ tick.stage \in {"idle", "queues"} => tick.active = {} /\ tick.groups = {}
  /\ \A g \in tick.groups : tick.hooked \/ GroupSatisfiesAll(g)

MatchedForGood == \A m \in formed : \A t \in m.tickets : status[t] = "matched"

IInv == TypeOK /\ IndexesAgree /\ Limits /\ Ticking /\ MatchedForGood

-----------------------------------------------------------------------------
(* Lemmas.                                                                 *)

\* The part of the state that the clients' calls and a match change.
Books == pool \subseteq Ticket /\ owned \in [Session -> SUBSET Ticket]
         /\ status \in [Ticket -> Statuses] /\ old \subseteq pool

\* Leave keeps the three indexes in step, whatever set of tickets leaves, also
\* tickets that were not in the pool.
LEMMA LeaveKeeps ==
  ASSUME Books, IndexesAgree, Limits,
         NEW S, S \subseteq Ticket,
         NEW st \in Statuses \ {"none", "queued"},
         Leave(S, st)
  PROVE  /\ Books' /\ IndexesAgree' /\ Limits'
         /\ \A t \in Ticket : status'[t] = IF t \in S THEN st ELSE status[t]
  <1>1. \A t \in Ticket : status'[t] = IF t \in S THEN st ELSE status[t]
    BY DEF Leave, Become
  <1>2. Books'
    BY DEF Leave, Become, Books, Statuses
  <1>3. IndexesAgree'
    <2>1. pool' = {t \in Ticket : status'[t] = "queued"}
      BY <1>1 DEF Leave, IndexesAgree, Statuses, Books
    <2>2. ASSUME NEW s \in Session
          PROVE  owned'[s] = {t \in pool' : Ask[t].session = s}
      BY DEF Leave, IndexesAgree, Books
    <2>. QED  BY <2>1, <2>2 DEF IndexesAgree
  <1>4. Limits'
    <2>. SUFFICES ASSUME NEW s \in Session
                  PROVE  IsFiniteSet(owned'[s]) /\ Cardinality(owned'[s]) <= MaxTickets
      BY DEF Limits
    <2>1. owned'[s] = owned[s] \ S  BY DEF Leave
    <2>2. IsFiniteSet(owned[s]) /\ Cardinality(owned[s]) <= MaxTickets
      BY DEF Limits
    <2>3. /\ IsFiniteSet(owned'[s])
          /\ Cardinality(owned'[s]) <= Cardinality(owned[s])
      BY <2>1, <2>2, FS_Subset
    <2>4. Cardinality(owned[s]) \in Nat /\ Cardinality(owned'[s]) \in Nat
      BY <2>2, <2>3, FS_CardinalityType
    <2>. QED  BY <2>2, <2>3, <2>4, MatchmakerAssumption
  <1>. QED  BY <1>1, <1>2, <1>3, <1>4

\* What the loop of a seed keeps is made of its candidates.
LEMMA TrimmedWithin ==
  ASSUME NEW t, NEW S, NEW c \in CandidateLists(t, S)
  PROVE  Trimmed(c, t) \subseteq S \cup {t}
  <1>1. PICK n \in 1 .. Cardinality(S \cup {t}) : c \in [1 .. n -> S \cup {t}]
    BY DEF CandidateLists
  <1>2. DOMAIN c = 1 .. n /\ \A i \in DOMAIN c : c[i] \in S \cup {t}
    BY <1>1
  <1>. QED  BY <1>2 DEF Trimmed

-----------------------------------------------------------------------------
(* The invariant holds at the start and is preserved by every step.        *)

\* A new matchmaker holds no ticket (NewMatchmaker).
LEMMA InitInv == Init => IInv
  <1>. SUFFICES ASSUME Init PROVE IInv  OBVIOUS
  <1>1. TypeOK
    BY MatchmakerAssumption DEF Init, TypeOK, NoTick, Statuses, Stages, TickType
  <1>2. IndexesAgree
    BY DEF Init, IndexesAgree
  <1>3. Limits
    BY FS_EmptySet, MatchmakerAssumption DEF Init, Limits
  <1>4. Ticking /\ MatchedForGood
    BY DEF Init, Ticking, MatchedForGood, NoTick
  <1>. QED  BY <1>1, <1>2, <1>3, <1>4 DEF IInv

\* A submission enters a ticket in all three indexes at once, below the limit
\* of its session.
LEMMA SubmitInv ==
  ASSUME IInv, NEW t \in Ticket, Submit(t)
  PROVE  IInv'
  <1>. DEFINE s == Ask[t].session
  <1>0. /\ tick.stage = "idle" /\ tick.active = {} /\ tick.groups = {}
        /\ t \notin pool
        /\ Ask[t] \in AskType
    BY MatchmakerAssumption DEF IInv, Ticking, Submit, Unlocked, IndexesAgree
  <1>1. s \in Session  BY <1>0 DEF AskType
  <1>2. TypeOK'
    <2>1. pool' \subseteq Ticket /\ old' \subseteq pool'
      BY DEF IInv, TypeOK, Submit
    <2>2. owned' \in [Session -> SUBSET Ticket]
      BY <1>1 DEF IInv, TypeOK, Submit
    <2>3. status' \in [Ticket -> Statuses]
      BY DEF IInv, TypeOK, Submit, Statuses
    <2>. QED  BY <2>1, <2>2, <2>3, <1>0 DEF IInv, TypeOK, Submit
  <1>3. IndexesAgree'
    <2>1. \A o \in Ticket : status'[o] = IF o = t THEN "queued" ELSE status[o]
      BY DEF IInv, TypeOK, Submit
    <2>2. pool' = {o \in Ticket : status'[o] = "queued"}
      BY <2>1 DEF IInv, IndexesAgree, Submit
    <2>3. ASSUME NEW x \in Session
          PROVE  owned'[x] = {o \in pool' : Ask[o].session = x}
      <3>1. owned'[x] = IF x = s THEN owned[x] \cup {t} ELSE owned[x]
        BY DEF IInv, TypeOK, Submit
      <3>. QED  BY <3>1 DEF IInv, IndexesAgree, Submit
    <2>. QED  BY <2>2, <2>3 DEF IndexesAgree
  <1>4. Limits'
    <2>. SUFFICES ASSUME NEW x \in Session
                  PROVE  IsFiniteSet(owned'[x]) /\ Cardinality(owned'[x]) <= MaxTickets
      BY DEF Limits
    <2>1. IsFiniteSet(owned[x]) /\ Cardinality(owned[x]) <= MaxTickets
      BY DEF IInv, Limits
    <2>2. Cardinality(owned[x]) \in Nat  BY <2>1, FS_CardinalityType
    <2>3. CASE x = s
      <3>1. owned'[x] = owned[x] \cup {t}
        BY <2>3 DEF IInv, TypeOK, Submit
      <3>2. /\ IsFiniteSet(owned'[x])
            /\ \/ Cardinality(owned'[x]) = Cardinality(owned[x])
               \/ Cardinality(owned'[x]) = Cardinality(owned[x]) + 1
        BY <3>1, <2>1, FS_AddElement
      <3>3. Cardinality(owned[x]) < MaxTickets  BY <2>3 DEF Submit
      <3>. QED  BY <3>2, <3>3, <2>1, <2>2, MatchmakerAssumption
    <2>4. CASE x # s
      <3>1. owned'[x] = owned[x]  BY <2>4 DEF IInv, TypeOK, Submit
      <3>. QED  BY <3>1, <2>1
    <2>. QED  BY <2>3, <2>4
  <1>5. Ticking'
    BY <1>0 DEF Submit, Ticking
  <1>6. MatchedForGood'
    <2>. SUFFICES ASSUME NEW m \in formed, NEW o \in m.tickets
                  PROVE  status'[o] = "matched"
      BY DEF Submit, MatchedForGood
    <2>1. status[o] = "matched"  BY DEF IInv, MatchedForGood
    <2>2. o # t  BY <2>1 DEF Submit
    <2>. QED  BY <2>1, <2>2 DEF Submit, IInv, TypeOK
  <1>. QED  BY <1>2, <1>3, <1>4, <1>5, <1>6 DEF IInv

\* Cancel, RemovePartyAll and RemoveSessionAll take a set of tickets out of
\* every index; they wait for mm.mu, so no Tick has one of them in hand.
LEMMA CancelInv ==
  ASSUME IInv, NEW S, S \subseteq pool, CancelAll(S)
  PROVE  IInv'
  <1>0. tick.stage = "idle" /\ tick.active = {} /\ tick.groups = {} /\ tick' = tick
    BY DEF IInv, Ticking, CancelAll, Unlocked
  <1>1. Books /\ S \subseteq Ticket /\ Leave(S, "cancelled")
    BY DEF IInv, TypeOK, Books, CancelAll
  <1>2. /\ Books' /\ IndexesAgree' /\ Limits'
        /\ \A t \in Ticket : status'[t] = IF t \in S THEN "cancelled" ELSE status[t]
    BY <1>1, LeaveKeeps DEF IInv, Statuses
  <1>3. TypeOK'
    <2>1. intervals' \in [Ticket -> 0 .. MaxIntervals]
      BY MatchmakerAssumption DEF IInv, TypeOK, CancelAll, Reset
    <2>. QED  BY <1>0, <1>2, <2>1 DEF IInv, TypeOK, Books, CancelAll
  <1>4. Ticking'
    BY <1>0 DEF Ticking
  <1>5. MatchedForGood'
    <2>. SUFFICES ASSUME NEW m \in formed, NEW o \in m.tickets
                  PROVE  status'[o] = "matched"
      BY DEF CancelAll, MatchedForGood
    <2>1. status[o] = "matched" /\ o \in Ticket
      BY DEF IInv, MatchedForGood, TypeOK
    <2>2. o \notin S  BY <2>1 DEF IInv, IndexesAgree
    <2>. QED  BY <2>1, <2>2, <1>2
  <1>. QED  BY <1>2, <1>3, <1>4, <1>5 DEF IInv

\* The passing of time changes no index.
LEMMA GrowOldInv ==
  ASSUME IInv, NEW t \in Ticket, GrowOld(t)
  PROVE  IInv'
  <1>1. TypeOK'  BY DEF IInv, TypeOK, GrowOld
  <1>2. IndexesAgree' /\ Limits' /\ Ticking' /\ MatchedForGood'
    BY DEF IInv, IndexesAgree, Limits, Ticking, MatchedForGood, GrowOld, GroupSatisfiesAll
  <1>. QED  BY <1>1, <1>2 DEF IInv

\* The steps of a Tick that touch nothing but the Tick itself.
LEMMA TickOnlyInv ==
  ASSUME IInv,
         UNCHANGED <<pool, owned, status, intervals, old, formed>>,
         /\ tick' \in TickType
         /\ tick'.seeds \subseteq tick'.active
         /\ tick'.hooked \/ UNION tick'.groups \subseteq tick'.active
         /\ tick'.active \ tick'.matched \subseteq pool,
         Ticking'
  PROVE  IInv'
  <1>1. TypeOK'  BY DEF IInv, TypeOK
  <1>2. IndexesAgree' /\ Limits' /\ MatchedForGood'
    BY DEF IInv, IndexesAgree, Limits, MatchedForGood
  <1>. QED  BY <1>1, <1>2 DEF IInv

\* Tick takes mm.mu with no ticket in hand.
LEMMA TickStartInv == ASSUME IInv, TickStart PROVE IInv'
  <1>1. tick' = [NoTick EXCEPT !.stage = "queues", !.queues = Queues]
    BY DEF TickStart
  <1>2. Ticking'  BY <1>1 DEF Ticking, NoTick
  <1>. QED  BY <1>1, <1>2, TickOnlyInv DEF TickStart, NoTick, Stages, TickType

\* Tick gives mm.mu back with no ticket in hand.
LEMMA TickEndInv == ASSUME IInv, TickEnd PROVE IInv'
  <1>1. tick' = NoTick  BY DEF TickEnd
  <1>2. Ticking'  BY <1>1 DEF Ticking, NoTick
  <1>. QED  BY <1>1, <1>2, TickOnlyInv DEF TickEnd, NoTick, Stages, TickType

\* A queue is left when its candidate groups are used up.
LEMMA QueueDoneInv == ASSUME IInv, QueueDone PROVE IInv'
  <1>1. tick' = [NoTick EXCEPT !.stage = "queues", !.queues = tick.queues]
    BY DEF QueueDone
  <1>2. Ticking'  BY <1>1 DEF Ticking, NoTick
  <1>3. tick.queues \subseteq Queues  BY DEF IInv, TypeOK, TickType
  <1>. QED  BY <1>1, <1>2, <1>3, TickOnlyInv DEF QueueDone, NoTick, Stages, TickType

\* Loading a queue expires its old tickets; what it has in hand is in the pool.
LEMMA LoadQueueInv == ASSUME IInv, NEW q \in Queue, LoadQueue(q) PROVE IInv'
  <1>. DEFINE here   == {t \in pool : Ask[t].queue = q}
              gone   == here \cap old
              active == here \ old
  <1>1. Books /\ Leave(gone, "expired") /\ gone \subseteq Ticket /\ gone \subseteq pool
    BY DEF IInv, TypeOK, Books, LoadQueue
  <1>2. /\ Books' /\ IndexesAgree' /\ Limits'
        /\ \A t \in Ticket : status'[t] = IF t \in gone THEN "expired" ELSE status[t]
    BY <1>1, LeaveKeeps DEF IInv, Statuses
  <1>3. tick' = [NoTick EXCEPT !.stage = IF active = {} THEN "queues" ELSE "seeds",
                               !.queues = tick.queues \ {q},
                               !.active = active,
                               !.seeds = active]
    BY DEF LoadQueue
  <1>4. Ticking'
    BY <1>3 DEF Ticking, NoTick
  <1>5. TypeOK'
    <2>1. intervals' \in [Ticket -> 0 .. MaxIntervals]
      <3>1. intervals \in [Ticket -> 0 .. MaxIntervals]  BY DEF IInv, TypeOK
      <3>2. intervals' = [t \in Ticket |->
                            IF t \in active /\ intervals[t] < MaxIntervals
                            THEN intervals[t] + 1 ELSE Reset(gone)[t]]
        BY DEF LoadQueue
      <3>3. Reset(gone) \in [Ticket -> 0 .. MaxIntervals]
        BY <3>1, MatchmakerAssumption DEF Reset
      <3>. QED  BY <3>1, <3>2, <3>3, MatchmakerAssumption
    <2>2. /\ tick' \in TickType
          /\ tick'.seeds \subseteq tick'.active
          /\ UNION tick'.groups \subseteq tick'.active
      <3>1. active \subseteq Ticket  BY DEF IInv, TypeOK
      <3>2. tick.queues \subseteq Queues  BY DEF IInv, TypeOK, TickType
      <3>. HIDE DEF active
      <3>. QED  BY <1>3, <3>1, <3>2 DEF NoTick, Stages, TickType
    <2>3. tick'.active \subseteq pool'
      BY <1>1, <1>3 DEF NoTick, Leave
    <2>. QED  BY <1>2, <2>1, <2>2, <2>3 DEF TypeOK, Books, LoadQueue, IInv
  <1>6. MatchedForGood'
    <2>. SUFFICES ASSUME NEW m \in formed, NEW o \in m.tickets
                  PROVE  status'[o] = "matched"
      BY DEF LoadQueue, MatchedForGood
    <2>1. status[o] = "matched" /\ o \in Ticket
      BY DEF IInv, MatchedForGood, TypeOK
    <2>2. o \notin gone  BY <2>1 DEF IInv, IndexesAgree
    <2>. QED  BY <2>1, <2>2, <1>2
  <1>. QED  BY <1>2, <1>4, <1>5, <1>6 DEF IInv

\* Trying a seed takes a group out of the active tickets, or only the seed; the
\* group satisfies the count constraints of all of its tickets.
LEMMA TrySeedInv == ASSUME IInv, NEW t \in Ticket, TrySeed(t) PROVE IInv'
  <1>. DEFINE taken == UNION tick.groups
              free  == tick.active \ taken
  <1>0. /\ tick \in TickType /\ (tick.hooked \/ UNION tick.groups \subseteq tick.active)
        /\ tick.active \ tick.matched \subseteq pool
        /\ tick.seeds \subseteq tick.active
        /\ Ticking /\ tick.stage = "seeds" /\ t \in tick.active
    BY DEF IInv, TypeOK, TrySeed
  <1>1. CASE t \in taken
    <2>1. tick' = [tick EXCEPT !.seeds = @ \ {t}]  BY <1>1 DEF TrySeed
    <2>2. Ticking'
      BY <1>0, <2>1 DEF TickType, Ticking, GroupSatisfiesAll
    <2>. QED  BY <1>0, <2>1, <2>2, TickOnlyInv DEF TickType, TrySeed
  <1>2. CASE t \notin taken
    <2>1. PICK c \in CandidateLists(t, free) :
            LET g  == Trimmed(c, t)
                ok == CanMatch(t, g) /\ GroupSatisfiesAll(g)
            IN  tick' = [tick EXCEPT !.seeds = @ \ {t},
                                     !.groups = IF ok THEN @ \cup {g} ELSE @]
      BY <1>2 DEF TrySeed
    <2>. DEFINE g  == Trimmed(c, t)
                ok == CanMatch(t, g) /\ GroupSatisfiesAll(g)
    <2>2. g \subseteq tick.active
      BY <1>0, TrimmedWithin
    <2>3. tick' = [tick EXCEPT !.seeds = @ \ {t}, !.groups = IF ok THEN @ \cup {g} ELSE @]
      BY <2>1
    <2>. HIDE DEF g
    <2>4. CASE ok
      <3>1. tick' = [tick EXCEPT !.seeds = @ \ {t}, !.groups = @ \cup {g}]
        BY <2>3, <2>4
      <3>2. GroupSatisfiesAll(g)  BY <2>4
      <3>3. Ticking'
        BY <1>0, <3>1, <3>2 DEF TickType, Ticking, GroupSatisfiesAll
      <3>4. /\ tick' \in TickType
            /\ tick'.seeds \subseteq tick'.active
            /\ tick'.hooked \/ UNION tick'.groups \subseteq tick'.active
            /\ tick'.active \ tick'.matched \subseteq pool
        <4>1. tick.groups \cup {g} \in SUBSET (SUBSET Ticket)
          BY <1>0, <2>2 DEF TickType
        <4>2. tick.hooked \/ UNION (tick.groups \cup {g}) \subseteq tick.active
          BY <1>0, <2>2
        <4>. QED  BY <1>0, <3>1, <4>1, <4>2 DEF TickType
      <3>. QED  BY <3>3, <3>4, TickOnlyInv DEF TrySeed
    <2>5. CASE ~ok
      <3>1. tick' = [tick EXCEPT !.seeds = @ \ {t}]
        BY <1>0, <2>3, <2>5 DEF TickType
      <3>2. Ticking'
        BY <1>0, <3>1 DEF TickType, Ticking, GroupSatisfiesAll
      <3>. QED  BY <1>0, <3>1, <3>2, TickOnlyInv DEF TickType, TrySeed
    <2>. QED  BY <2>4, <2>5
  <1>. QED  BY <1>1, <1>2

\* The override and matched hooks replace the candidate groups or keep them.
LEMMA GroupsInv == ASSUME IInv, Groups PROVE IInv'
  <1>0. /\ tick \in TickType /\ (tick.hooked \/ UNION tick.groups \subseteq tick.active)
        /\ tick.active \ tick.matched \subseteq pool
        /\ tick.seeds \subseteq tick.active
        /\ Ticking
    BY DEF IInv, TypeOK
  <1>1. CASE tick' = [tick EXCEPT !.stage = "groups"]
    <2>1. Ticking'
      BY <1>0, <1>1 DEF TickType, Ticking, GroupSatisfiesAll
    <2>. QED  BY <1>0, <1>1, <2>1, TickOnlyInv DEF TickType, Stages, Groups
  <1>2. ASSUME NEW G \in HookGroups,
               tick' = [tick EXCEPT !.stage = "groups", !.groups = G, !.hooked = TRUE]
        PROVE  IInv'
    <2>1. tick.active \in SUBSET Ticket
      BY <1>0 DEF TickType
    <2>2. G \in SUBSET (SUBSET Ticket)
      BY <2>1, HooksAssumption DEF HookGroups
    <2>3. Ticking'
      BY <1>0, <1>2 DEF TickType, Ticking
    <2>4. /\ tick' \in TickType
          /\ tick'.seeds \subseteq tick'.active
          /\ tick'.hooked
          /\ tick'.active \ tick'.matched \subseteq pool
      BY <1>0, <1>2, <2>2 DEF TickType, Stages
    <2>. QED  BY <2>3, <2>4, TickOnlyInv DEF Groups
  <1>. QED  BY <1>1, <1>2 DEF Groups

\* The tickets of a group leave the pool for good, so that a match made of
\* waiting tickets shares none with any before it; a group of game code may
\* hold tickets that left before, and stays out of the matches recorded.
LEMMA FinalizeInv == ASSUME IInv, NEW g \in tick.groups, Finalize(g) PROVE IInv'
  <1>0. /\ tick \in TickType /\ (tick.hooked \/ UNION tick.groups \subseteq tick.active)
        /\ tick.active \ tick.matched \subseteq pool
        /\ tick.seeds \subseteq tick.active
        /\ Ticking /\ tick.stage = "groups"
    BY DEF IInv, TypeOK, Finalize
  <1>1. CASE g = {} \/ g \cap tick.matched # {}
    <2>1. tick' = [tick EXCEPT !.groups = @ \ {g}]  BY <1>1 DEF Finalize
    <2>2. Ticking'
      BY <1>0, <2>1 DEF TickType, Ticking, GroupSatisfiesAll
    <2>. QED  BY <1>0, <1>1, <2>1, <2>2, TickOnlyInv DEF TickType, Finalize
  <1>2. CASE ~(g = {} \/ g \cap tick.matched # {})
    <2>1. tick' = [tick EXCEPT !.groups = @ \ {g}, !.matched = @ \cup g]
      BY <1>2 DEF Finalize
    <2>2. g \subseteq Ticket
      BY <1>0 DEF TickType
    <2>3. Books /\ Leave(g, "matched")
      BY <1>2 DEF IInv, TypeOK, Books, Finalize
    <2>4. /\ Books' /\ IndexesAgree' /\ Limits'
          /\ \A t \in Ticket : status'[t] = IF t \in g THEN "matched" ELSE status[t]
      BY <2>2, <2>3, LeaveKeeps DEF IInv, Statuses
    <2>5. Ticking'
      BY <1>0, <2>1 DEF TickType, Ticking, GroupSatisfiesAll
    <2>6. formed' \subseteq formed \cup {[tickets |-> g, hooked |-> tick.hooked]}
      BY <1>2 DEF Finalize
    <2>7. TypeOK'
      <3>1. intervals' \in [Ticket -> 0 .. MaxIntervals]
        BY <1>2, MatchmakerAssumption DEF IInv, TypeOK, Finalize, Reset
      <3>2. formed' \subseteq [tickets : SUBSET Ticket, hooked : BOOLEAN]
        <4>1. tick.hooked \in BOOLEAN /\ formed \subseteq [tickets : SUBSET Ticket, hooked : BOOLEAN]
          BY <1>0 DEF IInv, TypeOK, TickType
        <4>. QED  BY <2>2, <2>6, <4>1
      <3>3. /\ tick' \in TickType
            /\ tick'.seeds \subseteq tick'.active
            /\ tick'.hooked \/ UNION tick'.groups \subseteq tick'.active
        BY <1>0, <2>1 DEF TickType
      <3>4. tick'.active \ tick'.matched \subseteq pool'
        BY <1>0, <2>1, <2>3 DEF TickType, Leave
      <3>. QED  BY <2>4, <3>1, <3>2, <3>3, <3>4 DEF TypeOK, Books
    <2>8. MatchedForGood'
      <3>. SUFFICES ASSUME NEW m \in formed', NEW o \in m.tickets
                    PROVE  status'[o] = "matched"
        BY DEF MatchedForGood
      <3>1. CASE m \in formed
        BY <3>1, <2>4 DEF IInv, MatchedForGood, TypeOK
      <3>2. CASE m = [tickets |-> g, hooked |-> tick.hooked]
        BY <3>2, <2>2, <2>4 DEF IInv, TypeOK
      <3>. QED  BY <3>1, <3>2, <2>6
    <2>. QED  BY <2>4, <2>5, <2>7, <2>8 DEF IInv
  <1>. QED  BY <1>1, <1>2

-----------------------------------------------------------------------------
(* The theorems.                                                           *)

\* The invariant is inductive.
THEOREM Invariance == Spec => []IInv
  <1>1. IInv /\ [Next]_vars => IInv'
    <2>. SUFFICES ASSUME IInv, [Next]_vars PROVE IInv'  OBVIOUS
    <2>1. ASSUME NEW t \in Ticket, Submit(t) \/ Cancel(t) \/ GrowOld(t) PROVE IInv'
      BY <2>1, SubmitInv, CancelInv, GrowOldInv DEF Cancel
    <2>2. ASSUME NEW p \in Party, RemovePartyAll(p) PROVE IInv'
      <3>. DEFINE S == {t \in pool : Ask[t].party = p}
      <3>1. S \subseteq pool /\ CancelAll(S)  BY <2>2 DEF RemovePartyAll
      <3>. HIDE DEF S
      <3>. QED  BY <3>1, CancelInv
    <2>3. ASSUME NEW s \in Session, RemoveSessionAll(s) PROVE IInv'
      <3>1. owned[s] \subseteq pool  BY DEF IInv, IndexesAgree
      <3>. QED  BY <2>3, <3>1, CancelInv DEF RemoveSessionAll
    <2>4. ASSUME TickStep PROVE IInv'
      BY <2>4, TickStartInv, LoadQueueInv, TrySeedInv, GroupsInv, FinalizeInv,
         QueueDoneInv, TickEndInv DEF TickStep
    <2>5. CASE UNCHANGED vars
      BY <2>5 DEF vars, IInv, TypeOK, IndexesAgree, Limits, Ticking, MatchedForGood,
                  GroupSatisfiesAll
    <2>. QED  BY <2>1, <2>2, <2>3, <2>4, <2>5 DEF Next, ClientStep
  <1>. QED  BY InitInv, <1>1, PTL DEF Spec

\* The type invariant, for every instance: among others, nothing takes a
\* ticket out of the pool while a Tick has it in hand.
THEOREM TypeCorrect == Spec => []TypeOK
  BY Invariance, PTL DEF IInv

\* The ticket map, the sessions' sets and the status map always agree.
THEOREM IndexesAlwaysAgree == Spec => []IndexesAgree
  BY Invariance, PTL DEF IInv

\* No session ever has more than MaxTickets tickets in the pool.
THEOREM AlwaysWithinTicketLimit == Spec => []WithinTicketLimit
  <1>1. IInv => WithinTicketLimit
    BY DEF IInv, IndexesAgree, Limits, WithinTicketLimit
  <1>. QED  BY <1>1, Invariance, PTL

\* The matchmaker implements the abstract pool: the matches it makes of waiting
\* tickets take each of them once, and are acceptable unless a hook chose; what
\* game code announces of others only takes tickets out of the pool.
THEOREM Implementation == Spec => ImplementsMatchPool
  <1>1. Init => Abstract!Init
    BY DEF Init, Abstract!Init
  <1>2. IInv /\ [Next]_vars => [Abstract!Next]_<<pool, formed>>
    <2>. SUFFICES ASSUME IInv, Next
                  PROVE  Abstract!Next \/ UNCHANGED <<pool, formed>>
      BY DEF vars
    <2>1. ASSUME NEW t \in Ticket, Submit(t) PROVE Abstract!Next
      <3>1. t \notin pool \cup Abstract!Used
        <4>1. \A m \in formed : m.tickets \subseteq Ticket
          BY DEF IInv, TypeOK
        <4>. QED
          BY <2>1, <4>1 DEF Submit, IInv, IndexesAgree, MatchedForGood, Abstract!Used
      <3>. QED  BY <2>1, <3>1 DEF Submit, Abstract!Next, Abstract!Enter
    <2>2. ASSUME NEW S, S # {}, S \subseteq pool, NEW st, Leave(S, st), UNCHANGED formed
          PROVE  Abstract!Next
      BY <2>2 DEF Leave, Abstract!Next, Abstract!Withdraw
    <2>3. ASSUME NEW S, S \subseteq pool, CancelAll(S) PROVE Abstract!Next
      BY <2>2, <2>3 DEF CancelAll
    <2>4. CASE ClientStep
      <3>1. ASSUME NEW t \in Ticket, Cancel(t) PROVE Abstract!Next
        BY <2>3, <3>1 DEF Cancel
      <3>2. ASSUME NEW p \in Party, RemovePartyAll(p) PROVE Abstract!Next
        BY <2>3, <3>2 DEF RemovePartyAll
      <3>3. ASSUME NEW s \in Session, RemoveSessionAll(s) PROVE Abstract!Next
        BY <2>3, <3>3 DEF RemoveSessionAll, IInv, IndexesAgree
      <3>. QED  BY <2>1, <2>4, <3>1, <3>2, <3>3 DEF ClientStep
    <2>5. ASSUME NEW q \in Queue, LoadQueue(q)
          PROVE  Abstract!Next \/ UNCHANGED <<pool, formed>>
      <3>. DEFINE gone == {t \in pool : Ask[t].queue = q} \cap old
      <3>1. gone \subseteq pool /\ Leave(gone, "expired") /\ UNCHANGED formed
        BY <2>5 DEF LoadQueue
      <3>2. CASE gone = {}
        BY <3>1, <3>2 DEF Leave
      <3>3. CASE gone # {}
        BY <3>1, <3>3, <2>2
      <3>. QED  BY <3>2, <3>3
    <2>6. ASSUME NEW g \in tick.groups, Finalize(g)
          PROVE  Abstract!Next \/ UNCHANGED <<pool, formed>>
      <3>1. CASE g = {} \/ g \cap tick.matched # {}
        BY <2>6, <3>1 DEF Finalize
      <3>2. CASE ~(g = {} \/ g \cap tick.matched # {})
        <4>1. g \subseteq Ticket /\ tick.hooked \in BOOLEAN
          BY <3>2 DEF IInv, TypeOK, TickType
        <4>2. tick.hooked \/ Abstract!Acceptable(g)
          <5>1. SUFFICES ASSUME GroupSatisfiesAll(g) PROVE Abstract!Acceptable(g)
            BY DEF IInv, Ticking
          <5>2. \A t \in g : /\ Ask[t].min <= GroupSize(g) /\ GroupSize(g) <= Ask[t].max
                            /\ GroupSize(g) % Ask[t].multiple = 0
            BY <5>1 DEF GroupSatisfiesAll
          <5>3. \A t, o \in g : Ask[t].party = Ask[o].party => t = o \/ Ask[t].party = NoParty
            BY <5>1 DEF GroupSatisfiesAll
          <5>. QED  BY <5>2, <5>3 DEF Abstract!Acceptable
        <4>3. pool' = pool \ g
          BY <2>6, <3>2 DEF Finalize, Leave
        <4>4. CASE g \subseteq pool
          <5>1. formed' = formed \cup {[tickets |-> g, hooked |-> tick.hooked]}
            BY <2>6, <3>2, <4>4 DEF Finalize
          <5>2. Abstract!Form(g, tick.hooked)
            BY <3>2, <4>2, <4>3, <4>4, <5>1 DEF Abstract!Form
          <5>. QED  BY <4>1, <4>4, <5>2 DEF Abstract!Next
        <4>5. CASE ~(g \subseteq pool)
          <5>. DEFINE left == g \cap pool
          <5>1. formed' = formed /\ pool' = pool \ left
            BY <2>6, <3>2, <4>3, <4>5 DEF Finalize
          <5>2. CASE left = {}
            BY <5>1, <5>2
          <5>3. CASE left # {}
            BY <5>1, <5>3 DEF Abstract!Next, Abstract!Withdraw
          <5>. QED  BY <5>2, <5>3
        <4>. QED  BY <4>4, <4>5
      <3>. QED  BY <3>1, <3>2
    <2>7. CASE TickStep
      BY <2>5, <2>6, <2>7 DEF TickStep, TickStart, TrySeed, Groups, QueueDone, TickEnd
    <2>8. CASE \E t \in Ticket : GrowOld(t)
      BY <2>8 DEF GrowOld
    <2>. QED  BY <2>4, <2>7, <2>8 DEF Next
  <1>. QED  BY <1>1, <1>2, Invariance, PTL DEF Spec, ImplementsMatchPool, Abstract!Spec

\* What the abstract pool promises of its matches: a ticket that leaves for one
\* never comes back.
LEMMA PoolMatchesOnce == Abstract!Spec => []Abstract!OneMatchEach
  <1>1. Abstract!Init => Abstract!OneMatchEach
    BY DEF Abstract!Init, Abstract!OneMatchEach
  <1>2. Abstract!OneMatchEach /\ [Abstract!Next]_<<pool, formed>> => Abstract!OneMatchEach'
    <2>. SUFFICES ASSUME Abstract!OneMatchEach, [Abstract!Next]_<<pool, formed>>
                  PROVE  Abstract!OneMatchEach'
      OBVIOUS
    <2>1. ASSUME NEW t \in Ticket, Abstract!Enter(t) PROVE Abstract!OneMatchEach'
      BY <2>1 DEF Abstract!OneMatchEach, Abstract!Enter, Abstract!Used
    <2>2. ASSUME NEW S \in SUBSET pool, Abstract!Withdraw(S) PROVE Abstract!OneMatchEach'
      BY <2>2 DEF Abstract!OneMatchEach, Abstract!Withdraw
    <2>3. ASSUME NEW S \in SUBSET pool, NEW h \in BOOLEAN, Abstract!Form(S, h)
          PROVE  Abstract!OneMatchEach'
      <3>1. PICK new : new = [tickets |-> S, hooked |-> h]
        OBVIOUS
      <3>2. /\ formed' = formed \cup {new} /\ pool' = pool \ S
            /\ new.tickets = S /\ S \subseteq pool
        BY <2>3, <3>1 DEF Abstract!Form
      <3>3. new.hooked \/ Abstract!Acceptable(new.tickets)
        <4>1. new.hooked = h /\ new.tickets = S
          BY <3>1
        <4>. QED  BY <2>3, <4>1, Zenon DEF Abstract!Form
      <3>. QED  BY <3>2, <3>3 DEF Abstract!OneMatchEach
    <2>4. CASE UNCHANGED <<pool, formed>>
      BY <2>4 DEF Abstract!OneMatchEach
    <2>. QED  BY <2>1, <2>2, <2>3, <2>4 DEF Abstract!Next
  <1>. QED  BY <1>1, <1>2, PTL DEF Abstract!Spec

\* A ticket is in one match at most of those made of waiting tickets, and waits no
\* more then, whatever hooks return and however Ticks overlap with cancellations:
\* the matchmaker implements the pool, of which this holds.
THEOREM NoTicketMatchedTwice == Spec => []Abstract!OneMatchEach
  BY Implementation, PoolMatchesOnce, PTL DEF ImplementsMatchPool
=============================================================================
