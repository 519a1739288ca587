------------------------------ MODULE NodeProofs ------------------------------
(* Theorems about the router of a node's matches, about its connection        *)
(* registry and about the status of its sessions, for any number of matches,  *)
(* goroutines, sessions, connections and queued events.                       *)
EXTENDS MatchRouter, SessionStatus, FiniteSetTheorems, SequenceTheorems, TLAPS

-----------------------------------------------------------------------------
(* The limit on matches.  That an entry in the registry keeps to the limit   *)
(* rests on the creations that have passed their last check: they are        *)
(* counted with the matches.                                                 *)

RouterTyped ==
  /\ matches \subseteq Match
  /\ pc = [p \in Proc |-> pc[p]]
  /\ crowd \in Nat

Reserved == Cardinality(matches) + Cardinality(InFlight(pc)) < MaxMatches + crowd

RouterInv == RouterTyped /\ Reserved

\* The creations between their check and their entry are finitely many.
LEMMA InFlightFinite ==
  /\ IsFiniteSet(InFlight(pc)) /\ Cardinality(InFlight(pc)) \in Nat
  /\ IsFiniteSet(InFlight(pc')) /\ Cardinality(InFlight(pc')) \in Nat
<1>1. InFlight(pc) \subseteq Match /\ InFlight(pc') \subseteq Match
  BY DEF InFlight
<1> QED BY <1>1, MatchRouterAssumption, FS_Subset, FS_CardinalityType

\* The registered matches are finitely many.
LEMMA MatchesFinite ==
  ASSUME RouterTyped
  PROVE  IsFiniteSet(matches) /\ Cardinality(matches) \in Nat
BY MatchRouterAssumption, FS_Subset, FS_CardinalityType DEF RouterTyped

\* At first no match is registered, and none is being created.
LEMMA RouterInitInv == RouterInit => RouterInv
<1> SUFFICES ASSUME RouterInit PROVE RouterInv
  OBVIOUS
<1>1. InFlight(pc) = {}
  BY DEF RouterInit, InFlight, Proc
<1>2. Cardinality(matches) = 0 /\ Cardinality(InFlight(pc)) = 0
  BY <1>1, FS_EmptySet DEF RouterInit
<1> QED
  BY <1>2, MatchRouterAssumption DEF RouterInit, RouterInv, RouterTyped, Reserved, Proc

\* A step whose goroutine is not between check and entry, before or after.
LEMMA OutsideCreation ==
  ASSUME RouterInv, NEW p \in Proc, NEW from, NEW to, Step(p, from, to),
         from \notin {"checked", "registering"}, to \notin {"checked", "registering"}
  PROVE  InFlight(pc') = InFlight(pc) /\ pc' = [q \in Proc |-> pc'[q]]
BY DEF RouterInv, RouterTyped, Step, InFlight, Proc

\* Such a step keeps the invariant, if it adds no match.
LEMMA OutsideInv ==
  ASSUME RouterInv, InFlight(pc') = InFlight(pc), pc' = [q \in Proc |-> pc'[q]],
         matches' \subseteq matches, crowd' \in Nat, crowd' >= crowd
  PROVE  RouterInv'
<1>1. Cardinality(matches') <= Cardinality(matches) /\ Cardinality(matches') \in Nat
  BY MatchesFinite, FS_Subset, FS_CardinalityType DEF RouterInv
<1>2. Reserved'
  BY <1>1, InFlightFinite, MatchesFinite, MatchRouterAssumption
     DEF RouterInv, RouterTyped, Reserved
<1> QED BY <1>2 DEF RouterInv, RouterTyped

\* A creation passes its last check below the limit.
LEMMA PassInv ==
  ASSUME RouterInv, NEW m \in Match, NEW from, Step(m, from, "checked"),
         ~Full, matches' = matches,
         crowd' = IF Cardinality(InFlight(pc')) > crowd THEN Cardinality(InFlight(pc')) ELSE crowd
  PROVE  RouterInv'
<1>1. pc' = [q \in Proc |-> pc'[q]]
  BY DEF RouterInv, RouterTyped, Step
<1>2. crowd' \in Nat /\ crowd' >= Cardinality(InFlight(pc'))
  BY InFlightFinite DEF RouterInv, RouterTyped
<1>3. Cardinality(matches) < MaxMatches
  BY MatchesFinite, MatchRouterAssumption DEF Full, RouterInv
<1>4. Reserved'
  BY <1>2, <1>3, InFlightFinite, MatchesFinite, MatchRouterAssumption
     DEF Reserved, RouterInv
<1> QED BY <1>1, <1>2, <1>4 DEF RouterInv, RouterTyped

\* The steps of a creation up to its entry: each check counts anew.
LEMMA CreateInv == ASSUME RouterInv, NEW m \in Match, Create(m) PROVE RouterInv'
<1> DEFINE grown == /\ matches' = matches
                    /\ crowd' = IF Cardinality(InFlight(pc')) > crowd
                                THEN Cardinality(InFlight(pc')) ELSE crowd
<1>0. grown /\ m \in Proc
  BY DEF Create, Proc
<1>1. crowd' \in Nat /\ crowd' >= crowd
  BY <1>0, InFlightFinite DEF RouterInv, RouterTyped
<1>2. ASSUME NEW from, NEW to, Step(m, from, to),
             from \notin {"checked", "registering"}, to \notin {"checked", "registering"}
      PROVE  RouterInv'
  <2>1. InFlight(pc') = InFlight(pc) /\ pc' = [q \in Proc |-> pc'[q]]
    BY <1>0, <1>2, OutsideCreation
  <2> QED BY <1>0, <1>1, <2>1, OutsideInv
<1>3. ASSUME NEW from, Step(m, from, "checked"), ~Full PROVE RouterInv'
  BY <1>0, <1>3, PassInv
<1>4. CASE Step(m, "new", "counting")
  BY <1>2, <1>4
<1>5. CASE CountMatches(m)
  <2>1. CASE ~Full /\ Step(m, "counting", IF m \in GoMatch THEN "made" ELSE "checked")
    <3>1. CASE m \in GoMatch
      <4>1. Step(m, "counting", "made") BY <2>1, <3>1
      <4> QED BY <1>2, <4>1
    <3>2. CASE m \notin GoMatch
      <4>1. Step(m, "counting", "checked") BY <2>1, <3>2
      <4> QED BY <1>3, <2>1, <4>1
    <3> QED BY <3>1, <3>2
  <2>2. CASE Step(m, "counting", "refused")
    BY <1>2, <2>2
  <2> QED BY <1>5, <2>1, <2>2 DEF CountMatches
<1>6. CASE Step(m, "made", "rechecking")
  BY <1>2, <1>6
<1>7. CASE CheckAgain(m)
  <2>1. CASE Full
    <3>1. Step(m, "rechecking", "refused") BY <1>7, <2>1 DEF CheckAgain
    <3> QED BY <1>2, <3>1
  <2>2. CASE ~Full
    <3>1. Step(m, "rechecking", "checked") BY <1>7, <2>2 DEF CheckAgain
    <3> QED BY <1>3, <2>2, <3>1
  <2> QED BY <2>1, <2>2
<1>8. CASE Step(m, "checked", "registering")
  <2>1. InFlight(pc') = InFlight(pc) /\ pc' = [q \in Proc |-> pc'[q]]
    BY <1>0, <1>8 DEF RouterInv, RouterTyped, Step, InFlight, Proc
  <2> QED BY <1>0, <1>1, <2>1, OutsideInv
<1> QED BY <1>4, <1>5, <1>6, <1>7, <1>8 DEF Create

\* An entry turns a creation in flight into a match.
LEMMA RegisterInv == ASSUME RouterInv, NEW m \in Match, Register(m) PROVE RouterInv'
<1>1. /\ pc' = [q \in Proc |-> pc'[q]]
      /\ m \in InFlight(pc)
      /\ InFlight(pc') = InFlight(pc) \ {m}
  BY DEF RouterInv, RouterTyped, Register, Step, InFlight, Proc
<1>2. matches' = matches \cup {m} /\ crowd' = crowd
  BY DEF Register
<1>3. Cardinality(InFlight(pc')) = Cardinality(InFlight(pc)) - 1
  BY <1>1, InFlightFinite, FS_RemoveElement
<1>4. /\ Cardinality(matches') \in Nat
      /\ Cardinality(matches') <= Cardinality(matches) + 1
  <2>1. Cardinality(matches') = IF m \in matches THEN Cardinality(matches)
                                ELSE Cardinality(matches) + 1
    BY <1>2, MatchesFinite, FS_AddElement DEF RouterInv
  <2> QED BY <2>1, MatchesFinite DEF RouterInv
<1>5. Reserved'
  BY <1>2, <1>3, <1>4, InFlightFinite, MatchesFinite, MatchRouterAssumption
     DEF RouterInv, RouterTyped, Reserved
<1> QED BY <1>1, <1>2, <1>5 DEF RouterInv, RouterTyped

\* Every other step is of a goroutine outside a creation.
LEMMA OtherInv ==
  ASSUME RouterInv, NEW p \in Proc, crowd' = crowd, matches' \subseteq matches,
         \E from, to : /\ Step(p, from, to)
                       /\ from \notin {"checked", "registering"}
                       /\ to \notin {"checked", "registering"}
  PROVE  RouterInv'
<1>1. InFlight(pc') = InFlight(pc) /\ pc' = [q \in Proc |-> pc'[q]]
  BY OutsideCreation
<1>2. crowd' \in Nat /\ crowd' >= crowd
  BY DEF RouterInv, RouterTyped
<1> QED BY <1>1, <1>2, OutsideInv

\* The steps of a listing neither enter a match nor begin a creation.
LEMMA ListInv == ASSUME RouterInv, NEW p \in Proc, ListSteps(p) PROVE RouterInv'
<1>1. crowd' = crowd /\ matches' = matches
  BY DEF ListSteps, CallList, LookAt, Looked, EndList
<1>2. Return(p) \in {"tick", "out"}
  BY DEF Return
<1>3. CASE CallList(p) BY <1>1, <1>2, <1>3, OtherInv DEF CallList
<1>4. CASE LookAt(p) BY <1>1, <1>4, OtherInv DEF LookAt
<1>5. CASE Looked(p) BY <1>1, <1>5, OtherInv DEF Looked
<1>6. CASE EndList(p) BY <1>1, <1>2, <1>6, OtherInv DEF EndList
<1> QED BY <1>3, <1>4, <1>5, <1>6 DEF ListSteps

\* Nor do those of a visitor.
LEMMA VisitInv == ASSUME RouterInv, NEW v \in Visitor, Visit(v) PROVE RouterInv'
<1>1. crowd' = crowd /\ matches' = matches /\ v \in Proc
  BY DEF Visit, Proc
<1>2. CASE Step(v, "find", IF visited[v] \in matches THEN "found" ELSE "out")
  <2>1. Step(v, "find", "found") \/ Step(v, "find", "out") BY <1>2
  <2> QED BY <1>1, <2>1, OtherInv
<1>3. CASE \/ Step(v, "out", "find") \/ Step(v, "found", "inside") \/ Step(v, "inside", "out")
  BY <1>1, <1>3, OtherInv
<1> QED BY <1>2, <1>3 DEF Visit

\* Nor do those of a match loop; its end takes a match away.
LEMMA LoopInv ==
  ASSUME RouterInv, NEW m \in Match,
         Tick(m) \/ UpdateLabel(m) \/ EndTick(m) \/ Terminate(m) \/ Unregister(m)
  PROVE  RouterInv'
<1>1. crowd' = crowd /\ matches' \subseteq matches /\ m \in Proc
  BY DEF Tick, UpdateLabel, EndTick, Terminate, Unregister, Proc
<1>2. CASE Tick(m) BY <1>1, <1>2, OtherInv DEF Tick
<1>3. CASE UpdateLabel(m) BY <1>1, <1>3, OtherInv DEF UpdateLabel
<1>4. CASE EndTick(m) BY <1>1, <1>4, OtherInv DEF EndTick
<1>5. CASE Terminate(m) BY <1>1, <1>5, OtherInv DEF Terminate
<1>6. CASE Unregister(m) BY <1>1, <1>6, OtherInv DEF Unregister
<1> QED BY <1>2, <1>3, <1>4, <1>5, <1>6

\* Every step keeps the reservation.
LEMMA RouterNextInv == RouterInv /\ [RouterNext]_routerVars => RouterInv'
<1> SUFFICES ASSUME RouterInv, [RouterNext]_routerVars PROVE RouterInv'
  OBVIOUS
<1>1. ASSUME NEW m \in Match, MatchSteps(m) PROVE RouterInv'
  BY <1>1, CreateInv, RegisterInv, LoopInv DEF MatchSteps
<1>2. ASSUME NEW p \in Match \cup Lister, ListSteps(p) PROVE RouterInv'
  <2>1. p \in Proc BY <1>2 DEF Proc
  <2> QED BY <1>2, <2>1, ListInv
<1>3. ASSUME NEW v \in Visitor, Visit(v) PROVE RouterInv'
  BY <1>3, VisitInv
<1>4. CASE UNCHANGED routerVars
  BY <1>4 DEF RouterInv, RouterTyped, Reserved, InFlight, routerVars
<1> QED BY <1>1, <1>2, <1>3, <1>4 DEF RouterNext

\* The limit on matches (grpc_mesh.go, lua_match.go): no more is registered
\* than the limit and the creations that once overlapped, less one; a single
\* creation at a time keeps to the limit.
THEOREM LimitHolds == RouterSpec => []LimitUpToOverlap
<1>1. RouterInv => LimitUpToOverlap
  BY InFlightFinite, MatchesFinite, MatchRouterAssumption
     DEF RouterInv, RouterTyped, Reserved, LimitUpToOverlap
<1> QED BY <1>1, RouterInitInv, RouterNextInv, PTL DEF RouterSpec

-----------------------------------------------------------------------------
(* The locks of the router and of the loops.  Where a goroutine is tells     *)
(* which locks it has or waits for; a goroutine that went on past the taking *)
(* of a lock has it alone, or reads it.                                      *)

MatchPlaces == {"new", "counting", "made", "rechecking", "checked", "registering", "refused",
                "asleep", "tick", "label", "list", "look", "ending", "terminate",
                "unregister", "removed", "ended"}
OtherPlaces == {"out", "list", "look", "find", "found", "inside"}

\* Where a goroutine reads the router, or waits to.
ReadingRouter == {"counting", "label", "list", "look", "find"}
WritingRouter == {"rechecking", "registering", "unregister"}
\* Where a loop has its own lock, or waits for it; and where it surely has it.
OwnLock == {"tick", "label", "list", "look", "terminate", "unregister", "removed"}
HasOwnLock == OwnLock \ {"tick", "terminate"}

Readers(l) == lock[l].readers \cup lock[l].waiting

Places ==
  /\ pc \in [Proc -> MatchPlaces \cup OtherPlaces]
  /\ \A m \in Match : pc[m] \in MatchPlaces
  /\ \A p \in Proc \ Match : pc[p] \in OtherPlaces
  /\ visited \in [Visitor -> Match]
  /\ matches \subseteq Match

LockState == [readers : SUBSET Proc, waiting : SUBSET Proc,
              writer : Proc \cup {Nobody}, writers : SUBSET Proc]

RWMutex ==
  /\ lock \in [Match \cup {Router} -> LockState]
  /\ \A l \in Match \cup {Router} :
       /\ lock[l].readers \cap lock[l].waiting = {}
       /\ lock[l].writer \notin lock[l].writers
       /\ lock[l].writer = Nobody => lock[l].waiting = {} /\ lock[l].writers = {}

Writers(l) == ({lock[l].writer} \cup lock[l].writers) \ {Nobody}

RouterLocked ==
  /\ \A p \in Readers(Router) : pc[p] \in ReadingRouter
  /\ \A p \in Writers(Router) : p \in Match /\ pc[p] \in WritingRouter
  /\ \A p \in Proc : pc[p] = "look" => p \in lock[Router].readers

OwnLocked(m) ==
  /\ lock[m].writers = {}
  /\ lock[m].writer = IF pc[m] \in OwnLock THEN m ELSE Nobody
  /\ pc[m] \in HasOwnLock => lock[m].readers = {}

LoopLocked == \A m \in Match : OwnLocked(m)

LoopRead ==
  \A m \in Match : \A p \in Readers(m) :
    /\ pc[p] = "look" \/ (p \in Visitor /\ pc[p] = "inside" /\ m = visited[p])
    /\ \A n \in Match : p \in Readers(n) => n = m

LockInv == Places /\ RWMutex /\ RouterLocked /\ LoopLocked /\ LoopRead

\* Every circle of waits, of any goroutines, goes through a listing that has
\* the router's lock and waits for a loop's: but for GetLocalMatches, the
\* orders in which the locks are taken never block each other.
OnlyListingsCircle ==
  \A S \in SUBSET Proc : Circle(S) => \E p \in S : pc[p] = "look"

\* What the calls of sync.RWMutex do to who has a lock or waits for it.
LEMMA RLockDoes ==
  ASSUME RWMutex, NEW p \in Proc, NEW l \in Match \cup {Router}, p \notin Readers(l), RLock(p, l)
  PROVE  /\ RWMutex'
         /\ \A k \in (Match \cup {Router}) \ {l} : lock'[k] = lock[k]
         /\ Readers(l)' = Readers(l) \cup {p}
         /\ Writers(l)' = Writers(l)
         /\ lock[l].readers \subseteq lock'[l].readers
         /\ lock'[l].writer = lock[l].writer /\ lock'[l].writers = lock[l].writers
         /\ lock[l].writer # Nobody => lock'[l].readers = lock[l].readers
<1>1. \A k \in (Match \cup {Router}) \ {l} : lock'[k] = lock[k]
  BY DEF RWMutex, LockState, RLock
<1>2. /\ lock' \in [Match \cup {Router} -> LockState]
      /\ lock'[l] = IF lock[l].writer = Nobody
                    THEN [lock[l] EXCEPT !.readers = @ \cup {p}]
                    ELSE [lock[l] EXCEPT !.waiting = @ \cup {p}]
  <2>1. lock[l] \in LockState
    BY DEF RWMutex
  <2>2. CASE lock[l].writer = Nobody
    <3> DEFINE v == [lock[l] EXCEPT !.readers = @ \cup {p}]
    <3>1. v \in LockState
      BY <2>1 DEF LockState
    <3>2. lock' = [lock EXCEPT ![l] = v]
      BY <2>2 DEF RLock
    <3>3. v = IF lock[l].writer = Nobody THEN [lock[l] EXCEPT !.readers = @ \cup {p}]
             ELSE [lock[l] EXCEPT !.waiting = @ \cup {p}]
      BY <2>2
    <3> HIDE DEF v
    <3>4. lock' \in [Match \cup {Router} -> LockState] /\ lock'[l] = v
      BY <3>1, <3>2 DEF RWMutex
    <3> QED BY <3>3, <3>4, Zenon
  <2>3. CASE lock[l].writer # Nobody
    <3> DEFINE v == [lock[l] EXCEPT !.waiting = @ \cup {p}]
    <3>1. v \in LockState
      BY <2>1 DEF LockState
    <3>2. lock' = [lock EXCEPT ![l] = v]
      BY <2>3 DEF RLock
    <3>3. v = IF lock[l].writer = Nobody THEN [lock[l] EXCEPT !.readers = @ \cup {p}]
             ELSE [lock[l] EXCEPT !.waiting = @ \cup {p}]
      BY <2>3
    <3> HIDE DEF v
    <3>4. lock' \in [Match \cup {Router} -> LockState] /\ lock'[l] = v
      BY <3>1, <3>2 DEF RWMutex
    <3> QED BY <3>3, <3>4, Zenon
  <2> QED BY <2>2, <2>3
<1>3. CASE lock[l].writer = Nobody
  <2>1. /\ lock'[l].readers = lock[l].readers \cup {p} /\ lock'[l].waiting = lock[l].waiting
        /\ lock'[l].writer = lock[l].writer /\ lock'[l].writers = lock[l].writers
    BY <1>2, <1>3 DEF RWMutex, LockState
  <2>2. RWMutex'
    BY <1>1, <1>2, <1>3, <2>1 DEF RWMutex, LockState, Readers
  <2> QED BY <1>1, <1>3, <2>1, <2>2 DEF Readers, Writers
<1>4. CASE lock[l].writer # Nobody
  <2>1. /\ lock'[l].readers = lock[l].readers /\ lock'[l].waiting = lock[l].waiting \cup {p}
        /\ lock'[l].writer = lock[l].writer /\ lock'[l].writers = lock[l].writers
    BY <1>2, <1>4 DEF RWMutex, LockState
  <2>2. RWMutex'
    BY <1>1, <1>2, <1>4, <2>1 DEF RWMutex, LockState, Readers
  <2> QED BY <1>1, <1>4, <2>1, <2>2 DEF Readers, Writers
<1> QED BY <1>3, <1>4

\* A reader leaves.
LEMMA RUnlockDoes ==
  ASSUME RWMutex, NEW p \in Proc, NEW l \in Match \cup {Router}, Reads(p, l), RUnlock(p, l)
  PROVE  /\ RWMutex'
         /\ \A k \in (Match \cup {Router}) \ {l} : lock'[k] = lock[k]
         /\ Readers(l)' = Readers(l) \ {p}
         /\ Writers(l)' = Writers(l)
         /\ lock'[l].readers = lock[l].readers \ {p}
         /\ lock'[l].writer = lock[l].writer /\ lock'[l].writers = lock[l].writers
<1>1. /\ \A k \in (Match \cup {Router}) \ {l} : lock'[k] = lock[k]
      /\ lock'[l] = [lock[l] EXCEPT !.readers = @ \ {p}]
      /\ lock' \in [Match \cup {Router} -> LockState]
  <2> DEFINE v == [lock[l] EXCEPT !.readers = @ \ {p}]
  <2>1. v \in LockState
    BY DEF RWMutex, LockState
  <2>2. lock' = [lock EXCEPT ![l] = v]
    BY DEF RUnlock
  <2> HIDE DEF v
  <2>3. /\ \A k \in (Match \cup {Router}) \ {l} : lock'[k] = lock[k]
        /\ lock' \in [Match \cup {Router} -> LockState] /\ lock'[l] = v
    BY <2>1, <2>2 DEF RWMutex
  <2> QED BY <2>3 DEF v
<1>2. /\ lock'[l].readers = lock[l].readers \ {p} /\ lock'[l].waiting = lock[l].waiting
      /\ lock'[l].writer = lock[l].writer /\ lock'[l].writers = lock[l].writers
  BY <1>1 DEF RWMutex, LockState
<1>3. RWMutex'
  BY <1>1, <1>2 DEF RWMutex, LockState
<1> QED BY <1>1, <1>2, <1>3 DEF Readers, Writers, Reads, RWMutex, LockState

\* A writer has the lock, or is announced behind another.
LEMMA LockDoes ==
  ASSUME RWMutex, NEW p \in Proc, NEW l \in Match \cup {Router}, p \notin Writers(l), Lock(p, l)
  PROVE  /\ RWMutex'
         /\ \A k \in (Match \cup {Router}) \ {l} : lock'[k] = lock[k]
         /\ Readers(l)' = Readers(l)
         /\ Writers(l)' = Writers(l) \cup {p}
         /\ lock'[l].readers = lock[l].readers
         /\ lock[l].writer = Nobody => lock'[l].writer = p /\ lock'[l].writers = lock[l].writers
<1>1. /\ \A k \in (Match \cup {Router}) \ {l} : lock'[k] = lock[k]
      /\ lock'[l] = IF lock[l].writer = Nobody
                    THEN [lock[l] EXCEPT !.writer = p]
                    ELSE [lock[l] EXCEPT !.writers = @ \cup {p}]
      /\ lock' \in [Match \cup {Router} -> LockState]
  <2>1. lock[l] \in LockState
    BY DEF RWMutex
  <2>2. CASE lock[l].writer = Nobody
    <3> DEFINE v == [lock[l] EXCEPT !.writer = p]
    <3>1. v \in LockState
      BY <2>1 DEF LockState
    <3>2. lock' = [lock EXCEPT ![l] = v]
      BY <2>2 DEF Lock
    <3>3. v = IF lock[l].writer = Nobody THEN [lock[l] EXCEPT !.writer = p]
             ELSE [lock[l] EXCEPT !.writers = @ \cup {p}]
      BY <2>2
    <3> HIDE DEF v
    <3>4. lock' \in [Match \cup {Router} -> LockState] /\ lock'[l] = v
      BY <3>1, <3>2 DEF RWMutex
    <3>5. \A k \in (Match \cup {Router}) \ {l} : lock'[k] = lock[k]
      BY <3>2 DEF RWMutex
    <3> QED BY <3>3, <3>4, <3>5, Zenon
  <2>3. CASE lock[l].writer # Nobody
    <3> DEFINE v == [lock[l] EXCEPT !.writers = @ \cup {p}]
    <3>1. v \in LockState
      BY <2>1 DEF LockState
    <3>2. lock' = [lock EXCEPT ![l] = v]
      BY <2>3 DEF Lock
    <3>3. v = IF lock[l].writer = Nobody THEN [lock[l] EXCEPT !.writer = p]
             ELSE [lock[l] EXCEPT !.writers = @ \cup {p}]
      BY <2>3
    <3> HIDE DEF v
    <3>4. lock' \in [Match \cup {Router} -> LockState] /\ lock'[l] = v
      BY <3>1, <3>2 DEF RWMutex
    <3>5. \A k \in (Match \cup {Router}) \ {l} : lock'[k] = lock[k]
      BY <3>2 DEF RWMutex
    <3> QED BY <3>3, <3>4, <3>5, Zenon
  <2> QED BY <2>2, <2>3
<1>2. p # Nobody
  BY MatchRouterAssumption DEF MatchRouterAssumption, Proc
<1>3. /\ lock'[l].readers = lock[l].readers /\ lock'[l].waiting = lock[l].waiting
      /\ lock'[l].writer = IF lock[l].writer = Nobody THEN p ELSE lock[l].writer
      /\ lock'[l].writers = IF lock[l].writer = Nobody THEN lock[l].writers
                            ELSE lock[l].writers \cup {p}
  BY <1>1 DEF RWMutex, LockState
<1>4. p \notin lock[l].writers /\ p # lock[l].writer
  BY <1>2 DEF Writers
<1>5. RWMutex'
  BY <1>1, <1>2, <1>3, <1>4 DEF RWMutex, LockState
<1> QED BY <1>1, <1>2, <1>3, <1>5 DEF Readers, Writers, RWMutex, LockState

\* The readers that waited come in, and one of the writers announced is next.
LEMMA UnlockDoes ==
  ASSUME RWMutex, NEW p \in Proc, NEW l \in Match \cup {Router}, Writes(p, l), Unlock(l)
  PROVE  /\ RWMutex'
         /\ \A k \in (Match \cup {Router}) \ {l} : lock'[k] = lock[k]
         /\ Readers(l)' = Readers(l)
         /\ Writers(l)' \subseteq Writers(l) \ {p}
         /\ lock[l].readers \subseteq lock'[l].readers
         /\ lock[l].writers = {} => lock'[l].writer = Nobody /\ lock'[l].writers = {}
<1>1. PICK w \in IF lock[l].writers = {} THEN {Nobody} ELSE lock[l].writers :
        lock' = [lock EXCEPT ![l] = [readers |-> @.waiting, waiting |-> {},
                                     writer |-> w, writers |-> @.writers \ {w}]]
  BY DEF Unlock
<1>2. w \in Proc \cup {Nobody}
  BY <1>1 DEF RWMutex, LockState
<1>3. /\ \A k \in (Match \cup {Router}) \ {l} : lock'[k] = lock[k]
      /\ lock'[l] = [readers |-> lock[l].waiting, waiting |-> {},
                     writer |-> w, writers |-> lock[l].writers \ {w}]
      /\ lock' \in [Match \cup {Router} -> LockState]
  BY <1>1, <1>2 DEF RWMutex, LockState
<1>4. /\ lock'[l].readers = lock[l].waiting /\ lock'[l].waiting = {}
      /\ lock'[l].writer = w /\ lock'[l].writers = lock[l].writers \ {w}
  BY <1>3
<1>5. /\ lock[l].readers = {} /\ lock[l].writer = p /\ p \notin lock[l].writers
  BY DEF Writes, RWMutex, LockState
<1>6. w = Nobody => lock[l].writers = {}
  <2>1. Nobody \notin lock[l].writers
    BY MatchRouterAssumption DEF MatchRouterAssumption, Proc, RWMutex, LockState
  <2> QED BY <1>1, <2>1
<1>7. RWMutex'
  BY <1>3, <1>4, <1>6 DEF RWMutex, LockState
<1>8. Readers(l)' = Readers(l) /\ Writers(l)' \subseteq Writers(l) \ {p}
  BY <1>1, <1>4, <1>5 DEF Readers, Writers
<1> QED BY <1>1, <1>3, <1>4, <1>5, <1>7, <1>8

\* What happens at the router's lock when p moves on from a place to another.
AtRouter(p, from, to) ==
  /\ RWMutex'
  /\ \A m \in Match : lock'[m] = lock[m]
  /\ Readers(Router)' \subseteq Readers(Router) \cup {p}
  /\ p \in Readers(Router)' => to \in ReadingRouter
  /\ Writers(Router)' \subseteq Writers(Router) \cup {p}
  /\ p \in Writers(Router)' => p \in Match /\ to \in WritingRouter
  /\ lock[Router].readers \ {p} \subseteq lock'[Router].readers

\* The goroutine p takes or leaves the router's lock, and no other.
LEMMA RouterMove ==
  ASSUME LockInv, NEW p \in Proc, NEW from, NEW to, Step(p, from, to), AtRouter(p, from, to),
         UNCHANGED visited, from \notin {"look", "inside"}, to # "look",
         p \in Match => /\ from \in OwnLock <=> to \in OwnLock
                        /\ to \in HasOwnLock => lock[p].readers = {}
  PROVE  RouterLocked' /\ LoopLocked' /\ LoopRead'
<1>1. pc[p] = from /\ pc'[p] = to /\ \A q \in Proc \ {p} : pc'[q] = pc[q]
  BY DEF LockInv, Places, Step
<1>2. RouterLocked'
  <2>1. ASSUME NEW q \in Readers(Router)' PROVE pc'[q] \in ReadingRouter
    <3>1. q \in Proc
      BY <2>1 DEF AtRouter, RWMutex, LockState, Readers
    <3> QED BY <1>1, <2>1, <3>1 DEF AtRouter, LockInv, RouterLocked
  <2>2. ASSUME NEW q \in Writers(Router)' PROVE q \in Match /\ pc'[q] \in WritingRouter
    <3>1. q \in Proc
      BY <2>2 DEF AtRouter, RWMutex, LockState, Writers
    <3> QED BY <1>1, <2>2, <3>1 DEF AtRouter, LockInv, RouterLocked
  <2>3. ASSUME NEW q \in Proc, pc'[q] = "look" PROVE q \in lock'[Router].readers
    BY <1>1, <2>3 DEF AtRouter, LockInv, RouterLocked
  <2> QED BY <2>1, <2>2, <2>3 DEF RouterLocked
<1>3. ASSUME NEW m \in Match PROVE OwnLocked(m)'
  <2>1. lock'[m] = lock[m] /\ OwnLocked(m) /\ m \in Proc
    BY DEF AtRouter, LockInv, LoopLocked, Proc
  <2>2. CASE m = p
    BY <1>1, <2>1, <2>2 DEF OwnLocked
  <2>3. CASE m # p
    BY <1>1, <2>1, <2>3 DEF OwnLocked
  <2> QED BY <2>2, <2>3
<1>4. LoopRead'
  <2>1. \A m \in Match : Readers(m)' = Readers(m) /\ Readers(m) \subseteq Proc
    BY DEF AtRouter, Readers, LockInv, RWMutex, LockState
  <2>2. \A m \in Match : p \notin Readers(m)
    BY <1>1 DEF LockInv, LoopRead
  <2> QED BY <1>1, <2>1, <2>2 DEF LockInv, LoopRead
<1> QED BY <1>2, <1>3, <1>4 DEF LoopLocked

\* What happens at the lock of the loop n when p moves on.
AtLoop(n, p, from, to) ==
  /\ RWMutex'
  /\ \A k \in (Match \cup {Router}) \ {n} : lock'[k] = lock[k]
  /\ Readers(n)' \subseteq Readers(n) \cup {p}
  /\ p \in Readers(n)' => to = "look" \/ (p \in Visitor /\ to = "inside" /\ n = visited[p])
  /\ \A m \in Match \ {n} : p \notin Readers(m)

\* The goroutine p takes or leaves the lock of the loop n, and no other.
LEMMA LoopMove ==
  ASSUME LockInv, NEW n \in Match, NEW p \in Proc, NEW from, NEW to, Step(p, from, to),
         AtLoop(n, p, from, to), UNCHANGED visited, OwnLocked(n)',
         from \in ReadingRouter <=> to \in ReadingRouter,
         from \notin WritingRouter, to = "look" => p \in lock[Router].readers,
         p \in Match \ {n} => /\ from \in OwnLock <=> to \in OwnLock
                              /\ to \in HasOwnLock => from \in HasOwnLock
  PROVE  RouterLocked' /\ LoopLocked' /\ LoopRead'
<1>1. pc[p] = from /\ pc'[p] = to /\ \A q \in Proc \ {p} : pc'[q] = pc[q]
  BY DEF LockInv, Places, Step
<1>2. RouterLocked'
  <2>1. /\ lock'[Router] = lock[Router]
        /\ Readers(Router)' = Readers(Router) /\ Writers(Router)' = Writers(Router)
        /\ Readers(Router) \subseteq Proc /\ Writers(Router) \subseteq Proc
    BY MatchRouterAssumption
    DEF MatchRouterAssumption, AtLoop, Readers, Writers, LockInv, RWMutex, LockState
  <2>2. ASSUME NEW q \in Readers(Router) PROVE pc'[q] \in ReadingRouter
    BY <1>1, <2>1, <2>2 DEF LockInv, RouterLocked
  <2>3. ASSUME NEW q \in Writers(Router) PROVE q \in Match /\ pc'[q] \in WritingRouter
    BY <1>1, <2>1, <2>3 DEF LockInv, RouterLocked
  <2>4. ASSUME NEW q \in Proc, pc'[q] = "look" PROVE q \in lock'[Router].readers
    BY <1>1, <2>1, <2>4 DEF LockInv, RouterLocked
  <2> QED BY <2>1, <2>2, <2>3, <2>4 DEF RouterLocked
<1>3. ASSUME NEW m \in Match \ {n} PROVE OwnLocked(m)'
  <2>1. lock'[m] = lock[m] /\ OwnLocked(m) /\ m \in Proc
    BY DEF AtLoop, LockInv, LoopLocked, Proc
  <2>2. CASE m = p
    BY <1>1, <2>1, <2>2 DEF OwnLocked
  <2>3. CASE m # p
    BY <1>1, <2>1, <2>3 DEF OwnLocked
  <2> QED BY <2>2, <2>3
<1>4. LoopRead'
  <2>1. \A m \in Match \ {n} : Readers(m)' = Readers(m)
    BY DEF AtLoop, Readers
  <2>2. \A m \in Match : Readers(m) \subseteq Proc
    BY DEF Readers, LockInv, RWMutex, LockState
  <2>3. ASSUME NEW m \in Match, NEW q \in Readers(m)', q # p
        PROVE  /\ pc'[q] = "look" \/ (q \in Visitor /\ pc'[q] = "inside" /\ m = visited'[q])
               /\ \A k \in Match : q \in Readers(k)' => k = m
    <3>1. \A k \in Match : q \in Readers(k)' => q \in Readers(k)
      BY <2>1, <2>3 DEF AtLoop
    <3>2. q \in Readers(m) /\ pc'[q] = pc[q]
      BY <1>1, <2>2, <2>3, <3>1
    <3> QED BY <3>1, <3>2 DEF LockInv, LoopRead
  <2>4. ASSUME NEW m \in Match, p \in Readers(m)'
        PROVE  /\ pc'[p] = "look" \/ (p \in Visitor /\ pc'[p] = "inside" /\ m = visited'[p])
               /\ \A k \in Match : p \in Readers(k)' => k = m
    BY <1>1, <2>1, <2>4 DEF AtLoop
  <2> QED BY <2>3, <2>4 DEF LoopRead
<1> QED BY <1>2, <1>3, <1>4 DEF LoopLocked

\* A goroutine stays in its part of the code: a loop's or a caller's.
LEMMA PlacesMove ==
  ASSUME Places, NEW p \in Proc, NEW from, NEW to, Step(p, from, to), UNCHANGED visited,
         matches' \subseteq Match,
         p \in Match => to \in MatchPlaces, p \notin Match => to \in OtherPlaces
  PROVE  Places'
<1>1. pc' = [pc EXCEPT ![p] = to] /\ pc'[p] = to /\ \A q \in Proc \ {p} : pc'[q] = pc[q]
  BY DEF Places, Step
<1>2. \A m \in Match : m \in Proc
  BY DEF Proc
<1> QED BY <1>1, <1>2 DEF Places

\* The four ways to go on at the router's lock.
LEMMA ReadRouter ==
  ASSUME LockInv, NEW p \in Proc, NEW from, NEW to, Step(p, from, to), RLock(p, Router),
         from \notin ReadingRouter, from \notin WritingRouter, to \in ReadingRouter
  PROVE  AtRouter(p, from, to)
<1>1. RWMutex /\ p \notin Readers(Router) /\ p \notin Writers(Router)
  BY DEF LockInv, RouterLocked, Step
<1> QED BY <1>1, RLockDoes, MatchRouterAssumption DEF MatchRouterAssumption, AtRouter

\* A reader of the router leaves it.
LEMMA LeaveRouter ==
  ASSUME LockInv, NEW p \in Proc, NEW from, NEW to, Step(p, from, to), RUnlock(p, Router),
         Reads(p, Router), from \notin WritingRouter
  PROVE  AtRouter(p, from, to)
<1>1. RWMutex /\ p \notin Writers(Router)
  BY DEF LockInv, RouterLocked, Step
<1> QED BY <1>1, RUnlockDoes, MatchRouterAssumption DEF MatchRouterAssumption, AtRouter

\* A loop, or the call that creates it, writes the router or waits to.
LEMMA AwaitRouter ==
  ASSUME LockInv, NEW p \in Match, NEW from, NEW to, Step(p, from, to), Lock(p, Router),
         from \notin ReadingRouter, from \notin WritingRouter, to \in WritingRouter
  PROVE  AtRouter(p, from, to)
<1>1. RWMutex /\ p \notin Readers(Router) /\ p \notin Writers(Router) /\ p \in Proc
  BY DEF LockInv, RouterLocked, Step, Proc
<1> QED BY <1>1, LockDoes, MatchRouterAssumption DEF MatchRouterAssumption, AtRouter

\* The writer of the router leaves it.
LEMMA FreeRouter ==
  ASSUME LockInv, NEW p \in Proc, NEW from, NEW to, Step(p, from, to), Unlock(Router),
         Writes(p, Router), from \notin ReadingRouter
  PROVE  AtRouter(p, from, to)
<1>1. RWMutex /\ p \notin Readers(Router)
  BY DEF LockInv, RouterLocked, Step
<1> QED BY <1>1, UnlockDoes, MatchRouterAssumption DEF MatchRouterAssumption, AtRouter

\* The creation of a match takes the router three times at most.
LEMMA CreateLocks == ASSUME LockInv, NEW m \in Match, Create(m) PROVE LockInv'
<1> DEFINE Goes(from, to) == /\ Step(m, from, to) /\ AtRouter(m, from, to)
                             /\ from \in MatchPlaces \ (OwnLock \cup {"inside"})
                             /\ to \in MatchPlaces \ OwnLock
<1>1. m \in Proc /\ matches' = matches /\ visited' = visited
  BY DEF Proc, Create
<1>2. \E from, to \in MatchPlaces : Goes(from, to)
  <2>1. CASE Step(m, "new", "counting") /\ RLock(m, Router)
    BY <1>1, <2>1, ReadRouter DEF ReadingRouter, WritingRouter, MatchPlaces, OwnLock
  <2>2. CASE CountMatches(m)
    <3>1. \E to \in {"made", "checked", "refused"} : Step(m, "counting", to)
      BY <2>2 DEF CountMatches
    <3>2. Reads(m, Router) /\ RUnlock(m, Router)
      BY <2>2 DEF CountMatches
    <3> QED BY <1>1, <3>1, <3>2, LeaveRouter DEF WritingRouter, MatchPlaces, OwnLock
  <2>3. CASE Step(m, "made", "rechecking") /\ Lock(m, Router)
    BY <1>1, <2>3, AwaitRouter DEF ReadingRouter, WritingRouter, MatchPlaces, OwnLock
  <2>4. CASE CheckAgain(m)
    <3>1. \E to \in {"checked", "refused"} : Step(m, "rechecking", to)
      BY <2>4 DEF CheckAgain
    <3>2. Writes(m, Router) /\ Unlock(Router)
      BY <2>4 DEF CheckAgain
    <3> QED BY <1>1, <3>1, <3>2, FreeRouter DEF ReadingRouter, MatchPlaces, OwnLock
  <2>5. CASE Step(m, "checked", "registering") /\ Lock(m, Router)
    BY <1>1, <2>5, AwaitRouter DEF ReadingRouter, WritingRouter, MatchPlaces, OwnLock
  <2> QED BY <2>1, <2>2, <2>3, <2>4, <2>5 DEF Create
<1>3. PICK from \in MatchPlaces, to \in MatchPlaces : Goes(from, to)
  BY <1>2
<1>4. /\ from \notin {"look", "inside"} /\ to # "look"
      /\ from \notin OwnLock /\ to \notin OwnLock /\ to \notin HasOwnLock
  BY <1>3 DEF OwnLock, HasOwnLock
<1>5. RouterLocked' /\ LoopLocked' /\ LoopRead'
  BY <1>1, <1>3, <1>4, RouterMove
<1>6. Places'
  BY <1>1, <1>3, PlacesMove DEF LockInv, Places
<1>7. RWMutex'
  BY <1>3 DEF AtRouter
<1> QED BY <1>5, <1>6, <1>7 DEF LockInv

\* Register leaves the router as a writer.
LEMMA RegisterLocks == ASSUME LockInv, NEW m \in Match, Register(m) PROVE LockInv'
<1>1. /\ m \in Proc /\ matches' = matches \cup {m} /\ visited' = visited
      /\ Step(m, "registering", "asleep") /\ Unlock(Router) /\ Writes(m, Router)
  BY DEF Proc, Register
<1>2. AtRouter(m, "registering", "asleep")
  BY <1>1, FreeRouter DEF ReadingRouter
<1>3. RouterLocked' /\ LoopLocked' /\ LoopRead'
  BY <1>1, <1>2, RouterMove DEF OwnLock, HasOwnLock
<1>4. Places'
  BY <1>1, PlacesMove DEF LockInv, Places, MatchPlaces
<1> QED BY <1>2, <1>3, <1>4 DEF LockInv, AtRouter

\* Unregister leaves the router, with the lock of the loop still held.
LEMMA UnregisterLocks == ASSUME LockInv, NEW m \in Match, Unregister(m) PROVE LockInv'
<1>1. /\ m \in Proc /\ matches' = matches \ {m} /\ visited' = visited
      /\ Step(m, "unregister", "removed") /\ Unlock(Router) /\ Writes(m, Router)
  BY DEF Proc, Unregister
<1>2. AtRouter(m, "unregister", "removed")
  BY <1>1, FreeRouter DEF ReadingRouter
<1>3. lock[m].readers = {}
  BY <1>1 DEF LockInv, LoopLocked, OwnLocked, HasOwnLock, OwnLock, Step
<1>4. RouterLocked' /\ LoopLocked' /\ LoopRead'
  BY <1>1, <1>2, <1>3, RouterMove DEF OwnLock
<1>5. Places'
  BY <1>1, PlacesMove DEF LockInv, Places, MatchPlaces
<1> QED BY <1>2, <1>4, <1>5 DEF LockInv, AtRouter

\* A label update reads the router under the lock of the loop.
LEMMA UpdateLabelLocks == ASSUME LockInv, NEW m \in Match, UpdateLabel(m) PROVE LockInv'
<1>1. m \in Proc /\ matches' = matches /\ visited' = visited
  BY DEF Proc, UpdateLabel
<1>2. CASE Step(m, "tick", "label") /\ Writes(m, m) /\ RLock(m, Router)
  <2>1. AtRouter(m, "tick", "label")
    BY <1>1, <1>2, ReadRouter DEF ReadingRouter, WritingRouter
  <2>2. RouterLocked' /\ LoopLocked' /\ LoopRead'
    BY <1>1, <1>2, <2>1, RouterMove DEF OwnLock, Writes
  <2>3. Places'
    BY <1>1, <1>2, PlacesMove DEF LockInv, Places, MatchPlaces
  <2> QED BY <2>1, <2>2, <2>3 DEF LockInv, AtRouter
<1>3. CASE Step(m, "label", "tick") /\ Reads(m, Router) /\ RUnlock(m, Router)
  <2>1. AtRouter(m, "label", "tick")
    BY <1>1, <1>3, LeaveRouter DEF WritingRouter
  <2>2. RouterLocked' /\ LoopLocked' /\ LoopRead'
    BY <1>1, <1>3, <2>1, RouterMove DEF OwnLock, HasOwnLock
  <2>3. Places'
    BY <1>1, <1>3, PlacesMove DEF LockInv, Places, MatchPlaces
  <2> QED BY <2>1, <2>2, <2>3 DEF LockInv, AtRouter
<1> QED BY <1>2, <1>3 DEF UpdateLabel

\* A loop takes its own lock, or waits for it: nobody else writes it.
LEMMA TakeLoop ==
  ASSUME LockInv, NEW m \in Match, NEW from, NEW to, Step(m, from, to), Lock(m, m),
         from \in {"asleep", "ending"}, to \in {"tick", "terminate"}
  PROVE  AtLoop(m, m, from, to) /\ OwnLocked(m)'
<1>1. m \in Proc /\ pc[m] = from /\ pc'[m] = to
  BY DEF Proc, LockInv, Places, Step
<1>2. OwnLocked(m) /\ lock[m].writer = Nobody /\ lock[m].writers = {} /\ m \notin Writers(m)
  BY <1>1, MatchRouterAssumption
  DEF MatchRouterAssumption, LockInv, LoopLocked, OwnLocked, OwnLock, Writers
<1>3. \A k \in Match : m \notin Readers(k)
  BY <1>1 DEF LockInv, LoopRead
<1>4. /\ RWMutex' /\ Readers(m)' = Readers(m)
      /\ \A k \in (Match \cup {Router}) \ {m} : lock'[k] = lock[k]
      /\ lock'[m].writer = m /\ lock'[m].writers = {}
  BY <1>1, <1>2, LockDoes DEF LockInv
<1>5. AtLoop(m, m, from, to)
  BY <1>3, <1>4 DEF AtLoop
<1> QED BY <1>1, <1>4, <1>5 DEF OwnLocked, OwnLock, HasOwnLock

\* A loop releases its own lock: the readers come in.
LEMMA FreeLoop ==
  ASSUME LockInv, NEW m \in Match, NEW from, NEW to, Step(m, from, to), Unlock(m), Writes(m, m),
         from \in {"tick", "removed"}, to \in {"asleep", "ending", "ended"}
  PROVE  AtLoop(m, m, from, to) /\ OwnLocked(m)'
<1>1. m \in Proc /\ pc[m] = from /\ pc'[m] = to
  BY DEF Proc, LockInv, Places, Step
<1>2. lock[m].writers = {}
  BY DEF LockInv, LoopLocked, OwnLocked
<1>3. \A k \in Match : m \notin Readers(k)
  BY <1>1 DEF LockInv, LoopRead
<1>4. /\ RWMutex' /\ Readers(m)' = Readers(m)
      /\ \A k \in (Match \cup {Router}) \ {m} : lock'[k] = lock[k]
      /\ lock'[m].writer = Nobody /\ lock'[m].writers = {}
  BY <1>1, <1>2, UnlockDoes DEF LockInv
<1>5. AtLoop(m, m, from, to)
  BY <1>3, <1>4 DEF AtLoop
<1> QED BY <1>1, <1>4, <1>5 DEF OwnLocked, OwnLock, HasOwnLock

\* A tick begins with the lock of its loop.
LEMMA TickLocks == ASSUME LockInv, NEW m \in Match, Tick(m) PROVE LockInv'
<1>1. /\ m \in Proc /\ matches' = matches /\ visited' = visited
      /\ Step(m, "asleep", "tick") /\ Lock(m, m)
  BY DEF Proc, Tick
<1>2. AtLoop(m, m, "asleep", "tick") /\ OwnLocked(m)'
  BY <1>1, TakeLoop
<1>3. RouterLocked' /\ LoopLocked' /\ LoopRead'
  BY <1>1, <1>2, LoopMove DEF ReadingRouter, WritingRouter
<1>4. Places'
  BY <1>1, PlacesMove DEF LockInv, Places, MatchPlaces
<1> QED BY <1>2, <1>3, <1>4 DEF LockInv, AtLoop

\* A tick ends without it.
LEMMA EndTickLocks == ASSUME LockInv, NEW m \in Match, EndTick(m) PROVE LockInv'
<1>1. PICK to \in {"asleep", "ending"} : Step(m, "tick", to)
  BY DEF EndTick
<1>2. /\ m \in Proc /\ matches' = matches /\ visited' = visited
      /\ Unlock(m) /\ Writes(m, m)
  BY DEF Proc, EndTick
<1>3. AtLoop(m, m, "tick", to) /\ OwnLocked(m)'
  BY <1>1, <1>2, FreeLoop
<1>4. RouterLocked' /\ LoopLocked' /\ LoopRead'
  BY <1>1, <1>2, <1>3, LoopMove DEF ReadingRouter, WritingRouter
<1>5. Places'
  BY <1>1, <1>2, PlacesMove DEF LockInv, Places, MatchPlaces
<1> QED BY <1>3, <1>4, <1>5 DEF LockInv, AtLoop

\* terminate has the lock of the loop until the match is unregistered.
LEMMA TerminateLocks == ASSUME LockInv, NEW m \in Match, Terminate(m) PROVE LockInv'
<1>1. m \in Proc /\ matches' = matches /\ visited' = visited
  BY DEF Proc, Terminate
<1>2. CASE Step(m, "ending", "terminate") /\ Lock(m, m)
  <2>1. AtLoop(m, m, "ending", "terminate") /\ OwnLocked(m)'
    BY <1>2, TakeLoop
  <2>2. RouterLocked' /\ LoopLocked' /\ LoopRead'
    BY <1>1, <1>2, <2>1, LoopMove DEF ReadingRouter, WritingRouter
  <2>3. Places'
    BY <1>1, <1>2, PlacesMove DEF LockInv, Places, MatchPlaces
  <2> QED BY <2>1, <2>2, <2>3 DEF LockInv, AtLoop
<1>3. CASE Step(m, "terminate", "unregister") /\ Writes(m, m) /\ Lock(m, Router)
  <2>1. AtRouter(m, "terminate", "unregister")
    BY <1>3, AwaitRouter DEF ReadingRouter, WritingRouter
  <2>2. RouterLocked' /\ LoopLocked' /\ LoopRead'
    BY <1>1, <1>3, <2>1, RouterMove DEF OwnLock, Writes
  <2>3. Places'
    BY <1>1, <1>3, PlacesMove DEF LockInv, Places, MatchPlaces
  <2> QED BY <2>1, <2>2, <2>3 DEF LockInv, AtRouter
<1>4. CASE Step(m, "removed", "ended") /\ Unlock(m)
  <2>1. Writes(m, m)
    BY <1>4 DEF LockInv, LoopLocked, OwnLocked, Step, OwnLock, HasOwnLock, Writes
  <2>2. AtLoop(m, m, "removed", "ended") /\ OwnLocked(m)'
    BY <1>4, <2>1, FreeLoop
  <2>3. RouterLocked' /\ LoopLocked' /\ LoopRead'
    BY <1>1, <1>4, <2>2, LoopMove DEF ReadingRouter, WritingRouter
  <2>4. Places'
    BY <1>1, <1>4, PlacesMove DEF LockInv, Places, MatchPlaces
  <2> QED BY <2>2, <2>3, <2>4 DEF LockInv, AtLoop
<1> QED BY <1>2, <1>3, <1>4 DEF Terminate

\* A listing has the read lock of the router from its call to its end.
LEMMA ListLocks == ASSUME LockInv, NEW p \in Proc, ListSteps(p) PROVE LockInv'
<1>1. Places /\ RWMutex /\ Return(p) = IF p \in Match THEN "tick" ELSE "out"
  BY DEF LockInv, Return
<1>2. CASE CallList(p)
  <2>1. /\ Step(p, Return(p), "list") /\ RLock(p, Router)
        /\ matches' = matches /\ visited' = visited
        /\ p \in Match => lock[p].readers = {}
    BY <1>2 DEF CallList, Writes
  <2>2. AtRouter(p, Return(p), "list")
    BY <1>1, <2>1, ReadRouter DEF ReadingRouter, WritingRouter
  <2>3. RouterLocked' /\ LoopLocked' /\ LoopRead'
    BY <1>1, <2>1, <2>2, RouterMove DEF OwnLock
  <2>4. Places'
    BY <1>1, <2>1, PlacesMove DEF Places, MatchPlaces, OtherPlaces
  <2> QED BY <2>2, <2>3, <2>4 DEF LockInv, AtRouter
<1>3. CASE LookAt(p)
  <2>1. PICK m \in matches \ seen[p] : RLock(p, m)
    BY <1>3 DEF LookAt
  <2>2. /\ Step(p, "list", "look") /\ p \in lock[Router].readers /\ m \in Match
        /\ matches' = matches /\ visited' = visited
    BY <1>1, <1>3, <2>1 DEF LookAt, Reads, Places
  <2>3. \A k \in Match : p \notin Readers(k)
    BY <2>2 DEF LockInv, LoopRead, Step
  <2>4. /\ RWMutex' /\ Readers(m)' = Readers(m) \cup {p}
        /\ \A k \in (Match \cup {Router}) \ {m} : lock'[k] = lock[k]
        /\ lock'[m].writer = lock[m].writer /\ lock'[m].writers = lock[m].writers
        /\ lock[m].writer # Nobody => lock'[m].readers = lock[m].readers
    BY <1>1, <2>1, <2>2, <2>3, RLockDoes
  <2>5. AtLoop(m, p, "list", "look")
    BY <2>2, <2>3, <2>4 DEF AtLoop
  <2>6. OwnLocked(m)'
    <3>1. OwnLocked(m) /\ m # Nobody
      BY <2>2, MatchRouterAssumption DEF MatchRouterAssumption, LockInv, LoopLocked
    <3>2. /\ pc[m] \in OwnLock <=> pc'[m] \in OwnLock
          /\ pc[m] \in HasOwnLock <=> pc'[m] \in HasOwnLock
      BY <1>1, <2>2 DEF Step, Places, OwnLock, HasOwnLock
    <3>3. pc[m] \in HasOwnLock => pc[m] \in OwnLock
      BY DEF HasOwnLock
    <3> QED BY <2>4, <3>1, <3>2, <3>3 DEF OwnLocked
  <2>7. RouterLocked' /\ LoopLocked' /\ LoopRead'
    BY <2>2, <2>5, <2>6, LoopMove DEF ReadingRouter, WritingRouter, OwnLock, HasOwnLock
  <2>8. Places'
    BY <1>1, <2>2, PlacesMove DEF Places, MatchPlaces, OtherPlaces
  <2> QED BY <2>4, <2>7, <2>8 DEF LockInv
<1>4. CASE Looked(p)
  <2>1. PICK m \in matches : Reads(p, m) /\ RUnlock(p, m)
    BY <1>4 DEF Looked
  <2>2. /\ Step(p, "look", "list") /\ m \in Match
        /\ matches' = matches /\ visited' = visited
    BY <1>1, <1>4 DEF Looked, Places
  <2>3. \A k \in Match \ {m} : p \notin Readers(k)
    BY <2>1, <2>2 DEF LockInv, LoopRead, Readers, Reads
  <2>4. /\ RWMutex' /\ Readers(m)' = Readers(m) \ {p}
        /\ \A k \in (Match \cup {Router}) \ {m} : lock'[k] = lock[k]
        /\ lock'[m].writer = lock[m].writer /\ lock'[m].writers = lock[m].writers
        /\ lock'[m].readers = lock[m].readers \ {p}
    BY <1>1, <2>1, <2>2, RUnlockDoes
  <2>5. AtLoop(m, p, "look", "list")
    BY <2>3, <2>4 DEF AtLoop
  <2>6. OwnLocked(m)'
    <3>1. OwnLocked(m)
      BY <2>2 DEF LockInv, LoopLocked
    <3>2. /\ pc[m] \in OwnLock <=> pc'[m] \in OwnLock
          /\ pc[m] \in HasOwnLock <=> pc'[m] \in HasOwnLock
      BY <1>1, <2>2 DEF Step, Places, OwnLock, HasOwnLock
    <3> QED BY <2>4, <3>1, <3>2 DEF OwnLocked
  <2>7. RouterLocked' /\ LoopLocked' /\ LoopRead'
    BY <2>2, <2>5, <2>6, LoopMove DEF ReadingRouter, WritingRouter, OwnLock, HasOwnLock
  <2>8. Places'
    BY <1>1, <2>2, PlacesMove DEF Places, MatchPlaces, OtherPlaces
  <2> QED BY <2>4, <2>7, <2>8 DEF LockInv
<1>5. CASE EndList(p)
  <2>1. /\ Step(p, "list", Return(p)) /\ RUnlock(p, Router) /\ Reads(p, Router)
        /\ matches' = matches /\ visited' = visited
    BY <1>5 DEF EndList
  <2>2. AtRouter(p, "list", Return(p))
    BY <2>1, LeaveRouter DEF WritingRouter
  <2>3. RouterLocked' /\ LoopLocked' /\ LoopRead'
    BY <1>1, <2>1, <2>2, RouterMove DEF OwnLock, HasOwnLock
  <2>4. Places'
    BY <1>1, <2>1, PlacesMove DEF Places, MatchPlaces, OtherPlaces
  <2> QED BY <2>2, <2>3, <2>4 DEF LockInv, AtRouter
<1> QED BY <1>2, <1>3, <1>4, <1>5 DEF ListSteps

\* A visitor has one lock at a time.
LEMMA VisitLocks == ASSUME LockInv, NEW v \in Visitor, Visit(v) PROVE LockInv'
<1>1. /\ v \in Proc /\ matches' = matches /\ visited' = visited /\ visited[v] \in Match
      /\ Places /\ RWMutex
  BY DEF Proc, Visit, LockInv, Places
<1>2. pc[v] \in {"out", "find", "found", "inside"}
  BY DEF Visit, Step
<1>3. v \notin Match
  BY <1>1, <1>2 DEF Places, MatchPlaces
<1>4. CASE Step(v, "out", "find") /\ RLock(v, Router)
  <2>1. AtRouter(v, "out", "find")
    BY <1>1, <1>4, ReadRouter DEF ReadingRouter, WritingRouter
  <2>2. RouterLocked' /\ LoopLocked' /\ LoopRead'
    BY <1>1, <1>3, <1>4, <2>1, RouterMove
  <2>3. Places'
    BY <1>1, <1>3, <1>4, PlacesMove DEF Places, OtherPlaces
  <2> QED BY <2>1, <2>2, <2>3 DEF LockInv, AtRouter
<1>5. CASE /\ Step(v, "find", IF visited[v] \in matches THEN "found" ELSE "out")
           /\ Reads(v, Router) /\ RUnlock(v, Router)
  <2>1. PICK to \in {"found", "out"} : Step(v, "find", to)
    BY <1>5
  <2>2. AtRouter(v, "find", to)
    BY <1>1, <1>5, <2>1, LeaveRouter DEF WritingRouter
  <2>3. RouterLocked' /\ LoopLocked' /\ LoopRead'
    BY <1>1, <1>3, <2>1, <2>2, RouterMove
  <2>4. Places'
    BY <1>1, <1>3, <2>1, PlacesMove DEF Places, OtherPlaces
  <2> QED BY <2>2, <2>3, <2>4 DEF LockInv, AtRouter
<1>6. CASE Step(v, "found", "inside") /\ RLock(v, visited[v])
  <2>1. PICK n \in Match : n = visited[v]
    BY <1>1
  <2>2. \A k \in Match : v \notin Readers(k)
    BY <1>6 DEF LockInv, LoopRead, Step
  <2>3. /\ RWMutex' /\ Readers(n)' = Readers(n) \cup {v}
        /\ \A k \in (Match \cup {Router}) \ {n} : lock'[k] = lock[k]
        /\ lock'[n].writer = lock[n].writer /\ lock'[n].writers = lock[n].writers
        /\ lock[n].writer # Nobody => lock'[n].readers = lock[n].readers
    BY <1>1, <1>6, <2>1, <2>2, RLockDoes
  <2>4. AtLoop(n, v, "found", "inside")
    BY <2>1, <2>2, <2>3 DEF AtLoop
  <2>5. OwnLocked(n)'
    <3>1. OwnLocked(n) /\ n # Nobody /\ n # v /\ n \in Proc
      BY <1>3, MatchRouterAssumption
      DEF MatchRouterAssumption, LockInv, LoopLocked, Proc
    <3>2. pc'[n] = pc[n]
      BY <1>1, <1>6, <3>1 DEF Step, Places
    <3>3. pc[n] \in HasOwnLock => pc[n] \in OwnLock
      BY DEF HasOwnLock
    <3> QED BY <2>3, <3>1, <3>2, <3>3 DEF OwnLocked
  <2>6. RouterLocked' /\ LoopLocked' /\ LoopRead'
    BY <1>1, <1>3, <1>6, <2>4, <2>5, LoopMove DEF ReadingRouter, WritingRouter
  <2>7. Places'
    BY <1>1, <1>3, <1>6, PlacesMove DEF Places, OtherPlaces
  <2> QED BY <2>3, <2>6, <2>7 DEF LockInv
<1>7. CASE /\ Step(v, "inside", "out")
           /\ Reads(v, visited[v]) /\ RUnlock(v, visited[v])
  <2>1. PICK n \in Match : n = visited[v]
    BY <1>1
  <2>2. \A k \in Match \ {n} : v \notin Readers(k)
    BY <1>7, <2>1 DEF LockInv, LoopRead, Readers, Reads
  <2>3. /\ RWMutex' /\ Readers(n)' = Readers(n) \ {v}
        /\ \A k \in (Match \cup {Router}) \ {n} : lock'[k] = lock[k]
        /\ lock'[n].writer = lock[n].writer /\ lock'[n].writers = lock[n].writers
        /\ lock'[n].readers = lock[n].readers \ {v}
    BY <1>1, <1>7, <2>1, RUnlockDoes
  <2>4. AtLoop(n, v, "inside", "out")
    BY <2>2, <2>3 DEF AtLoop
  <2>5. OwnLocked(n)'
    <3>1. OwnLocked(n) /\ n # v /\ n \in Proc
      BY <1>3 DEF LockInv, LoopLocked, Proc
    <3>2. pc'[n] = pc[n]
      BY <1>1, <1>7, <3>1 DEF Step, Places
    <3> QED BY <2>3, <3>1, <3>2 DEF OwnLocked
  <2>6. RouterLocked' /\ LoopLocked' /\ LoopRead'
    BY <1>1, <1>3, <1>7, <2>4, <2>5, LoopMove DEF ReadingRouter, WritingRouter
  <2>7. Places'
    BY <1>1, <1>3, <1>7, PlacesMove DEF Places, OtherPlaces
  <2> QED BY <2>3, <2>6, <2>7 DEF LockInv
<1> QED BY <1>4, <1>5, <1>6, <1>7 DEF Visit

\* At first nobody has a lock or waits for one.
LEMMA LockInit == RouterInit => LockInv
<1> SUFFICES ASSUME RouterInit PROVE LockInv
  OBVIOUS
<1>1. lock = [l \in Match \cup {Router} |-> Free]
  BY DEF RouterInit
<1>2. \A l \in Match \cup {Router} :
        /\ lock[l].readers = {} /\ lock[l].waiting = {}
        /\ lock[l].writer = Nobody /\ lock[l].writers = {}
  BY <1>1 DEF Free
<1>3. RWMutex
  <2>1. Free \in LockState
    BY DEF Free, LockState
  <2> QED BY <1>1, <1>2, <2>1 DEF RWMutex
<1>4. Places
  BY DEF RouterInit, Places, MatchPlaces, OtherPlaces, Proc
<1>5. \A p \in Proc : pc[p] \in {"new", "out"}
  BY DEF RouterInit
<1>6. RouterLocked
  BY <1>2, <1>5 DEF RouterLocked, Readers, Writers
<1>7. LoopLocked
  <2>1. \A m \in Match : pc[m] \notin OwnLock /\ pc[m] \notin HasOwnLock
    BY <1>5 DEF Proc, OwnLock, HasOwnLock
  <2> QED BY <1>2, <2>1 DEF LoopLocked, OwnLocked
<1>8. LoopRead
  BY <1>2 DEF LoopRead, Readers
<1> QED BY <1>3, <1>4, <1>6, <1>7, <1>8 DEF LockInv

\* Every step of the router keeps the locks in order.
LEMMA LockNext == LockInv /\ [RouterNext]_routerVars => LockInv'
<1> SUFFICES ASSUME LockInv, [RouterNext]_routerVars PROVE LockInv'
  OBVIOUS
<1>1. ASSUME NEW m \in Match, MatchSteps(m) PROVE LockInv'
  BY <1>1, CreateLocks, RegisterLocks, TickLocks, UpdateLabelLocks, EndTickLocks,
     TerminateLocks, UnregisterLocks DEF MatchSteps
<1>2. ASSUME NEW p \in Proc, ListSteps(p) PROVE LockInv'
  BY <1>2, ListLocks
<1>3. ASSUME NEW v \in Visitor, Visit(v) PROVE LockInv'
  BY <1>3, VisitLocks
<1>4. CASE UNCHANGED routerVars
  BY <1>4 DEF routerVars, LockInv, Places, RWMutex, RouterLocked, LoopLocked, OwnLocked,
              LoopRead, Readers, Writers
<1> QED BY <1>1, <1>2, <1>3, <1>4 DEF RouterNext, Proc

\* Which goroutines read, or have announced a writer of, each lock.
THEOREM LocksFollowPlaces == RouterSpec => []LockInv
BY LockInit, LockNext, PTL DEF RouterSpec

\* A goroutine inside the lock of a loop, or that reads the router and does not
\* list, goes on: it waits at no other lock.
LEMMA InsideGoesOn ==
  ASSUME LockInv, NEW p \in Proc, pc[p] # "look",
         \/ p \in lock[Router].readers
         \/ \E m \in Match : p \in lock[m].readers
  PROVE  \A l \in Match \cup {Router} : InTheWay(p, l) = {}
<1>1. p # Nobody
  BY MatchRouterAssumption DEF MatchRouterAssumption, Proc
<1>2. CASE p \in lock[Router].readers
  <2>1. pc[p] \in {"counting", "label", "list", "find"}
    BY <1>2 DEF LockInv, RouterLocked, Readers, ReadingRouter
  <2>2. InTheWay(p, Router) = {}
    <3>1. p \notin lock[Router].waiting
      BY <1>2 DEF LockInv, RWMutex
    <3>2. p \notin Writers(Router)
      BY <2>1 DEF LockInv, RouterLocked, WritingRouter
    <3> QED BY <1>1, <3>1, <3>2 DEF InTheWay, Writers
  <2>3. ASSUME NEW m \in Match PROVE InTheWay(p, m) = {}
    <3>1. p \notin lock[m].waiting /\ p \notin lock[m].writers
      BY <2>1 DEF LockInv, LoopRead, LoopLocked, OwnLocked, Readers
    <3>2. lock[m].writer = p => lock[m].readers = {}
      BY <1>1, <2>1 DEF LockInv, LoopLocked, OwnLocked, OwnLock, HasOwnLock
    <3> QED BY <3>1, <3>2 DEF InTheWay
  <2> QED BY <2>2, <2>3
<1>3. CASE \E m \in Match : p \in lock[m].readers
  <2>1. PICK m \in Match : p \in lock[m].readers
    BY <1>3
  <2>2. p \in Visitor /\ pc[p] = "inside"
    BY <2>1 DEF LockInv, LoopRead, Readers
  <2>3. InTheWay(p, Router) = {}
    BY <1>1, <2>2 DEF LockInv, RouterLocked, Readers, Writers, ReadingRouter, WritingRouter,
                      InTheWay
  <2>4. p \notin Match
    BY <2>2 DEF LockInv, Places, MatchPlaces
  <2>5. ASSUME NEW k \in Match PROVE InTheWay(p, k) = {}
    <3>1. p \notin lock[k].waiting
      <4>1. k = m \/ p \notin Readers(k)
        BY <2>1 DEF LockInv, LoopRead, Readers
      <4> QED BY <2>1, <4>1 DEF Readers, LockInv, RWMutex
    <3>2. lock[k].writers = {} /\ lock[k].writer # p
      BY <1>1, <2>4 DEF LockInv, LoopLocked, OwnLocked
    <3> QED BY <3>1, <3>2 DEF InTheWay
  <2> QED BY <2>3, <2>5
<1> QED BY <1>2, <1>3

\* In a circle without a listing, some goroutine writes the router; it waits
\* for none of the circle.
LEMMA CirclesList == LockInv => OnlyListingsCircle
<1> SUFFICES ASSUME LockInv, NEW S \in SUBSET Proc, Circle(S), \A p \in S : pc[p] # "look"
             PROVE  FALSE
  BY DEF OnlyListingsCircle
<1>1. /\ \A p \in S : \E l \in Match \cup {Router} : InTheWay(p, l) \cap S # {}
      /\ S # {} /\ Nobody \notin S
  BY MatchRouterAssumption DEF MatchRouterAssumption, Proc, Circle, LockInv, RWMutex
<1>2. \A p \in S, l \in Match \cup {Router} : p \notin lock[l].readers
  <2>1. SUFFICES ASSUME NEW p \in S, NEW l \in Match \cup {Router}, p \in lock[l].readers
                 PROVE  FALSE
    OBVIOUS
  <2>2. \A k \in Match \cup {Router} : InTheWay(p, k) = {}
    BY <2>1, InsideGoesOn
  <2> QED BY <1>1, <2>2
<1>3. ASSUME NEW p \in S, NEW l \in Match \cup {Router}, InTheWay(p, l) \cap S # {}
      PROVE  /\ lock[l].writer \in S
             /\ p \in lock[l].waiting \/ p \in lock[l].writers
  <2>1. CASE lock[l].writer = p /\ p \notin lock[l].waiting
    BY <1>2, <1>3, <2>1 DEF InTheWay
  <2>2. CASE ~(lock[l].writer = p /\ p \notin lock[l].waiting)
    BY <1>3, <2>2 DEF InTheWay
  <2> QED BY <2>1, <2>2
<1>4. ASSUME NEW m \in S \cap Match, NEW k \in Match PROVE InTheWay(m, k) \cap S = {}
  <2>1. m \notin lock[k].waiting
    <3>1. m \in Readers(k) => pc[m] = "inside"
      BY DEF LockInv, LoopRead
    <3>2. pc[m] # "inside"
      BY DEF LockInv, Places, MatchPlaces
    <3> QED BY <3>1, <3>2 DEF Readers
  <2>2. m \notin lock[k].writers
    BY DEF LockInv, LoopLocked, OwnLocked
  <2> QED BY <1>3, <2>1, <2>2
<1>5. PICK p \in S : InTheWay(p, Router) \cap S # {}
  <2>1. PICK q \in S, l \in Match \cup {Router} : InTheWay(q, l) \cap S # {}
    BY <1>1
  <2>2. CASE l \in Match
    <3>1. l \in S
      BY <1>1, <1>3, <2>1, <2>2 DEF LockInv, LoopLocked, OwnLocked
    <3>2. InTheWay(l, Router) \cap S # {}
      BY <1>1, <1>4, <2>2, <3>1
    <3> QED BY <3>1, <3>2
  <2> QED BY <2>1, <2>2
<1>6. PICK w \in S : w = lock[Router].writer
  BY <1>3, <1>5
<1>7. w \in Match /\ w \notin lock[Router].waiting /\ w \notin lock[Router].writers
  <2>1. w \in Writers(Router)
    BY <1>1, <1>6 DEF Writers
  <2>2. w \in Match /\ pc[w] \notin ReadingRouter
    BY <2>1 DEF LockInv, RouterLocked, WritingRouter, ReadingRouter
  <2> QED BY <1>6, <2>2 DEF LockInv, RouterLocked, RWMutex, Readers
<1>8. InTheWay(w, Router) \cap S # {}
  BY <1>1, <1>4, <1>7
<1> QED BY <1>3, <1>7, <1>8

\* Every circle of waits goes through a listing: without GetLocalMatches, no
\* creations, ticks, ends and visits ever block each other for good.
THEOREM OnlyListingsBlock == RouterSpec => []OnlyListingsCircle
BY LocksFollowPlaces, CirclesList, PTL

-----------------------------------------------------------------------------
(* The connection registry.                                                *)

Begun(c) == at[c] \notin {"new", "gone"}
Live(c) == at[c] \in {"added", "joining", "leaving", "open"}

RegistryTyped ==
  /\ at = [c \in Conn |-> at[c]]
  /\ entry = [s \in SessionID |-> entry[s]]
  /\ \A s \in SessionID : entry[s] # NoConn => entry[s] \in Conn /\ SidOf[entry[s]] = s

\* Connections of one session that have both begun are crossed.
Crossing ==
  \A c, d \in Conn :
    c # d /\ SidOf[c] = SidOf[d] /\ Begun(c) /\ Begun(d) => c \in crossed

SessionInv == RegistryTyped /\ Crossing /\ LiveIsRegistered

\* At first no connection has begun.
LEMMA SessionInitInv == SessionsInit => SessionInv
BY DEF SessionsInit, SessionInv, RegistryTyped, Crossing, Begun, LiveIsRegistered

\* Add enters the connection; if it meets another of its session, both are crossed.
LEMMA AddInv == ASSUME SessionInv, NEW c \in Conn, Add(c) PROVE SessionInv'
<1>1. /\ SidOf[c] \in SessionID /\ c # NoConn
      /\ at' = [at EXCEPT ![c] = "added"]
      /\ entry' = [entry EXCEPT ![SidOf[c]] = c]
      /\ active' = active \cup {c}
      /\ closed' = closed
      /\ crossed' = IF Others(c) = {} THEN crossed ELSE crossed \cup Others(c) \cup {c}
  BY SessionStatusAssumption DEF Add, Go
<1>2. RegistryTyped'
  BY <1>1 DEF SessionInv, RegistryTyped
<1>3. \A d \in Conn \ {c} : SidOf[d] = SidOf[c] /\ Begun(d) => d \in crossed' /\ c \in crossed'
  BY <1>1 DEF Others, Begun
<1>4. crossed \subseteq crossed' /\ \A d \in Conn \ {c} : at'[d] = at[d]
  BY <1>1 DEF SessionInv, RegistryTyped
<1>5. Crossing'
  BY <1>3, <1>4 DEF SessionInv, Crossing, Begun
<1>6. LiveIsRegistered'
  <2> SUFFICES ASSUME NEW d \in Conn, d \notin crossed', d \notin closed', Live(d)'
               PROVE  entry'[SidOf[d]] = d /\ d \in active'
    BY DEF LiveIsRegistered, Live
  <2>1. CASE d = c
    BY <1>1, <2>1 DEF SessionInv, RegistryTyped
  <2>2. CASE d # c
    <3>1. Live(d) /\ Begun(d) BY <1>4, <2>2 DEF Live, Begun
    <3>2. entry[SidOf[d]] = d /\ d \in active
      BY <1>1, <1>4, <3>1 DEF SessionInv, LiveIsRegistered, Live
    <3>3. SidOf[d] # SidOf[c] BY <1>3, <2>2, <3>1
    <3>4. SidOf[d] \in SessionID BY SessionStatusAssumption
    <3> QED BY <1>1, <3>2, <3>3, <3>4 DEF SessionInv, RegistryTyped
  <2> QED BY <2>1, <2>2
<1> QED BY <1>2, <1>5, <1>6 DEF SessionInv

\* A connection goes from place to place, to no live one but from a live one.
LEMMA GoInv ==
  ASSUME SessionInv, NEW c \in Conn, NEW from, NEW to, Go(c, from, to),
         from \notin {"new", "gone"},
         to \in {"added", "joining", "leaving", "open"} =>
           from \in {"added", "joining", "leaving", "open"},
         UNCHANGED <<entry, closed, crossed>>,
         active' = active \/ (active' = active \ {c}
                              /\ to \notin {"added", "joining", "leaving", "open"})
  PROVE  SessionInv'
<1>1. at' = [at EXCEPT ![c] = to] /\ at[c] = from
  BY DEF Go
<1>2. RegistryTyped'
  BY <1>1 DEF SessionInv, RegistryTyped
<1>3. \A d \in Conn : (Begun(d)' => Begun(d)) /\ (Live(d)' => Live(d))
  BY <1>1 DEF SessionInv, RegistryTyped, Begun, Live
<1>4. Crossing'
  BY <1>3 DEF SessionInv, Crossing
<1>5. \A d \in Conn : Live(d)' /\ d \in active => d \in active'
  BY <1>1 DEF SessionInv, RegistryTyped, Live
<1>6. LiveIsRegistered'
  BY <1>3, <1>5 DEF SessionInv, LiveIsRegistered, Live
<1> QED BY <1>2, <1>4, <1>6 DEF SessionInv

\* The steps of a connection between Add and StartGracePeriod.
LEMMA WayInv ==
  ASSUME SessionInv, NEW c \in Conn,
         Attach(c) \/ Announce(c) \/ UpdateStatus(c) \/ HandleDisconnect(c)
           \/ UntrackStatus(c) \/ Farewell(c) \/ Detach(c)
  PROVE  SessionInv'
<1> USE DEF registryVars, eventVars, histories
<1>1. CASE Attach(c)
  <2>1. PICK status \in BOOLEAN : Go(c, "added", IF status THEN "joining" ELSE "open")
    BY <1>1 DEF Attach
  <2>2. Go(c, "added", "joining") \/ Go(c, "added", "open") BY <2>1
  <2> QED BY <1>1, <2>2, GoInv DEF Attach
<1>2. CASE Announce(c) BY <1>2, GoInv DEF Announce
<1>3. CASE UpdateStatus(c) BY <1>3, GoInv DEF UpdateStatus
<1>4. CASE HandleDisconnect(c) BY <1>4, GoInv DEF HandleDisconnect
<1>5. CASE UntrackStatus(c)
  <2>1. Go(c, "closing", "farewell") \/ Go(c, "closing", "detaching")
    BY <1>5 DEF UntrackStatus
  <2> QED BY <1>5, <2>1, GoInv DEF UntrackStatus
<1>6. CASE Farewell(c) BY <1>6, GoInv DEF Farewell
<1>7. CASE Detach(c) BY <1>7, GoInv DEF Detach
<1> QED BY <1>1, <1>2, <1>3, <1>4, <1>5, <1>6, <1>7

\* The object a late StartGracePeriod marks inactive is that of its own
\* connection, which is not live, or of one that it has overlapped.
LEMMA StartGracePeriodInv ==
  ASSUME SessionInv, NEW c \in Conn, StartGracePeriod(c) PROVE SessionInv'
<1>1. /\ at[c] = "parting" /\ at' = [at EXCEPT ![c] = "gone"]
      /\ active' = active \ {entry[SidOf[c]]}
      /\ entry' = entry /\ closed' = closed /\ crossed' = crossed
      /\ SidOf[c] \in SessionID
  BY SessionStatusAssumption DEF StartGracePeriod, Go, eventVars, histories
<1>2. RegistryTyped'
  BY <1>1 DEF SessionInv, RegistryTyped
<1>3. \A d \in Conn : (Begun(d)' => Begun(d)) /\ (Live(d)' => Live(d) /\ d # c)
  BY <1>1 DEF SessionInv, RegistryTyped, Begun, Live
<1>4. Crossing'
  BY <1>1, <1>3 DEF SessionInv, Crossing
<1>5. LiveIsRegistered'
  <2> SUFFICES ASSUME NEW d \in Conn, d \notin crossed, d \notin closed, Live(d)'
               PROVE  entry[SidOf[d]] = d /\ d \in active'
    BY <1>1 DEF LiveIsRegistered, Live
  <2>1. Live(d) /\ d # c BY <1>3
  <2>2. entry[SidOf[d]] = d /\ d \in active
    BY <2>1 DEF SessionInv, LiveIsRegistered, Live
  <2>3. Begun(d) /\ Begun(c) BY <1>1, <2>1 DEF Begun, Live
  <2>4. SidOf[d] # SidOf[c] BY <2>1, <2>3 DEF SessionInv, Crossing
  <2>5. entry[SidOf[c]] # d
    BY <1>1, <2>4, SessionStatusAssumption DEF SessionInv, RegistryTyped
  <2> QED BY <1>1, <2>2, <2>5
<1> QED BY <1>2, <1>4, <1>5 DEF SessionInv

\* The timer function spares a session that has a live connection.
LEMMA RunTimerInv == ASSUME SessionInv, NEW s \in SessionID, RunTimer(s) PROVE SessionInv'
<1>1. at' = at /\ active' = active /\ closed' = closed /\ crossed' = crossed
  BY DEF RunTimer, eventVars, histories
<1>2. entry' = entry \/ (Expired(s) /\ entry' = [entry EXCEPT ![s] = NoConn])
  BY DEF RunTimer
<1>3. RegistryTyped'
  BY <1>1, <1>2 DEF SessionInv, RegistryTyped
<1>4. Crossing'
  BY <1>1 DEF SessionInv, Crossing, Begun
<1>5. LiveIsRegistered'
  <2> SUFFICES ASSUME NEW d \in Conn, d \notin crossed, d \notin closed, Live(d)
               PROVE  entry'[SidOf[d]] = d /\ d \in active
    BY <1>1 DEF LiveIsRegistered, Live
  <2>1. entry[SidOf[d]] = d /\ d \in active
    BY DEF SessionInv, LiveIsRegistered, Live
  <2>2. Expired(s) => SidOf[d] # s BY <2>1 DEF Expired
  <2>3. SidOf[d] \in SessionID BY SessionStatusAssumption
  <2> QED BY <1>2, <2>1, <2>2, <2>3 DEF SessionInv, RegistryTyped
<1> QED BY <1>3, <1>4, <1>5 DEF SessionInv

\* The connection that TrySend marks inactive is among the closed.
LEMMA CloseConnInv == ASSUME SessionInv, NEW c \in Conn, CloseConn(c) PROVE SessionInv'
BY DEF CloseConn, SessionInv, RegistryTyped, Crossing, Begun, LiveIsRegistered

\* Steps that leave connections and registry alone.
LEMMA AsideInv ==
  ASSUME SessionInv, UNCHANGED <<at, entry, active, closed, crossed>> PROVE SessionInv'
BY DEF SessionInv, RegistryTyped, Crossing, Begun, LiveIsRegistered

\* Every step keeps the invariant of the registry.
LEMMA SessionNextInv == SessionInv /\ [SessionsNext]_sessionVars => SessionInv'
<1> SUFFICES ASSUME SessionInv, [SessionsNext]_sessionVars PROVE SessionInv'
  OBVIOUS
<1> USE DEF registryVars, eventVars, histories
<1>1. ASSUME NEW c \in Conn,
             \/ Add(c) \/ Attach(c) \/ Announce(c) \/ UpdateStatus(c)
             \/ CloseConn(c) \/ HandleDisconnect(c)
             \/ UntrackStatus(c) \/ Farewell(c) \/ Detach(c) \/ StartGracePeriod(c)
      PROVE  SessionInv'
  BY <1>1, AddInv, WayInv, CloseConnInv, StartGracePeriodInv
<1>2. ASSUME NEW c \in Conn, NEW u \in UserID, Follow(c, u) PROVE SessionInv'
  BY <1>2, AsideInv DEF Follow
<1>3. ASSUME NEW s \in SessionID, Fire(s) PROVE SessionInv'
  BY <1>3, AsideInv DEF Fire
<1>4. ASSUME NEW s \in SessionID, RunTimer(s) PROVE SessionInv'
  BY <1>4, RunTimerInv
<1>5. CASE SendLate BY <1>5, AsideInv DEF SendLate
<1>6. CASE ApplyOnline BY <1>6, AsideInv DEF ApplyOnline
<1>7. CASE UNCHANGED sessionVars BY <1>7, AsideInv DEF sessionVars
<1> QED BY <1>1, <1>2, <1>3, <1>4, <1>5, <1>6, <1>7 DEF SessionsNext

\* The connection registry (socket.go): the connection of a session that
\* overlapped no other, and that the server did not close, is registered and
\* active; no timer of an earlier connection takes its entry.
THEOREM LiveStaysRegistered == SessionsSpec => []LiveIsRegistered
<1>1. SessionInv => LiveIsRegistered
  BY DEF SessionInv
<1> QED BY <1>1, SessionInitInv, SessionNextInv, PTL DEF SessionsSpec

-----------------------------------------------------------------------------
(* How the status settles.  The last event of a session that is under way -  *)
(* among those that wait for room or else, if none does, in the queue - says *)
(* whether its status is tracked, and so does the cache if none is under way; *)
(* but for the moments between a change of the tracker and its event.        *)

Event == [session : SessionID, join : BOOLEAN]

EventsTyped ==
  /\ eventsCh \in Seq(Event) /\ late \in Seq(Event)
  /\ onlineCache \subseteq SessionID /\ IsFiniteSet(onlineCache)
  /\ streams = [s \in SessionID |-> streams[s]]
  /\ follows = [s \in SessionID |-> follows[s]]

OnlineOf(u) == {s \in onlineCache : UserOf[s] = u}

Counted == count = [u \in UserID |-> Cardinality(OnlineOf(u))]

Clean == SessionID \ {SidOf[c] : c \in crossed}

\* Nothing is attached to a session before Attach and after Detach.
Detached(s) == \A c \in Conn : SidOf[c] = s => at[c] \in {"new", "added", "parting", "gone"}

Attached(s) ==
  /\ \A c \in Conn : SidOf[c] = s =>
       /\ at[c] = "joining" => "status" \in streams[s]
       /\ at[c] \in {"leaving", "farewell", "detaching"} => "status" \notin streams[s]
  /\ Detached(s) => streams[s] = {} /\ follows[s] = {}

\* The tracker and the events of s agree: no event of s is still to be queued.
Announced(s) == \A c \in Conn : SidOf[c] = s => at[c] \notin {"joining", "leaving", "farewell"}

NoneOf(q, s) == \A i \in 1..Len(q) : q[i].session # s

LastSays(q, s, e) ==
  \A i \in 1..Len(q) :
    q[i].session = s /\ (\A k \in (i + 1)..Len(q) : q[k].session # s) => q[i] = e

News(s) == IF "status" \in streams[s] THEN JoinEvent(s) ELSE LeaveEvent(s)

Informed(s) ==
  /\ LastSays(late, s, News(s))
  /\ NoneOf(late, s) => LastSays(eventsCh, s, News(s))
  /\ NoneOf(late, s) /\ NoneOf(eventsCh, s) => (s \in onlineCache <=> "status" \in streams[s])

StatusInv ==
  /\ EventsTyped /\ Counted
  /\ \A s \in Clean : Attached(s) /\ (s \notin overtaken /\ Announced(s) => Informed(s))

\* The events a session queues are events.
LEMMA EventIs == \A s \in SessionID : JoinEvent(s) \in Event /\ LeaveEvent(s) \in Event
BY DEF JoinEvent, LeaveEvent, Event

\* An event comes last.
LEMMA AppendSays ==
  ASSUME NEW q \in Seq(Event), NEW f \in Event, NEW s, NEW e
  PROVE  /\ Append(q, f) \in Seq(Event)
         /\ f.session = s => LastSays(Append(q, f), s, f) /\ ~NoneOf(Append(q, f), s)
         /\ f.session # s /\ LastSays(q, s, e) => LastSays(Append(q, f), s, e)
         /\ f.session # s /\ NoneOf(Append(q, f), s) => NoneOf(q, s)
<1>1. /\ Append(q, f) \in Seq(Event) /\ Len(Append(q, f)) = Len(q) + 1 /\ Len(q) \in Nat
      /\ \A i \in 1..Len(q) : Append(q, f)[i] = q[i]
      /\ Append(q, f)[Len(q) + 1] = f
  OBVIOUS
<1> DEFINE r == Append(q, f)
<1> HIDE DEF r
<1>2. /\ r \in Seq(Event) /\ Len(r) = Len(q) + 1 /\ Len(q) \in Nat
      /\ \A i \in 1..Len(q) : r[i] = q[i]
      /\ r[Len(q) + 1] = f
  BY <1>1 DEF r
<1>3. ASSUME f.session = s PROVE LastSays(r, s, f) /\ ~NoneOf(r, s)
  <2>1. Len(q) + 1 \in 1..Len(r) BY <1>2
  <2>2. ~NoneOf(r, s) BY <1>2, <1>3, <2>1 DEF NoneOf
  <2>3. ASSUME NEW i \in 1..Len(r), \A k \in (i + 1)..Len(r) : r[k].session # s
        PROVE  r[i] = f
    <3>1. ~(i < Len(r)) BY <1>2, <1>3, <2>3
    <3> QED BY <1>2, <3>1
  <2> QED BY <2>2, <2>3 DEF LastSays
<1>4. ASSUME f.session # s, LastSays(q, s, e) PROVE LastSays(r, s, e)
  <2>1. ASSUME NEW i \in 1..Len(r), r[i].session = s, \A k \in (i + 1)..Len(r) : r[k].session # s
        PROVE  r[i] = e
    <3>1. i \in 1..Len(q) BY <1>2, <1>4, <2>1
    <3>2. \A k \in (i + 1)..Len(q) : q[k].session # s BY <1>2, <2>1, <3>1
    <3> QED BY <1>2, <1>4, <2>1, <3>1, <3>2 DEF LastSays
  <2> QED BY <2>1 DEF LastSays
<1>5. ASSUME NoneOf(r, s) PROVE NoneOf(q, s)
  BY <1>2, <1>5 DEF NoneOf
<1> QED BY <1>1, <1>3, <1>4, <1>5 DEF r

\* The first event is taken.
LEMMA TailSays ==
  ASSUME NEW q \in Seq(Event), q # <<>>, NEW s, NEW e
  PROVE  /\ Tail(q) \in Seq(Event) /\ Head(q) \in Event
         /\ LastSays(q, s, e) => LastSays(Tail(q), s, e)
         /\ NoneOf(Tail(q), s) /\ Head(q).session = s /\ LastSays(q, s, e) => Head(q) = e
         /\ NoneOf(Tail(q), s) /\ Head(q).session # s => NoneOf(q, s)
<1>1. /\ Tail(q) \in Seq(Event) /\ Head(q) \in Event /\ Head(q) = q[1]
      /\ Len(q) \in Nat /\ Len(q) > 0 /\ Len(Tail(q)) = Len(q) - 1
      /\ \A i \in 1..(Len(q) - 1) : Tail(q)[i] = q[i + 1]
  OBVIOUS
<1> DEFINE r == Tail(q)
<1> HIDE DEF r
<1>2. /\ Len(q) \in Nat /\ Len(q) > 0 /\ Len(r) = Len(q) - 1
      /\ \A i \in 1..Len(r) : r[i] = q[i + 1]
  BY <1>1 DEF r
<1>3. \A k \in 2..Len(q) : k - 1 \in 1..Len(r) /\ r[k - 1] = q[k]
  BY <1>2
<1>4. ASSUME LastSays(q, s, e) PROVE LastSays(r, s, e)
  <2>1. ASSUME NEW i \in 1..Len(r), r[i].session = s, \A k \in (i + 1)..Len(r) : r[k].session # s
        PROVE  r[i] = e
    <3>1. i + 1 \in 1..Len(q) /\ r[i] = q[i + 1] BY <1>2
    <3>2. ASSUME NEW k \in (i + 1 + 1)..Len(q) PROVE q[k].session # s
      <4>1. k - 1 \in (i + 1)..Len(r) /\ r[k - 1] = q[k] BY <1>2, <1>3, <3>1
      <4> QED BY <2>1, <4>1
    <3> QED BY <1>4, <2>1, <3>1, <3>2 DEF LastSays
  <2> QED BY <2>1 DEF LastSays
<1>5. ASSUME NoneOf(r, s) PROVE \A k \in 2..Len(q) : q[k].session # s
  BY <1>3, <1>5 DEF NoneOf
<1>6. ASSUME NoneOf(r, s), q[1].session = s, LastSays(q, s, e) PROVE q[1] = e
  <2>1. 1 \in 1..Len(q) /\ \A k \in (1 + 1)..Len(q) : q[k].session # s
    BY <1>2, <1>5, <1>6
  <2> QED BY <1>6, <2>1 DEF LastSays
<1>7. ASSUME NoneOf(r, s), q[1].session # s PROVE NoneOf(q, s)
  BY <1>2, <1>5, <1>7 DEF NoneOf
<1> QED BY <1>1, <1>4, <1>6, <1>7 DEF r

\* What RemoveAt leaves, place by place.
LEMMA RemoveAtIs ==
  ASSUME NEW q \in Seq(Event), NEW j \in 1..Len(q)
  PROVE  /\ SeqExt!RemoveAt(q, j) \in Seq(Event)
         /\ Len(SeqExt!RemoveAt(q, j)) = Len(q) - 1
         /\ \A i \in 1..(Len(q) - 1) : SeqExt!RemoveAt(q, j)[i] = q[IF i < j THEN i ELSE i + 1]
<1>1. /\ SubSeq(q, 1, j - 1) \in Seq(Event) /\ Len(SubSeq(q, 1, j - 1)) = j - 1
      /\ \A i \in 1..(j - 1) : SubSeq(q, 1, j - 1)[i] = q[i]
  OBVIOUS
<1>2. /\ SubSeq(q, j + 1, Len(q)) \in Seq(Event) /\ Len(SubSeq(q, j + 1, Len(q))) = Len(q) - j
      /\ \A i \in 1..(Len(q) - j) : SubSeq(q, j + 1, Len(q))[i] = q[i + j]
  OBVIOUS
<1> DEFINE a == SubSeq(q, 1, j - 1)
           b == SubSeq(q, j + 1, Len(q))
<1> HIDE DEF a, b
<1>3. /\ a \in Seq(Event) /\ b \in Seq(Event) /\ Len(a) = j - 1 /\ Len(b) = Len(q) - j
      /\ j \in Nat /\ j > 0 /\ Len(q) \in Nat /\ j <= Len(q)
      /\ \A i \in 1..(j - 1) : a[i] = q[i]
      /\ \A i \in 1..(Len(q) - j) : b[i] = q[i + j]
  BY <1>1, <1>2 DEF a, b
<1>4. /\ a \o b \in Seq(Event) /\ Len(a \o b) = Len(a) + Len(b)
      /\ \A i \in 1..(Len(a) + Len(b)) :
           (a \o b)[i] = IF i <= Len(a) THEN a[i] ELSE b[i - Len(a)]
  <2>1. a \in Seq(Event) /\ b \in Seq(Event) BY <1>3
  <2> QED BY <2>1, ConcatProperties
<1>5. SeqExt!RemoveAt(q, j) = a \o b
  BY DEF SeqExt!RemoveAt, a, b
<1>6. ASSUME NEW i \in 1..(Len(q) - 1)
      PROVE  (a \o b)[i] = q[IF i < j THEN i ELSE i + 1]
  <2>1. CASE i < j BY <1>3, <1>4, <2>1
  <2>2. CASE i >= j
    <3>0. i \in 1..(Len(a) + Len(b)) /\ ~(i <= Len(a)) BY <1>3, <2>2
    <3>1. (a \o b)[i] = b[i - (j - 1)] BY <1>3, <1>4, <3>0
    <3>2. i - (j - 1) \in 1..(Len(q) - j) /\ i - (j - 1) + j = i + 1 BY <1>3, <2>2
    <3> QED BY <1>3, <2>2, <3>1, <3>2
  <2> QED BY <1>3, <2>1, <2>2
<1> QED BY <1>3, <1>4, <1>5, <1>6

\* One that none of its session goes before is taken from among the others.
LEMMA RemoveAtSays ==
  ASSUME NEW q \in Seq(Event), NEW j \in 1..Len(q), NEW s, NEW e,
         q[j].session = s => \A i \in 1..(j - 1) : q[i].session # s,
         LastSays(q, s, e)
  PROVE  /\ LastSays(SeqExt!RemoveAt(q, j), s, e)
         /\ q[j].session = s /\ NoneOf(SeqExt!RemoveAt(q, j), s) => q[j] = e
         /\ q[j].session # s /\ NoneOf(SeqExt!RemoveAt(q, j), s) => NoneOf(q, s)
<1> DEFINE r == SeqExt!RemoveAt(q, j)
<1> HIDE DEF r
<1>1. /\ Len(q) \in Nat /\ j \in Nat /\ 1 <= j /\ j <= Len(q) /\ Len(r) = Len(q) - 1
      /\ \A i \in 1..Len(r) : r[i] = q[IF i < j THEN i ELSE i + 1]
  BY RemoveAtIs DEF r
<1>2. /\ \A k \in 1..(j - 1) : k \in 1..Len(r) /\ r[k] = q[k]
      /\ \A k \in (j + 1)..Len(q) : k - 1 \in 1..Len(r) /\ r[k - 1] = q[k]
  BY <1>1
<1>3. ASSUME NEW i \in 1..Len(r), r[i].session = s, \A k \in (i + 1)..Len(r) : r[k].session # s
      PROVE  r[i] = e
  <2>1. CASE i < j
    <3>1. i \in 1..Len(q) /\ r[i] = q[i] /\ q[j].session # s
      BY <1>1, <1>3, <2>1
    <3>2. ASSUME NEW k \in (i + 1)..Len(q) PROVE q[k].session # s
      <4>1. CASE k < j
        <5>1. k \in (i + 1)..Len(r) /\ r[k] = q[k] BY <1>1, <1>2, <4>1
        <5> QED BY <1>3, <5>1
      <4>2. CASE k > j
        <5>1. k - 1 \in (i + 1)..Len(r) /\ r[k - 1] = q[k] BY <1>1, <1>2, <2>1, <4>2
        <5> QED BY <1>3, <5>1
      <4> QED BY <1>1, <3>1, <4>1, <4>2
    <3> QED BY <1>3, <3>1, <3>2 DEF LastSays
  <2>2. CASE i >= j
    <3>0. i \in 1..Len(r) /\ ~(i < j) BY <1>1, <2>2
    <3>1. i + 1 \in 1..Len(q) /\ r[i] = q[i + 1]
      BY <1>1, <3>0
    <3>2. ASSUME NEW k \in (i + 1 + 1)..Len(q) PROVE q[k].session # s
      <4>1. k - 1 \in (i + 1)..Len(r) /\ r[k - 1] = q[k] BY <1>1, <1>2, <2>2
      <4> QED BY <1>3, <4>1
    <3> QED BY <1>3, <3>1, <3>2 DEF LastSays
  <2> QED BY <1>1, <2>1, <2>2
<1>4. ASSUME q[j].session = s, NoneOf(r, s) PROVE q[j] = e
  <2>1. ASSUME NEW k \in (j + 1)..Len(q) PROVE q[k].session # s
    BY <1>2, <1>4 DEF NoneOf
  <2> QED BY <1>4, <2>1 DEF LastSays
<1>5. ASSUME q[j].session # s, NoneOf(r, s) PROVE NoneOf(q, s)
  <2>1. ASSUME NEW k \in 1..Len(q) PROVE q[k].session # s
    <3>1. k < j \/ k = j \/ k > j BY <1>1
    <3> QED BY <1>1, <1>2, <1>5, <3>1 DEF NoneOf
  <2> QED BY <2>1 DEF NoneOf
<1> QED BY <1>3, <1>4, <1>5 DEF r, LastSays

\* At first nothing is tracked, nobody is online and no event is under way.
LEMMA StatusInitInv == SessionsInit => StatusInv
<1> SUFFICES ASSUME SessionsInit PROVE StatusInv
  OBVIOUS
<1>1. EventsTyped
  BY FS_EmptySet DEF SessionsInit, EventsTyped
<1>2. \A u \in UserID : OnlineOf(u) = {}
  BY DEF SessionsInit, OnlineOf
<1>3. Counted
  BY <1>2, FS_EmptySet DEF SessionsInit, Counted
<1>4. ASSUME NEW s \in SessionID PROVE Attached(s) /\ Informed(s)
  <2>1. Attached(s)
    BY <1>4 DEF SessionsInit, Attached
  <2>2. Informed(s)
    BY <1>4 DEF SessionsInit, Informed, LastSays, NoneOf
  <2> QED BY <2>1, <2>2
<1> QED BY <1>1, <1>3, <1>4 DEF StatusInv, Clean

\* A session that is not crossed has one connection that has begun at most.
LEMMA Alone ==
  ASSUME SessionInv, NEW c \in Conn, Begun(c), SidOf[c] \in Clean
  PROVE  \A d \in Conn : SidOf[d] = SidOf[c] /\ d # c => at[d] \in {"new", "gone"}
BY DEF SessionInv, Crossing, Begun, Clean

\* A session that has been crossed remains so.
LEMMA StaysClean == ASSUME crossed \subseteq crossed' PROVE Clean' \subseteq Clean
BY DEF Clean

\* What says nothing of a session leaves it attached, or informed, as it was.
LEMMA AttachedKept ==
  ASSUME NEW t, Attached(t), streams'[t] = streams[t], follows'[t] = follows[t],
         \A d \in Conn : SidOf[d] = t => at'[d] = at[d]
  PROVE  Attached(t)'
BY DEF Attached, Detached

\* What a session should be told depends on its tracked status alone.
LEMMA NewsKept ==
  ASSUME NEW t, "status" \in streams'[t] <=> "status" \in streams[t]
  PROVE  News(t)' = News(t)
BY DEF News, JoinEvent, LeaveEvent

\* ... and so does whether it has been told, while no event moves.
LEMMA InformedKept ==
  ASSUME NEW t, Informed(t), "status" \in streams'[t] <=> "status" \in streams[t],
         UNCHANGED <<eventsCh, late, onlineCache>>
  PROVE  Informed(t)'
BY NewsKept DEF Informed, LastSays, NoneOf

\* A connection goes on and says nothing yet.
LEMMA WayStatus ==
  ASSUME SessionInv, StatusInv, NEW c \in Conn, NEW from, NEW to, Go(c, from, to),
         NEW A, NEW B,
         streams' = [streams EXCEPT ![SidOf[c]] = A],
         follows' = [follows EXCEPT ![SidOf[c]] = B],
         crossed \subseteq crossed', UNCHANGED eventVars,
         SidOf[c] \in Clean' =>
           /\ \A d \in Conn : SidOf[d] = SidOf[c] /\ d # c => at[d] \in {"new", "gone"}
           /\ to = "joining" => "status" \in A
           /\ to \in {"leaving", "farewell", "detaching"} => "status" \notin A
           /\ to \in {"new", "added", "parting", "gone"} => A = {} /\ B = {}
           /\ to \notin {"joining", "leaving", "farewell"} =>
                /\ from \notin {"joining", "leaving", "farewell"}
                /\ "status" \in A <=> "status" \in streams[SidOf[c]]
  PROVE  StatusInv'
<1> DEFINE s == SidOf[c]
<1>1. /\ s \in SessionID
      /\ at[c] = from /\ at' = [at EXCEPT ![c] = to] /\ at'[c] = to
      /\ \A d \in Conn \ {c} : at'[d] = at[d]
      /\ streams'[s] = A /\ follows'[s] = B
      /\ \A t \in SessionID \ {s} : streams'[t] = streams[t] /\ follows'[t] = follows[t]
      /\ UNCHANGED <<eventsCh, late, onlineCache, count, overtaken>>
  BY SessionStatusAssumption
     DEF SessionInv, RegistryTyped, StatusInv, EventsTyped, Go, eventVars
<1>2. EventsTyped' /\ Counted'
  BY <1>1 DEF StatusInv, EventsTyped, Counted, OnlineOf
<1>3. Clean' \subseteq Clean /\ Clean \subseteq SessionID
  BY StaysClean DEF Clean
<1>4. ASSUME NEW t \in Clean', t # s
      PROVE  Attached(t)' /\ (t \notin overtaken' /\ Announced(t)' => Informed(t)')
  <2>1. /\ t \in Clean /\ t \in SessionID \ {s}
        /\ \A d \in Conn : SidOf[d] = t => at'[d] = at[d]
    BY <1>1, <1>3, <1>4
  <2>2. Attached(t)'
    BY <1>1, <2>1, AttachedKept DEF StatusInv
  <2>3. Announced(t)' => Announced(t)
    BY <2>1 DEF Announced
  <2>4. Informed(t) => Informed(t)'
    BY <1>1, <2>1, InformedKept
  <2> QED BY <1>1, <2>1, <2>2, <2>3, <2>4 DEF StatusInv
<1>5. ASSUME s \in Clean'
      PROVE  Attached(s)' /\ (s \notin overtaken' /\ Announced(s)' => Informed(s)')
  <2>1. \A d \in Conn : SidOf[d] = s /\ d # c => at'[d] \in {"new", "gone"} /\ at'[d] = at[d]
    BY <1>1, <1>5
  <2>2. Attached(s)'
    BY <1>1, <1>5, <2>1 DEF Attached, Detached
  <2>3. Announced(s)' => to \notin {"joining", "leaving", "farewell"}
    BY <1>1 DEF Announced
  <2>4. Announced(s)' => Announced(s)
    BY <1>1, <1>5, <2>1, <2>3 DEF Announced
  <2>5. Announced(s)' /\ Informed(s) => Informed(s)'
    BY <1>1, <1>5, <2>3, InformedKept
  <2> QED BY <1>1, <1>3, <1>5, <2>2, <2>4, <2>5 DEF StatusInv
<1> QED BY <1>2, <1>4, <1>5 DEF StatusInv

\* What no part of the invariant looks at.
LEMMA AsideStatus ==
  ASSUME StatusInv, UNCHANGED <<at, streams, follows, eventVars, crossed>>
  PROVE  StatusInv'
<1>1. UNCHANGED <<at, streams, follows, crossed, eventsCh, late, onlineCache, count, overtaken>>
  BY DEF eventVars
<1>2. EventsTyped' /\ Counted' /\ Clean' = Clean
  BY <1>1 DEF StatusInv, EventsTyped, Counted, OnlineOf, Clean
<1>3. ASSUME NEW t \in Clean
      PROVE  Attached(t)' /\ (t \notin overtaken' /\ Announced(t)' => Informed(t)')
  <2>1. Attached(t)'
    BY <1>1, <1>3, AttachedKept DEF StatusInv
  <2>2. Announced(t)' => Announced(t)
    BY <1>1 DEF Announced
  <2>3. Informed(t) => Informed(t)'
    BY <1>1, InformedKept
  <2> QED BY <1>1, <1>3, <2>1, <2>2, <2>3 DEF StatusInv
<1> QED BY <1>2, <1>3 DEF StatusInv

\* The tables of the tracker, the follows and the connections are functions.
LEMMA SessionTyped ==
  ASSUME SessionInv, StatusInv, NEW c \in Conn
  PROVE  /\ SidOf[c] \in SessionID
         /\ streams = [streams EXCEPT ![SidOf[c]] = streams[SidOf[c]]]
         /\ follows = [follows EXCEPT ![SidOf[c]] = follows[SidOf[c]]]
         /\ at = [at EXCEPT ![c] = at[c]]
BY SessionStatusAssumption DEF SessionInv, RegistryTyped, StatusInv, EventsTyped

\* A connection begins where nothing of its session is attached, or crosses another.
LEMMA AddStatus == ASSUME SessionInv, StatusInv, NEW c \in Conn, Add(c) PROVE StatusInv'
<1> DEFINE s == SidOf[c]
<1>1. /\ Go(c, "new", "added") /\ UNCHANGED <<streams, follows, eventVars>>
      /\ crossed' = IF Others(c) = {} THEN crossed ELSE crossed \cup Others(c) \cup {c}
  BY DEF Add
<1>2. crossed \subseteq crossed' BY <1>1
<1>3. ASSUME s \in Clean'
      PROVE  /\ \A d \in Conn : SidOf[d] = s /\ d # c => at[d] \in {"new", "gone"}
             /\ streams[s] = {} /\ follows[s] = {}
  <2>1. \A d \in Conn : SidOf[d] = s /\ d # c => at[d] \in {"new", "gone"}
    BY <1>1, <1>3 DEF Clean, Others
  <2>2. Detached(s)
    BY <1>1, <2>1 DEF Detached, Go
  <2> QED BY <1>2, <1>3, <2>1, <2>2, StaysClean DEF StatusInv, Attached
<1> QED BY <1>1, <1>2, <1>3, SessionTyped, WayStatus

\* What a step that leaves streams A and follows B owes.
Sound(c, from, to, A, B) ==
  SidOf[c] \in Clean =>
    /\ to = "joining" => "status" \in A
    /\ to \in {"leaving", "farewell", "detaching"} => "status" \notin A
    /\ to \in {"new", "added", "parting", "gone"} => A = {} /\ B = {}
    /\ to \notin {"joining", "leaving", "farewell"} =>
         /\ from \notin {"joining", "leaving", "farewell"}
         /\ "status" \in A <=> "status" \in streams[SidOf[c]]

\* The steps between whose ends a connection has begun.
LEMMA BegunStatus ==
  ASSUME SessionInv, StatusInv, NEW c \in Conn, NEW from, NEW to, Go(c, from, to),
         from \notin {"new", "gone"}, NEW A, NEW B,
         streams' = [streams EXCEPT ![SidOf[c]] = A],
         follows' = [follows EXCEPT ![SidOf[c]] = B],
         crossed' = crossed, UNCHANGED eventVars,
         Sound(c, from, to, A, B)
  PROVE  StatusInv'
<1>1. Begun(c)
  BY DEF Begun, Go
<1>2. crossed \subseteq crossed' /\ Clean' = Clean
  BY DEF Clean
<1>3. SidOf[c] \in Clean =>
        \A d \in Conn : SidOf[d] = SidOf[c] /\ d # c => at[d] \in {"new", "gone"}
  BY <1>1, Alone
<1> QED BY <1>2, <1>3, WayStatus DEF Sound

\* Attach tracks the notifications, and the status if the client asks for it.
LEMMA AttachStatus == ASSUME SessionInv, StatusInv, NEW c \in Conn, Attach(c) PROVE StatusInv'
<1> DEFINE s == SidOf[c]
           B == follows[s] \cup {UserOf[s]}
<1>1. PICK status \in BOOLEAN :
        /\ Go(c, "added", IF status THEN "joining" ELSE "open")
        /\ streams' = [streams EXCEPT ![s] =
                         @ \cup {"notifications"} \cup (IF status THEN {"status"} ELSE {})]
  BY DEF Attach
<1>2. /\ follows' = [follows EXCEPT ![s] = B]
      /\ crossed' = crossed /\ UNCHANGED eventVars
  BY DEF Attach, histories
<1>3. CASE status
  <2> DEFINE A == streams[s] \cup {"notifications"} \cup {"status"}
  <2>1. Go(c, "added", "joining") /\ streams' = [streams EXCEPT ![s] = A]
    BY <1>1, <1>3
  <2>2. Sound(c, "added", "joining", A, B)
    BY DEF Sound
  <2> HIDE DEF A, B
  <2> QED BY <1>2, <2>1, <2>2, BegunStatus
<1>4. CASE ~status
  <2> DEFINE A == streams[s] \cup {"notifications"} \cup {}
  <2>1. Go(c, "added", "open") /\ streams' = [streams EXCEPT ![s] = A]
    BY <1>1, <1>4
  <2>2. Sound(c, "added", "open", A, B)
    BY DEF Sound
  <2> HIDE DEF A, B
  <2> QED BY <1>2, <2>1, <2>2, BegunStatus
<1> QED BY <1>3, <1>4

\* A status message changes the tracker first; its event is still to come.
LEMMA UpdateStatusStatus ==
  ASSUME SessionInv, StatusInv, NEW c \in Conn, UpdateStatus(c) PROVE StatusInv'
<1> DEFINE s == SidOf[c]
           A1 == streams[s] \cup {"status"}
           A2 == streams[s] \ {"status"}
<1>1. /\ crossed' = crossed /\ UNCHANGED eventVars
      /\ follows' = [follows EXCEPT ![s] = follows[s]]
  BY SessionTyped DEF UpdateStatus, histories
<1>2. \/ Go(c, "open", "joining") /\ streams' = [streams EXCEPT ![s] = A1]
      \/ Go(c, "open", "leaving") /\ streams' = [streams EXCEPT ![s] = A2]
  BY DEF UpdateStatus
<1>3. /\ Sound(c, "open", "joining", A1, follows[s])
      /\ Sound(c, "open", "leaving", A2, follows[s])
  BY DEF Sound
<1> HIDE DEF A1, A2
<1> QED BY <1>1, <1>2, <1>3, BegunStatus

\* A follow or an unfollow, while the connection is open.
LEMMA FollowStatus ==
  ASSUME SessionInv, StatusInv, NEW c \in Conn, NEW u \in UserID, Follow(c, u) PROVE StatusInv'
<1> DEFINE s == SidOf[c]
<1>1. /\ crossed' = crossed /\ UNCHANGED eventVars
      /\ Go(c, "open", "open")
      /\ streams' = [streams EXCEPT ![s] = streams[s]]
  BY SessionTyped DEF Follow, Go, histories
<1>2. PICK B : follows' = [follows EXCEPT ![s] = B]
  BY DEF Follow
<1>3. Sound(c, "open", "open", streams[s], B)
  BY DEF Sound
<1> QED BY <1>1, <1>2, <1>3, BegunStatus

\* The end of a connection: first the status, then everything is taken off.
LEMMA EndStatus ==
  ASSUME SessionInv, StatusInv, NEW c \in Conn,
         HandleDisconnect(c) \/ UntrackStatus(c) \/ Detach(c) \/ StartGracePeriod(c)
  PROVE  StatusInv'
<1> DEFINE s == SidOf[c]
<1>0. crossed' = crossed /\ UNCHANGED eventVars
  BY DEF HandleDisconnect, UntrackStatus, Detach, StartGracePeriod, histories
<1>1. CASE HandleDisconnect(c)
  <2>1. Go(c, "open", "closing") /\ UNCHANGED <<streams, follows>>
    BY <1>1 DEF HandleDisconnect
  <2>2. Sound(c, "open", "closing", streams[s], follows[s])
    BY DEF Sound
  <2> QED BY <1>0, <2>1, <2>2, SessionTyped, BegunStatus
<1>2. CASE UntrackStatus(c)
  <2> DEFINE A == streams[s] \ {"status"}
  <2>1. /\ Go(c, "closing", IF "status" \in streams[s] THEN "farewell" ELSE "detaching")
        /\ streams' = [streams EXCEPT ![s] = A]
        /\ follows' = [follows EXCEPT ![s] = follows[s]]
    BY <1>2, SessionTyped DEF UntrackStatus
  <2>2. /\ Sound(c, "closing", "farewell", A, follows[s])
        /\ "status" \notin streams[s] => Sound(c, "closing", "detaching", A, follows[s])
    BY DEF Sound
  <2> HIDE DEF A
  <2>3. CASE "status" \in streams[s]
    <3>1. Go(c, "closing", "farewell") BY <2>1, <2>3
    <3> QED BY <1>0, <2>1, <2>2, <3>1, BegunStatus
  <2>4. CASE "status" \notin streams[s]
    <3>1. Go(c, "closing", "detaching") BY <2>1, <2>4
    <3> QED BY <1>0, <2>1, <2>2, <2>4, <3>1, BegunStatus
  <2> QED BY <2>3, <2>4
<1>3. CASE Detach(c)
  <2>1. /\ Go(c, "detaching", "parting")
        /\ streams' = [streams EXCEPT ![s] = {}]
        /\ follows' = [follows EXCEPT ![s] = {}]
    BY <1>3 DEF Detach
  <2>2. s \in Clean => "status" \notin streams[s]
    BY <2>1 DEF StatusInv, Attached, Go
  <2>3. Sound(c, "detaching", "parting", {}, {})
    BY <2>2 DEF Sound
  <2> QED BY <1>0, <2>1, <2>3, BegunStatus
<1>4. CASE StartGracePeriod(c)
  <2>1. Go(c, "parting", "gone") /\ UNCHANGED <<streams, follows>>
    BY <1>4 DEF StartGracePeriod
  <2>2. s \in Clean => streams[s] = {} /\ follows[s] = {}
    <3>1. Begun(c) BY <2>1 DEF Begun, Go
    <3>2. s \in Clean => Detached(s) BY <2>1, <3>1, Alone DEF Detached, Go
    <3> QED BY <3>2 DEF StatusInv, Attached
  <2>3. Sound(c, "parting", "gone", streams[s], follows[s])
    BY <2>2 DEF Sound
  <2> QED BY <1>0, <2>1, <2>3, SessionTyped, BegunStatus
<1> QED BY <1>1, <1>2, <1>3, <1>4

\* A connection says what has become of the status of its session.
LEMMA QueueStatus ==
  ASSUME SessionInv, StatusInv, NEW c \in Conn, NEW from, NEW to, Go(c, from, to),
         from \in {"joining", "leaving", "farewell"}, to \in {"open", "detaching"},
         to = "detaching" => from = "farewell",
         NEW e, Queue(e), e \in {JoinEvent(SidOf[c]), LeaveEvent(SidOf[c])},
         e = (IF from = "joining" THEN JoinEvent(SidOf[c]) ELSE LeaveEvent(SidOf[c])),
         UNCHANGED <<streams, follows, crossed>>
  PROVE  StatusInv'
<1> DEFINE s == SidOf[c]
<1>1. /\ s \in SessionID /\ e \in Event /\ e.session = s
      /\ at[c] = from /\ at' = [at EXCEPT ![c] = to] /\ at'[c] = to
      /\ \A d \in Conn \ {c} : at'[d] = at[d]
      /\ Begun(c)
  BY SessionStatusAssumption, EventIs
     DEF SessionInv, RegistryTyped, Go, Begun, JoinEvent, LeaveEvent
<1>2. /\ onlineCache' = onlineCache /\ count' = count /\ overtaken \subseteq overtaken'
      /\ \/ /\ eventsCh' = Append(eventsCh, e) /\ late' = late
            /\ s \notin overtaken' => NoneOf(late, s)
         \/ late' = Append(late, e) /\ eventsCh' = eventsCh
  BY <1>1 DEF Queue, NoneOf, StatusInv, EventsTyped
<1>3. eventsCh \in Seq(Event) /\ late \in Seq(Event)
  BY DEF StatusInv, EventsTyped
<1>4. EventsTyped' /\ Counted' /\ Clean' = Clean /\ Clean \subseteq SessionID
  BY <1>1, <1>2, <1>3, AppendSays DEF StatusInv, EventsTyped, Counted, OnlineOf, Clean
<1>5. \A t : News(t)' = News(t)
  BY NewsKept
<1>6. ASSUME NEW t \in Clean, t # s
      PROVE  Attached(t)' /\ (t \notin overtaken' /\ Announced(t)' => Informed(t)')
  <2>1. \A d \in Conn : SidOf[d] = t => at'[d] = at[d]
    BY <1>1, <1>6
  <2>2. Attached(t)'
    BY <1>6, <2>1, AttachedKept DEF StatusInv
  <2>3. Announced(t)' => Announced(t)
    BY <2>1 DEF Announced
  <2>4. ASSUME Informed(t) PROVE Informed(t)'
    <3>1. /\ LastSays(late, t, News(t)) => LastSays(late, t, News(t))'
          /\ LastSays(eventsCh, t, News(t)) => LastSays(eventsCh, t, News(t))'
          /\ NoneOf(late, t)' => NoneOf(late, t)
          /\ NoneOf(eventsCh, t)' => NoneOf(eventsCh, t)
      <4>1. CASE eventsCh' = Append(eventsCh, e) /\ late' = late
        BY <1>1, <1>3, <1>5, <1>6, <4>1, AppendSays DEF LastSays, NoneOf
      <4>2. CASE late' = Append(late, e) /\ eventsCh' = eventsCh
        BY <1>1, <1>3, <1>5, <1>6, <4>2, AppendSays DEF LastSays, NoneOf
      <4> QED BY <1>2, <4>1, <4>2
    <3> QED BY <1>2, <2>4, <3>1 DEF Informed
  <2> QED BY <1>2, <1>6, <2>2, <2>3, <2>4 DEF StatusInv
<1>7. ASSUME s \in Clean PROVE Attached(s)' /\ (s \notin overtaken' => Informed(s)')
  <2>1. \A d \in Conn : SidOf[d] = s /\ d # c => at'[d] \in {"new", "gone"}
    BY <1>1, <1>7, Alone
  <2>2. e = News(s)
    BY <1>1, <1>7 DEF StatusInv, Attached, News
  <2>3. Attached(s)'
    BY <1>1, <1>7, <2>1 DEF StatusInv, Attached, Detached
  <2>4. ASSUME s \notin overtaken' PROVE Informed(s)'
    <3>1. CASE eventsCh' = Append(eventsCh, e) /\ late' = late /\ NoneOf(late, s)
      <4>1. LastSays(eventsCh', s, e) /\ ~NoneOf(eventsCh', s)
        BY <1>1, <1>3, <3>1, AppendSays
      <4>2. LastSays(late', s, e)
        BY <3>1 DEF LastSays, NoneOf
      <4> QED BY <1>5, <2>2, <4>1, <4>2 DEF Informed, LastSays, NoneOf
    <3>2. CASE late' = Append(late, e)
      <4>1. LastSays(late', s, e) /\ ~NoneOf(late', s)
        BY <1>1, <1>3, <3>2, AppendSays
      <4> QED BY <1>5, <2>2, <4>1 DEF Informed, LastSays, NoneOf
    <3> QED BY <1>2, <2>4, <3>1, <3>2
  <2> QED BY <2>3, <2>4
<1> QED BY <1>4, <1>6, <1>7 DEF StatusInv

\* The three places where an event is queued, each saying what the tracker holds.
LEMMA AnnounceStatus ==
  ASSUME SessionInv, StatusInv, NEW c \in Conn, Announce(c) \/ Farewell(c) PROVE StatusInv'
<1>1. UNCHANGED <<streams, follows, crossed>>
  BY DEF Announce, Farewell, histories
<1>2. \/ Go(c, "joining", "open") /\ Queue(JoinEvent(SidOf[c]))
      \/ Go(c, "leaving", "open") /\ Queue(LeaveEvent(SidOf[c]))
      \/ Go(c, "farewell", "detaching") /\ Queue(LeaveEvent(SidOf[c]))
  BY DEF Announce, Farewell
<1> QED BY <1>1, <1>2, QueueStatus

\* The event that finds room is the first of its session to wait, or it has
\* overtaken one.
LEMMA SendLateStatus == ASSUME SessionInv, StatusInv, SendLate PROVE StatusInv'
<1>1. PICK j \in 1..Len(late) :
        /\ eventsCh' = Append(eventsCh, late[j])
        /\ late' = SeqExt!RemoveAt(late, j)
        /\ overtaken' = overtaken \cup ({late[j].session} \cap {late[i].session : i \in 1..(j - 1)})
  BY DEF SendLate, StatusInv, EventsTyped
<1>2. UNCHANGED <<at, streams, follows, onlineCache, count, crossed>>
  BY DEF SendLate, histories
<1>3. /\ eventsCh \in Seq(Event) /\ late \in Seq(Event) /\ late[j] \in Event
  BY DEF StatusInv, EventsTyped
<1>4. eventsCh' \in Seq(Event) /\ late' \in Seq(Event)
  BY <1>1, <1>3, AppendSays, RemoveAtIs
<1>5. EventsTyped' /\ Counted' /\ Clean' = Clean
  BY <1>2, <1>4 DEF StatusInv, EventsTyped, Counted, OnlineOf, Clean
<1>6. \A t : News(t)' = News(t) /\ (Announced(t)' => Announced(t))
  BY <1>2, NewsKept DEF Announced
<1>7. ASSUME NEW t \in Clean PROVE Attached(t)'
  BY <1>2, <1>7, AttachedKept DEF StatusInv
<1>8. ASSUME NEW t \in Clean, t \notin overtaken', Informed(t) PROVE Informed(t)'
  <2> DEFINE e == News(t)
  <2>1. late[j].session = t => \A i \in 1..(j - 1) : late[i].session # t
    BY <1>1, <1>8
  <2>2. LastSays(late, t, e) /\ (NoneOf(late, t) => LastSays(eventsCh, t, e))
    BY <1>8 DEF Informed
  <2>3. /\ LastSays(late', t, e)
        /\ late[j].session = t /\ NoneOf(late', t) => late[j] = e
        /\ late[j].session # t /\ NoneOf(late', t) => NoneOf(late, t)
    BY <1>1, <1>3, <2>1, <2>2, RemoveAtSays
  <2>4. NoneOf(late', t) => LastSays(eventsCh', t, e)
    <3>1. CASE late[j].session = t
      <4>1. LastSays(eventsCh', t, late[j]) BY <1>1, <1>3, <3>1, AppendSays
      <4> QED BY <2>3, <3>1, <4>1
    <3>2. CASE late[j].session # t
      BY <1>1, <1>3, <2>2, <2>3, <3>2, AppendSays
    <3> QED BY <3>1, <3>2
  <2>5. NoneOf(late', t) /\ NoneOf(eventsCh', t) => (t \in onlineCache <=> "status" \in streams[t])
    <3>1. NoneOf(eventsCh', t) => late[j].session # t /\ NoneOf(eventsCh, t)
      BY <1>1, <1>3, AppendSays
    <3> QED BY <1>8, <2>3, <3>1 DEF Informed
  <2> QED BY <1>2, <1>6, <2>3, <2>4, <2>5 DEF Informed, LastSays, NoneOf
<1> QED
  <2>1. overtaken \subseteq overtaken' BY <1>1
  <2> QED BY <1>5, <1>6, <1>7, <1>8, <2>1 DEF StatusInv

\* The index counts what the cache holds.
LEMMA ApplyCounts ==
  ASSUME StatusInv, NEW e \in Event,
         onlineCache' = IF e.join THEN onlineCache \cup {e.session} ELSE onlineCache \ {e.session},
         count' = [count EXCEPT ![UserOf[e.session]] =
                     IF e.join /\ e.session \notin onlineCache THEN @ + 1
                     ELSE IF ~e.join /\ e.session \in onlineCache THEN @ - 1 ELSE @]
  PROVE  onlineCache' \subseteq SessionID /\ IsFiniteSet(onlineCache') /\ Counted'
<1> DEFINE s == e.session
           u == UserOf[s]
<1>1. /\ s \in SessionID /\ u \in UserID /\ onlineCache \subseteq SessionID /\ IsFiniteSet(onlineCache)
      /\ Counted
  BY SessionStatusAssumption DEF Event, StatusInv, EventsTyped
<1>2. onlineCache' \subseteq SessionID /\ IsFiniteSet(onlineCache')
  BY <1>1, FS_AddElement, FS_RemoveElement
<1>3. \A v \in UserID : IsFiniteSet(OnlineOf(v)) /\ Cardinality(OnlineOf(v)) \in Nat
  BY <1>1, FS_Subset, FS_CardinalityType DEF OnlineOf
<1>4. \A v \in UserID : count[v] = Cardinality(OnlineOf(v))
  BY <1>1 DEF Counted
<1>5. \A v \in UserID \ {u} : OnlineOf(v)' = OnlineOf(v)
  BY DEF OnlineOf
<1>6. CASE e.join /\ s \notin onlineCache
  <2>1. OnlineOf(u)' = OnlineOf(u) \cup {s} /\ s \notin OnlineOf(u)
    BY <1>6 DEF OnlineOf
  <2>2. Cardinality(OnlineOf(u)') = Cardinality(OnlineOf(u)) + 1
    BY <1>1, <1>3, <2>1, FS_AddElement
  <2>3. count' = [count EXCEPT ![u] = @ + 1]
    BY <1>6
  <2> QED BY <1>1, <1>2, <1>4, <1>5, <2>2, <2>3 DEF Counted
<1>7. CASE ~e.join /\ s \in onlineCache
  <2>1. OnlineOf(u)' = OnlineOf(u) \ {s} /\ s \in OnlineOf(u)
    BY <1>7 DEF OnlineOf
  <2>2. Cardinality(OnlineOf(u)') = Cardinality(OnlineOf(u)) - 1
    BY <1>1, <1>3, <2>1, FS_RemoveElement
  <2>3. count' = [count EXCEPT ![u] = @ - 1]
    BY <1>7
  <2> QED BY <1>1, <1>2, <1>4, <1>5, <2>2, <2>3 DEF Counted
<1>8. CASE (e.join <=> s \in onlineCache)
  <2>1. onlineCache' = onlineCache
    BY <1>8
  <2>2. count' = count
    BY <1>1, <1>8 DEF Counted
  <2> QED BY <1>1, <2>1, <2>2 DEF Counted, OnlineOf
<1> QED BY <1>6, <1>7, <1>8

\* The event that is applied, if it is the last of its session under way, leaves
\* the cache as the tracker is.
LEMMA ApplyOnlineStatus == ASSUME SessionInv, StatusInv, ApplyOnline PROVE StatusInv'
<1>1. PICK e : e = Head(eventsCh)
  OBVIOUS
<1>2. /\ eventsCh # <<>> /\ eventsCh' = Tail(eventsCh)
      /\ UNCHANGED <<at, streams, follows, late, crossed, overtaken>>
      /\ onlineCache' = IF e.join THEN onlineCache \cup {e.session} ELSE onlineCache \ {e.session}
      /\ count' = [count EXCEPT ![UserOf[e.session]] =
                     IF e.join /\ e.session \notin onlineCache THEN @ + 1
                     ELSE IF ~e.join /\ e.session \in onlineCache THEN @ - 1 ELSE @]
  BY <1>1 DEF ApplyOnline, histories
<1>3. eventsCh \in Seq(Event) /\ late \in Seq(Event)
  BY DEF StatusInv, EventsTyped
<1>4. e \in Event /\ eventsCh' \in Seq(Event)
  BY <1>1, <1>2, <1>3, TailSays
<1>5. onlineCache' \subseteq SessionID /\ IsFiniteSet(onlineCache') /\ Counted'
  BY <1>2, <1>4, ApplyCounts
<1>6. EventsTyped' /\ Clean' = Clean
  BY <1>2, <1>3, <1>4, <1>5 DEF StatusInv, EventsTyped, Clean
<1>7. \A t : News(t)' = News(t) /\ (Announced(t)' => Announced(t))
  BY <1>2, NewsKept DEF Announced
<1>8. ASSUME NEW t \in Clean PROVE Attached(t)'
  BY <1>2, <1>8, AttachedKept DEF StatusInv
<1>9. ASSUME NEW t \in Clean, Informed(t) PROVE Informed(t)'
  <2> DEFINE n == News(t)
  <2>1. /\ LastSays(late, t, n) /\ (NoneOf(late, t) => LastSays(eventsCh, t, n))
        /\ NoneOf(late, t) /\ NoneOf(eventsCh, t) => (t \in onlineCache <=> "status" \in streams[t])
    BY <1>9 DEF Informed
  <2>2. LastSays(eventsCh, t, n) => LastSays(eventsCh', t, n)
    BY <1>2, <1>3, TailSays
  <2>3. ASSUME NoneOf(late, t), NoneOf(eventsCh', t)
        PROVE  t \in onlineCache' <=> "status" \in streams[t]
    <3>1. CASE e.session = t
      <4>1. e = n
        BY <1>1, <1>2, <1>3, <2>1, <2>3, <3>1, TailSays
      <4>2. e.join <=> "status" \in streams[t]
        BY <4>1 DEF News, JoinEvent, LeaveEvent
      <4> QED BY <1>2, <3>1, <4>2
    <3>2. CASE e.session # t
      <4>1. NoneOf(eventsCh, t)
        BY <1>1, <1>2, <1>3, <2>3, <3>2, TailSays
      <4>2. t \in onlineCache' <=> t \in onlineCache
        BY <1>2, <3>2
      <4> QED BY <2>1, <2>3, <4>1, <4>2
    <3> QED BY <3>1, <3>2
  <2> HIDE DEF n
  <2> QED BY <1>2, <1>7, <2>1, <2>2, <2>3 DEF Informed, LastSays, NoneOf, n
<1> QED BY <1>2, <1>5, <1>6, <1>7, <1>8, <1>9 DEF StatusInv

\* Every step keeps the invariant of the status.
LEMMA StatusNextInv ==
  SessionInv /\ StatusInv /\ [SessionsNext]_sessionVars => StatusInv'
<1> SUFFICES ASSUME SessionInv, StatusInv, [SessionsNext]_sessionVars PROVE StatusInv'
  OBVIOUS
<1>1. ASSUME NEW c \in Conn,
             \/ Add(c) \/ Attach(c) \/ Announce(c) \/ UpdateStatus(c)
             \/ HandleDisconnect(c) \/ UntrackStatus(c) \/ Farewell(c) \/ Detach(c) \/ StartGracePeriod(c)
      PROVE  StatusInv'
  BY <1>1, AddStatus, AttachStatus, AnnounceStatus, UpdateStatusStatus, EndStatus
<1>2. ASSUME NEW c \in Conn, NEW u \in UserID, Follow(c, u) PROVE StatusInv'
  BY <1>2, FollowStatus
<1>3. ASSUME NEW c \in Conn, CloseConn(c) PROVE StatusInv'
  BY <1>3, AsideStatus DEF CloseConn
<1>4. ASSUME NEW s \in SessionID, Fire(s) \/ RunTimer(s) PROVE StatusInv'
  BY <1>4, AsideStatus DEF Fire, RunTimer, histories
<1>5. CASE SendLate BY <1>5, SendLateStatus
<1>6. CASE ApplyOnline BY <1>6, ApplyOnlineStatus
<1>7. CASE UNCHANGED sessionVars BY <1>7, AsideStatus DEF sessionVars, histories
<1> QED BY <1>1, <1>2, <1>3, <1>4, <1>5, <1>6, <1>7 DEF SessionsNext

\* When no event is under way the invariant is what StatusSettles says.
LEMMA StatusIsSettled == SessionInv /\ StatusInv => StatusSettles
<1> SUFFICES ASSUME SessionInv, StatusInv, Quiet PROVE StatusSettles
  BY DEF StatusSettles
<1>1. \A u \in UserID : count[u] = Cardinality({s \in onlineCache : UserOf[s] = u})
  BY DEF StatusInv, Counted, OnlineOf
<1>2. ASSUME NEW s \in Clean
      PROVE  /\ s \notin overtaken => (s \in onlineCache <=> "status" \in streams[s])
             /\ (\A c \in Conn : SidOf[c] = s => at[c] # "open") =>
                  streams[s] = {} /\ follows[s] = {}
  <2>1. Announced(s) /\ NoneOf(late, s) /\ NoneOf(eventsCh, s)
    BY DEF Quiet, Announced, NoneOf
  <2>2. (\A c \in Conn : SidOf[c] = s => at[c] # "open") => Detached(s)
    BY DEF Quiet, Detached
  <2> QED BY <1>2, <2>1, <2>2 DEF StatusInv, Informed, Attached
<1> QED BY <1>1, <1>2 DEF StatusSettles, Clean

\* The status registry (status_registry.go, online_index.go): once every event
\* is applied, a session is online exactly if its status is tracked, one that
\* is gone has left no stream and follows nobody, and the index counts right;
\* but for crossed sessions and overtaken events.
THEOREM StatusSettlesDown == SessionsSpec => []StatusSettles
<1>1. SessionInv /\ StatusInv /\ [SessionsNext]_sessionVars => (SessionInv /\ StatusInv)'
  BY SessionNextInv, StatusNextInv
<1>2. SessionsInit => SessionInv /\ StatusInv
  BY SessionInitInv, StatusInitInv
<1> QED BY <1>1, <1>2, StatusIsSettled, PTL DEF SessionsSpec
==============================================================================
