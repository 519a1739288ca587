----------------------------- MODULE MatchRouter -----------------------------
(***************************************************************************)
(* The router of a node's authoritative matches (internal/match/           *)
(* grpc_mesh.go, lua_match.go) and its locks: r.mu, and the mu of every    *)
(* match loop.  Both are Go RWMutexes: a reader waits for a writer that    *)
(* holds the lock or waits for it; an Unlock lets in every reader that     *)
(* waits, and then the next writer.                                        *)
(*                                                                         *)
(* A match is first the call that creates it, then its loop's goroutine.   *)
(* A lister runs GetLocalMatches, a visitor GetLocalMatch (GetMatchLoop    *)
(* and JoinAttempt take the locks in the same order).  The match handlers, *)
(* which run under the lock of their loop, may update the label and list   *)
(* the matches: the game code decides.                                     *)
(*                                                                         *)
(* Abstracted: the Redis entries, which are written with no lock held or   *)
(* by the loop alone; the handlers of MatchTerminate, which are those of a *)
(* tick; the second lock of Start after an overrun, which encloses no      *)
(* call; the instantiation of a match, which may fail.                     *)
(***************************************************************************)
EXTENDS Integers, FiniteSets

CONSTANTS
  Match,       \* match ids, each created once
  GoMatch,     \* those of a Go module; the others are Lua scripts
  Lister,      \* goroutines that list the matches
  Visitor,     \* goroutines that look at one match
  Router,      \* the name of r.mu
  Nobody,
  MaxMatches   \* maxConcurrentMatches (500 in the code)

ASSUME MatchRouterAssumption ==
  /\ IsFiniteSet(Match)
  /\ GoMatch \subseteq Match
  /\ MaxMatches \in Nat \ {0}
  /\ Router \notin Match
  /\ Nobody \notin Match \cup Lister \cup Visitor

Proc == Match \cup Lister \cup Visitor

VARIABLES
  matches,  \* r.matches: ids
  lock,     \* r.mu and the mu of each loop
  pc,       \* where each goroutine is
  visited,  \* the match each visitor looks at
  seen,     \* the matches a listing has looked at
  crowd     \* history: the most creations at once between check and entry

routerVars == <<matches, lock, pc, visited, seen, crowd>>

Free == [readers |-> {}, waiting |-> {}, writer |-> Nobody, writers |-> {}]

RouterInit ==
  /\ matches = {}
  /\ lock = [l \in Match \cup {Router} |-> Free]
  /\ pc = [p \in Proc |-> IF p \in Match THEN "new" ELSE "out"]
  /\ visited \in [Visitor -> Match]
  /\ seen = [p \in Proc |-> {}]
  /\ crowd = 0

-----------------------------------------------------------------------------
(* sync.RWMutex.  The writer that was announced first holds the lock once  *)
(* the readers before it are gone.                                         *)

RLock(p, l) ==
  lock' = IF lock[l].writer = Nobody THEN [lock EXCEPT ![l].readers = @ \cup {p}]
          ELSE [lock EXCEPT ![l].waiting = @ \cup {p}]

RUnlock(p, l) == lock' = [lock EXCEPT ![l].readers = @ \ {p}]

Lock(p, l) ==
  lock' = IF lock[l].writer = Nobody THEN [lock EXCEPT ![l].writer = p]
          ELSE [lock EXCEPT ![l].writers = @ \cup {p}]

Unlock(l) ==
  \E w \in IF lock[l].writers = {} THEN {Nobody} ELSE lock[l].writers :
    lock' = [lock EXCEPT ![l] = [readers |-> @.waiting, waiting |-> {},
                                 writer |-> w, writers |-> @.writers \ {w}]]

Reads(p, l) == p \in lock[l].readers
Writes(p, l) == lock[l].writer = p /\ lock[l].readers = {}

\* Whom p waits for at the lock l: nobody when it does not wait.
InTheWay(p, l) ==
  IF lock[l].writer = p /\ p \notin lock[l].waiting THEN lock[l].readers
  ELSE IF p \in lock[l].waiting \cup lock[l].writers THEN {lock[l].writer}
  ELSE {}

Step(p, from, to) == pc[p] = from /\ pc' = [pc EXCEPT ![p] = to]

-----------------------------------------------------------------------------
(* CreateAndRegisterMatch and createAndRegisterLuaMatch.                   *)

Full == Cardinality(matches) >= MaxMatches

\* Mutant: the first check lets one match too many pass.
CountMatches_OffByOne(m) ==
  /\ Reads(m, Router)
  /\ \/ /\ Cardinality(matches) <= MaxMatches
        /\ Step(m, "counting", IF m \in GoMatch THEN "made" ELSE "checked")
     \/ Step(m, "counting", "refused")
  /\ RUnlock(m, Router)

\* The count is taken under the read lock and used after it.  A Go match is
\* instantiated and the count checked again under the write lock.  A Lua match
\* is counted a second time in the same way, by createAndRegisterLuaMatch: the
\* two counts are this one step, and nothing checks after it.
CountMatches(m) ==
  /\ Reads(m, Router)
  /\ \/ ~Full /\ Step(m, "counting", IF m \in GoMatch THEN "made" ELSE "checked")
     \/ Step(m, "counting", "refused")
  /\ RUnlock(m, Router)

\* Mutant: the early return of the second check keeps the lock.
CheckAgain_NoUnlock(m) ==
  /\ Writes(m, Router)
  /\ Step(m, "rechecking", IF Full THEN "refused" ELSE "checked")
  /\ IF Full THEN UNCHANGED lock ELSE Unlock(Router)

CheckAgain(m) ==
  /\ Writes(m, Router)
  /\ Step(m, "rechecking", IF Full THEN "refused" ELSE "checked")
  /\ Unlock(Router)

\* Between the last check of the limit and Register.
InFlight(q) == {m \in Match : q[m] \in {"checked", "registering"}}

Create(m) ==
  /\ \/ Step(m, "new", "counting") /\ RLock(m, Router)
     \/ CountMatches(m)
     \/ Step(m, "made", "rechecking") /\ Lock(m, Router)
     \/ CheckAgain(m)
     \/ Step(m, "checked", "registering") /\ Lock(m, Router)
  /\ crowd' = IF Cardinality(InFlight(pc')) > crowd THEN Cardinality(InFlight(pc')) ELSE crowd
  /\ UNCHANGED <<matches, visited, seen>>

\* Register, and the start of the loop.
Register(m) ==
  /\ Writes(m, Router)
  /\ Step(m, "registering", "asleep")
  /\ matches' = matches \cup {m}
  /\ Unlock(Router)
  /\ UNCHANGED <<visited, seen, crowd>>

-----------------------------------------------------------------------------
(* The loop.  A tick holds the lock of the loop from its start to its end. *)

Tick(m) ==
  /\ Step(m, "asleep", "tick")
  /\ Lock(m, m)
  /\ UNCHANGED <<matches, visited, seen, crowd>>

\* MatchLabelUpdate in a handler calls UpdateMetadata, which reads the router.
UpdateLabel(m) ==
  /\ \/ Step(m, "tick", "label") /\ Writes(m, m) /\ RLock(m, Router)
     \/ Step(m, "label", "tick") /\ Reads(m, Router) /\ RUnlock(m, Router)
  /\ UNCHANGED <<matches, visited, seen, crowd>>

EndTick(m) ==
  /\ Writes(m, m)
  /\ \E to \in {"asleep", "ending"} : Step(m, "tick", to)
  /\ Unlock(m)
  /\ UNCHANGED <<matches, visited, seen, crowd>>

\* terminate holds the lock of the loop while onEnd unregisters the match.
Terminate(m) ==
  /\ \/ Step(m, "ending", "terminate") /\ Lock(m, m)
     \/ Step(m, "terminate", "unregister") /\ Writes(m, m) /\ Lock(m, Router)
     \/ Step(m, "removed", "ended") /\ Unlock(m)
  /\ UNCHANGED <<matches, visited, seen, crowd>>

Unregister(m) ==
  /\ Writes(m, Router)
  /\ Step(m, "unregister", "removed")
  /\ matches' = matches \ {m}
  /\ Unlock(Router)
  /\ UNCHANGED <<visited, seen, crowd>>

-----------------------------------------------------------------------------
(* GetLocalMatches, by a lister or by a handler within its tick: the       *)
(* router's read lock is held while each loop's is taken in turn.          *)

Return(p) == IF p \in Match THEN "tick" ELSE "out"

CallList(p) ==
  /\ Step(p, Return(p), "list")
  /\ p \in Match => Writes(p, p)
  /\ p \notin Visitor
  /\ RLock(p, Router)
  /\ UNCHANGED <<matches, visited, seen, crowd>>

LookAt(p) ==
  /\ Step(p, "list", "look")
  /\ Reads(p, Router)
  /\ \E m \in matches \ seen[p] :
       /\ RLock(p, m)
       /\ seen' = [seen EXCEPT ![p] = @ \cup {m}]
  /\ UNCHANGED <<matches, visited, crowd>>

Looked(p) ==
  /\ Step(p, "look", "list")
  /\ \E m \in matches : Reads(p, m) /\ RUnlock(p, m)
  /\ UNCHANGED <<matches, visited, seen, crowd>>

EndList(p) ==
  /\ Step(p, "list", Return(p))
  /\ Reads(p, Router)
  /\ matches \subseteq seen[p]
  /\ RUnlock(p, Router)
  /\ seen' = [seen EXCEPT ![p] = {}]
  /\ UNCHANGED <<matches, visited, crowd>>

\* GetLocalMatch: the router's lock is released before the loop's is taken.
Visit(v) ==
  /\ \/ Step(v, "out", "find") /\ RLock(v, Router)
     \/ /\ Step(v, "find", IF visited[v] \in matches THEN "found" ELSE "out")
        /\ Reads(v, Router)
        /\ RUnlock(v, Router)
     \/ Step(v, "found", "inside") /\ RLock(v, visited[v])
     \/ Step(v, "inside", "out") /\ Reads(v, visited[v]) /\ RUnlock(v, visited[v])
  /\ UNCHANGED <<matches, visited, seen, crowd>>

-----------------------------------------------------------------------------
MatchSteps(m) ==
  \/ Create(m) \/ Register(m)
  \/ Tick(m) \/ UpdateLabel(m) \/ EndTick(m)
  \/ Terminate(m) \/ Unregister(m)

ListSteps(p) == CallList(p) \/ LookAt(p) \/ Looked(p) \/ EndList(p)

RouterNext ==
  \/ \E m \in Match : MatchSteps(m) \/ ListSteps(m)
  \/ \E p \in Lister : ListSteps(p)
  \/ \E v \in Visitor : Visit(v)

RouterSpec == RouterInit /\ [][RouterNext]_routerVars

-----------------------------------------------------------------------------
(* Properties.                                                             *)

\* Each goroutine of S waits for another of S, or for itself.
Circle(S) ==
  /\ S # {}
  /\ \A p \in S : \E l \in DOMAIN lock : InTheWay(p, l) \cap S # {}

\* A circle of waits that goes through a listing: GetLocalMatches holds the
\* router and waits for a loop, whose terminate, or label update behind
\* another writer, waits for the router; or a handler lists its own match.
ListingCircle == \E S \in SUBSET {p \in Proc : pc[p] # "out"} :
                   Circle(S) /\ \E p \in S : pc[p] = "look"

\* A match whose loop has ended leaves the registry, unless a listing holds
\* up the node: every other order of the router's lock and those of the
\* loops, with the early returns of the creations, lets terminate through.
EndedIsUnregistered ==
  \A m \in Match : pc[m] = "ending" ~> (m \notin matches \/ ListingCircle)

\* Every match whose loop ends is removed from the registry.
EndedLeavesRegistry ==
  \A m \in Match : pc[m] = "ending" ~> m \notin matches

\* The limit on matches is exceeded by no more than the creations that were
\* at once between their last check and their entry in the registry.
LimitUpToOverlap == Cardinality(matches) < MaxMatches + crowd
=============================================================================
