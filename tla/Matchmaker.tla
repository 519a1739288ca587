----------------------------- MODULE Matchmaker -----------------------------
(***************************************************************************)
(* The matchmaker of one node without Redis: internal/matchmaker,          *)
(* matchmaker.go and process.go.                                           *)
(*                                                                         *)
(* Every operation holds mm.mu for its whole body.  The calls of clients   *)
(* are one action each.  A Tick also runs under the mutex, but it is a     *)
(* loop over queues, seed tickets and groups: its iterations are actions   *)
(* of their own, and the clients' calls are disabled while it runs.        *)
(*                                                                         *)
(* Abstracted: queries, skill, region and reverse precision, which decide  *)
(* the tickets that searchIndex and evaluatePairing let a seed consider    *)
(* and in which order: any list of them.  CreatedAt orders the seeds, but  *)
(* callers set it before they take the mutex: any order.  The rate limit   *)
(* refuses a submission, which is then no step; the join token, the stats  *)
(* and the callbacks that announce a match are left out, but for the set   *)
(* of the matches announced.  mintMatchToken can fail only if crypto/rand  *)
(* does, which since Go 1.24 it never does: no action returns from         *)
(* finalizeMatch there.                                                    *)
(***************************************************************************)
EXTENDS Integers, FiniteSets, Sequences, FiniteSetsExt

CONSTANTS
  Ticket,         \* ticket ids
  Ask,            \* what each ticket asks for, an AskType
  Session, Party, NoParty,
  Queue,          \* the queue names that tickets use
  Queues,         \* the configured queues
  MinPlayers,     \* QueueConfig.MinPlayers of each queue
  MaxTickets,     \* MatchmakerConfig.MaxTickets, per session
  MaxIntervals,   \* MatchmakerConfig.MaxIntervals; also caps the counter
  Hooks(_, _)     \* the results game code may return, each a set of groups, when
                  \* it is shown the first tickets and has seen the second

AskType == [ min      : Nat,                 \* Ticket.MinCount
             max      : Nat,                 \* MaxCount
             multiple : Nat,                 \* CountMultiple
             count    : Nat \ {0},           \* Count, the players it lists
             party    : Party \cup {NoParty}, \* PartyID
             session  : Session,             \* SessionID
             queue    : Queue ]              \* QueueName

ASSUME MatchmakerAssumption ==
  /\ \A t \in Ticket : Ask[t] \in AskType
  /\ NoParty \notin Party
  /\ Queues \subseteq Queue
  /\ MinPlayers \in [Queue -> Nat]
  /\ MaxTickets \in Nat \ {0}
  /\ MaxIntervals \in Nat \ {0}

ASSUME HooksAssumption ==
  \A S, K \in SUBSET Ticket : Hooks(S, K) \subseteq SUBSET (SUBSET Ticket)

VARIABLES
  pool,       \* mm.tickets
  owned,      \* mm.sessionTickets; no entry and an empty one are the same
  status,     \* the status in mm.ticketStatus
  intervals,  \* Ticket.Intervals, up to MaxIntervals
  old,        \* the tickets past TicketExpirySec
  formed,     \* the matches of waiting tickets handed to onMatched, as in
              \* MatchPool
  tick        \* the Tick under way

vars == <<pool, owned, status, intervals, old, formed, tick>>

Statuses == {"none", "queued", "cancelled", "expired", "matched"}
Stages == {"idle", "queues", "seeds", "groups"}

(***************************************************************************)
(* tick.queues are the queues still to process and active the tickets of   *)
(* the one being processed, seeds those still to serve as a seed; groups   *)
(* are the candidate matches, matched the tickets of those finalized, and  *)
(* hooked says that game code rewrote the groups.                          *)
(***************************************************************************)
TickType == [ stage : Stages, queues : SUBSET Queues, active : SUBSET Ticket,
              seeds : SUBSET Ticket, groups : SUBSET (SUBSET Ticket),
              matched : SUBSET Ticket, hooked : BOOLEAN ]

NoTick == [ stage |-> "idle", queues |-> {}, active |-> {}, seeds |-> {},
            groups |-> {}, matched |-> {}, hooked |-> FALSE ]

Init ==
  /\ pool = {}
  /\ owned = [s \in Session |-> {}]
  /\ status = [t \in Ticket |-> "none"]
  /\ intervals = [t \in Ticket |-> 0]
  /\ old = {}
  /\ formed = {}
  /\ tick = NoTick

-----------------------------------------------------------------------------
(* Tickets leave the pool, for whatever reason, in one way.                *)

Become(S, st) == [t \in Ticket |-> IF t \in S THEN st ELSE status[t]]

\* Mutant: the sessions' sets keep the tickets that left the pool.
Leave_KeepOwned(S, st) ==
  /\ pool' = pool \ S
  /\ owned' = owned
  /\ old' = old \ S
  /\ status' = Become(S, st)

\* Delete the tickets S from the pool and from the sessions' sets; nothing
\* reads their age and intervals any more.
Leave(S, st) ==
  /\ pool' = pool \ S
  /\ owned' = [s \in Session |-> owned[s] \ S]
  /\ old' = old \ S
  /\ status' = Become(S, st)

Reset(S) == [t \in Ticket |-> IF t \in S THEN 0 ELSE intervals[t]]

-----------------------------------------------------------------------------
(* The clients' calls.                                                     *)

Valid(t) ==
  /\ Ask[t].min >= 2
  /\ Ask[t].max >= Ask[t].min
  /\ Ask[t].multiple >= 1
  /\ Ask[t].count <= Ask[t].max

Unlocked == tick.stage = "idle"

\* Mutant: the limit is off by one.
Submit_OneTooMany(t) ==
  /\ Unlocked
  /\ status[t] = "none"
  /\ Valid(t)
  /\ Cardinality(owned[Ask[t].session]) <= MaxTickets
  /\ pool' = pool \cup {t}
  /\ owned' = [owned EXCEPT ![Ask[t].session] = @ \cup {t}]
  /\ status' = [status EXCEPT ![t] = "queued"]
  /\ UNCHANGED <<intervals, old, formed, tick>>

\* submitLocked.  A ticket's id is fresh.
Submit(t) ==
  /\ Unlocked
  /\ status[t] = "none"
  /\ Valid(t)
  /\ Cardinality(owned[Ask[t].session]) < MaxTickets
  /\ pool' = pool \cup {t}
  /\ owned' = [owned EXCEPT ![Ask[t].session] = @ \cup {t}]
  /\ status' = [status EXCEPT ![t] = "queued"]
  /\ UNCHANGED <<intervals, old, formed, tick>>

\* Mutant: cancelling does not wait for the Tick to release the mutex.
CancelAll_NoLock(S) ==
  /\ S # {}
  /\ Leave(S, "cancelled")
  /\ intervals' = Reset(S)
  /\ UNCHANGED <<formed, tick>>

\* Cancel, RemovePartyAll and RemoveSessionAll: cancelLocked for each of S.
CancelAll(S) ==
  /\ Unlocked
  /\ S # {}
  /\ Leave(S, "cancelled")
  /\ intervals' = Reset(S)
  /\ UNCHANGED <<formed, tick>>

Cancel(t) == t \in pool /\ CancelAll({t})
RemovePartyAll(p) == CancelAll({t \in pool : Ask[t].party = p})
RemoveSessionAll(s) == CancelAll(owned[s])

\* Time passes: a ticket's age exceeds TicketExpirySec.
GrowOld(t) ==
  /\ t \in pool \ old
  /\ old' = old \cup {t}
  /\ UNCHANGED <<pool, owned, status, intervals, formed, tick>>

-----------------------------------------------------------------------------
(* The default matching of a queue, matchDefault.                          *)

GroupSize(g) == MapThenSumSet(LAMBDA t : Ask[t].count, g)

Last(t) == intervals[t] >= MaxIntervals \/ Ask[t].min = Ask[t].max

CompatibleRange(a, b) == Ask[a].min <= Ask[b].max /\ Ask[b].min <= Ask[a].max

\* The candidate loop appends o to the candidates c of seed t.
Joins(t, c, o) ==
  /\ Ask[o].party # NoParty => \A x \in c : Ask[x].party # Ask[o].party
  /\ CompatibleRange(t, o)
  /\ GroupSize(c) + Ask[o].count <= Ask[t].max

\* The lists of candidates that the loop can build for seed t out of S.
CandidateLists(t, S) ==
  UNION { {c \in [1 .. n -> S \cup {t}] :
             /\ c[1] = t
             /\ \A i \in 2 .. n : /\ \A j \in 1 .. i - 1 : c[j] # c[i]
                                  /\ Joins(t, {c[j] : j \in 1 .. i - 1}, c[i])}
          : n \in 1 .. Cardinality(S \cup {t}) }

\* trimToMultiple: the indices it drops.  While the remainder is positive, drop
\* the first candidate, not the seed, that is no larger, else the last one.
Dropped(c, multiple) ==
  LET start == [gone |-> {}, rem |-> GroupSize({c[i] : i \in DOMAIN c}) % multiple]
      Drop1(st) ==
        LET left  == DOMAIN c \ (st.gone \cup {1})
            small == {i \in left : Ask[c[i]].count <= st.rem}
            d     == IF small # {} THEN Min(small) ELSE Max(left)
        IN  IF st.rem <= 0 \/ left = {} THEN st
            ELSE [gone |-> st.gone \cup {d}, rem |-> st.rem - Ask[c[d]].count]
  IN  FoldSet(LAMBDA i, st : Drop1(st), start, DOMAIN c).gone

\* The candidates kept; the seed alone if what is left is too small.
Trimmed(c, t) ==
  LET kept == {c[i] : i \in DOMAIN c \ Dropped(c, Ask[t].multiple)}
  IN  IF GroupSize({c[i] : i \in DOMAIN c}) % Ask[t].multiple # 0
         /\ GroupSize(kept) < Ask[t].min
      THEN {t} ELSE kept

\* A queue of one small ticket does not match at MaxCount before its last
\* interval, as any other group does.
CanMatch(t, g) ==
  \/ /\ GroupSize(g) = Ask[t].max
     /\ ~(tick.active = {t} /\ Ask[t].count < MinPlayers[Ask[t].queue])
  \/ /\ Last(t)
     /\ GroupSize(g) \in Ask[t].min .. Ask[t].max

\* Mutant: only the seed's count multiple, which trimToMultiple looks at.
GroupSatisfiesAll_AnyMultiple(g) ==
  /\ \A t, o \in g : t # o /\ Ask[t].party # NoParty => Ask[t].party # Ask[o].party
  /\ \A t \in g : GroupSize(g) >= Ask[t].min /\ GroupSize(g) <= Ask[t].max

\* The check of every ticket's demand, after the seed's alone was looked at.
GroupSatisfiesAll(g) ==
  /\ \A t, o \in g : t # o /\ Ask[t].party # NoParty => Ask[t].party # Ask[o].party
  /\ \A t \in g : /\ GroupSize(g) >= Ask[t].min
                  /\ GroupSize(g) <= Ask[t].max
                  /\ GroupSize(g) % Ask[t].multiple = 0

-----------------------------------------------------------------------------
(* Tick, step by step.                                                     *)

TickStart ==
  /\ Unlocked
  /\ tick' = [NoTick EXCEPT !.stage = "queues", !.queues = Queues]
  /\ UNCHANGED <<pool, owned, status, intervals, old, formed>>

\* Mutant: tickets past their expiry stay in the queue.
LoadQueue_NoExpiry(q) ==
  /\ tick.stage = "queues"
  /\ q \in tick.queues
  /\ LET active == {t \in pool : Ask[t].queue = q}
     IN  /\ intervals' = [t \in Ticket |->
                            IF t \in active /\ intervals[t] < MaxIntervals
                            THEN intervals[t] + 1 ELSE intervals[t]]
         /\ tick' = [NoTick EXCEPT !.stage = IF active = {} THEN "queues" ELSE "seeds",
                                   !.queues = tick.queues \ {q},
                                   !.active = active,
                                   !.seeds = active]
  /\ UNCHANGED <<pool, owned, status, old, formed>>

\* processQueue up to the matching: loadActiveTickets expires the old tickets
\* of the queue, and the others get one interval more.
LoadQueue(q) ==
  /\ tick.stage = "queues"
  /\ q \in tick.queues
  /\ LET here   == {t \in pool : Ask[t].queue = q}
         active == here \ old
     IN  /\ Leave(here \cap old, "expired")
         /\ intervals' = [t \in Ticket |->
                            IF t \in active /\ intervals[t] < MaxIntervals
                            THEN intervals[t] + 1 ELSE Reset(here \cap old)[t]]
         /\ tick' = [NoTick EXCEPT !.stage = IF active = {} THEN "queues" ELSE "seeds",
                                   !.queues = tick.queues \ {q},
                                   !.active = active,
                                   !.seeds = active]
  /\ UNCHANGED formed

\* One iteration of matchDefault's loop.
TrySeed(t) ==
  /\ tick.stage = "seeds"
  /\ t \in tick.seeds
  /\ LET taken == UNION tick.groups
     IN  IF t \in taken
         THEN tick' = [tick EXCEPT !.seeds = @ \ {t}]
         ELSE \E c \in CandidateLists(t, tick.active \ taken) :
                LET g  == Trimmed(c, t)
                    ok == CanMatch(t, g) /\ GroupSatisfiesAll(g)
                IN  tick' = [tick EXCEPT !.seeds = @ \ {t},
                                         !.groups = IF ok THEN @ \cup {g} ELSE @]
  /\ UNCHANGED <<pool, owned, status, intervals, old, formed>>

\* What game code returns, of the tickets it is shown and of those it remembers.
\* Nothing checks the groups: they may overlap, and their tickets may be of
\* another queue or have left the pool since game code saw them.
HookGroups == Hooks(tick.active, {t \in Ticket : status[t] # "none"})

\* The groups of matchDefault are final, or a processor or override hook
\* replaces them by groups of its own.
Groups ==
  /\ tick.stage = "seeds"
  /\ tick.seeds = {}
  /\ \/ tick' = [tick EXCEPT !.stage = "groups"]
     \/ \E G \in HookGroups :
          tick' = [tick EXCEPT !.stage = "groups", !.groups = G, !.hooked = TRUE]
  /\ UNCHANGED <<pool, owned, status, intervals, old, formed>>

\* The last loop of processQueue: finalizeMatch, unless the group is empty or
\* one of its tickets has been matched already.  A group of game code with a
\* ticket that is not in the pool is announced like any other: it is a match
\* that the matchmaker does not answer for.
Finalize(g) ==
  /\ tick.stage = "groups"
  /\ g \in tick.groups
  /\ IF g = {} \/ g \cap tick.matched # {}
     THEN /\ tick' = [tick EXCEPT !.groups = @ \ {g}]
          /\ UNCHANGED <<pool, owned, status, intervals, old, formed>>
     ELSE /\ tick' = [tick EXCEPT !.groups = @ \ {g}, !.matched = @ \cup g]
          /\ Leave(g, "matched")
          /\ intervals' = Reset(g)
          /\ formed' = IF g \subseteq pool
                       THEN formed \cup {[tickets |-> g, hooked |-> tick.hooked]}
                       ELSE formed

QueueDone ==
  /\ tick.stage = "groups"
  /\ tick.groups = {}
  /\ tick' = [NoTick EXCEPT !.stage = "queues", !.queues = tick.queues]
  /\ UNCHANGED <<pool, owned, status, intervals, old, formed>>

TickEnd ==
  /\ tick.stage = "queues"
  /\ tick.queues = {}
  /\ tick' = NoTick
  /\ UNCHANGED <<pool, owned, status, intervals, old, formed>>

TickStep ==
  \/ TickStart
  \/ \E q \in Queue : LoadQueue(q)
  \/ \E t \in Ticket : TrySeed(t)
  \/ Groups
  \/ \E g \in tick.groups : Finalize(g)
  \/ QueueDone
  \/ TickEnd

ClientStep ==
  \/ \E t \in Ticket : Submit(t) \/ Cancel(t)
  \/ \E p \in Party : RemovePartyAll(p)
  \/ \E s \in Session : RemoveSessionAll(s)

Next == ClientStep \/ TickStep \/ \E t \in Ticket : GrowOld(t)

Spec == Init /\ [][Next]_vars

\* The ticker calls Tick again and again, a Tick runs to its end, and time
\* passes.
Fairness == WF_vars(TickStep) /\ \A t \in Ticket : WF_vars(GrowOld(t))

FairSpec == Spec /\ Fairness

-----------------------------------------------------------------------------
(* Properties.                                                             *)

\* The variables have their types; the groups of a Tick, unless game code wrote
\* them, are made of tickets of the queue it processes, and until one of them is
\* matched the others are still in the pool: nobody cancels under the Tick's
\* feet.
TypeOK ==
  /\ pool \subseteq Ticket
  /\ owned \in [Session -> SUBSET Ticket]
  /\ status \in [Ticket -> Statuses]
  /\ intervals \in [Ticket -> 0 .. MaxIntervals]
  /\ old \subseteq pool
  /\ formed \subseteq [tickets : SUBSET Ticket, hooked : BOOLEAN]
  /\ tick \in TickType
  /\ tick.seeds \subseteq tick.active
  /\ tick.hooked \/ UNION tick.groups \subseteq tick.active
  /\ tick.active \ tick.matched \subseteq pool

\* The pool, the sessions' sets and the status map, which Submit, the three
\* ways to cancel, expiry and finalizeMatch each update entry by entry, tell
\* the same story: a ticket is queued exactly while it is in the pool, and
\* exactly then its session owns it.
IndexesAgree ==
  /\ pool = {t \in Ticket : status[t] = "queued"}
  /\ \A s \in Session : owned[s] = {t \in pool : Ask[t].session = s}

\* The limit holds of the tickets a session really has in the pool, and no
\* cancelled, expired or matched ticket counts against it.
WithinTicketLimit ==
  \A s \in Session : Cardinality({t \in pool : Ask[t].session = s}) <= MaxTickets

\* The matchmaker implements the pool of MatchPool: a ticket is matched once,
\* never after it was cancelled or expired, and only, unless game code chose
\* the group, with tickets that all accept the size of the group and are of
\* different parties.  What game code announces of tickets that do not wait is
\* outside the promise: nothing in the code keeps it from doing so.
Abstract == INSTANCE MatchPool WITH waiting <- pool, Players <- GroupSize

ImplementsMatchPool == Abstract!Spec

\* A ticket of a configured queue does not wait for ever: it is matched,
\* cancelled or expired, although Submit takes any queue name, Ticks process
\* the configured queues only and a ticket may be passed over every time.
TicketsResolve ==
  \A t \in Ticket : Ask[t].queue \in Queues => (t \in pool ~> t \notin pool)
=============================================================================
