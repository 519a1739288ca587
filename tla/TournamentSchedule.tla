------------------------- MODULE TournamentSchedule -------------------------
(* The scheduler of tournament and leaderboard callbacks                     *)
(* (internal/tournament/tournament.go), with the deadlines of                *)
(* internal/leaderboard/deadlines.go and the lease of                        *)
(* internal/runtime/cron_cluster.go.                                         *)
(*                                                                           *)
(* Update finds the callbacks that are due and queues them one by one, as    *)
(* long as there is room; workers run each behind a key, in Redis or in a    *)
(* map of the process.  The unit of time is the 30 s of the safety ticker: a *)
(* node that is up updates at least once in each (timers only add to that,   *)
(* one update at a time here), and the leases of 15 s lapse within it.       *)
EXTENDS Integers, Sequences, FiniteSets, FiniteSetsExt

CONSTANTS
  Node, Worker, NoNode, Idle,
  Deployments,  \* records of table: the boards, a sequence of Board;
                \* redis: BOOLEAN; home: [Worker -> Node]
  MaxBoards,    \* bound: boards in a table
  KeyTTL,       \* units a key lives in Redis (24 h in the code)
  Window,       \* units after which a leaderboard reset is given up (120 s)
  QueueCap,     \* capacity of the callback queue (1024)
  MaxTime, MaxCrash \* bounds

\* 0 for none.  Firings of the schedules are looked at up to MaxTime (see Fires).
Board == [start : 0 .. MaxTime, end : Nat, duration : Nat, period : Nat]

Tables == {d.table : d \in Deployments}

ASSUME DeploymentsType ==
  /\ MaxTime \in Nat \ {0} /\ QueueCap \in Nat /\ MaxBoards \in Nat
  /\ Deployments \subseteq [table : Tables, redis : BOOLEAN, home : [Worker -> Node]]
  /\ \A tab \in Tables : /\ DOMAIN tab \in {1 .. k : k \in 0 .. MaxBoards}
                         /\ \A i \in DOMAIN tab : tab[i] \in Board

\* Without Redis there is one node.
ASSUME OneNodeWithoutRedis ==
  \A d \in Deployments : ~d.redis => \A v, w \in Worker : d.home[v] = d.home[w]

VARIABLES
  deploy,       \* fixed
  now,
  up,           \* nodes that run
  ticked,       \* nodes that updated in this unit
  lease,        \* owners of the two leader keys
  keys,         \* callback -> time its key was set, 0 without one
  local,        \* node -> callbacks in its maps localRewarded, localReset
  pushing,      \* node -> what its Update found and has not queued yet
  queue,        \* node -> callbackQueue
  work,         \* worker -> Idle, or the callback and what comes next
  begun,        \* callback -> workers that went to work on it in the life of its key
  settled,      \* callbacks whose hook was called, or whose key was taken for nothing
  crashes

schedVars == <<deploy, now, up, ticked, lease, keys, local, pushing, queue,
               work, begun, settled, crashes>>
table == deploy.table
history == <<begun, settled>>

-----------------------------------------------------------------------------
(* deadlines.go *)

\* The seconds a reset schedule fires at: every period, from before the model.
Fires(b) == {1 + k * b.period : k \in -2 .. MaxTime + 1}
NextFire(b, t) == Min({f \in Fires(b) : f > t})
LastFire(b, t) == Max({f \in Fires(b) : f < t})

Capped(start, end, expiry) ==
  [start |-> start, end |-> IF end > expiry THEN expiry ELSE end, expiry |-> expiry]

\* The occurrence of a tournament with a schedule at time t, before end_time.
Occurrence(b, t) ==
  LET s == IF t < b.start THEN NextFire(b, b.start)
           ELSE IF t \in Fires(b) THEN t ELSE LastFire(b, t)
      o == Capped(s, s + b.duration, NextFire(b, s))
      first == NextFire(b, b.start)
  IN IF b.start > o.end
     THEN Capped(first, first + b.duration, NextFire(b, first))
     ELSE IF b.start > s THEN [o EXCEPT !.start = b.start] ELSE o

CalculateTournamentDeadlines(b, t) ==
  IF b.period > 0
  THEN LET o == Occurrence(b, t)
       IN IF b.end > 0 /\ o.expiry > b.end THEN Capped(o.start, o.end, b.end) ELSE o
  ELSE LET end == b.start + b.duration
       IN [start |-> b.start, expiry |-> b.end,
           end |-> IF b.end > 0 /\ end > b.end THEN b.end ELSE end]

IsTournament(b) == b.duration > 0

CalculatePrevReset(b, t) == IF b.start > t THEN 0 ELSE LastFire(b, t)

Kind == {"tournament_end", "tournament_reset", "leaderboard_reset"}
\* The board's place in the table is its id.
Callback == (1 .. MaxBoards) \X Kind \X (1 .. MaxTime)

\* What is due of a board.
DueOf(b, t) ==
  LET d == CalculateTournamentDeadlines(b, t)
      prev == CalculatePrevReset(b, t)
  IN IF IsTournament(b)
     THEN {<<"tournament_end", e>> : e \in {d.end} \cap 1 .. t}
          \union {<<"tournament_reset", e>> : e \in {d.expiry} \cap 1 .. t}
     ELSE IF b.period > 0 /\ prev > 0 /\ t - prev <= Window
          THEN {<<"leaderboard_reset", prev>>} ELSE {}

Due == [tab \in Tables |-> [t \in 1 .. MaxTime |->
         UNION {{<<i, due[1], due[2]>> : due \in DueOf(tab[i], t)} : i \in DOMAIN tab}]]

-----------------------------------------------------------------------------
\* One leader key for the tournaments, one for the other leaderboards.
Family == {"tournament", "leaderboard"}
FamilyOf(b) == IF IsTournament(b) THEN "tournament" ELSE "leaderboard"
Families == {FamilyOf(table[i]) : i \in DOMAIN table}

ScheduleInit ==
  /\ deploy \in Deployments
  /\ now = 1
  /\ up = {deploy.home[w] : w \in Worker}
  /\ ticked = {} /\ lease = [f \in Family |-> NoNode]
  /\ keys = [cb \in Callback |-> 0]
  /\ local = [n \in Node |-> {}]
  /\ pushing = [n \in Node |-> {}] /\ queue = [n \in Node |-> <<>>]
  /\ work = [w \in Worker |-> Idle]
  /\ begun = [cb \in Callback |-> 0] /\ settled = {}
  /\ crashes = 0

(* Time passes once the tickers of every node fired; keys expire with it.    *)
TimePasses ==
  /\ now < MaxTime /\ up \subseteq ticked /\ \A n \in Node : pushing[n] = {}
  /\ now' = now + 1 /\ ticked' = {} /\ lease' = [f \in Family |-> NoNode]
  /\ LET out == {cb \in Callback : keys[cb] > 0 /\ now' - keys[cb] >= KeyTTL}
     IN /\ keys' = [cb \in Callback |-> IF cb \in out THEN 0 ELSE keys[cb]]
        /\ begun' = [cb \in Callback |-> IF cb \in out THEN 0 ELSE begun[cb]]
  /\ UNCHANGED <<deploy, up, local, pushing, queue, work, settled, crashes>>

Leads(n, f) == ~deploy.redis \/ lease[f] \in {NoNode, n}

(* Each lease is taken when free, renewed by its owner, and no obstacle      *)
(* without Redis or when Redis fails; a lease with no board is left out.  A  *)
(* node that is up to date updates again, at a timer or in a time past the   *)
(* bound, when its workers have emptied the queue.                           *)
TryAcquire(n, failed) ==
  /\ n \in up /\ pushing[n] = {} /\ (n \notin ticked \/ queue[n] = <<>>)
  /\ ticked' = ticked \union {n}
  /\ lease' = [f \in Family |-> IF deploy.redis /\ f \in Families \ failed /\ Leads(n, f)
                               THEN n ELSE lease[f]]
  /\ UNCHANGED <<deploy, now, up, keys, local, queue, work, history, crashes>>

\* What is due of the boards that this node leads, or takes itself to lead.
Update(n, failed) ==
  /\ TryAcquire(n, failed)
  /\ pushing' = [pushing EXCEPT ![n] =
       {cb \in Due[table][now] : LET f == FamilyOf(table[cb[1]])
                                IN f \in failed \/ Leads(n, f)}]

\* The tournaments cannot be loaded.
LoadFails(n, failed) == TryAcquire(n, failed) /\ UNCHANGED pushing

\* The boards come in no order; of one board, the end comes before the reset.
\* A full queue drops what is offered.
Push(n, cb) ==
  /\ cb \in pushing[n]
  /\ cb[2] = "tournament_reset" => \A d \in pushing[n] : d[1] = cb[1] => d = cb
  /\ pushing' = [pushing EXCEPT ![n] = @ \ {cb}]
  /\ queue' = IF Len(queue[n]) < QueueCap THEN [queue EXCEPT ![n] = Append(@, cb)] ELSE queue
  /\ UNCHANGED <<deploy, now, up, ticked, lease, keys, local, work, history, crashes>>

Home(w) == deploy.home[w]
Done(w, cb) == keys[cb] > 0 \/ cb \in local[Home(w)]

\* A worker takes a callback and asks whether its key exists, which Redis may
\* fail to tell.
Take(w) ==
  LET n == Home(w)
      cb == Head(queue[n])
      job == [cb |-> cb, next |-> "acquire"]
  IN /\ work[w] = Idle /\ n \in up /\ queue[n] # <<>>
     /\ queue' = [queue EXCEPT ![n] = Tail(@)]
     /\ \/ Done(w, cb) /\ UNCHANGED work
        \/ (Done(w, cb) => deploy.redis) /\ work' = [work EXCEPT ![w] = job]
     /\ UNCHANGED <<deploy, now, up, ticked, lease, keys, local, pushing, history, crashes>>

At(w, next) == work[w] # Idle /\ work[w].next = next
Goto(w, next) == work' = [work EXCEPT ![w].next = next]
Rest(w) == work' = [work EXCEPT ![w] = Idle]

\* Mutant: the key is not looked up before it is set.
Acquire_Unchecked(w) ==
  LET cb == work[w].cb
  IN /\ At(w, "acquire")
     /\ IF deploy.redis
        THEN keys' = [keys EXCEPT ![cb] = now] /\ UNCHANGED local
        ELSE local' = [local EXCEPT ![Home(w)] = @ \union {cb}] /\ UNCHANGED keys
     /\ begun' = [begun EXCEPT ![cb] = @ + 1]
     /\ Goto(w, "run")
     /\ UNCHANGED <<deploy, now, up, ticked, lease, pushing, queue, settled, crashes>>

\* SETNX, or the test and the entry in the map under its mutex.
Acquire(w) ==
  LET cb == work[w].cb
  IN /\ At(w, "acquire") /\ ~Done(w, cb)
     /\ IF deploy.redis
        THEN keys' = [keys EXCEPT ![cb] = now] /\ UNCHANGED local
        ELSE local' = [local EXCEPT ![Home(w)] = @ \union {cb}] /\ UNCHANGED keys
     /\ begun' = [begun EXCEPT ![cb] = @ + 1]
     /\ Goto(w, "run")
     /\ UNCHANGED <<deploy, now, up, ticked, lease, pushing, queue, settled, crashes>>

\* Mutant: a worker that finds the key held notes it as its own.
AcquireFails_MarksLocal(w) ==
  /\ At(w, "acquire") /\ (deploy.redis \/ Done(w, work[w].cb))
  /\ Rest(w)
  /\ local' = [local EXCEPT ![Home(w)] = @ \union {work[w].cb}]
  /\ UNCHANGED <<deploy, now, up, ticked, lease, keys, pushing, queue, history, crashes>>

\* Somebody has the key by now, or Redis fails.
AcquireFails(w) ==
  /\ At(w, "acquire") /\ (deploy.redis \/ Done(w, work[w].cb))
  /\ Rest(w)
  /\ UNCHANGED <<deploy, now, up, ticked, lease, keys, local, pushing, queue, history, crashes>>

\* SETNX took effect and its answer is lost: nobody runs what the key says is
\* done.
AcquireLost(w) ==
  LET cb == work[w].cb
  IN /\ At(w, "acquire") /\ deploy.redis /\ ~Done(w, cb) /\ Rest(w)
     /\ keys' = [keys EXCEPT ![cb] = now] /\ settled' = settled \union {cb}
     /\ UNCHANGED <<deploy, now, up, ticked, lease, local, pushing, queue, begun, crashes>>

\* An end: the top records are read and go to the reward hook.  A reset: the
\* records are archived, a tournament's size becomes 0, the reset hook is called.
\* What a hook answers is logged.
Run(w) ==
  /\ At(w, "run") /\ Rest(w)
  /\ settled' = settled \union {work[w].cb}
  /\ UNCHANGED <<deploy, now, up, ticked, lease, keys, local, pushing, queue, begun, crashes>>

\* The records cannot be read: the key stays, and nobody tries again.
FetchFails(w) ==
  /\ At(w, "run") /\ work[w].cb[2] = "tournament_end" /\ Rest(w)
  /\ settled' = settled \union {work[w].cb}
  /\ UNCHANGED <<deploy, now, up, ticked, lease, keys, local, pushing, queue, begun, crashes>>

\* A node stops: its queue, its workers' callbacks and its maps are gone.
Crash(n) ==
  LET mine == {w \in Worker : Home(w) = n}
  IN /\ n \in up /\ crashes < MaxCrash
     /\ crashes' = crashes + 1
     /\ up' = up \ {n} /\ ticked' = ticked \ {n}
     /\ pushing' = [pushing EXCEPT ![n] = {}] /\ queue' = [queue EXCEPT ![n] = <<>>]
     /\ local' = [local EXCEPT ![n] = {}]
     /\ begun' = [cb \in Callback |-> IF cb \in local[n] THEN 0 ELSE begun[cb]]
     /\ work' = [w \in Worker |-> IF w \in mine THEN Idle ELSE work[w]]
     /\ settled' = settled \union {work[w].cb : w \in
                     {v \in mine : work[v] # Idle /\ work[v].next # "acquire"}}
     /\ UNCHANGED <<deploy, now, lease, keys>>

Start(n) ==
  /\ n \in {Home(w) : w \in Worker} \ up
  /\ up' = up \union {n}
  /\ UNCHANGED <<deploy, now, ticked, lease, keys, local, pushing, queue, work, history, crashes>>

UpdateStep(n) ==
  \/ \E failed \in SUBSET Families : Update(n, failed) \/ LoadFails(n, failed)
  \/ \E cb \in pushing[n] : Push(n, cb)

WorkerStep(w) ==
  Take(w) \/ Acquire(w) \/ AcquireFails(w) \/ AcquireLost(w) \/ Run(w) \/ FetchFails(w)

ScheduleNext ==
  \/ TimePasses
  \/ \E n \in Node : UpdateStep(n) \/ Crash(n) \/ Start(n)
  \/ \E w \in Worker : WorkerStep(w)

(* Tickers tick and load their tournaments at last, an update gets through   *)
(* what it found, workers work, a node that stopped is started again, and    *)
(* Redis does not fail each time a worker asks for a key.                    *)
ScheduleFairness ==
  /\ WF_schedVars(TimePasses)
  /\ \A n \in Node : /\ WF_schedVars(Start(n)) /\ WF_schedVars(Update(n, {}))
                     /\ WF_schedVars(\E cb \in pushing[n] : Push(n, cb))
  /\ \A w \in Worker : WF_schedVars(WorkerStep(w)) /\ SF_schedVars(Acquire(w))

ScheduleSpec == ScheduleInit /\ [][ScheduleNext]_schedVars /\ ScheduleFairness

-----------------------------------------------------------------------------
\* When the occurrences of a board expired, up to now.
ExpiredOf(b) == {CalculateTournamentDeadlines(b, t).expiry : t \in 1 .. now} \cap 1 .. now

Held(cb) == keys[cb] > 0 \/ \E n \in Node : cb \in local[n]

(* Rewards and resets run once for each life of their key: two leaders, two  *)
(* workers or an update that queues again what is already queued do not      *)
(* reward an occurrence twice (the keys of isAlreadyRewarded,                *)
(* tryAcquireRewardLock and their reset twins).                              *)
RunsOncePerKey ==
  \A cb \in Callback : begun[cb] <= IF Held(cb) THEN 1 ELSE 0

(* Again and again, whatever is due was run, or somebody took its key and    *)
(* died or failed with it, or as much of it as the queue holds: an update    *)
(* queues what is due until a key says that it is done, so a failing Redis,  *)
(* a leader that crashed or a callback lost with its queue only delay it,    *)
(* and a full queue does when it has room for all that is due.               *)
DueIsRun ==
  []<>(LET due == Due[table][now]
           done == due \cap settled
       IN done = due \/ Cardinality(done) >= QueueCap)

(* "RewardHook is triggered when a tournament active window ends."           *)
(* (tournament.go:26).                                                       *)
EndsRewarded ==
  \A cb \in Callback :
    (cb[2] = "tournament_end" /\ cb \in Due[table][now]) ~> (cb \in settled)

(* "ResetHook is triggered when a tournament occurrence resets/expires"      *)
(* (tournament.go:29).                                                       *)
OccurrencesReset ==
  \A i \in 1 .. MaxBoards, e \in 1 .. MaxTime :
    (i \in DOMAIN table /\ IsTournament(table[i]) /\ e \in ExpiredOf(table[i]))
      ~> (<<i, "tournament_reset", e>> \in settled)

(* What OccurrencesReset comes up against: the deadlines are those of the     *)
(* occurrence of the present, so that no occurrence is reset for having       *)
(* expired. The reset hook is called for the end_time of a tournament only.   *)
ResetsAtEndTimeOnly ==
  \A cb \in settled : cb[2] = "tournament_reset" => cb[3] = table[cb[1]].end
=============================================================================
