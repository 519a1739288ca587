# A TLA+ development of Ultimate Game Server

The game server in `src/` is one Go process, or a cluster of them behind Redis,
that keeps players in parties, matches them, runs authoritative matches, knows
who is online, and stores groups, friends, scores, wallets and objects in
PostgreSQL. This directory holds models of its stateful core, the TLC runs that
check them and TLAPS proofs about them.

`tlc -config <run>.cfg <module>.tla` repeats a run and `tlapm <module>.tla`
a proof. `PROJECT.json` lists the runs, the source lines each definition
stands for, the mutants that show that each property can fail, the findings
and the hazards.

## 1. The system and its parts

Paths are under `src/internal/`. The state is in memory unless noted.

| Part | State | Operations | What is hard | What makes it correct |
|---|---|---|---|---|
| Party registry, `party/party.go` | parties with members, join requests and leader; the party of a user (`byUser`) and of a session (`bySess`) | create, join, leave, disconnect, promote, accept, remove, close, update, idle sweep | three maps updated entry by entry; an Accept that pulls a user out of another party; requests that outlive what they were checked against | a party is led by a member, the maps agree, sizes hold, the ticket hook is called at each change |
| Party messages, `socket/socket_party.go`, `socket/socket.go` | stream tracker entries | one handler per message; the handlers of different sessions run at once | two-step handlers (read the party, submit a ticket); cleanup after a disconnect | tickets list the party as it is; nothing of a gone session stays |
| Matchmaker, `matchmaker/` | ticket map, a ticket set per session, status map, tokens; copies in Redis | submit, cancel (by ticket, party, session), a periodic Tick over the queues | greedy groups with the ranges and multiples of every ticket; hooks that replace the groups; expiry; a lease among nodes | each ticket is matched once, with a group all of its tickets accept, or goes; the maps agree |
| Match loop, `match/loop.go` | presences, channels of joins, leaves, signals, inputs and deferred broadcasts | a tick that drains them in turn and calls the game code; calls that queue requests | requests that arrive in the middle of a tick, time out or find a queue full; handlers that panic | the game code hears of each presence once; who left is out |
| Match messages, `socket/socket.go` | `Session.matchIDs`, relayed matches | MatchJoin, MatchLeave, match data, disconnect | the join runs in a goroutine that may outlive its session | no presence without a session |
| Match router, `match/grpc_mesh.go` | match loops by id; metadata in Redis | create, register, unregister, list, update a label, look up | lock order with the loops; a limit checked before the lock is taken again | an ended match is unregistered; the limit holds up to overlaps |
| Connection registry, `socket/socket.go` | sessions and grace timers | add, grace period, send | reconnection against timer and late disconnect | the registry holds the connection that is served |
| Presence, `presence/`, `socket/socket_status.go` | streams by session, followers, online sessions | track, follow, an event queue with one worker | a full queue reorders events | a user is shown online exactly while online |
| Groups, `social/groups.go` | SQL: two rows per member, a count | one transaction per call, READ COMMITTED | roles and counts read without a row lock | a group keeps a superadmin; counts match the rows |
| Friends, `social/friends.go`, `import.go` | SQL: two rows per pair, a count per user | one transaction per call | a block between the reads and the writes of an invite | the two rows of a pair fit; a block stands |
| Leaderboards, `leaderboard/` | SQL: records and a count per board; a list and a rank cache per node | submit, join, delete, reset, cache build, invalidation by Redis | what follows a commit is done later, and in another order | a board does not overflow; a settled cache shows the table |
| Tournaments, `tournament/`, `leaderboard/deadlines.go` | a queue per node, keys and a leader's lease in Redis | periodic update, workers, reward and reset callbacks | two leaders, full queues, crashes between key and reward, lapsing keys | a callback runs once for each life of its key, and is not forgotten while the queue has room |
| Wallet and storage, `economy/`, `storage/` | SQL: balances, ledger, objects; an index per node | batches in one transaction, writes that name a version, MultiUpdate | lock order, lost updates, an index told after the commit | a balance is explained by its ledger; a named version is what is replaced |
| Session tokens, `auth/session_store.go` | refresh tokens, families, revoked users | register, rotate, revoke | rotation is two calls | not modelled, see section 7 |
| Cron and cluster, `runtime/cron_*.go`, `cluster/mesh.go` | a lease in Redis; publish/subscribe | acquire, run jobs; fan-out | lease expiry, lost messages | the lease is part of `TournamentSchedule`; the mesh is not modelled |
| Chat, notifications, accounts, purchases, console, API, runtimes, fleet, Satori, configuration | SQL, external services | request handlers | mostly SQL and I/O | not modelled, see section 7 |

The parts interact in four ways. The socket gateway calls the registry, the
matchmaker, the router and the match loops. The registry calls the matchmaker
back, with its own mutex held (`SetMembershipChangeHook`, installed in
`api/server.go`), to cancel the tickets of a party that changed. The matchmaker
and the loops call game code with their mutex held; that game code may call the
router. A disconnect goes through all of them in order: status, streams,
channels, party, grace period, then a cleanup that covers tickets and matches.
The parts behind SQL share nothing in memory, and meet in the rows they lock.

## 2. Plan

Done, in the order of the work:

1. `Party`, `PartyGateway`: the registry and its use. Proofs: `PartyProofs`,
   `PartyGatewayProofs`.
2. `MatchPool`, `Matchmaker`: the abstract pool and the matchmaker that
   implements it. Proofs: `MatchmakerProofs`.
3. `MatchLoop`, `MatchGateway`: an authoritative match and its clients. Proofs:
   `MatchProofs`.
4. `Users`, `Groups`, `Friends`: the social tables under transactions that
   overlap. Proofs: `SocialProofs`.
5. `TournamentSchedule`: the scheduler with lease, keys and crashes. Proofs:
   `TournamentScheduleProofs`.
6. `Leaderboards`: records, count and caches. `Economy`: wallets, ledger,
   objects and their index. Proofs of both: `RecordsProofs`.
7. `MatchRouter`: the locks of router and loops. `SessionStatus`: connections,
   grace timers, streams, the status queue. Proofs: `NodeProofs`.

Open, in order of worth: the mutexes of registry and matchmaker against the
match hook (`party.go:204`), in the manner of `MatchRouter`; the Redis mode of
the matchmaker (copies, the lock of 800 ms, join tokens); relayed matches;
rotation against revocation of session tokens.

## 3. The modules

A module named `MC...` puts one or two modules that share no state into one
run: its variable `scene` says which of them a behaviour plays. That keeps the
runs few; it couples nothing.

### Party

`reg` is the Go `Registry` as one record: `parties`, and per party `leader`,
`open`, `maxSize`, `members`, `requests` (functions from users to the session
they came with), then `byUser` and `bySess`. `JoinedAt` is compared only, so
the relation `joinedBefore` stands for it. `notified` is the set of parties the
hook was called for in the last step. Each exported method holds the mutex for
its whole body, so it is one action; what the methods share (`leaveLocked`, the
insertion of a member, the deletion of a party) are operators from registries
to registries, composed in the order of the code. `LeaveSession` finds its party
through `bySess`, as the code does, and not by searching the members; that is
why `IndexesAgree` matters. Calls that return an error change nothing and are
not steps.

### PartyGateway

The handlers of different sessions interleave, those of one session do not.
`pending` says what a handler has still to do: submit the party ticket it built
from a snapshot (`ReadParty`, then `SubmitParty`), or cancel the tickets of a
session that disconnected. The hook runs in the step of the registry call, as
the code holds the mutex. `overtaken` is a history field on tickets.

### MatchPool, Matchmaker

`MatchPool` is the promise: tickets enter once, and leave for nothing or in one
match, which is acceptable to all of its tickets unless game code chose it.
`formed` holds the matches made of tickets that wait.

`Matchmaker` has the three maps `pool`, `owned`, `status`. A client's call is a
step. A Tick holds the mutex, so no client's call falls into it, but it is a
loop over queues (`LoadQueue`), seeds (`TrySeed`), hooks (`Groups`) and groups
(`Finalize`): its iterations are steps and `tick` is its local state. Which
tickets a seed considers, and in what order, depends on queries and skill, so
the model takes every list of candidates that the loop's checks admit
(`CandidateLists`); the greedy trimming to the seed's multiple is then exactly
the code's. What the hooks return is a constant operator, `Hooks`, of the
tickets they were shown and those they have seen before: any groups of any
tickets, since nothing in the code checks them. `Finalize` announces such a
group as well, takes out of the pool what is in it, and enters the match in
`formed` only if all of its tickets wait; the others are outside the promise.
The error of `mintMatchToken` is left out: it is that of `crypto/rand`, which
does not fail.

### MatchLoop, MatchGateway

`tick.stage` is where the loop stands; every iteration of its drain loops is a
step, because requests arrive without the mutex. `roster` is what the game code
has heard from MatchJoin and MatchLeave. A `JoinAttempt` is three steps: look
at the presences, send, wait for answer or time-out. `Panic` may happen
wherever a handler runs; it abandons the tick, as the deferred recovery does.
`MatchGateway` adds the sessions: a MatchJoin is a goroutine of its own
(`call`), `matchIDs` is written when it ends, `Cleanup` follows `Disconnect`.
`excused` is a history variable: the sessions for which a presence may be left
over, because a join timed out, was under way at the cleanup, or a leave was
dropped at a full queue.

### MatchRouter

`matches` is the router's map, `lock` its RWMutex and that of every loop. A
lock is a record with Go's semantics: the `readers` inside, those `waiting`
because a `writer` holds the lock or was announced, and the `writers` that
queue behind. A match id is first the call that creates it, then the goroutine
of its loop. The order of the locks is the code's: a listing holds the router's
read lock while it takes that of each loop; `terminate` holds the lock of its
loop while `onEnd` takes the router's; a handler, under the lock of its loop,
may update its label or list the matches, as the game code likes. The limit on
matches is checked under the read lock, again for a Go match under the write
lock, and not when the match is entered. `crowd` is a history variable: how
many creations were at once past their last check. The two counts that a Lua
match is checked against are taken as one step.

### SessionStatus

A connection (`Conn`) has a reader goroutine, whose place is `at`, and an
object; the registry, the tracker and the follows know only its session. A
grace timer is `armed` while Stop can still reach it, and then one of the
`loose` functions of its session, which run at any later time; one that runs
late finds the state that later connections made. The user of a session does
not change: that `socket.go:612` takes the session id from the client, whosever
it is, and the index of sessions by user are left out. The status events go
through `eventsCh`; one that finds it full is left to a goroutine (`late`), and
may be overtaken. Histories: `closed` connections (a full send buffer),
`crossed` ones (two of one session at once), `overtaken` sessions.

### Users, Groups, Friends

The calls run READ COMMITTED, each in a transaction of several statements. In
`Groups` a call is two steps, its reads (with the guards that the code checks
on what it read) and its writes; between them `tx` remembers what was read and
whether the group's row is locked (JoinGroup and AddGroupUsers select it FOR
UPDATE). `role` and `mine` are the rows of the two directions. `excuse` is a
history variable: `"stale"`, some transaction wrote after a role that it had
read was changed; `"server"`, the server, which may remove anybody, did.
In `Friends` only an invite is two steps: its INSERT looks for a block, then
waits for rows that others write; every other call begins with a statement
that locks what it decides by. An import is one step for each friend. `broken`
is a history variable: an invite was written after a block that it did not see
(`"overtaken"`), or an import wrote across one's own block (`"imported"`).
The runs do not explore what follows (`NothingBroken`): the properties excuse
it, and the states beyond are many.

### TournamentSchedule

The unit of time is the 30 s of the safety ticker; every node that is up
updates at least once in it. Timers at the deadlines only add updates. The
lease of 15 s has lapsed by the next unit, so it is free then; `TryAcquire`
fails open when Redis does. A behaviour is that of one of the `Deployments`: a
table of boards, with Redis or without, and the node of each worker. `Due` is
what is due in a table at a time: it is computed from the configuration of the
boards (`DueOf`) and the time alone, as `Update` reads the boards anew each
time; that another node changes them is not modelled. `Update` finds what is
due of all boards that its node leads (`pushing`), or fails to load them
(`LoadFails`). `Push` queues it, one callback after the other; the boards come
in any order, for the query states none, and what finds the queue full is
dropped. An update is repeated within a unit only when the queue is empty,
since it would queue what is there again. A worker asks for the key, sets it
(Redis, or the map of its process; the answer of Redis may be lost,
`AcquireLost`), and then reads, rewards, archives and calls the hook; the
latter are one step `Run`, for nothing else looks at what they write in
between. A node may crash at any step. Two history variables: `begun` counts
the workers that went to work on a callback since its key was last free,
`settled` has the callbacks whose hook was called, or whose key was taken for
nothing, by a crash, a failed read or a lost answer.

### Leaderboards

One board. A submission is its reads, its writes with the commit, then the rank
cache and the invalidation message, each a step. `BeginSubmit` holds the
board's row FOR SHARE, and the update of its size needs it for itself: two
submissions that overlap wait for each other, and the database fails one
(`leaderboard.go:475`; `AbortSubmit`). The list of a node is built with its
mutex held from the query to the store (`building`); the ranks are changed
without it. A reset puts the size of a tournament to 0, and leaves that of
another board (`archive.go:56`). `silent` is a history variable: the caches
that the code tells nobody to drop after the last change, because the call does
not publish (a join, a deletion on another node, a manual reset, a score of the
runtime).

### Economy

A request is a set of numbered statements, as MultiUpdate has them: account
updates, writes, deletes and changes of wallets; the other calls have one of
the four. `Statements` adds the SELECT ... FOR UPDATE that reads each wallet
once before the changes; `Precedes` is the order of the statements, and `Turn`
is what an open transaction may run next. The writes and deletes of objects are
sorted (`Rank`, `Place`). The wallets of a batch are read in any order:
`wallet.go:151` sorts the ids, but then locks the rows by one SELECT without
ORDER BY, in the order in which the database comes by them. Each statement is a
step that takes the lock of its row (`lock`), sees the transaction's own
changes (`mine`) and otherwise what is committed (`stored`, `wallet`); a
balance is read, then changed statement by statement, and checked after each
change; balances wrap at `HalfRange`, as the 64-bit additions do. `Commit`
writes it all. The storage index is told object by object after the commit, and
has what its filter keeps (`Kept`); the filter, the document or the writer may
fail, which nobody hears of (`IndexFails`). `missed` is a history variable: the
objects whose entry may be stale, by the code's own order of calls or such a
failure. (`Put` and `Over` are `:>` and `@@` written out, which the prover does
not know.)

## 4. The runs

| Run | Question | Bounds | Result |
|---|---|---|---|
| `party` | are leaders, maps, sizes and hook calls right after any sequence of calls? do party tickets follow the parties? does the registry hold the connection that is served, and does the status settle? | registry: 3 users, one with 2 sessions; 3 parties; sizes 2 and 3, one request refused for its size. Gateway: 2 users, 3 sessions, 2 parties of two, 1 ticket. Sessions: 2 sessions of one user, 3 connections, two of them in a behaviour; a queue of one event, one goroutine that waits | holds; 787 thousand states |
| `party_left_request` | does a disconnect take the join request with it? | 2 users, 3 sessions, 2 parties of two | violated, see section 6 |
| `matchmaker` | do the maps agree, does it implement `MatchPool`, does every ticket leave the pool? | 4 tickets of 2 sessions, two of one party, an exact size, a multiple of two, a ticket of two players; limit 2; 2 intervals; hooks that return nothing, two overlapping groups of what they were shown, or a ticket seen before | holds; 238 thousand states |
| `match_gateway` | do the game code and the loop agree, are the gone out, is a queued leave carried out? | 2 sessions, 2 joins of one of them, queues of one request, 1 deferred broadcast | holds; 860 thousand states |
| `match_ghost` | does a disconnect end the presence? | 2 joins, queues of two | violated, see section 6 |
| `node` | is an ended match unregistered, does its limit hold? does a callback run once for each life of its key, and is what is due run? | router: 2 matches (Go and Lua), limit 1, a lister, a visitor. Schedule: 6 tables of one or two boards, of seven kinds; 2 nodes with Redis or one without; 2 workers, a queue of 2 and up to 3 callbacks due, 3 units, keys of 2, one crash | holds; 207 thousand states |
| `listing_deadlock` | does every match that ends leave the registry? | as in the scene of the router | violated, see section 6 |
| `social` | which rules of counts, rows, ranks and blocks stand under every interleaving? | 3 users, 2 transactions; limits of 1 and 2 members; additions of two and bans of one user at a time; 1 friend and 1 open invite each | holds; 507 thousand states |
| `friends_mutual` | is everybody in a list of friends a friend of its owner? | as above | violated, see section 6 |
| `occurrence_reset` | is the reset hook called for each occurrence that expired? | recurring tournaments and a leaderboard; one node, 2 workers, a queue of 2, 3 units, no crash | violated, see section 6 |
| `ends_starved` | is every tournament that ends rewarded at last? | two tournaments, 3 callbacks due and a queue of 2; one node, no crash | violated, see section 6 |
| `records` | does a board stay within its size, do caches, index and ledger follow the tables, do sorted batches avoid deadlock? | board: 2 owners, 2 nodes, size 1, 2 calls at a time and 3 in all; its places and its caches in a scene each. Economy: 2 wallets, 2 objects, a filter that keeps one of 2 values, 9 requests, 2 transactions at a time and 3 in all | holds; 2.24 million states |

Why the bounds are enough. In `party`, a user can be in a party, a requester of
a second one and the leader of a third; a party of three has a leader, an heir
and another; a second session shows that `members` records the session that
joined. In the matchmaker, the party tickets exclude each other, trimming drops
candidates, tickets with one player and with two compete, and the hooks return
overlapping groups, of tickets that wait and of tickets that are gone. In the
match, queues of one request make a full queue and a dropped leave frequent,
two joins of one session meet in one tick, and a second session's leaves stand
in the way. In the router every circle of waits has two or three goroutines (a
listing, a loop, a creation or label update between them), and all kinds are
there; two creations with a limit of one overlap. Of the connections, two are
enough to cross or to follow one another, in the same session or in two, and
one late event to overtake. The transactions of the social tables, the board
and the economy conflict in pairs; three users are a superadmin, an admin and a
member, or a pair and an onlooker whose count must not move. The board has two
scenes: a board that must be joined, where no node builds a cache, for the
places, and a board that need not be, empty at first, for the caches. To ask
for a join only takes steps away, and a cache that is built changes no record,
so that neither scene hides the other's errors; `RecordsProofs` covers every
board. The boards of the schedule are of every kind the deadlines tell apart,
and three units let an occurrence end and the next begin; one table has more
that is due than the queue holds, the others have not.

Deadlock is not checked in `match_gateway` and `match_ghost`, which stop when
the match has ended and its sessions are gone, in `party`, which stops when the
connections are used up, nor in `node` and `listing_deadlock`, which stop when
the matches are used up, and where the router really may deadlock:
`EndedIsUnregistered` is about that. The bounds of the `records` run end in
steps that rest, so that deadlock is checked; that the database breaks a circle
of transactions is a step there (`FailTxn`), so that circles are what
`BatchesDoNotDeadlock` speaks of.

Symmetry is used in `party` (party ids), `social` (users, requests) and
`records` (owners, requests, nodes), which check no liveness. The CONSTRAINT of
`social` stops where a pair is broken or a stale write done, that of `party`
where a second goroutine waits for room in the queue.

## 5. Fairness

* `matchmaker`: weak fairness of `TickStep`, since the goroutine that `Start`
  runs calls `Tick` at every tick of its timer and a Tick has no unbounded
  loop; and of `GrowOld`, the passing of time. No fairness of the clients or
  the hooks' choices, so a ticket may be passed over for ever; it then expires.
* `match_gateway`: weak fairness of `LoopStep`, the loop's own steps: `Start`
  waits on a ticker, and a tick runs to its end. Clients, joins, kicks and
  panics owe nothing. FIFO order puts a leave before the later requests.
* `node`, in the scene of the router: weak fairness of the steps of each
  goroutine. It says that a goroutine that need not wait goes on, that a
  handler returns and a match with an ended loop reaches `terminate`. Who gets
  a lock among those who wait is not assumed: Go's RWMutex lets the readers in
  that wait at an Unlock, and then the next writer, and the model does so.
* `node`, in the scene of the schedule, `occurrence_reset` and `ends_starved`:
  weak fairness of time, of `Start` (a node that crashed is started again), of
  an `Update` in which neither Redis nor the database fails (the tickers go on,
  so that one succeeds at last), of `Push` and of what a worker does; strong
  fairness of `Acquire`, for Redis fails now and then but not each time it is
  asked. An order in which `Push` takes the boards is not assumed. A fetch that
  fails or an answer that is lost is not excluded: it wastes the key, and
  `DueIsRun` counts the callback as settled.

## 6. Findings

* `party.go:402` says that `LeaveSession` "removes the session from whatever
  party it is in", and has a branch for a "Pending join request only". A
  request is not entered in `bySess`, by which `LeaveSession` looks, so the
  branch is dead for it: the request survives the disconnect and can still be
  accepted (`party_left_request`).
* `socket.go:749` calls what follows a disconnect "matchmaker/match cleanup".
  A join that is accepted after the cleanup read `matchIDs` leaves a presence
  that nobody takes out (`match_ghost`); while it is there, the idle quota does
  not end the match. `GoneAreOut` shows that this overtaking, a join that timed
  out and a leave dropped at a full queue are the only causes.
* `friends.go:378`: "GetFriends returns all active mutual friends". An import
  (`import.go:168`) does not ask for one's own block, leaves it and invites the
  blocked user; when that user then adds the importer, one row of the pair is
  accepted (`friends_mutual`). `EdgesFitTogether` shows that such an import, and
  an invite that a block overtakes, are the only ways to a pair that does not
  fit.
* `tournament.go:29`: "ResetHook is triggered when a tournament occurrence
  resets/expires". `Update` (`tournament.go:200`) asks for the deadlines of the
  present occurrence, whose expiry is always ahead, so a recurring tournament is
  reset at its end time only (`occurrence_reset`).
* `tournament.go:26`: "RewardHook is triggered when a tournament active window
  ends". A tournament without a schedule that has ended is due for ever:
  `Update` queues it each time, its reset too if it has an end time, and only
  the worker asks whether it was done. When more is due than the queue holds
  (1024, `tournament.go:266`), the rest is dropped; the tournaments are read in
  no order of their own, and if it is the same one each time, those at the end
  are never rewarded (`ends_starved`: with a queue of three in the place of two,
  the property holds). `DueIsRun` shows that a queue with room for what is due
  leaves nothing out, and that a full one is not stuck.
* `grpc_mesh.go:185` says that `Unregister` removes a match. On a node without
  Redis a listing holds the router's lock and waits for that of a loop whose
  `terminate` waits for the router's (`grpc_mesh.go:292`, `listing_deadlock`).
  `EndedIsUnregistered` shows that only circles through a listing do that.

The properties that hold name what they except, in history variables. What
that says of the code, beside the findings:

* Two overlapping submissions to one board always deadlock in the database
  (FOR SHARE, then an update of the same row), and one of them fails. The size
  of a board is not lowered by deletions; a manual reset that overlaps a join
  and a submission may leave the size above the records, and between its two
  statements the board admits too many (`halfReset`). Joining again puts the
  cached rank to score 0. Joins, deletions, manual resets and the runtime's
  scores tell no other node (`silent`), and `RecordsDeleteAll` leaves its own
  node's list.
* A worker that dies, or fails to read the records, after it set the key loses
  the reward, and so does an answer of Redis that is lost (`settled`); keys last
  24 h, so that a tournament with no end time that is over is rewarded once a
  day (`begun` starts anew when a key lapses). An end is capped to the expiry of
  its occurrence (`deadlines.go:49`): where the duration is the whole period it
  is never due, and where an update comes too late for an occurrence it is not
  due any more. Without Redis, and whenever Redis fails, every node leads.
* Storage: batches of objects are sorted and do not deadlock among themselves.
  Batches of wallets are locked in the order of a scan, and MultiUpdate locks
  accounts as given, then objects to write, objects to delete and wallets, so
  that two of these may wait for each other (`Sorted` says which plans are kept
  from it); the database fails one. The index may miss a change when two calls
  overtake each other after their commits, a trusted delete found nothing or the
  filter or the writer failed (`missed`), and it starts empty. A version is a
  hash of the value, so a value that was changed and changed back passes for the
  same (`storage.go:102`).
* Matchmaker: a hook may name tickets that are cancelled, expired or matched
  already, and `Finalize` announces the match (`process.go:117`). The pool, its
  indexes and the tickets that wait are as promised whatever it names.
* Sessions: a second connection of a session that overlaps the first is marked
  inactive by the late disconnect of the first, and its timer evicts it although
  `socket.go:187` asks for a session that did not reconnect (`crossed`); with no
  grace period, an inactive session stays in the registry. The comment at
  `status_registry.go:160` says that an event is dropped when the queue is full;
  it is sent late, and may be overtaken (`overtaken`).
* The limit on matches is exceeded by creations that overlap; a Lua match is
  checked once only (`crowd`).

## 7. What is proved, and what is not

All theorems hold for every value of the constants that the named assumptions
admit: finitely many users, an owner for each session, positive sizes
(`PartyAssumption`); well-formed tickets and positive limits
(`GatewayAssumption`, `MatchmakerAssumption`), hooks that return groups of
tickets, whichever (`HooksAssumption`); finitely many matches and a positive
limit (`MatchRouterAssumption`); queues of positive capacity
(`SessionStatusAssumption`, `MatchLoopAssumption`); finitely many users and
requests (`UsersAssumption`); positive limits of groups, friends and boards
(`GroupsAssumption`, `FriendsAssumption`, `BoardAssumption`); a balance of some
width, places that tell the objects of a batch apart, and positions that tell
its statements apart (`EconomyAssumption`); one node where there is no Redis
(`OneNodeWithoutRedis`), tables of boards that start within the times looked at
(`DeploymentsType`).

`PartyProofs`. The inductive invariant `IInv` is `RegInv /\ Sized`. The checked
invariants are not inductive alone: that the leader is a member survives a
departure only if `byUser` names no second party; that the maps agree survives
a departure only if sessions are listed under their owner (`OwnSessions`), and
a creation only if an id that is not in the registry has no member left over
(`Blank`). The methods are compositions of few operators, and so are the
proofs: an `...At` lemma says what an operator does to every entry, an `...Inv`
lemma that it preserves `RegInv`, a `...Good` lemma that an action keeps sizes
and calls the hook as well. Proved: `TypeOK`, `LeaderIsMember`, `IndexesAgree`,
`WithinMaxSize`, `NoMemberPending`, `HookOnMembershipChange`. For `Succession`
the invariant needs `Ordered`: of two members of a party one joined before the
other; the heir that `leaveLocked` looks for is then before all that stay.

`PartyGatewayProofs`. `GInv` is `IInv` of the registry and, of the gateway: each
ticket in the pool and each submission under way fits its party or is overtaken,
and a submission is of a session that is online. That the registry calls the
hook for every party whose members it changes (`Hooked`), and that a party has
a leader among its members, so that one that disappears changes its members,
makes what the hook leaves fit (`StillFits`). Proved: both invariants of the
gateway, and that the gateway implements `Party` (`GatewayImplementsParty`):
each of its steps is one of the registry or leaves it alone, the disconnect of
a session without a party because no party is empty (`IdleCallIsASweep`). So
what is proved of the registry holds under all interleavings of handlers.
`RequestsAreNotIndexed` is why `party_left_request` finds what it does: in
single-party mode `bySess` knows members only, and the branch of `LeaveSession`
for a request is never taken.

`MatchmakerProofs`. `IInv` adds three parts to the checked invariants.
`Limits`: the sets of the sessions are finite and bounded. `Ticking`: outside a
queue the Tick has nothing in hand, and its groups are acceptable unless
hooked. `MatchedForGood`: the tickets of an announced match have status
"matched", so that no submission brings them back, which is what the refinement
needs. Each step of the Tick preserves them because the mutex keeps the clients
out. Proved: `TypeOK`, `IndexesAgree`, `WithinTicketLimit`, and that the
matchmaker implements `MatchPool` (initial states map to initial states, each
step to a step of the pool or to none). What the hooks return is arbitrary in
all of this: a ticket that a group names and that does not wait changes none of
the maps, and the match is none of the pool's. That no ticket is in two matches
made of waiting tickets (`NoTicketMatchedTwice`) is proved of the pool, where
it is a matter of what is waiting, and carried over to the Tick by the
refinement.

`MatchProofs`. `IInv` is `TypeOK` with four parts. `Told`: what the game code
was told, plus the joins and less the leaves that the tick has in hand, is what
the loop holds; that yields `TickSettles` and `HandlersAlternate`. `Requests`:
what is queued is there once, and unanswered. `Reasons`: why a session is a
presence (the match is among its matches or will be, its leave is queued, or it
is excused). `Gone`: after its cleanup it makes no more calls.
Proved: all invariants of the run.

`NodeProofs`. `LimitUpToOverlap` is not inductive; `Reserved` is: the matches
and the creations past their last check together stay within the limit and the
crowd, because a check sees every match that was entered before it. `LockInv`
says where the locks are: a goroutine's place in the code determines which
locks it reads, writes or waits for (`RouterLocked`, `LoopLocked`, `LoopRead`),
and a `sync.RWMutex` has one writer or readers, and waiters only behind a
writer (`RWMutex`). Each call of the code is one of four ways to go on at the
router's lock or at a loop's. `OnlyListingsBlock` follows: without
`GetLocalMatches` a goroutine waits for the router only while it holds its own
loop at most, and nobody who holds the router waits, so that no circle closes.
That is the safety side of `EndedIsUnregistered`, for any number of goroutines.
For the sessions, `SessionInv` is `RegistryTyped`, `Crossing` (two connections
of a session that are both alive are in `crossed`) and the property itself.
`StatusSettles` speaks of quiet moments only; `StatusInv` says what holds on
the way there. `Attached`: where a connection stands says what its session has
in the tracker, which a session that is not crossed owes to one connection.
`Informed`: the last event of a session under way (among those that wait for
room or else, if none does, in the queue) says what the tracker holds, and the
cache does if none is under way. It lapses between a change of the tracker and
its event, and when an event overtakes another. `Counted`: the index counts the
cache. The lemmas on `Append`, `Tail` and `RemoveAt` say what becomes of the
last event when one comes, is applied, or finds room.

`SocialProofs`. For groups, `GroupInv` adds `Transactions` (an open transaction
is of an operation whose checks admit the roles that it saw), `RowHeld` (at
most one transaction holds the group's row, and what it compared with the limit
still holds) and `Absent` (a group that does not exist has neither rows nor
transactions) to the properties. For friends, each statement has an `...At`
lemma, which says what it does to the rows and counts of any graph, and a
`...Fit` lemma: it leaves a graph that fits one that fits. Counts change by the
rows of one pair (`RowGain`), and are positive where a row is (`Positive`),
which is why the guards against negative counts do not bite. `FriendsInv` needs
one thing more: an invite in a graph that fits never found half of a pair to
accept. Proved: all invariants and action properties of the run. The types of
both tables are proved of the specification of the run, of which every
behaviour is one of the groups and one of the friends (`BothTables`).

`TournamentScheduleProofs`. `RunsOncePerKey`: at most one worker has begun
while a key is held, and none while it is free. The invariant adds `OneStore`:
with Redis the maps of the processes are empty, without it the keys in Redis
are, and the maps are those of one node; that is why a worker that finds its
own store empty may conclude that nobody holds the key. `NoOccurrenceIsReset`
is why `occurrence_reset` finds what it does: a reset of a tournament that is
found, pushed, queued or in a worker's hands (`QueuesTyped`) is one that
`DueOf` computes at some time after the board's start (`DueOfBoard`,
`DueQueueable`), where the expiry that is looked up is that of the next
occurrence (`ExpiryAhead`); the reset hook is therefore called for a
tournament's end time only. The model writes `Due` as a function of a table and
then of a time, since the prover knows functions of one argument.

`RecordsProofs`, the economy. `EInv` says of each open transaction (`TxnOK`)
that its statements ran in the order of `Precedes` (`InOrder`), that it
remembers the last change of each object (`Mine`), that it holds the lock of
all it has changed, read or found (`Holds`), that what its first statements
found is still in the table (`Found`), and that the wallets are as it read them
but for its own changes (`Knows`); and of each lock that a statement that was
run holds it (`LocksOK`). The locks are why a commit of another transaction
disturbs none of this. Then `LedgerExplains` follows at each commit,
`ReplacesWhatItNames` from `Found`, and `BatchesDoNotDeadlock` from `InOrder`
with `LocksOK`: in a circle of transactions of any length, one is not `Sorted`.
Suppose that all are. A request that locks one row only holds none while it
waits, so nobody waits for it. Each of the others writes or deletes objects
alone, and waits for an object at a later place than those it has locked, so
that the one that waits at the first place would be waited for at an earlier
one (`FirstPlace`). `EntriesFollow` does for the index what `Informed` does for
the status: the last that is still to be told of an object is what is stored.
Proved: all properties of the economy.

`RecordsProofs`, the board. `BoardInv` is `TableTyped`, `CachesTyped` and
`Placed`: a board that must be joined has a place in its size for each record,
since a submission that read a record while it held the board's row writes it
before anybody else counts. `CacheInv` says of each node, at every step, that
its list and its ranks show the table, or that a message or a call that will
invalidate them is under way (`ListGoes`, `RankGoes`), or that nobody tells it
(`silent`). Proved: all properties of the board.

Only model-checked: the liveness properties (`TicketsResolve`, `LeaveHonoured`,
`DueIsRun`, `EndedIsUnregistered`), which are out of the prover's reach, and
what the runs that find a violation show (`EndsRewarded` and `OccurrencesReset`
are liveness properties too). The safety side of `EndedIsUnregistered` is
`OnlyListingsBlock`. Every invariant and action property of the other runs is a
theorem. `trimToMultiple` and `GroupSize` are folds in the model; the proofs
use only that what trimming keeps are candidates, and the check of every ticket
that follows it.

Not modelled. Names, labels, payloads, replies, broadcasts and metrics: no
property depends on them. The Redis mode of matchmaker and router, whose copies
and locks are a system of their own, and the session tokens, a map of families
whose rotation is two calls in one handler: open. Chat, notifications, accounts,
credentials, purchases and the console: their calls are single SQL statements or
transactions, or HTTP exchanges, whose substance is in the database or the other
service. Of the console, the import of an account overwrites a wallet without a
row of the ledger, and is outside `LedgerExplains`; so is an upsert of a
purchase, which clears a refund when it is validated again. API server, fleet,
Satori, configuration, metrics: I/O and wiring. The mesh between nodes: publish
and subscribe of Redis, of which the models take the loss and delay of messages
where a property depends on it (`Leaderboards`). Game code of Lua, JavaScript
and Go modules: a choice in the models, wherever the code calls it. Generated
code, most of the lines of the repository: none of it is logic.
