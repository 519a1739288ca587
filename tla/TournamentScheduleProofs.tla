--------------------- MODULE TournamentScheduleProofs ---------------------
(* Theorems about TournamentSchedule: callbacks run once for each life of   *)
(* their key, whatever the tables, nodes, workers and bounds.               *)
EXTENDS TournamentSchedule, SequenceTheorems, WellFoundedInduction, TLAPS

\* A set of numbers that is bounded below has a least one.
LEMMA MinIs ==
  ASSUME NEW W \in SUBSET Int, W # {}, NEW low \in Int, \A x \in W : low <= x
  PROVE  Min(W) \in W /\ \A y \in W : Min(W) <= y
<1> DEFINE R == OpToRel(<,Nat)
           V == {x - low : x \in W}
<1>1. IsWellFoundedOn(R, Nat) BY NatLessThanWellFounded, Zenon
<1>2. \A k, n \in Nat : k < n => <<k, n>> \in R BY DEF OpToRel
<1>3. V \subseteq Nat /\ V # {}
  <2>1. V \subseteq Nat OBVIOUS
  <2>2. V # {} OBVIOUS
  <2> QED BY <2>1, <2>2
<1>4. \A x \in W : x - low \in V OBVIOUS
<1>5. \A v \in V : v + low \in W OBVIOUS
<1> HIDE DEF R, V
<1>6. PICK v \in V : \A k \in V : <<k, v>> \notin R BY <1>1, <1>3, WFMin
<1>7. \A k \in V : ~(k < v) BY <1>2, <1>3, <1>6, Zenon
<1>8. v + low \in W /\ \A y \in W : v + low <= y
  <2>1. \A k \in V : v <= k BY <1>3, <1>7
  <2>2. ASSUME NEW y \in W PROVE v + low <= y
    <3>1. v <= y - low BY <1>4, <2>1
    <3> QED BY <1>3, <3>1
  <2> QED BY <1>5, <2>2
<1>9. \E x \in W : \A y \in W : x <= y BY <1>8
<1> QED BY <1>9, Zenon DEF Min

\* A set of numbers that is bounded above has a greatest one.
LEMMA MaxIs ==
  ASSUME NEW W \in SUBSET Int, W # {}, NEW high \in Int, \A x \in W : x <= high
  PROVE  Max(W) \in W /\ \A y \in W : y <= Max(W)
<1> DEFINE V == {-x : x \in W}
<1>1. V \in SUBSET Int /\ V # {} /\ -high \in Int
  <2>1. V \in SUBSET Int OBVIOUS
  <2>2. V # {} OBVIOUS
  <2> QED BY <2>1, <2>2
<1>2. \A x \in W : -x \in V OBVIOUS
<1>3. \A v \in V : -v \in W OBVIOUS
<1> HIDE DEF V
<1>9. \A v \in V : -high <= v
  <2>1. ASSUME NEW v \in V PROVE -high <= v
    <3>1. v \in Int /\ -v <= high BY <1>1, <1>3
    <3> QED BY <3>1
  <2> QED BY <2>1
<1>4. Min(V) \in V /\ \A v \in V : Min(V) <= v BY <1>1, <1>9, MinIs
<1>5. PICK m \in V : \A v \in V : m <= v BY <1>4
<1>6. -m \in W /\ \A y \in W : -m >= y
  <2>1. ASSUME NEW y \in W PROVE -m >= y
    <3>1. m <= -y BY <1>2, <1>5
    <3>2. m \in Int /\ y \in Int BY <1>1
    <3> QED BY <3>1, <3>2
  <2> QED BY <1>3, <2>1
<1>7. \E x \in W : \A y \in W : x >= y BY <1>6
<1>8. Max(W) \in W /\ \A y \in W : Max(W) >= y BY <1>7, Zenon DEF Max
<1> QED BY <1>8

-----------------------------------------------------------------------------
(* Runs and keys. *)

\* The types the counts rest on.
CountsTyped ==
  /\ deploy \in Deployments
  /\ now \in Nat /\ now > 0
  /\ keys \in [Callback -> Nat]
  /\ local = [n \in Node |-> local[n]]
  /\ begun \in [Callback -> Nat]

\* Keys are used with Redis, maps without it, and then those of one node.
OneStore ==
  /\ deploy.redis => \A n \in Node : local[n] = {}
  /\ ~deploy.redis => \A cb \in Callback : keys[cb] = 0
  /\ ~deploy.redis => \A n \in Node, w \in Worker : local[n] # {} => Home(w) = n

Inv == CountsTyped /\ OneStore /\ RunsOncePerKey

USE DeploymentsType, OneNodeWithoutRedis

\* The invariant holds at first.
LEMMA InitInv == ScheduleInit => Inv
  BY DEF ScheduleInit, Inv, CountsTyped, OneStore, RunsOncePerKey, Held

\* Most steps leave the counts and what they are compared with alone.
LEMMA Unchanged ==
  ASSUME Inv, UNCHANGED <<deploy, now, keys, local, begun>>
  PROVE  Inv'
  BY DEF Inv, CountsTyped, OneStore, RunsOncePerKey, Held, Home

\* Keys lapse with time, and what they counted begins anew.
LEMMA TimePassesInv == ASSUME Inv, TimePasses PROVE Inv'
<1> DEFINE out == {cb \in Callback : keys[cb] > 0 /\ now' - keys[cb] >= KeyTTL}
<1>1. /\ deploy' = deploy /\ local' = local
      /\ now' \in Nat /\ now' > 0
      /\ keys' = [cb \in Callback |-> IF cb \in out THEN 0 ELSE keys[cb]]
      /\ begun' = [cb \in Callback |-> IF cb \in out THEN 0 ELSE begun[cb]]
  BY DEF TimePasses, Inv, CountsTyped
<1> HIDE DEF out
<1>2. CountsTyped'
  BY <1>1 DEF Inv, CountsTyped
<1>3. OneStore'
  BY <1>1 DEF Inv, CountsTyped, OneStore, Home
<1>4. RunsOncePerKey'
  <2> SUFFICES ASSUME NEW cb \in Callback
               PROVE  begun'[cb] <= IF Held(cb)' THEN 1 ELSE 0
    BY DEF RunsOncePerKey
  <2>1. CASE cb \in out BY <1>1, <2>1
  <2>2. CASE cb \notin out
    <3>1. keys'[cb] = keys[cb] /\ begun'[cb] = begun[cb] BY <1>1, <2>2
    <3>2. Held(cb)' <=> Held(cb) BY <1>1, <3>1 DEF Held
    <3> QED BY <3>1, <3>2 DEF Inv, RunsOncePerKey
  <2> QED BY <2>1, <2>2
<1> QED BY <1>2, <1>3, <1>4 DEF Inv

\* A worker goes to work on a callback whose key nobody holds, and holds it.
LEMMA AcquireInv == ASSUME Inv, NEW w \in Worker, Acquire(w) PROVE Inv'
<1> DEFINE cb == work[w].cb
<1>1. /\ deploy' = deploy /\ now' = now
      /\ begun' = [begun EXCEPT ![cb] = @ + 1]
      /\ ~Done(w, cb)
      /\ IF deploy.redis
         THEN keys' = [keys EXCEPT ![cb] = now] /\ local' = local
         ELSE local' = [local EXCEPT ![Home(w)] = @ \union {cb}] /\ keys' = keys
  BY DEF Acquire
<1>2. Home(w) \in Node
  BY DEF Inv, CountsTyped, Home
<1>3. CountsTyped'
  <2>1. keys' \in [Callback -> Nat]
    BY <1>1 DEF Inv, CountsTyped
  <2>2. local' = [n \in Node |-> local'[n]]
    BY <1>1 DEF Inv, CountsTyped
  <2>3. begun' \in [Callback -> Nat]
    <3>1. begun' = [c \in Callback |-> IF c = cb THEN begun[c] + 1 ELSE begun[c]]
      BY <1>1 DEF Inv, CountsTyped
    <3>2. \A c \in Callback : begun[c] \in Nat /\ begun[c] + 1 \in Nat
      BY DEF Inv, CountsTyped
    <3> QED BY <3>1, <3>2
  <2> QED BY <1>1, <2>1, <2>2, <2>3 DEF Inv, CountsTyped
<1>4. OneStore'
  <2>1. CASE deploy.redis
    BY <1>1, <2>1 DEF Inv, OneStore
  <2>2. CASE ~deploy.redis
    <3>1. \A v \in Worker : Home(v) = Home(w)
      BY <2>2 DEF Inv, CountsTyped, Home
    <3>2. \A n \in Node : local'[n] # {} => n = Home(w) \/ local[n] # {}
      BY <1>1, <1>2, <2>2 DEF Inv, CountsTyped
    <3> QED BY <1>1, <2>2, <3>1, <3>2 DEF Inv, OneStore, Home
  <2> QED BY <2>1, <2>2
<1>5. ~Held(cb)
  BY <1>1 DEF Inv, OneStore, Held, Done
<1>6. RunsOncePerKey'
  <2> SUFFICES ASSUME NEW c \in Callback
               PROVE  begun'[c] <= IF Held(c)' THEN 1 ELSE 0
    BY DEF RunsOncePerKey
  <2>1. begun[c] \in Nat /\ begun[c] <= IF Held(c) THEN 1 ELSE 0
    BY DEF Inv, CountsTyped, RunsOncePerKey
  <2>2. Held(c) => Held(c)'
    BY <1>1, <1>2 DEF Held, Inv, CountsTyped
  <2>3. CASE c = cb
    <3>1. begun'[c] = begun[c] + 1 BY <1>1, <2>3 DEF Inv, CountsTyped
    <3>2. Held(c)'
      BY <1>1, <1>2, <2>3 DEF Held, Inv, CountsTyped
    <3> QED BY <1>5, <2>1, <2>3, <3>1, <3>2
  <2>4. CASE c # cb
    <3>1. begun'[c] = begun[c] BY <1>1, <2>4 DEF Inv, CountsTyped
    <3> QED BY <2>1, <2>2, <3>1
  <2> QED BY <2>3, <2>4
<1> QED BY <1>3, <1>4, <1>6 DEF Inv

\* A key whose answer is lost is held, and nobody runs for it.
LEMMA AcquireLostInv == ASSUME Inv, NEW w \in Worker, AcquireLost(w) PROVE Inv'
<1>1. /\ deploy.redis /\ UNCHANGED <<deploy, now, local, begun>>
      /\ keys' = [keys EXCEPT ![work[w].cb] = now]
  BY DEF AcquireLost
<1>2. CountsTyped' BY <1>1 DEF Inv, CountsTyped
<1>3. OneStore' BY <1>1 DEF Inv, OneStore, Home
<1>4. \A cb \in Callback : Held(cb) => Held(cb)'
  BY <1>1 DEF Held, Inv, CountsTyped
<1>5. RunsOncePerKey'
  <2> SUFFICES ASSUME NEW cb \in Callback
               PROVE  begun'[cb] <= IF Held(cb)' THEN 1 ELSE 0
    BY DEF RunsOncePerKey
  <2>1. begun[cb] \in Nat /\ begun[cb] <= IF Held(cb) THEN 1 ELSE 0
    BY DEF Inv, CountsTyped, RunsOncePerKey
  <2> QED BY <1>1, <1>4, <2>1
<1> QED BY <1>2, <1>3, <1>5 DEF Inv

\* A node that stops loses its map: what it held may run once more.
LEMMA CrashInv == ASSUME Inv, NEW n \in Node, Crash(n) PROVE Inv'
<1>1. /\ deploy' = deploy /\ now' = now /\ keys' = keys
      /\ local' = [local EXCEPT ![n] = {}]
      /\ begun' = [cb \in Callback |-> IF cb \in local[n] THEN 0 ELSE begun[cb]]
  BY DEF Crash
<1>2. CountsTyped'
  <2>1. begun' \in [Callback -> Nat]
    <3>1. \A cb \in Callback : begun[cb] \in Nat BY DEF Inv, CountsTyped
    <3> QED BY <1>1, <3>1
  <2>2. local' = [m \in Node |-> local'[m]] BY <1>1 DEF Inv, CountsTyped
  <2> QED BY <1>1, <2>1, <2>2 DEF Inv, CountsTyped
<1>3. \A m \in Node : local'[m] = IF m = n THEN {} ELSE local[m]
  BY <1>1 DEF Inv, CountsTyped
<1>4. OneStore'
  BY <1>1, <1>3 DEF Inv, OneStore, Home
<1>5. RunsOncePerKey'
  <2> SUFFICES ASSUME NEW cb \in Callback
               PROVE  begun'[cb] <= IF Held(cb)' THEN 1 ELSE 0
    BY DEF RunsOncePerKey
  <2>1. CASE cb \in local[n] BY <1>1, <2>1
  <2>2. CASE cb \notin local[n]
    <3>1. begun'[cb] = begun[cb] BY <1>1, <2>2
    <3>2. Held(cb) => Held(cb)' BY <1>1, <1>3, <2>2 DEF Held
    <3>3. begun[cb] \in Nat /\ begun[cb] <= IF Held(cb) THEN 1 ELSE 0
      BY DEF Inv, CountsTyped, RunsOncePerKey
    <3> QED BY <3>1, <3>2, <3>3
  <2> QED BY <2>1, <2>2
<1> QED BY <1>2, <1>4, <1>5 DEF Inv

\* Every step keeps the invariant.
LEMMA NextInv == ASSUME Inv, [ScheduleNext]_schedVars PROVE Inv'
<1>1. CASE TimePasses BY <1>1, TimePassesInv
<1>2. ASSUME NEW n \in Node, UpdateStep(n) PROVE Inv'
  <2>1. ASSUME NEW failed \in SUBSET Families, Update(n, failed) \/ LoadFails(n, failed)
        PROVE  Inv'
    BY <2>1, Unchanged DEF Update, LoadFails, TryAcquire, history
  <2>2. ASSUME NEW cb \in pushing[n], Push(n, cb) PROVE Inv'
    BY <2>2, Unchanged DEF Push, history
  <2> QED BY <1>2, <2>1, <2>2 DEF UpdateStep
<1>3. ASSUME NEW n \in Node, Crash(n) PROVE Inv'
  BY <1>3, CrashInv
<1>4. ASSUME NEW n \in Node, Start(n) PROVE Inv'
  BY <1>4, Unchanged DEF Start, history
<1>5. ASSUME NEW w \in Worker, WorkerStep(w) PROVE Inv'
  <2>1. CASE Take(w) BY <2>1, Unchanged DEF Take, history
  <2>2. CASE Acquire(w) BY <2>2, AcquireInv
  <2>3. CASE AcquireFails(w) BY <2>3, Unchanged DEF AcquireFails, history
  <2>4. CASE AcquireLost(w) BY <2>4, AcquireLostInv
  <2>5. CASE Run(w) BY <2>5, Unchanged DEF Run
  <2>6. CASE FetchFails(w) BY <2>6, Unchanged DEF FetchFails
  <2> QED BY <1>5, <2>1, <2>2, <2>3, <2>4, <2>5, <2>6 DEF WorkerStep
<1>6. CASE UNCHANGED schedVars
  BY <1>6, Unchanged DEF schedVars
<1> QED BY <1>1, <1>2, <1>3, <1>4, <1>5, <1>6 DEF ScheduleNext

\* No occurrence is rewarded or reset twice for one life of its key, however
\* many schedulers queue it and workers take it (tryAcquireRewardLock).
THEOREM OncePerKey == ScheduleSpec => []RunsOncePerKey
<1>1. ScheduleInit => Inv BY InitInv
<1>2. Inv /\ [ScheduleNext]_schedVars => Inv' BY NextInv
<1>3. Inv => RunsOncePerKey BY DEF Inv
<1> QED BY <1>1, <1>2, <1>3, PTL DEF ScheduleSpec

-----------------------------------------------------------------------------
(* The deadlines.  A schedule fires before and after every time of the       *)
(* model, and the firings next to a time are those that Min and Max choose.  *)

\* What NextFire gives when the schedule still fires.
LEMMA NextIs ==
  ASSUME NEW b \in Board, NEW t \in Int, \E f \in Fires(b) : f > t
  PROVE  /\ NextFire(b, t) \in Fires(b) /\ NextFire(b, t) \in Int /\ NextFire(b, t) > t
         /\ \A f \in Fires(b) : f > t => NextFire(b, t) <= f
<1> DEFINE W == {f \in Fires(b) : f > t}
<1>1. Fires(b) \subseteq Int BY DEF Board, Fires
<1>2. W \in SUBSET Int /\ W # {} /\ \A x \in W : t <= x BY <1>1
<1>3. NextFire(b, t) = Min(W) BY DEF NextFire
<1>4. \A x \in W : x \in Fires(b) /\ x > t OBVIOUS
<1>5. \A f \in Fires(b) : f > t => f \in W OBVIOUS
<1> HIDE DEF W
<1>6. Min(W) \in W /\ \A y \in W : Min(W) <= y BY <1>2, MinIs
<1> QED BY <1>1, <1>3, <1>4, <1>5, <1>6

\* What LastFire gives when the schedule has fired.
LEMMA LastIs ==
  ASSUME NEW b \in Board, NEW t \in Int, \E f \in Fires(b) : f < t
  PROVE  /\ LastFire(b, t) \in Fires(b) /\ LastFire(b, t) \in Int /\ LastFire(b, t) < t
         /\ \A f \in Fires(b) : f < t => f <= LastFire(b, t)
<1> DEFINE W == {f \in Fires(b) : f < t}
<1>1. Fires(b) \subseteq Int BY DEF Board, Fires
<1>2. W \in SUBSET Int /\ W # {} /\ \A x \in W : x <= t BY <1>1
<1>3. LastFire(b, t) = Max(W) BY DEF LastFire
<1>4. \A x \in W : x \in Fires(b) /\ x < t OBVIOUS
<1>5. \A f \in Fires(b) : f < t => f \in W OBVIOUS
<1> HIDE DEF W
<1>6. Max(W) \in W /\ \A y \in W : y <= Max(W) BY <1>2, MaxIs
<1> QED BY <1>1, <1>3, <1>4, <1>5, <1>6

\* A schedule has fired before every time of the model, fires after it, and
\* once more after the firing that follows.
LEMMA FiresAround ==
  ASSUME NEW b \in Board, b.period > 0, NEW t \in 0 .. MaxTime
  PROVE  /\ \E f \in Fires(b) : f < t
         /\ \E f \in Fires(b) : f > t
         /\ \E f \in Fires(b) : f > NextFire(b, t)
<1> DEFINE p == b.period
           at == [k \in -2 .. MaxTime + 1 |-> 1 + k * p]
<1>1. p \in Nat /\ p > 0 /\ MaxTime \in Nat BY DEF Board
<1>2. \A k \in -2 .. MaxTime + 1 : 1 + k * p \in Fires(b) BY DEF Fires
<1>3. MaxTime * p >= MaxTime
  <2>1. \A m, q \in Nat : q > 0 => m * q >= m OBVIOUS
  <2> HIDE DEF p
  <2> QED BY <1>1, <2>1
<1>4. (MaxTime + 1) * p = MaxTime * p + p BY <1>1
<1> HIDE DEF p
<1>5. 1 + (-2) * p < t BY <1>1
<1>6. 1 + MaxTime * p > t /\ 1 + MaxTime * p \in Int BY <1>1, <1>3
<1>7. NextFire(b, t) <= 1 + MaxTime * p /\ NextFire(b, t) \in Int
  <2>1. 1 + MaxTime * p \in Fires(b) BY <1>1, <1>2
  <2> QED BY <1>6, <2>1, NextIs
<1>8. 1 + (MaxTime + 1) * p > NextFire(b, t) BY <1>1, <1>4, <1>6, <1>7
<1>9. -2 \in -2 .. MaxTime + 1 /\ MaxTime \in -2 .. MaxTime + 1 /\ MaxTime + 1 \in -2 .. MaxTime + 1
  BY <1>1
<1> QED BY <1>2, <1>5, <1>6, <1>8, <1>9

\* The expiry of an occurrence of the present is ahead.
LEMMA ExpiryAhead ==
  ASSUME NEW b \in Board, b.period > 0, NEW t \in 1 .. MaxTime
  PROVE  /\ Occurrence(b, t).expiry \in Int /\ Occurrence(b, t).expiry > t
         /\ Occurrence(b, t).end \in Int
<1> DEFINE s == IF t < b.start THEN NextFire(b, b.start)
                ELSE IF t \in Fires(b) THEN t ELSE LastFire(b, t)
           first == NextFire(b, b.start)
           o == Capped(s, s + b.duration, NextFire(b, s))
           alt == Capped(first, first + b.duration, NextFire(b, first))
<1>1. t \in 0 .. MaxTime /\ b.start \in 0 .. MaxTime /\ b.duration \in Nat /\ t \in Int
      /\ b.start \in Int
  BY DEF Board
<1>2. /\ first \in Int /\ first > b.start /\ first \in Fires(b)
      /\ NextFire(b, first) \in Int /\ NextFire(b, first) > first
  <2>1. /\ first \in Int /\ first > b.start /\ first \in Fires(b)
        /\ \E f \in Fires(b) : f > first
    BY <1>1, FiresAround, NextIs
  <2> HIDE DEF first
  <2> QED BY <2>1, NextIs
<1>3. /\ s \in Int /\ NextFire(b, s) \in Int /\ NextFire(b, s) > s /\ NextFire(b, s) > t
      /\ b.start > s => first > t
  <2>1. CASE t < b.start
    <3>1. s = first BY <2>1
    <3> QED BY <1>1, <1>2, <2>1, <3>1
  <2>2. CASE t >= b.start /\ t \in Fires(b)
    <3>1. s = t BY <1>1, <2>2
    <3>2. NextFire(b, t) \in Int /\ NextFire(b, t) > t BY <1>1, FiresAround, NextIs
    <3> QED BY <1>1, <2>2, <3>1, <3>2
  <2>3. CASE t >= b.start /\ t \notin Fires(b)
    <3>1. s = LastFire(b, t) BY <1>1, <2>3
    <3>2. /\ s \in Int /\ s < t /\ \A f \in Fires(b) : f < t => f <= s
      BY <1>1, <3>1, FiresAround, LastIs
    <3> HIDE DEF s, first
    <3>3. \A f \in Fires(b) : f \in Int /\ f > s => f > t
      BY <1>1, <2>3, <3>2
    <3>4. PICK f \in Fires(b) : f > t BY <1>1, FiresAround
    <3>5. f \in Int BY DEF Board, Fires
    <3>6. f > s BY <1>1, <3>2, <3>4, <3>5
    <3>7. /\ NextFire(b, s) \in Fires(b) /\ NextFire(b, s) \in Int /\ NextFire(b, s) > s
      BY <3>2, <3>6, NextIs
    <3>8. b.start > s => first > s BY <1>1, <1>2, <3>2
    <3> QED BY <1>2, <3>2, <3>3, <3>7, <3>8
  <2> QED BY <1>1, <2>1, <2>2, <2>3
<1>4. Occurrence(b, t) = IF b.start > o.end THEN alt
                         ELSE IF b.start > s THEN [o EXCEPT !.start = b.start] ELSE o
  BY DEF Occurrence
<1> HIDE DEF s, first
<1>5. /\ o.expiry = NextFire(b, s) /\ o.end \in Int /\ o.end >= s
      /\ alt.expiry = NextFire(b, first) /\ alt.end \in Int
      /\ [o EXCEPT !.start = b.start].expiry = o.expiry
      /\ [o EXCEPT !.start = b.start].end = o.end
  BY <1>1, <1>2, <1>3 DEF Capped
<1> HIDE DEF o, alt
<1>6. b.start > o.end => first > t BY <1>1, <1>3, <1>5
<1> QED BY <1>1, <1>2, <1>3, <1>4, <1>5, <1>6

\* What is due of a board: resets for its end_time only.
LEMMA DueOfBoard ==
  ASSUME NEW b \in Board, NEW t \in 1 .. MaxTime, NEW due \in DueOf(b, t)
  PROVE  /\ due \in Kind \X Int
         /\ due[1] = "tournament_reset" => due[2] = b.end
<1> DEFINE d == CalculateTournamentDeadlines(b, t)
           prev == CalculatePrevReset(b, t)
<1>1. b.start \in 0 .. MaxTime /\ b.end \in Nat /\ b.duration \in Nat /\ b.period \in Nat
      /\ MaxTime \in Nat /\ t \in Int
  BY DEF Board
<1>2. d.expiry \in Int /\ (d.expiry <= t => d.expiry = b.end)
  <2>1. CASE b.period > 0
    <3>1. PICK o : o = Occurrence(b, t) OBVIOUS
    <3>2. o.expiry \in Int /\ o.expiry > t BY <2>1, <3>1, ExpiryAhead
    <3>3. d = IF b.end > 0 /\ o.expiry > b.end THEN Capped(o.start, o.end, b.end) ELSE o
      BY <2>1, <3>1 DEF CalculateTournamentDeadlines
    <3> HIDE DEF d
    <3> QED BY <1>1, <3>2, <3>3 DEF Capped
  <2>2. CASE ~(b.period > 0)
    BY <1>1, <2>2 DEF CalculateTournamentDeadlines
  <2> QED BY <2>1, <2>2
<1>3. b.period > 0 => prev \in Int
  <2>1. b.period > 0 => LastFire(b, t) \in Int BY <1>1, FiresAround, LastIs
  <2> QED BY <2>1 DEF CalculatePrevReset
<1>4. DueOf(b, t) =
        IF IsTournament(b)
        THEN {<<"tournament_end", e>> : e \in {d.end} \cap 1 .. t}
             \union {<<"tournament_reset", e>> : e \in {d.expiry} \cap 1 .. t}
        ELSE IF b.period > 0 /\ prev > 0 /\ t - prev <= Window
             THEN {<<"leaderboard_reset", prev>>} ELSE {}
  BY Zenon DEF DueOf
<1> HIDE DEF d, prev
<1>5. \/ \E e \in 1 .. t : due = <<"tournament_end", e>>
      \/ \E e \in {d.expiry} \cap 1 .. t : due = <<"tournament_reset", e>>
      \/ b.period > 0 /\ due = <<"leaderboard_reset", prev>>
  BY <1>4
<1> QED BY <1>1, <1>2, <1>3, <1>5 DEF Kind

\* What the scheduler may queue for a table.
Queueable(tab) ==
  {cb \in (DOMAIN tab) \X Kind \X Int : cb[2] = "tournament_reset" => cb[3] = tab[cb[1]].end}

\* Update finds nothing else.
LEMMA DueQueueable ==
  ASSUME NEW tab \in Tables, NEW t \in 1 .. MaxTime
  PROVE  Due[tab][t] \subseteq Queueable(tab)
<1> SUFFICES ASSUME NEW cb \in Due[tab][t] PROVE cb \in Queueable(tab) OBVIOUS
<1>1. PICK i \in DOMAIN tab : \E due \in DueOf(tab[i], t) : cb = <<i, due[1], due[2]>>
  BY DEF Due
<1> PICK due \in DueOf(tab[i], t) : cb = <<i, due[1], due[2]>> BY <1>1
<1>2. tab[i] \in Board OBVIOUS
<1>3. due \in Kind \X Int /\ (due[1] = "tournament_reset" => due[2] = tab[i].end)
  BY <1>2, DueOfBoard
<1> QED BY <1>3 DEF Queueable

-----------------------------------------------------------------------------
(* What is found, queued, at a worker and settled was due at a time of the   *)
(* model.                                                                    *)

Job(tab) == [cb : Queueable(tab), next : {"acquire", "run"}]

QueuesTyped ==
  /\ deploy \in Deployments
  /\ now \in 1 .. MaxTime
  /\ pushing \in [Node -> SUBSET Queueable(table)]
  /\ queue \in [Node -> Seq(Queueable(table))]
  /\ work \in [Worker -> Job(table) \cup {Idle}]
  /\ settled \subseteq Queueable(table)

\* The table does not change.
LEMMA SameTable == ASSUME deploy' = deploy PROVE table' = table
  BY DEF table

\* At first nothing is queued.
LEMMA QueuesInit == ScheduleInit => QueuesTyped
<1> SUFFICES ASSUME ScheduleInit PROVE QueuesTyped OBVIOUS
<1>1. <<>> \in Seq(Queueable(table)) /\ {} \in SUBSET Queueable(table) OBVIOUS
<1>2. 1 \in 1 .. MaxTime OBVIOUS
<1> QED BY <1>1, <1>2 DEF ScheduleInit, QueuesTyped

\* Update finds what is due, and queues it as long as there is room.
LEMMA UpdateQueues == ASSUME QueuesTyped, NEW n \in Node, UpdateStep(n) PROVE QueuesTyped'
<1> DEFINE Q == Queueable(table)
<1>1. ASSUME NEW failed \in SUBSET Families, LoadFails(n, failed) PROVE QueuesTyped'
  BY <1>1, SameTable DEF LoadFails, TryAcquire, history, QueuesTyped
<1>2. ASSUME NEW failed \in SUBSET Families, Update(n, failed) PROVE QueuesTyped'
  <2>1. PICK found \in SUBSET Due[table][now] :
          /\ pushing' = [pushing EXCEPT ![n] = found]
          /\ UNCHANGED <<deploy, now, queue, work, settled>>
    BY <1>2 DEF Update, TryAcquire, history
  <2>2. found \subseteq Q
    <3>1. table \in Tables BY DEF QueuesTyped, table, Tables
    <3>2. Due[table][now] \subseteq Q BY <3>1, DueQueueable DEF QueuesTyped
    <3> QED BY <3>2
  <2> QED BY <2>1, <2>2, SameTable DEF QueuesTyped
<1>3. ASSUME NEW cb \in pushing[n], Push(n, cb) PROVE QueuesTyped'
  <2>1. /\ pushing' = [pushing EXCEPT ![n] = @ \ {cb}]
        /\ \/ queue' = [queue EXCEPT ![n] = Append(@, cb)]
           \/ queue' = queue
        /\ UNCHANGED <<deploy, now, work, settled>>
    BY <1>3 DEF Push, history
  <2>2. cb \in Q /\ queue[n] \in Seq(Q) BY DEF QueuesTyped
  <2> HIDE DEF Q
  <2>3. Append(queue[n], cb) \in Seq(Q) BY <2>2, AppendProperties
  <2> QED BY <2>1, <2>3, SameTable DEF QueuesTyped, Q
<1> QED BY <1>1, <1>2, <1>3 DEF UpdateStep

\* A worker takes what was queued.
LEMMA TakeQueues == ASSUME QueuesTyped, NEW w \in Worker, Take(w) PROVE QueuesTyped'
<1> DEFINE Q == Queueable(table)
           n == Home(w)
           cb == Head(queue[n])
           job == [cb |-> cb, next |-> "acquire"]
<1>1. /\ queue[n] # <<>>
      /\ queue' = [queue EXCEPT ![n] = Tail(@)]
      /\ work' = work \/ work' = [work EXCEPT ![w] = job]
      /\ UNCHANGED <<deploy, now, pushing, settled>>
  BY DEF Take, history
<1>2. n \in Node BY DEF QueuesTyped, Home
<1>3. queue[n] \in Seq(Q) BY <1>2 DEF QueuesTyped
<1>4. cb \in Q /\ Tail(queue[n]) \in Seq(Q)
  BY <1>1, <1>3, HeadTailProperties
<1>5. job \in Job(table) BY <1>4 DEF Job
<1> HIDE DEF job, n, cb
<1>6. queue' \in [Node -> Seq(Q)] BY <1>1, <1>4 DEF QueuesTyped
<1>7. work' \in [Worker -> Job(table) \cup {Idle}] BY <1>1, <1>5 DEF QueuesTyped
<1> QED BY <1>1, <1>6, <1>7, SameTable DEF QueuesTyped

\* The other steps of a worker settle what it was working on.
LEMMA WorkerQueues ==
  ASSUME QueuesTyped, NEW w \in Worker,
         Acquire(w) \/ AcquireFails(w) \/ AcquireLost(w) \/ Run(w) \/ FetchFails(w)
  PROVE  QueuesTyped'
<1>1. CASE Acquire(w)
  <2>1. work[w] \in Job(table) BY <1>1 DEF Acquire, At, QueuesTyped
  <2>2. [work[w] EXCEPT !.next = "run"] \in Job(table) BY <2>1 DEF Job
  <2>3. /\ work' = [work EXCEPT ![w] = [work[w] EXCEPT !.next = "run"]]
        /\ UNCHANGED <<deploy, now, pushing, queue, settled>>
    BY <1>1 DEF Acquire, Goto
  <2> QED BY <2>2, <2>3, SameTable DEF QueuesTyped
<1>2. CASE AcquireFails(w)
  <2>1. /\ work' = [work EXCEPT ![w] = Idle]
        /\ UNCHANGED <<deploy, now, pushing, queue, settled>>
    BY <1>2 DEF AcquireFails, Rest, history
  <2> QED BY <2>1, SameTable DEF QueuesTyped
<1>3. CASE AcquireLost(w) \/ Run(w) \/ FetchFails(w)
  <2>1. work[w] \in Job(table) BY <1>3 DEF AcquireLost, Run, FetchFails, At, QueuesTyped
  <2>2. work[w].cb \in Queueable(table) BY <2>1 DEF Job
  <2>3. /\ work' = [work EXCEPT ![w] = Idle] /\ settled' = settled \union {work[w].cb}
        /\ UNCHANGED <<deploy, now, pushing, queue>>
    BY <1>3 DEF AcquireLost, Run, FetchFails, Rest
  <2> QED BY <2>2, <2>3, SameTable DEF QueuesTyped
<1> QED BY <1>1, <1>2, <1>3

\* Time, and nodes that stop and start, queue nothing.
LEMMA OtherQueues ==
  ASSUME QueuesTyped, TimePasses \/ \E n \in Node : Crash(n) \/ Start(n)
  PROVE  QueuesTyped'
<1>1. CASE TimePasses
  <2>1. now' \in 1 .. MaxTime BY <1>1 DEF TimePasses, QueuesTyped
  <2> QED BY <1>1, <2>1, SameTable DEF TimePasses, QueuesTyped
<1>2. ASSUME NEW n \in Node, Start(n) PROVE QueuesTyped'
  BY <1>2, SameTable DEF Start, history, QueuesTyped
<1>3. ASSUME NEW n \in Node, Crash(n) PROVE QueuesTyped'
  <2> DEFINE mine == {w \in Worker : Home(w) = n}
             held == {v \in mine : work[v] # Idle /\ work[v].next # "acquire"}
  <2>1. /\ queue' = [queue EXCEPT ![n] = <<>>] /\ pushing' = [pushing EXCEPT ![n] = {}]
        /\ work' = [w \in Worker |-> IF w \in mine THEN Idle ELSE work[w]]
        /\ settled' = settled \union {work[w].cb : w \in held}
        /\ UNCHANGED <<deploy, now>>
    BY <1>3 DEF Crash
  <2>2. queue' \in [Node -> Seq(Queueable(table))]
    <3>1. <<>> \in Seq(Queueable(table)) OBVIOUS
    <3> QED BY <2>1, <3>1 DEF QueuesTyped
  <2>3. pushing' \in [Node -> SUBSET Queueable(table)] BY <2>1 DEF QueuesTyped
  <2>4. work' \in [Worker -> Job(table) \cup {Idle}] BY <2>1 DEF QueuesTyped
  <2>5. \A v \in held : work[v].cb \in Queueable(table) BY DEF QueuesTyped, Job
  <2> HIDE DEF held
  <2>6. settled' \subseteq Queueable(table) BY <2>1, <2>5 DEF QueuesTyped
  <2> QED BY <2>1, <2>2, <2>3, <2>4, <2>6, SameTable DEF QueuesTyped
<1> QED BY <1>1, <1>2, <1>3

\* The reset hook of a tournament is called for its end_time only: however many
\* occurrences expire, however late the scheduler is, none of them is reset.
THEOREM NoOccurrenceIsReset == ScheduleSpec => []ResetsAtEndTimeOnly
<1>1. QueuesTyped /\ [ScheduleNext]_schedVars => QueuesTyped'
  <2> SUFFICES ASSUME QueuesTyped, [ScheduleNext]_schedVars PROVE QueuesTyped' OBVIOUS
  <2>1. CASE UNCHANGED schedVars BY <2>1, SameTable DEF schedVars, QueuesTyped
  <2> QED BY <2>1, UpdateQueues, TakeQueues, WorkerQueues, OtherQueues DEF ScheduleNext, WorkerStep
<1>2. QueuesTyped => ResetsAtEndTimeOnly
  BY DEF QueuesTyped, Queueable, ResetsAtEndTimeOnly
<1> QED BY QueuesInit, <1>1, <1>2, PTL DEF ScheduleSpec
===========================================================================
