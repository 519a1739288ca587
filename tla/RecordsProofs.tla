---------------------------- MODULE RecordsProofs ----------------------------
(* Theorems about what the database keeps: the storage engine with the       *)
(* wallets (Economy), and the leaderboards with their caches (Leaderboards), *)
(* for every number of users, objects, nodes and requests.                   *)
EXTENDS Leaderboards, Economy, FiniteSetTheorems, WellFoundedInduction, TLAPS

-----------------------------------------------------------------------------
(*                                  Economy                                  *)

-----------------------------------------------------------------------------
(* What is known of the transactions                                         *)

\* The statements a transaction may run, and what it remembers of them.
Step == Statement \union [do : {"wallet"}, row : User, n : {0}]
Content == Value \union {Absent}
Balance == 0 .. HalfRange - 1
Partly(S, T) == UNION {[D -> T] : D \in SUBSET S}

OpenType == [stage : {"open"}, plan : Plans, todo : SUBSET Step, mine : Partly(Object, Content),
             read : Partly(User, Balance), gain : [User -> Int]]
IndexType == [stage : {"index"}, todo : SUBSET Step]

RowsTyped ==
  /\ wallet \in [User -> Balance] /\ ledger \in [User -> Int] /\ unlogged \in [User -> Int]
  /\ stored \in [Object -> Content] /\ index \in [Object -> Content]
  /\ lock \in [User \union Object -> Request \union {Free}]
  /\ missed \subseteq Object

TxnTyped == txn \in [Request -> OpenType \union IndexType \union {NoTxn}]

OnObject(s) == s.do \in {"write", "delete"}
WalletOf(u) == [do |-> "wallet", row |-> u, n |-> 0]

Done(t) == Statements(t.plan) \ t.todo

\* Statements are taken from the plan, none before one that precedes it.
InOrder(t) ==
  /\ t.todo \subseteq Statements(t.plan)
  /\ \A s \in Done(t), o \in t.todo : ~Precedes(o, s)

\* Its changes of objects: by the last of its statements, and by none but them.
Mine(t) ==
  /\ \A o \in DOMAIN t.mine : \E s \in Done(t) : OnObject(s) /\ s.row = o
  /\ \A s \in Done(t) :
       /\ s.do = "write" => s.row \in DOMAIN t.mine
       /\ s.do = "delete" /\ s.row \in DOMAIN t.mine => t.mine[s.row] = Absent
       /\ (s.do = "write" /\ \A o \in Done(t) : OnObject(o) /\ o.row = s.row =>
                                  o.do = "write" /\ (o = s \/ o.n < s.n))
            => t.mine[s.row] = s.value

\* It has the locks of what it has changed, read or found.
Holds(c, t) ==
  /\ \A s \in Done(t) : s.do \in {"account", "write", "wallet"} => lock[s.row] = c
  /\ \A s \in Done(t) : s.do = "delete" /\ s.version # AnyVersion => lock[s.row] = c
  /\ \A o \in DOMAIN t.mine \union DOMAIN t.read : lock[o] = c

\* What its first statements on their objects found is still there.
Found(t) ==
  \A s \in Done(t) : OnObject(s) /\ First(t.plan, s) =>
    /\ s.version \in Value => stored[s.row] = s.version
    /\ s.version = NewOnly => stored[s.row] = Absent

\* The wallets are as it has read them, but for its own changes.
Knows(t) ==
  /\ \A u \in DOMAIN t.read : t.read[u] = wallet[u] + t.gain[u] /\ WalletOf(u) \notin t.todo
  /\ \A u \in User \ DOMAIN t.read : t.gain[u] = 0
  /\ \A s \in Done(t) : s.do = "wallet" => s.row \in DOMAIN t.read

TxnOK(c, t) == InOrder(t) /\ Mine(t) /\ Holds(c, t) /\ Found(t) /\ Knows(t)

\* A lock is held for a statement that was run.
LockedFor(r, c) ==
  txn[c].stage = "open" /\ \E s \in Done(txn[c]) : s.do # "earn" /\ s.row = r

\* What the index is still told: writes and deletes, each with a place of its own.
Tells(steps) ==
  \A s, o \in steps : OnObject(s) /\ (s.do = o.do /\ s.n = o.n => s = o)

Tell(s) == IF s.do = "write" THEN Shown(s.value) ELSE Absent
LastOn(steps, s, o) ==
  s.row = o /\ \A r \in steps : r.row = o => r = s \/ IndexBefore(r, s)

Telling(t, o) == t.stage = "index" /\ o \in Rows(t.todo)

\* One call at most has something to tell of an object; the last of it is the
\* entry of what is stored, which is there when there is none.
EntryFollows(o) ==
  /\ \A c, d \in Request : Telling(txn[c], o) /\ Telling(txn[d], o) => c = d
  /\ (\A c \in Request : ~Telling(txn[c], o)) => index[o] = Shown(stored[o])
  /\ \A c \in Request : txn[c].stage = "index" =>
       \A s \in txn[c].todo : LastOn(txn[c].todo, s, o) => Tell(s) = Shown(stored[o])

TxnsOK == \A c \in Request : txn[c].stage = "open" => TxnOK(c, txn[c])
LocksOK == \A r \in User \union Object : \A c \in Request : lock[r] = c => LockedFor(r, c)
TellsOK == \A c \in Request : txn[c].stage = "index" => Tells(txn[c].todo)
EntriesFollow == \A o \in Object \ missed : EntryFollows(o)

EInv == /\ RowsTyped /\ TxnTyped /\ LedgerExplains
        /\ TxnsOK /\ LocksOK /\ TellsOK /\ EntriesFollow
-----------------------------------------------------------------------------
(* The steps of a transaction                                                *)

\* A record that says it is open is of an open transaction.
LEMMA OpenTyped ==
  ASSUME TxnTyped, NEW c \in Request, txn[c].stage = "open"
  PROVE  txn[c] \in OpenType
  BY DEF TxnTyped, OpenType, IndexType, NoTxn

\* A record that says it updates the index is of a committed transaction.
LEMMA IndexTyped ==
  ASSUME TxnTyped, NEW c \in Request, txn[c].stage = "index"
  PROVE  txn[c] \in IndexType
  BY DEF TxnTyped, OpenType, IndexType, NoTxn

\* What a statement leaves of its transaction.
LEMMA AdvanceAt ==
  ASSUME TxnTyped, NEW c \in Request, txn[c].stage = "open", NEW s, NEW mine, NEW read, NEW gain,
         Advance(c, s, mine, read, gain)
  PROVE  txn' = [txn EXCEPT ![c] = [stage |-> "open", plan |-> txn[c].plan,
                                    todo |-> txn[c].todo \ {s}, mine |-> mine, read |-> read,
                                    gain |-> gain]]
  BY DEF Advance, TxnTyped

\* Statements have a kind and a row.
LEMMA StatementsTyped ==
  ASSUME NEW p \in Plans
  PROVE  /\ Statements(p) \subseteq Step
         /\ \A s \in Statements(p) : s.do # "wallet" => s \in p.statements
         /\ \A s \in Statements(p) : s.do = "wallet" => s.row \in User /\ s = WalletOf(s.row)
         /\ \A s \in p.statements : s.do = "earn" => WalletOf(s.row) \in Statements(p)
<1>1. p.statements \in SUBSET Statement BY EconomyAssumption
<1>2. \A s \in p.statements : s.do = "earn" => s.row \in User BY <1>1 DEF Statement
<1>3. \A s \in p.statements : s.do # "wallet" BY <1>1 DEF Statement
<1>4. \A s \in Statements(p) : s \in p.statements \/ \E u \in User : s = WalletOf(u)
  BY <1>2 DEF Statements, Rows, Of, WalletOf
<1>5. \A u \in User : WalletOf(u) \in Step /\ WalletOf(u).do = "wallet" /\ WalletOf(u).row = u
  BY DEF WalletOf, Step
<1>6. \A s \in p.statements : s.do = "earn" => WalletOf(s.row) \in Statements(p)
  BY DEF Statements, Rows, Of, WalletOf
<1> QED BY <1>1, <1>3, <1>4, <1>5, <1>6 DEF Step

\* What a statement is, by its kind.
LEMMA StepTyped ==
  ASSUME NEW s \in Step
  PROVE  /\ s.do \in {"account", "write", "delete", "earn", "wallet"}
         /\ s.do \in {"account", "earn", "wallet"} => s.row \in User
         /\ OnObject(s) => s.row \in Object
         /\ s.do = "write" => s.value \in Value /\ s.version \in Value \union {AnyVersion, NewOnly}
         /\ s.do = "delete" => s.version \in Value \union {AnyVersion}
         /\ s.do = "earn" => s.delta \in Delta
         /\ s.n \in Nat
  BY DEF Step, Statement, OnObject

\* g is f with v at x.
Adds(g, f, x, v) ==
  /\ DOMAIN g = DOMAIN f \union {x}
  /\ g[x] = v /\ \A y \in DOMAIN f : y # x => g[y] = f[y]

\* Putting one more value into a partial function.
LEMMA PutTyped ==
  ASSUME NEW S, NEW T, NEW f \in Partly(S, T), NEW x \in S, NEW v \in T,
         NEW g, g = Put(f, x, v)
  PROVE  g \in Partly(S, T) /\ Adds(g, f, x, v)
<1>1. PICK D \in SUBSET S : f \in [D -> T] BY DEF Partly
<1>2. D \union {x} \in SUBSET S /\ DOMAIN f = D BY <1>1
<1>3. g \in [D \union {x} -> T] BY <1>1, <1>2 DEF Put
<1> QED BY <1>2, <1>3 DEF Partly, Put, Adds

\* One more object changed, one more balance known.
LEMMA PutMine ==
  ASSUME NEW f \in Partly(Object, Content), NEW x \in Object, NEW v \in Content,
         NEW g, g = Put(f, x, v)
  PROVE  g \in Partly(Object, Content) /\ Adds(g, f, x, v)
  BY PutTyped

\* The same of the balances that a transaction has read.
LEMMA PutRead ==
  ASSUME NEW f \in Partly(User, Balance), NEW x \in User, NEW v \in Balance,
         NEW g, g = Put(f, x, v)
  PROVE  g \in Partly(User, Balance) /\ Adds(g, f, x, v)
  BY PutTyped

\* A partial function takes its arguments and its values from its sets.
LEMMA PartlyValues ==
  ASSUME NEW S, NEW T, NEW f \in Partly(S, T)
  PROVE  DOMAIN f \subseteq S /\ \A x \in DOMAIN f : f[x] \in T
  BY DEF Partly

\* What a statement leaves is a transaction that is open.
LEMMA NextTyped ==
  ASSUME NEW t \in OpenType, NEW s \in t.todo, NEW t1, NEW mine \in Partly(Object, Content),
         NEW read \in Partly(User, Balance), NEW gain \in [User -> Int],
         t1 = [stage |-> "open", plan |-> t.plan, todo |-> t.todo \ {s},
               mine |-> mine, read |-> read, gain |-> gain]
  PROVE  /\ t1 \in OpenType /\ t1.plan = t.plan /\ t1.todo = t.todo \ {s}
         /\ t1.mine = mine /\ t1.read = read /\ t1.gain = gain /\ t1.stage = "open"
  BY DEF OpenType

\* The statements that are done after one more.
LEMMA InOrderNext ==
  ASSUME NEW t, InOrder(t), NEW s \in t.todo, \A o \in t.todo : ~Precedes(o, s),
         NEW t1, t1.plan = t.plan, t1.todo = t.todo \ {s}
  PROVE  InOrder(t1) /\ Done(t1) = Done(t) \union {s} /\ s \notin Done(t)
  BY DEF InOrder, Done

\* What a transaction knows and found stays as long as its locks keep others out.
LEMMA TxnKept ==
  ASSUME NEW d \in Request, NEW t \in OpenType, TxnOK(d, t),
         \A r \in User \union Object : lock[r] = d => lock'[r] = d,
         \A o \in Object : lock[o] = d => stored'[o] = stored[o],
         \A u \in User : lock[u] = d => wallet'[u] = wallet[u]
  PROVE  TxnOK(d, t)'
<1>1. /\ Done(t) \subseteq Step /\ DOMAIN t.mine \subseteq Object
      /\ DOMAIN t.read \subseteq User
  BY StatementsTyped, PartlyValues DEF Done, OpenType
<1>2. InOrder(t) /\ Mine(t) BY DEF TxnOK
<1>3. Holds(d, t)' BY <1>1, StepTyped DEF TxnOK, Holds, OnObject
<1>4. Found(t)'
  <2>1. SUFFICES ASSUME NEW s \in Done(t), OnObject(s), First(t.plan, s)
                 PROVE  /\ s.version \in Value => stored'[s.row] = s.version
                        /\ s.version = NewOnly => stored'[s.row] = Absent
    BY DEF Found
  <2>2. s.row \in Object BY <1>1, <2>1, StepTyped
  <2>3. s.version \in Value \union {NewOnly} => lock[s.row] = d
    BY <2>1, EconomyAssumption DEF TxnOK, Holds, OnObject
  <2> QED BY <2>1, <2>2, <2>3 DEF TxnOK, Found
<1>5. Knows(t)'
  <2>1. \A u \in DOMAIN t.read : wallet'[u] = wallet[u] BY <1>1 DEF TxnOK, Holds
  <2> QED BY <2>1 DEF TxnOK, Knows
<1> QED BY <1>2, <1>3, <1>4, <1>5 DEF TxnOK

\* The entries follow as long as nothing is stored, told or to be told.
LEMMA EntriesKept ==
  ASSUME EntriesFollow, UNCHANGED <<stored, index, missed>>,
         \A c \in Request : /\ txn'[c].stage = "index" <=> txn[c].stage = "index"
                            /\ txn[c].stage = "index" => txn'[c] = txn[c]
  PROVE  EntriesFollow'
<1>1. SUFFICES ASSUME NEW o \in Object \ missed PROVE EntryFollows(o)' BY DEF EntriesFollow
<1>2. EntryFollows(o) BY DEF EntriesFollow
<1>3. \A c \in Request : Telling(txn'[c], o) <=> Telling(txn[c], o) BY DEF Telling
<1>4. \A c \in Request : txn'[c].stage = "index" =>
        \A s \in txn'[c].todo : LastOn(txn'[c].todo, s, o) => Tell(s) = Shown(stored[o])
  BY <1>2 DEF EntryFollows
<1> QED BY <1>2, <1>3, <1>4 DEF EntryFollows

-----------------------------------------------------------------------------
(* Statements                                                                *)

\* The locks of a transaction after a statement that locks its row, or none.
LockStep(c, s) == LockRow(c, s.row) \/ UNCHANGED lock

\* The locks that were held are, and only the statement's row is taken.
LEMMA LockStepAt ==
  ASSUME RowsTyped, NEW c \in Request, NEW s \in Step, LockStep(c, s)
  PROVE  /\ lock' \in [User \union Object -> Request \union {Free}]
         /\ \A r \in User \union Object, d \in Request : lock[r] = d => lock'[r] = d
         /\ \A r \in User \union Object, d \in Request :
              lock'[r] = d => lock[r] = d \/ (d = c /\ r = s.row /\ LockRow(c, s.row))
         /\ LockRow(c, s.row) => lock'[s.row] = c
<1>1. s.row \in User \union Object BY DEF Step, Statement
<1>2. lock \in [User \union Object -> Request \union {Free}] BY DEF RowsTyped
<1>3. \A d \in Request : d # Free BY EconomyAssumption
<1>4. CASE UNCHANGED lock
  BY <1>1, <1>2, <1>4 DEF LockRow
<1>5. CASE LockRow(c, s.row)
  BY <1>1, <1>2, <1>3, <1>5 DEF LockRow, MyTurn
<1> QED BY <1>4, <1>5 DEF LockStep

\* A statement that leaves its own transaction in order leaves everything so.
LEMMA AdvanceInv ==
  ASSUME EInv, NEW c \in Request, txn[c].stage = "open", NEW s \in Turn(c),
         NEW mine \in Partly(Object, Content), NEW read \in Partly(User, Balance),
         NEW gain \in [User -> Int],
         Advance(c, s, mine, read, gain), LockStep(c, s),
         LockRow(c, s.row) => s.do # "earn" \/ lock[s.row] = c,
         NEW t, t = txn[c], NEW t1,
         t1 = [stage |-> "open", plan |-> t.plan, todo |-> t.todo \ {s},
               mine |-> mine, read |-> read, gain |-> gain],
         Mine(t1), Holds(c, t1)', Found(t1), Knows(t1)
  PROVE  EInv'
<1>1. t \in OpenType /\ TxnOK(c, t) BY OpenTyped DEF EInv, TxnsOK
<1>2. s \in t.todo /\ \A o \in t.todo : ~Precedes(o, s) BY DEF Turn
<1>3. s \in Step BY <1>1, <1>2 DEF OpenType
<1>4. /\ t1 \in OpenType /\ t1.plan = t.plan /\ t1.todo = t.todo \ {s} /\ t1.stage = "open"
  BY <1>1, <1>2, NextTyped
<1>5. InOrder(t1) /\ Done(t1) = Done(t) \union {s}
  BY <1>1, <1>2, <1>4, InOrderNext DEF TxnOK
<1>6. txn' = [txn EXCEPT ![c] = t1] BY AdvanceAt DEF EInv
<1>7. txn'[c] = t1 /\ \A d \in Request \ {c} : txn'[d] = txn[d]
  BY <1>6 DEF EInv, TxnTyped
<1>8. UNCHANGED <<wallet, ledger, unlogged, stored, index, missed>>
  BY DEF Advance, committed
<1>9. /\ lock' \in [User \union Object -> Request \union {Free}]
      /\ \A r \in User \union Object, d \in Request : lock[r] = d => lock'[r] = d
      /\ \A r \in User \union Object, d \in Request :
           lock'[r] = d => lock[r] = d \/ (d = c /\ r = s.row /\ LockRow(c, s.row))
  BY <1>3, LockStepAt DEF EInv
<1>10. RowsTyped' /\ LedgerExplains' BY <1>8, <1>9 DEF EInv, RowsTyped, LedgerExplains
<1>11. TxnTyped' BY <1>4, <1>6 DEF EInv, TxnTyped
<1>12. TxnsOK'
  <2>1. Mine(t1)' /\ InOrder(t1)' /\ Found(t1)' /\ Knows(t1)'
    BY <1>5, <1>8 DEF Found, Knows
  <2>2. TxnOK(c, t1)' BY <2>1 DEF TxnOK
  <2>3. ASSUME NEW d \in Request \ {c}, txn'[d].stage = "open" PROVE TxnOK(d, txn[d])'
    <3>1. PICK td : td = txn[d] OBVIOUS
    <3>2. td \in OpenType /\ TxnOK(d, td) BY <1>7, <2>3, <3>1, OpenTyped DEF EInv, TxnsOK
    <3>3. TxnOK(d, td)' BY <1>8, <1>9, <3>2, TxnKept
    <3> QED BY <1>7, <2>3, <3>1, <3>3
  <2> QED BY <1>7, <2>2, <2>3 DEF TxnsOK
<1>13. LocksOK'
  <2>1. SUFFICES ASSUME NEW r \in User \union Object, NEW d \in Request, lock'[r] = d
                 PROVE  LockedFor(r, d)'
    BY DEF LocksOK
  <2>2. Done(txn[c]) = Done(t) /\ Done(txn[c])' = Done(t1) BY <1>7
  <2>3. CASE lock[r] = d
    <3>1. LockedFor(r, d) BY <2>3 DEF EInv, LocksOK
    <3>2. CASE d = c BY <1>4, <1>5, <1>7, <2>2, <3>1, <3>2 DEF LockedFor
    <3>3. CASE d # c
      <4>1. Done(txn[d])' = Done(txn[d]) /\ txn'[d].stage = txn[d].stage BY <1>7, <3>3
      <4> QED BY <3>1, <4>1 DEF LockedFor
    <3> QED BY <3>2, <3>3
  <2>4. CASE d = c /\ r = s.row /\ LockRow(c, s.row) /\ lock[r] # d
    BY <1>4, <1>5, <1>7, <2>2, <2>4 DEF LockedFor
  <2> QED BY <1>9, <2>1, <2>3, <2>4
<1>14. TellsOK' BY <1>4, <1>7 DEF EInv, TellsOK
<1>15. EntriesFollow' BY <1>4, <1>7, <1>8, EntriesKept DEF EInv
<1> QED BY <1>10, <1>11, <1>12, <1>13, <1>14, <1>15 DEF EInv

\* The locks are those of the statements that are done.
LEMMA HoldsNext ==
  ASSUME RowsTyped, NEW c \in Request, NEW t \in OpenType, Holds(c, t), InOrder(t),
         NEW s \in t.todo, NEW t1, Done(t1) = Done(t) \union {s}, LockStep(c, s),
         \/ /\ LockRow(c, s.row)
            /\ DOMAIN t1.mine \union DOMAIN t1.read
                 \subseteq DOMAIN t.mine \union DOMAIN t.read \union {s.row}
         \/ /\ s.do = "earn" \/ (s.do = "delete" /\ s.version = AnyVersion)
            /\ DOMAIN t1.mine \union DOMAIN t1.read \subseteq DOMAIN t.mine \union DOMAIN t.read
  PROVE  Holds(c, t1)'
<1>1. s \in Step /\ Done(t) \subseteq Step BY StatementsTyped DEF Done, OpenType
<1>2. \A o \in Done(t) : o.row \in User \union Object BY <1>1 DEF Step, Statement
<1>3. DOMAIN t.mine \union DOMAIN t.read \subseteq User \union Object
  BY PartlyValues DEF OpenType
<1>4. /\ \A r \in User \union Object : lock[r] = c => lock'[r] = c
      /\ LockRow(c, s.row) => lock'[s.row] = c
  BY <1>1, LockStepAt
<1>5. \A o \in Done(t1) : o.do \in {"account", "write", "wallet"} => lock'[o.row] = c
  BY <1>2, <1>4 DEF Holds
<1>6. \A o \in Done(t1) : o.do = "delete" /\ o.version # AnyVersion => lock'[o.row] = c
  BY <1>2, <1>4 DEF Holds
<1>7. \A r \in DOMAIN t1.mine \union DOMAIN t1.read : lock'[r] = c
  BY <1>3, <1>4 DEF Holds
<1> QED BY <1>5, <1>6, <1>7 DEF Holds

\* What a transaction that runs a statement has, and has after it.
LEMMA RunsAt ==
  ASSUME EInv, NEW c \in Request, NEW s, NEW what, Runs(c, s, what),
         NEW t, t = txn[c]
  PROVE  /\ t \in OpenType /\ t.stage = "open" /\ TxnOK(c, t)
         /\ s \in t.todo /\ s \in Turn(c) /\ s.do = what /\ s \in Step /\ s \in Statements(t.plan)
         /\ \A o \in t.todo : ~Precedes(o, s)
         /\ s \notin Done(t) /\ Done(t) \subseteq Step
<1>1. t \in OpenType /\ TxnOK(c, t) /\ t.stage = "open"
  BY OpenTyped DEF EInv, TxnsOK, Runs
<1>2. s \in t.todo /\ s \in Turn(c) /\ s.do = what /\ \A o \in t.todo : ~Precedes(o, s)
  BY DEF Runs, Turn
<1>3. s \in Step /\ Done(t) \subseteq Step /\ s \in Statements(t.plan)
  BY <1>1, <1>2, StatementsTyped DEF OpenType, Done, TxnOK, InOrder
<1> QED BY <1>1, <1>2, <1>3 DEF Done

\* A statement that neither changes nor finds an object, nor takes a wallet.
LEMMA UpdateAccountInv ==
  ASSUME EInv, NEW c \in Request, NEW s, UpdateAccount(c, s) PROVE EInv'
<1>1. PICK t : t = txn[c] OBVIOUS
<1>2. Runs(c, s, "account") /\ LockRow(c, s.row) /\ Advance(c, s, t.mine, t.read, t.gain)
  BY <1>1 DEF UpdateAccount
<1>3. /\ t \in OpenType /\ t.stage = "open" /\ TxnOK(c, t)
      /\ s \in t.todo /\ s \in Turn(c) /\ s.do = "account"
      /\ \A o \in t.todo : ~Precedes(o, s)
  BY <1>1, <1>2, RunsAt
<1>4. /\ t.mine \in Partly(Object, Content) /\ t.read \in Partly(User, Balance)
      /\ t.gain \in [User -> Int]
  BY <1>3 DEF OpenType
<1>5. PICK t1 : t1 = [stage |-> "open", plan |-> t.plan, todo |-> t.todo \ {s},
                      mine |-> t.mine, read |-> t.read, gain |-> t.gain] OBVIOUS
<1>6. /\ t1.plan = t.plan /\ t1.todo = t.todo \ {s}
      /\ t1.mine = t.mine /\ t1.read = t.read /\ t1.gain = t.gain
  BY <1>5
<1>7. InOrder(t1) /\ Done(t1) = Done(t) \union {s} BY <1>3, <1>6, InOrderNext DEF TxnOK
<1>8. ~OnObject(s) BY <1>3 DEF OnObject
<1>9. Mine(t1) BY <1>3, <1>6, <1>7, <1>8 DEF TxnOK, Mine, OnObject
<1>10. Found(t1) BY <1>3, <1>6, <1>7, <1>8 DEF TxnOK, Found
<1>11. Knows(t1) BY <1>3, <1>6, <1>7 DEF TxnOK, Knows
<1>12. Holds(c, t1)'
  BY <1>2, <1>3, <1>6, <1>7, HoldsNext DEF EInv, TxnOK, LockStep
<1> QED BY <1>1, <1>2, <1>3, <1>4, <1>5, <1>9, <1>10, <1>11, <1>12, AdvanceInv DEF LockStep

\* The first statement on an object sees what is stored.
LEMMA FirstSees ==
  ASSUME NEW c \in Request, NEW t \in OpenType, t = txn[c], InOrder(t), Mine(t),
         NEW s \in t.todo, s \notin Done(t), First(t.plan, s)
  PROVE  Seen(c, s.row) = stored[s.row]
<1>1. SUFFICES ASSUME s.row \in DOMAIN t.mine PROVE FALSE BY DEF Seen
<1>2. PICK o \in Done(t) : OnObject(o) /\ o.row = s.row BY <1>1 DEF Mine
<1>3. o \in Statements(t.plan) BY DEF Done
<1>4. o \in t.plan.statements BY <1>2, <1>3, StatementsTyped DEF OpenType, OnObject
<1>5. o \in Of(t.plan, "write") \union Of(t.plan, "delete") BY <1>2, <1>4 DEF Of, OnObject
<1>6. Precedes(s, o) BY <1>2, <1>5 DEF First
<1> QED BY <1>6 DEF InOrder

\* What an object is seen as.
LEMMA SeenTyped ==
  ASSUME EInv, NEW c \in Request, txn[c] \in OpenType, NEW o \in Object
  PROVE  Seen(c, o) \in Content
  BY PartlyValues DEF Seen, OpenType, EInv, RowsTyped

\* After a statement that has found its version.
LEMMA FoundNext ==
  ASSUME EInv, NEW c \in Request, NEW t \in OpenType, t = txn[c], TxnOK(c, t), NEW s \in t.todo,
         s \in Step, s \notin Done(t), OnObject(s),
         NEW t1, t1.plan = t.plan, Done(t1) = Done(t) \union {s},
         \/ s.do = "write" /\ Fits(s, Seen(c, s.row))
         \/ s.do = "delete" /\ Hits(s, Seen(c, s.row))
         \/ s.do = "delete" /\ s.version = AnyVersion
  PROVE  Found(t1)
<1>1. SUFFICES ASSUME First(t.plan, s)
               PROVE  /\ s.version \in Value => stored[s.row] = s.version
                      /\ s.version = NewOnly => stored[s.row] = Absent
  BY DEF TxnOK, Found
<1>2. Seen(c, s.row) = stored[s.row] BY <1>1, FirstSees DEF TxnOK
<1>3. Seen(c, s.row) \in Content BY StepTyped, SeenTyped
<1> QED BY <1>2, <1>3, StepTyped, EconomyAssumption DEF Fits, Hits, Content

\* After a write: it is the last of its object so far.
LEMMA MineWritten ==
  ASSUME NEW t \in OpenType, InOrder(t), Mine(t), NEW s \in t.todo, s \in Step, s.do = "write",
         Done(t) \subseteq Step, s \notin Done(t),
         NEW t1, t1.mine = Put(t.mine, s.row, s.value), Done(t1) = Done(t) \union {s}
  PROVE  Mine(t1)
<1>1. s.row \in Object /\ s.value \in Content BY StepTyped DEF OnObject, Content
<1>2. /\ DOMAIN t1.mine = DOMAIN t.mine \union {s.row}
      /\ \A y \in DOMAIN t.mine \union {s.row} :
           t1.mine[y] = IF y = s.row THEN s.value ELSE t.mine[y]
  <2>1. t.mine \in Partly(Object, Content) BY DEF OpenType
  <2>2. Adds(t1.mine, t.mine, s.row, s.value) BY <1>1, <2>1, PutMine
  <2> QED BY <2>2 DEF Adds
<1>3. \A o \in DOMAIN t1.mine : \E r \in Done(t1) : OnObject(r) /\ r.row = o
  BY <1>2 DEF Mine, OnObject
<1>4. \A o \in Done(t) : ~Precedes(s, o) BY DEF InOrder
<1>5. \A o \in Done(t) : o.do # "delete" \/ o.row # s.row
  BY <1>4 DEF Precedes, Section
<1>6. \A o \in Done(t) : o.do = "write" /\ o.row = s.row => ~(s.n < o.n)
  BY <1>4 DEF Precedes, Rank
<1>7. ASSUME NEW r \in Done(t1)
      PROVE  /\ r.do = "write" => r.row \in DOMAIN t1.mine
             /\ r.do = "delete" /\ r.row \in DOMAIN t1.mine => t1.mine[r.row] = Absent
  BY <1>2, <1>5 DEF Mine
<1>8. ASSUME NEW r \in Done(t1), r.do = "write",
             \A o \in Done(t1) : OnObject(o) /\ o.row = r.row =>
                                   o.do = "write" /\ (o = r \/ o.n < r.n)
      PROVE  t1.mine[r.row] = r.value
  <2>1. CASE r = s BY <1>2, <2>1
  <2>2. CASE r \in Done(t) /\ r # s
    <3>1. r.row # s.row BY <1>6, <1>8, <2>2 DEF OnObject
    <3>2. r.row \in DOMAIN t.mine /\ t.mine[r.row] = r.value BY <1>8, <2>2 DEF Mine
    <3> QED BY <1>2, <3>1, <3>2
  <2> QED BY <2>1, <2>2
<1> QED BY <1>3, <1>7, <1>8 DEF Mine

\* After a delete that has found its object, or has nothing to delete.
LEMMA MineDeleted ==
  ASSUME NEW t \in OpenType, InOrder(t), Mine(t), NEW s \in t.todo, s \in Step, s.do = "delete",
         NEW t1, Done(t1) = Done(t) \union {s},
         \/ t1.mine = Put(t.mine, s.row, Absent)
         \/ t1.mine = t.mine /\ (s.row \in DOMAIN t.mine => t.mine[s.row] = Absent)
  PROVE  Mine(t1)
<1>1. s.row \in Object /\ Absent \in Content BY StepTyped DEF OnObject, Content
<1>2. /\ DOMAIN t1.mine \subseteq DOMAIN t.mine \union {s.row}
      /\ DOMAIN t.mine \subseteq DOMAIN t1.mine
      /\ s.row \in DOMAIN t1.mine => t1.mine[s.row] = Absent
      /\ \A y \in DOMAIN t.mine : y # s.row => t1.mine[y] = t.mine[y]
  <2>1. CASE t1.mine = Put(t.mine, s.row, Absent)
    <3>1. t.mine \in Partly(Object, Content) BY DEF OpenType
    <3>2. Adds(t1.mine, t.mine, s.row, Absent) BY <1>1, <2>1, <3>1, PutMine
    <3> QED BY <3>2 DEF Adds
  <2>2. CASE t1.mine = t.mine /\ (s.row \in DOMAIN t.mine => t.mine[s.row] = Absent)
    BY <2>2
  <2> QED BY <2>1, <2>2
<1>3. \A o \in DOMAIN t1.mine : \E r \in Done(t1) : OnObject(r) /\ r.row = o
  BY <1>2 DEF Mine, OnObject
<1>4. ASSUME NEW r \in Done(t1)
      PROVE  /\ r.do = "write" => r.row \in DOMAIN t1.mine
             /\ r.do = "delete" /\ r.row \in DOMAIN t1.mine => t1.mine[r.row] = Absent
  <2>1. CASE r = s BY <1>2, <2>1
  <2>2. CASE r \in Done(t)
    <3>1. r.do = "delete" /\ r.row \in DOMAIN t1.mine /\ r.row # s.row => r.row \in DOMAIN t.mine
      BY <1>2
    <3> QED BY <1>2, <2>2, <3>1 DEF Mine
  <2> QED BY <2>1, <2>2
<1>5. ASSUME NEW r \in Done(t1), r.do = "write",
             \A o \in Done(t1) : OnObject(o) /\ o.row = r.row =>
                                   o.do = "write" /\ (o = r \/ o.n < r.n)
      PROVE  t1.mine[r.row] = r.value
  <2>1. r.row # s.row /\ r \in Done(t) BY <1>5 DEF OnObject
  <2>2. r.row \in DOMAIN t.mine /\ t.mine[r.row] = r.value BY <1>5, <2>1 DEF Mine
  <2> QED BY <1>2, <2>1, <2>2
<1> QED BY <1>3, <1>4, <1>5 DEF Mine

\* A rollback ends its transaction and frees its locks.
LEMMA RollbackInv ==
  ASSUME EInv, NEW c \in Request, Rollback(c), txn[c].stage = "open" PROVE EInv'
<1>1. /\ UNCHANGED <<wallet, ledger, unlogged, stored, index, missed>>
      /\ lock' = Unlocked(c) /\ txn' = [txn EXCEPT ![c] = NoTxn]
  BY DEF Rollback, committed
<1>2. txn'[c] = NoTxn /\ \A d \in Request \ {c} : txn'[d] = txn[d]
  BY <1>1 DEF EInv, TxnTyped
<1>3. /\ lock' \in [User \union Object -> Request \union {Free}]
      /\ \A r \in User \union Object : lock'[r] = IF lock[r] = c THEN Free ELSE lock[r]
  BY <1>1 DEF Unlocked, EInv, RowsTyped
<1>4. RowsTyped' /\ LedgerExplains' BY <1>1, <1>3 DEF EInv, RowsTyped, LedgerExplains
<1>5. TxnTyped' BY <1>1 DEF EInv, TxnTyped
<1>6. NoTxn.stage = "idle" BY DEF NoTxn
<1>7. TxnsOK'
  <2>1. ASSUME NEW d \in Request, txn'[d].stage = "open" PROVE TxnOK(d, txn[d])'
    <3>1. PICK td : td = txn[d] OBVIOUS
    <3>2. d # c /\ td = txn'[d] BY <1>2, <1>6, <2>1, <3>1
    <3>3. td \in OpenType /\ TxnOK(d, td) BY <2>1, <3>1, <3>2, OpenTyped DEF EInv, TxnsOK
    <3>4. \A r \in User \union Object : lock[r] = d => lock'[r] = d BY <1>3, <3>2
    <3>5. TxnOK(d, td)' BY <1>1, <3>3, <3>4, TxnKept
    <3> QED BY <3>2, <3>5
  <2> QED BY <2>1 DEF TxnsOK
<1>8. LocksOK'
  <2>1. SUFFICES ASSUME NEW r \in User \union Object, NEW d \in Request, lock'[r] = d
                 PROVE  LockedFor(r, d)'
    BY DEF LocksOK
  <2>2. lock[r] = d /\ d # c BY <1>3, <2>1, EconomyAssumption
  <2>3. LockedFor(r, d) BY <2>2 DEF EInv, LocksOK
  <2>4. Done(txn[d])' = Done(txn[d]) /\ txn'[d].stage = txn[d].stage BY <1>2, <2>2
  <2> QED BY <2>3, <2>4 DEF LockedFor
<1>9. TellsOK' BY <1>2, <1>6 DEF EInv, TellsOK
<1>10. EntriesFollow' BY <1>1, <1>2, <1>6, EntriesKept DEF EInv
<1> QED BY <1>4, <1>5, <1>7, <1>8, <1>9, <1>10 DEF EInv

\* A write changes the row, or ends the transaction.
LEMMA WriteOneInv ==
  ASSUME EInv, NEW c \in Request, NEW s, WriteOne(c, s) PROVE EInv'
<1>1. PICK t : t = txn[c] OBVIOUS
<1>2. Runs(c, s, "write") BY DEF WriteOne
<1>3. /\ t \in OpenType /\ t.stage = "open" /\ TxnOK(c, t)
      /\ s \in t.todo /\ s \in Turn(c) /\ s.do = "write" /\ s \in Step
      /\ \A o \in t.todo : ~Precedes(o, s)
      /\ s \notin Done(t) /\ Done(t) \subseteq Step
  BY <1>1, <1>2, RunsAt
<1>4. CASE Rollback(c) BY <1>1, <1>3, <1>4, RollbackInv
<1>5. CASE Fits(s, Seen(c, s.row)) /\ LockRow(c, s.row) /\ Change(c, s, s.value)
  <2>1. s.row \in Object /\ s.value \in Content BY <1>3, StepTyped DEF OnObject, Content
  <2>2. PICK mine : mine = Put(t.mine, s.row, s.value) OBVIOUS
  <2>3. /\ mine \in Partly(Object, Content) /\ DOMAIN mine = DOMAIN t.mine \union {s.row}
        /\ t.read \in Partly(User, Balance) /\ t.gain \in [User -> Int]
    BY <1>3, <2>1, <2>2, PutMine DEF OpenType, Adds
  <2>4. PICK t1 : t1 = [stage |-> "open", plan |-> t.plan, todo |-> t.todo \ {s},
                        mine |-> mine, read |-> t.read, gain |-> t.gain] OBVIOUS
  <2>5. /\ t1.plan = t.plan /\ t1.todo = t.todo \ {s}
        /\ t1.mine = mine /\ t1.read = t.read /\ t1.gain = t.gain
    BY <2>4
  <2>6. InOrder(t1) /\ Done(t1) = Done(t) \union {s} BY <1>3, <2>5, InOrderNext DEF TxnOK
  <2>7. Mine(t1) BY <1>3, <2>2, <2>5, <2>6, MineWritten DEF TxnOK
  <2>8. Found(t1) BY <1>1, <1>3, <1>5, <2>5, <2>6, FoundNext DEF OnObject
  <2>9. Knows(t1) BY <1>3, <2>5, <2>6 DEF TxnOK, Knows
  <2>10. Holds(c, t1)'
    BY <1>3, <1>5, <2>3, <2>5, <2>6, HoldsNext DEF EInv, TxnOK, LockStep
  <2>11. Advance(c, s, mine, t.read, t.gain) BY <1>1, <1>5, <2>2 DEF Change
  <2> QED BY <1>1, <1>3, <1>5, <2>3, <2>4, <2>7, <2>8, <2>9, <2>10, <2>11, AdvanceInv DEF LockStep
<1> QED BY <1>4, <1>5 DEF WriteOne

\* A delete changes the row, passes over what is not there, or ends the transaction.
LEMMA DeleteOneInv ==
  ASSUME EInv, NEW c \in Request, NEW s, DeleteOne(c, s) PROVE EInv'
<1>1. PICK t : t = txn[c] OBVIOUS
<1>2. Runs(c, s, "delete") BY DEF DeleteOne
<1>3. /\ t \in OpenType /\ t.stage = "open" /\ TxnOK(c, t)
      /\ s \in t.todo /\ s \in Turn(c) /\ s.do = "delete" /\ s \in Step
      /\ \A o \in t.todo : ~Precedes(o, s)
      /\ s \notin Done(t) /\ Done(t) \subseteq Step
  BY <1>1, <1>2, RunsAt
<1>4. CASE Rollback(c) BY <1>1, <1>3, <1>4, RollbackInv
<1>5. ASSUME NEW mine, Advance(c, s, mine, t.read, t.gain), LockStep(c, s),
             \/ /\ mine = Put(t.mine, s.row, Absent)
                /\ Hits(s, Seen(c, s.row)) /\ LockRow(c, s.row)
             \/ mine = t.mine /\ ~Hits(s, Seen(c, s.row)) /\ s.version = AnyVersion
      PROVE  EInv'
  <2>1. s.row \in Object /\ Absent \in Content BY <1>3, StepTyped DEF OnObject, Content
  <2>2. /\ mine \in Partly(Object, Content) /\ DOMAIN mine \subseteq DOMAIN t.mine \union {s.row}
        /\ t.read \in Partly(User, Balance) /\ t.gain \in [User -> Int]
    <3>1. t.mine \in Partly(Object, Content) /\ t.read \in Partly(User, Balance)
          /\ t.gain \in [User -> Int] BY <1>3 DEF OpenType
    <3>2. CASE mine = Put(t.mine, s.row, Absent)
      <4>1. mine \in Partly(Object, Content) /\ Adds(mine, t.mine, s.row, Absent)
        BY <2>1, <3>1, <3>2, PutMine
      <4> QED BY <3>1, <4>1 DEF Adds
    <3> QED BY <1>5, <3>1, <3>2
  <2>3. PICK t1 : t1 = [stage |-> "open", plan |-> t.plan, todo |-> t.todo \ {s},
                        mine |-> mine, read |-> t.read, gain |-> t.gain] OBVIOUS
  <2>4. /\ t1.plan = t.plan /\ t1.todo = t.todo \ {s}
        /\ t1.mine = mine /\ t1.read = t.read /\ t1.gain = t.gain
    BY <2>3
  <2>5. InOrder(t1) /\ Done(t1) = Done(t) \union {s} BY <1>3, <2>4, InOrderNext DEF TxnOK
  <2>6. mine = t.mine /\ ~Hits(s, Seen(c, s.row)) /\ s.version = AnyVersion =>
          (s.row \in DOMAIN t.mine => t.mine[s.row] = Absent)
    BY <1>1 DEF Hits, Seen
  <2>7. Mine(t1) BY <1>3, <1>5, <2>4, <2>5, <2>6, MineDeleted DEF TxnOK
  <2>8. Found(t1) BY <1>1, <1>3, <1>5, <2>4, <2>5, FoundNext DEF OnObject
  <2>9. Knows(t1) BY <1>3, <2>4, <2>5 DEF TxnOK, Knows
  <2>10. Holds(c, t1)'
    BY <1>3, <1>5, <2>2, <2>4, <2>5, HoldsNext DEF EInv, TxnOK
  <2> QED BY <1>1, <1>3, <1>5, <2>2, <2>3, <2>7, <2>8, <2>9, <2>10, AdvanceInv
<1>6. CASE Hits(s, Seen(c, s.row)) /\ LockRow(c, s.row) /\ Change(c, s, Absent)
  BY <1>1, <1>5, <1>6 DEF Change, LockStep
<1>7. CASE /\ ~Hits(s, Seen(c, s.row)) /\ s.version = AnyVersion /\ UNCHANGED lock
           /\ Advance(c, s, t.mine, t.read, t.gain)
  BY <1>1, <1>5, <1>7 DEF LockStep
<1> QED BY <1>1, <1>4, <1>6, <1>7 DEF DeleteOne

\* The wallet is read with its lock, once.
LEMMA ReadWalletInv ==
  ASSUME EInv, NEW c \in Request, NEW s, ReadWallet(c, s) PROVE EInv'
<1>1. PICK t : t = txn[c] OBVIOUS
<1>2. Runs(c, s, "wallet") /\ LockRow(c, s.row)
      /\ Advance(c, s, t.mine, Put(t.read, s.row, wallet[s.row]), t.gain)
  BY <1>1 DEF ReadWallet, LockWallet
<1>3. /\ t \in OpenType /\ t.stage = "open" /\ TxnOK(c, t)
      /\ s \in t.todo /\ s \in Turn(c) /\ s.do = "wallet" /\ s \in Step
      /\ s \in Statements(t.plan)
      /\ \A o \in t.todo : ~Precedes(o, s)
  BY <1>1, <1>2, RunsAt
<1>4. s.row \in User /\ s = WalletOf(s.row) BY <1>3, StatementsTyped DEF OpenType
<1>5. PICK read : read = Put(t.read, s.row, wallet[s.row]) OBVIOUS
<1>6. /\ t.mine \in Partly(Object, Content) /\ t.read \in Partly(User, Balance)
      /\ t.gain \in [User -> Int] /\ wallet[s.row] \in Balance
  BY <1>3, <1>4 DEF OpenType, EInv, RowsTyped
<1>7. read \in Partly(User, Balance) /\ Adds(read, t.read, s.row, wallet[s.row])
  BY <1>4, <1>5, <1>6, PutRead
<1>8. PICK t1 : t1 = [stage |-> "open", plan |-> t.plan, todo |-> t.todo \ {s},
                      mine |-> t.mine, read |-> read, gain |-> t.gain] OBVIOUS
<1>9. /\ t1.plan = t.plan /\ t1.todo = t.todo \ {s}
      /\ t1.mine = t.mine /\ t1.read = read /\ t1.gain = t.gain
  BY <1>8
<1>10. InOrder(t1) /\ Done(t1) = Done(t) \union {s} BY <1>3, <1>9, InOrderNext DEF TxnOK
<1>11. ~OnObject(s) BY <1>3 DEF OnObject
<1>12. Mine(t1) BY <1>3, <1>9, <1>10, <1>11 DEF TxnOK, Mine, OnObject
<1>13. Found(t1) BY <1>3, <1>9, <1>10, <1>11 DEF TxnOK, Found
<1>14. Knows(t1)
  <2>1. Knows(t) /\ s.row \notin DOMAIN t.read BY <1>3, <1>4 DEF TxnOK, Knows
  <2>2. t.gain[s.row] = 0 /\ wallet[s.row] \in Int /\ wallet[s.row] = wallet[s.row] + t.gain[s.row]
    BY <1>4, <1>6, <2>1, EconomyAssumption DEF Knows, Balance
  <2>3. ASSUME NEW u \in DOMAIN t1.read
        PROVE  t1.read[u] = wallet[u] + t1.gain[u] /\ WalletOf(u) \notin t1.todo
    <3>1. CASE u = s.row BY <1>4, <1>7, <1>9, <2>2, <3>1 DEF Adds
    <3>2. CASE u # s.row BY <1>7, <1>9, <2>1, <2>3, <3>2 DEF Adds, Knows
    <3> QED BY <3>1, <3>2
  <2>4. \A u \in User \ DOMAIN t1.read : t1.gain[u] = 0 BY <1>7, <1>9, <2>1 DEF Adds, Knows
  <2>5. \A o \in Done(t1) : o.do = "wallet" => o.row \in DOMAIN t1.read
    BY <1>7, <1>9, <1>10, <2>1 DEF Adds, Knows
  <2> QED BY <2>3, <2>4, <2>5 DEF Knows
<1>15. Holds(c, t1)'
  <2>1. DOMAIN t1.mine \union DOMAIN t1.read
          \subseteq DOMAIN t.mine \union DOMAIN t.read \union {s.row}
    BY <1>7, <1>9 DEF Adds
  <2> QED BY <1>2, <1>3, <1>10, <2>1, HoldsNext DEF EInv, TxnOK, LockStep
<1>16. Advance(c, s, t.mine, read, t.gain) BY <1>2, <1>5
<1> QED BY <1>1, <1>2, <1>3, <1>6, <1>7, <1>8, <1>12, <1>13, <1>14, <1>15, <1>16, AdvanceInv
        DEF LockStep

\* A sum that is not below zero has not passed the width of a balance.
LEMMA WrappedAt ==
  ASSUME NEW b \in Balance, NEW d \in Delta, ~Negative(Wrapped(b + d))
  PROVE  Wrapped(b + d) \in Balance /\ Wrapped(b + d) = b + d
<1>1. HalfRange \in Nat \ {0} BY EconomyAssumption
<1>2. b \in Int /\ 0 <= b /\ b < HalfRange /\ d \in Int /\ -HalfRange <= d /\ d < HalfRange
  BY <1>1 DEF Balance, Delta
<1>3. PICK n \in Int : n = b + d + HalfRange BY <1>1, <1>2
<1>4. 0 <= n /\ n < 3 * HalfRange BY <1>1, <1>2, <1>3
<1>5. n < 2 * HalfRange => n % (2 * HalfRange) = n BY <1>1, <1>4
<1>6. ~(n < 2 * HalfRange) => n % (2 * HalfRange) = n - 2 * HalfRange BY <1>1, <1>4
<1>7. Wrapped(b + d) = (n % (2 * HalfRange)) - HalfRange BY <1>3 DEF Wrapped
<1> QED BY <1>1, <1>2, <1>3, <1>4, <1>5, <1>6, <1>7 DEF Negative, Balance

\* A change adds to the wallet as read and to the sum of its changes alike.
LEMMA ChangeWalletInv ==
  ASSUME EInv, NEW c \in Request, NEW s, ChangeWallet(c, s) PROVE EInv'
<1>1. PICK t : t = txn[c] OBVIOUS
<1>2. Runs(c, s, "earn") BY DEF ChangeWallet
<1>3. /\ t \in OpenType /\ t.stage = "open" /\ TxnOK(c, t)
      /\ s \in t.todo /\ s \in Turn(c) /\ s.do = "earn" /\ s \in Step
      /\ s \in Statements(t.plan)
      /\ \A o \in t.todo : ~Precedes(o, s)
  BY <1>1, <1>2, RunsAt
<1>4. PICK balance : balance = Wrapped(t.read[s.row] + s.delta) OBVIOUS
<1>5. CASE Negative(balance) BY <1>1, <1>2, <1>3, <1>4, <1>5, RollbackInv DEF ChangeWallet
<1>6. CASE ~Negative(balance)
  <2>1. PICK read, gain : /\ read = [t.read EXCEPT ![s.row] = balance]
                          /\ gain = [t.gain EXCEPT ![s.row] = @ + s.delta]
    OBVIOUS
  <2>2. Advance(c, s, t.mine, read, gain) /\ UNCHANGED lock
    BY <1>1, <1>4, <1>6, <2>1 DEF ChangeWallet
  <2>3. /\ t.mine \in Partly(Object, Content) /\ t.read \in Partly(User, Balance)
        /\ t.gain \in [User -> Int] /\ s.row \in User /\ s.delta \in Delta
    BY <1>3, StepTyped DEF OpenType
  <2>4. s.row \in DOMAIN t.read
    <3>1. WalletOf(s.row) \in Statements(t.plan) /\ WalletOf(s.row).do = "wallet"
          /\ WalletOf(s.row).row = s.row
      BY <1>3, StatementsTyped DEF OpenType, WalletOf
    <3>2. Precedes(WalletOf(s.row), s) BY <1>3, <3>1 DEF Precedes, Section
    <3>3. WalletOf(s.row) \in Done(t) BY <1>3, <3>1, <3>2 DEF Done
    <3> QED BY <1>3, <3>1, <3>3 DEF TxnOK, Knows
  <2>5. PICK b \in Balance : b = t.read[s.row] BY <2>3, <2>4, PartlyValues
  <2>6. balance \in Balance /\ balance = b + s.delta BY <1>4, <1>6, <2>3, <2>5, WrappedAt
  <2>7. /\ DOMAIN read = DOMAIN t.read /\ read[s.row] = balance
        /\ \A u \in DOMAIN t.read : u # s.row => read[u] = t.read[u]
    BY <2>1, <2>4
  <2>8. read \in Partly(User, Balance)
    <3>1. PICK D \in SUBSET User : t.read \in [D -> Balance] BY <2>3 DEF Partly
    <3>2. read \in [D -> Balance] BY <2>1, <2>6, <3>1
    <3> QED BY <3>2 DEF Partly
  <2>9. s.delta \in Int BY <2>3, EconomyAssumption DEF Delta
  <2>10. /\ gain \in [User -> Int] /\ gain[s.row] = t.gain[s.row] + s.delta
         /\ \A u \in User : u # s.row => gain[u] = t.gain[u]
    BY <2>1, <2>3, <2>9
  <2>11. PICK t1 : t1 = [stage |-> "open", plan |-> t.plan, todo |-> t.todo \ {s},
                         mine |-> t.mine, read |-> read, gain |-> gain] OBVIOUS
  <2>12. /\ t1.plan = t.plan /\ t1.todo = t.todo \ {s}
         /\ t1.mine = t.mine /\ t1.read = read /\ t1.gain = gain
    BY <2>11
  <2>13. InOrder(t1) /\ Done(t1) = Done(t) \union {s} BY <1>3, <2>12, InOrderNext DEF TxnOK
  <2>14. ~OnObject(s) BY <1>3 DEF OnObject
  <2>15. Mine(t1) BY <1>3, <2>12, <2>13, <2>14 DEF TxnOK, Mine, OnObject
  <2>16. Found(t1) BY <1>3, <2>12, <2>13, <2>14 DEF TxnOK, Found
  <2>17. Knows(t1)
    <3>1. Knows(t) BY <1>3 DEF TxnOK
    <3>2. ASSUME NEW u \in DOMAIN t1.read
          PROVE  t1.read[u] = wallet[u] + t1.gain[u] /\ WalletOf(u) \notin t1.todo
      <4>1. CASE u = s.row
        <5>1. b = wallet[u] + t.gain[u] BY <2>4, <2>5, <3>1, <4>1 DEF Knows
        <5>2. wallet[u] \in Int /\ t.gain[u] \in Int
          BY <2>3, <4>1, EconomyAssumption DEF EInv, RowsTyped, Balance
        <5>3. balance = wallet[u] + gain[u] BY <2>6, <2>9, <2>10, <4>1, <5>1, <5>2
        <5> QED BY <2>4, <2>7, <2>12, <3>1, <4>1, <5>3 DEF Knows
      <4>2. CASE u # s.row
        <5>1. u \in User BY <2>3, <2>7, <2>12, PartlyValues
        <5> QED BY <2>7, <2>10, <2>12, <3>1, <3>2, <4>2, <5>1 DEF Knows
      <4> QED BY <4>1, <4>2
    <3>3. \A u \in User \ DOMAIN t1.read : t1.gain[u] = 0
      BY <2>4, <2>7, <2>10, <2>12, <3>1 DEF Knows
    <3>4. \A o \in Done(t1) : o.do = "wallet" => o.row \in DOMAIN t1.read
      BY <1>3, <2>7, <2>12, <2>13, <3>1 DEF Knows
    <3> QED BY <3>2, <3>3, <3>4 DEF Knows
  <2>18. Holds(c, t1)'
    BY <1>3, <2>2, <2>7, <2>12, <2>13, HoldsNext DEF EInv, TxnOK, LockStep
  <2> QED
    <3>1. ~LockRow(c, s.row) \/ lock[s.row] = c
      BY <2>2, <2>3 DEF LockRow, EInv, RowsTyped
    <3>2. LockStep(c, s) BY <2>2 DEF LockStep
    <3> QED BY <1>1, <1>3, <2>2, <2>3, <2>8, <2>10, <2>11, <2>15, <2>16, <2>17, <2>18, <3>1, <3>2,
               AdvanceInv
<1> QED BY <1>5, <1>6

-----------------------------------------------------------------------------
(* The commit and the index                                                  *)

\* What is left to tell the index.
LEMMA GoIndexAt ==
  ASSUME TxnTyped, NEW c \in Request, NEW steps \in SUBSET Step, GoIndex(c, steps)
  PROVE  /\ TxnTyped'
         /\ \A d \in Request \ {c} : txn'[d] = txn[d]
         /\ txn'[c].stage # "open" /\ txn'[c].todo = steps
         /\ txn'[c].stage = "index" <=> steps # {}
<1>1. PICK t1 : t1 = IF steps = {} THEN NoTxn ELSE [stage |-> "index", todo |-> steps] OBVIOUS
<1>2. /\ t1 \in IndexType \union {NoTxn} /\ t1.stage # "open" /\ t1.todo = steps
      /\ t1.stage = "index" <=> steps # {}
  BY <1>1 DEF IndexType, NoTxn
<1>3. txn' = [txn EXCEPT ![c] = t1] BY <1>1 DEF GoIndex
<1> QED BY <1>2, <1>3 DEF TxnTyped

\* Of two statements on one object that the index is told, one comes first.
LEMMA IndexOrder ==
  ASSUME NEW steps \in SUBSET Step, Tells(steps), NEW s \in steps, NEW o \in steps, s # o
  PROVE  IndexBefore(s, o) \/ IndexBefore(o, s)
<1>1. OnObject(s) /\ OnObject(o) /\ ~(s.do = o.do /\ s.n = o.n) BY DEF Tells
<1>2. s.n \in Nat /\ o.n \in Nat BY StepTyped
<1> QED BY <1>1, <1>2 DEF IndexBefore, OnObject, Section

\* The index hears of one object.
LEMMA SetEntryInv ==
  ASSUME EInv, NEW c \in Request, NEW s \in txn[c].todo, NEW entry \in Content,
         SetEntry(c, s, entry), missed' \in {missed, missed \union {s.row}},
         entry = Tell(s) \/ s.row \in missed'
  PROVE  EInv'
<1>1. PICK t : t = txn[c] OBVIOUS
<1>2. /\ t.stage = "index" /\ s \in t.todo /\ \A o \in t.todo : ~IndexBefore(o, s)
      /\ index' = [index EXCEPT ![s.row] = entry]
      /\ GoIndex(c, t.todo \ {s})
      /\ UNCHANGED <<wallet, ledger, unlogged, stored, lock>>
  BY <1>1 DEF SetEntry, committed
<1>3. t.todo \in SUBSET Step /\ Tells(t.todo)
  BY <1>1, <1>2, IndexTyped DEF EInv, TellsOK, IndexType
<1>4. OnObject(s) /\ s.row \in Object BY <1>2, <1>3, StepTyped DEF Tells
<1>5. PICK t1 : t1 = txn'[c] OBVIOUS
<1>6. /\ TxnTyped' /\ \A d \in Request \ {c} : txn'[d] = txn[d]
      /\ t1.stage # "open" /\ t1.todo = t.todo \ {s}
      /\ t1.stage = "index" <=> t.todo \ {s} # {}
  BY <1>2, <1>3, <1>5, GoIndexAt DEF EInv
<1>7. /\ index' \in [Object -> Content] /\ index'[s.row] = entry
      /\ \A o \in Object : o # s.row => index'[o] = index[o]
  BY <1>2, <1>4 DEF EInv, RowsTyped
<1>8. RowsTyped' /\ LedgerExplains' BY <1>2, <1>4, <1>7 DEF EInv, RowsTyped, LedgerExplains
<1>9. TxnsOK'
  <2>1. ASSUME NEW d \in Request, txn'[d].stage = "open" PROVE TxnOK(d, txn[d])'
    <3>1. PICK td : td = txn[d] OBVIOUS
    <3>2. d # c /\ td = txn'[d] BY <1>5, <1>6, <2>1, <3>1
    <3>3. td \in OpenType /\ TxnOK(d, td) BY <2>1, <3>1, <3>2, OpenTyped DEF EInv, TxnsOK
    <3>4. TxnOK(d, td)' BY <1>2, <3>3, TxnKept
    <3> QED BY <3>2, <3>4
  <2> QED BY <2>1 DEF TxnsOK
<1>10. LocksOK'
  <2>1. SUFFICES ASSUME NEW r \in User \union Object, NEW d \in Request, lock'[r] = d
                 PROVE  LockedFor(r, d)'
    BY DEF LocksOK
  <2>2. LockedFor(r, d) BY <1>2, <2>1 DEF EInv, LocksOK
  <2>3. d # c BY <1>1, <1>2, <2>2 DEF LockedFor
  <2>4. Done(txn[d])' = Done(txn[d]) /\ txn'[d].stage = txn[d].stage BY <1>6, <2>3
  <2> QED BY <2>2, <2>4 DEF LockedFor
<1>11. Tells(t1.todo) BY <1>3, <1>6 DEF Tells
<1>12. TellsOK' BY <1>5, <1>6, <1>11 DEF EInv, TellsOK
<1>13. ASSUME NEW o \in Object \ missed' PROVE EntryFollows(o)'
  <2>1. EntryFollows(o) /\ (o = s.row => entry = Tell(s)) BY <1>13 DEF EInv, EntriesFollow
  <2>2. \A d \in Request : Telling(txn'[d], o) => Telling(txn[d], o)
    BY <1>1, <1>2, <1>5, <1>6 DEF Telling, Rows
  <2>3. \A d, e \in Request : Telling(txn'[d], o) /\ Telling(txn'[e], o) => d = e
    BY <2>1, <2>2 DEF EntryFollows
  <2>4. CASE o # s.row
    <3>1. \A d \in Request : Telling(txn[d], o) => Telling(txn'[d], o)
      BY <1>1, <1>2, <1>5, <1>6, <2>4 DEF Telling, Rows
    <3>2. (\A d \in Request : ~Telling(txn'[d], o)) => index'[o] = Shown(stored'[o])
      BY <1>2, <1>7, <2>1, <2>4, <3>1 DEF EntryFollows
    <3>3. ASSUME NEW d \in Request, txn'[d].stage = "index", NEW r \in txn'[d].todo,
                 LastOn(txn'[d].todo, r, o)
          PROVE  Tell(r) = Shown(stored'[o])
      <4>1. CASE d = c
        <5>1. LastOn(t.todo, r, o) BY <1>5, <1>6, <2>4, <3>3, <4>1 DEF LastOn
        <5>2. r \in t.todo BY <1>5, <1>6, <3>3, <4>1
        <5> QED BY <1>1, <1>2, <2>1, <5>1, <5>2 DEF EntryFollows
      <4>2. CASE d # c BY <1>2, <1>6, <2>1, <3>3, <4>2 DEF EntryFollows
      <4> QED BY <4>1, <4>2
    <3> QED BY <2>3, <3>2, <3>3 DEF EntryFollows
  <2>5. CASE o = s.row
    <3>1. Telling(txn[c], o) BY <1>1, <1>2, <2>5 DEF Telling, Rows
    <3>2. \A d \in Request : Telling(txn[d], o) => d = c BY <2>1, <3>1 DEF EntryFollows
    <3>3. CASE \A r \in t1.todo : r.row # o
      <4>1. LastOn(t.todo, s, o) BY <1>6, <2>5, <3>3 DEF LastOn
      <4>2. index'[o] = Shown(stored'[o]) BY <1>1, <1>2, <1>7, <2>1, <2>5, <4>1 DEF EntryFollows
      <4>3. ASSUME NEW d \in Request, txn'[d].stage = "index", NEW r \in txn'[d].todo, r.row = o
            PROVE  FALSE
        <5>1. d # c BY <1>5, <3>3, <4>3
        <5>2. Telling(txn[d], o) BY <1>6, <4>3, <5>1 DEF Telling, Rows
        <5> QED BY <3>2, <5>1, <5>2
      <4> QED BY <2>3, <4>2, <4>3 DEF EntryFollows, LastOn
    <3>4. CASE \E r \in t1.todo : r.row = o
      <4>1. Telling(txn'[c], o) BY <1>5, <1>6, <3>4 DEF Telling, Rows
      <4>2. ASSUME NEW d \in Request, txn'[d].stage = "index", NEW r \in txn'[d].todo,
                   LastOn(txn'[d].todo, r, o)
            PROVE  Tell(r) = Shown(stored'[o])
        <5>1. r.row = o BY <4>2 DEF LastOn
        <5>2. d = c
          <6>1. Telling(txn'[d], o) BY <4>2, <5>1 DEF Telling, Rows
          <6> QED BY <2>2, <3>2, <6>1
        <5>3. r \in t.todo /\ r # s /\ LastOn(t.todo \ {s}, r, o)
          BY <1>5, <1>6, <4>2, <5>2
        <5>4. IndexBefore(s, r) BY <1>2, <1>3, <5>3, IndexOrder
        <5>5. LastOn(t.todo, r, o) BY <5>3, <5>4 DEF LastOn
        <5> QED BY <1>1, <1>2, <2>1, <5>3, <5>5 DEF EntryFollows
      <4> QED BY <2>3, <4>1, <4>2 DEF EntryFollows
    <3> QED BY <3>3, <3>4
  <2> QED BY <2>4, <2>5
<1>14. EntriesFollow' BY <1>13 DEF EntriesFollow
<1> QED BY <1>6, <1>8, <1>9, <1>10, <1>12, <1>14 DEF EInv

\* The index hears of one object, or misses what it should hear.
LEMMA IndexStepInv ==
  ASSUME EInv, NEW c \in Request, NEW s \in txn[c].todo, IndexStep(c, s) \/ IndexFails(c, s)
  PROVE  EInv'
<1>1. txn[c].stage = "index" BY DEF IndexStep, IndexFails, SetEntry
<1>2. s \in Step /\ OnObject(s)
  BY <1>1, IndexTyped DEF EInv, TellsOK, Tells, IndexType
<1>3. index[s.row] \in Content /\ Absent \in Content /\ Tell(s) \in Content
  BY <1>2, StepTyped DEF EInv, RowsTyped, Content, Tell, Shown
<1>4. CASE IndexStep(c, s)
  <2>1. SetEntry(c, s, Tell(s)) /\ missed' = missed BY <1>4 DEF IndexStep, Tell
  <2> QED BY <1>3, <2>1, SetEntryInv
<1>5. CASE IndexFails(c, s)
  <2>1. PICK entry \in Content : SetEntry(c, s, entry) /\ missed' = missed \union {s.row}
    BY <1>3, <1>5 DEF IndexFails
  <2> QED BY <2>1, SetEntryInv
<1> QED BY <1>4, <1>5

\* What a commit leaves of the rows: it changes those that it has locked.
LEMMA CommitAt ==
  ASSUME EInv, NEW c \in Request, Commit(c), NEW t, t = txn[c]
  PROVE  /\ t \in OpenType /\ TxnOK(c, t) /\ t.todo = {} /\ t.plan \in Plans
         /\ wallet' \in [User -> Balance] /\ stored' \in [Object -> Content]
         /\ \A u \in User : wallet'[u] = wallet[u] + t.gain[u]
         /\ \A u \in User : lock[u] # c => wallet'[u] = wallet[u]
         /\ \A o \in Object : stored'[o] = IF o \in DOMAIN t.mine THEN t.mine[o] ELSE stored[o]
         /\ \A o \in Object : lock[o] # c => stored'[o] = stored[o]
<1>1. /\ t.stage = "open" /\ t.todo = {}
      /\ wallet' = Over(t.read, wallet) /\ stored' = Over(t.mine, stored)
  BY DEF Commit
<1>2. t \in OpenType /\ TxnOK(c, t) BY <1>1, OpenTyped DEF EInv, TxnsOK
<1>3. /\ t.mine \in Partly(Object, Content) /\ t.read \in Partly(User, Balance)
      /\ t.gain \in [User -> Int] /\ t.plan \in Plans
  BY <1>2 DEF OpenType
<1>4. wallet \in [User -> Balance] /\ stored \in [Object -> Content] BY DEF EInv, RowsTyped
<1>5. /\ DOMAIN t.read \subseteq User /\ DOMAIN t.mine \subseteq Object
      /\ \A u \in DOMAIN t.read : t.read[u] \in Balance /\ lock[u] = c
      /\ \A o \in DOMAIN t.mine : t.mine[o] \in Content /\ lock[o] = c
  BY <1>2, <1>3, PartlyValues DEF TxnOK, Holds
<1>6. \A u \in User : wallet'[u] = IF u \in DOMAIN t.read THEN t.read[u] ELSE wallet[u]
  BY <1>1, <1>4 DEF Over
<1>7. \A o \in Object : stored'[o] = IF o \in DOMAIN t.mine THEN t.mine[o] ELSE stored[o]
  BY <1>1, <1>4 DEF Over
<1>8. wallet' \in [User -> Balance] /\ stored' \in [Object -> Content]
  BY <1>1, <1>4, <1>5 DEF Over
<1>9. ASSUME NEW u \in User PROVE wallet'[u] = wallet[u] + t.gain[u]
  <2>1. wallet[u] \in Int BY <1>4, EconomyAssumption DEF Balance
  <2> QED BY <1>2, <1>6, <2>1 DEF TxnOK, Knows
<1> QED BY <1>1, <1>2, <1>3, <1>5, <1>6, <1>7, <1>8, <1>9

\* The sum of the changes goes to the ledger, or to what it does not list.
LEMMA CommitExplained ==
  ASSUME EInv, NEW c \in Request, Commit(c), NEW t, t = txn[c]
  PROVE  /\ ledger' \in [User -> Int] /\ unlogged' \in [User -> Int] /\ LedgerExplains'
<1>1. /\ t \in OpenType /\ \A u \in User : wallet'[u] = wallet[u] + t.gain[u]
  BY CommitAt
<1>2. /\ t.gain \in [User -> Int] /\ ledger \in [User -> Int] /\ unlogged \in [User -> Int]
      /\ \A u \in User : wallet[u] = ledger[u] + unlogged[u]
  BY <1>1 DEF OpenType, EInv, RowsTyped, LedgerExplains
<1>3. CASE t.plan.logged
  <2>1. ledger' = [u \in User |-> ledger[u] + t.gain[u]] /\ unlogged' = unlogged
    BY <1>3 DEF Commit
  <2> QED BY <1>1, <1>2, <2>1 DEF LedgerExplains
<1>4. CASE ~t.plan.logged
  <2>1. unlogged' = [u \in User |-> unlogged[u] + t.gain[u]] /\ ledger' = ledger
    BY <1>4 DEF Commit
  <2> QED BY <1>1, <1>2, <2>1 DEF LedgerExplains
<1> QED BY <1>3, <1>4

\* What the index is told of an object that it does not miss.
LEMMA CommitTells ==
  ASSUME EInv, NEW c \in Request, Commit(c), NEW t, t = txn[c],
         NEW o \in Touched(t.plan), o \notin Missed(c)
  PROVE  /\ o \in Rows(IndexSteps(t.plan))
         /\ \A d \in Request \ {c} : ~Telling(txn[d], o)
         /\ \A s \in IndexSteps(t.plan) :
              LastOn(IndexSteps(t.plan), s, o) => Tell(s) = Shown(stored'[o])
<1>1. /\ t \in OpenType /\ InOrder(t) /\ Mine(t) /\ t.todo = {} /\ t.plan \in Plans
  BY CommitAt DEF TxnOK
<1>2. /\ \A d \in Request \ {c} : ~(txn[d].stage = "index" /\ o \in Rows(txn[d].todo))
      /\ ~(o \in Rows(Of(t.plan, "delete")) \ DOMAIN t.mine /\ stored[o] # Absent)
      /\ ~\E s \in Of(t.plan, "delete") : s.row = o /\ ~s.named
  BY DEF Missed
<1>3. Done(t) = Statements(t.plan) BY <1>1 DEF Done
<1>4. \A s : s \in Of(t.plan, "write") \union Of(t.plan, "delete")
               <=> s \in Done(t) /\ OnObject(s)
  <2>1. \A s \in Statements(t.plan) : OnObject(s) => s \in t.plan.statements
    BY <1>1, StatementsTyped DEF OnObject
  <2>2. t.plan.statements \subseteq Statements(t.plan) BY DEF Statements
  <2> QED BY <1>3, <2>1, <2>2 DEF Of, OnObject
<1>5. \A s \in Done(t) : OnObject(s) /\ s.row = o => s \in IndexSteps(t.plan)
  BY <1>2, <1>4 DEF IndexSteps, Of, OnObject
<1>6. o \in Rows(IndexSteps(t.plan)) BY <1>4, <1>5 DEF Touched, Rows
<1>7. o \in Object
  <2>1. PICK s \in Done(t) : OnObject(s) /\ s.row = o BY <1>4 DEF Touched, Rows
  <2> QED BY <1>1, <1>3, <2>1, StatementsTyped, StepTyped
<1>8. stored'[o] = IF o \in DOMAIN t.mine THEN t.mine[o] ELSE stored[o] BY <1>7, CommitAt
<1>9. ASSUME NEW s \in IndexSteps(t.plan), LastOn(IndexSteps(t.plan), s, o)
      PROVE  Tell(s) = Shown(stored'[o])
  <2>1. s \in Done(t) /\ OnObject(s) /\ s.row = o
    BY <1>4, <1>9 DEF IndexSteps, LastOn
  <2>2. \A r \in Done(t) : OnObject(r) /\ r.row = o => r = s \/ IndexBefore(r, s)
    BY <1>5, <1>9 DEF LastOn
  <2>3. CASE s.do = "delete"
    <3>1. s \in Of(t.plan, "delete") BY <1>4, <2>1, <2>3 DEF Of
    <3>2. o \in DOMAIN t.mine => t.mine[o] = Absent BY <2>1, <2>3, <1>1 DEF Mine
    <3>3. o \notin DOMAIN t.mine => stored[o] = Absent BY <1>2, <2>1, <3>1 DEF Rows
    <3> QED BY <1>8, <2>3, <3>2, <3>3, EconomyAssumption DEF Tell, Shown
  <2>4. CASE s.do = "write"
    <3>1. \A r \in Done(t) : OnObject(r) /\ r.row = o => r.do = "write" /\ (r = s \/ r.n < s.n)
      BY <2>2, <2>4 DEF IndexBefore, OnObject, Section
    <3>2. s.row \in DOMAIN t.mine /\ t.mine[s.row] = s.value
      BY <1>1, <2>1, <2>4, <3>1 DEF Mine
    <3> QED BY <1>8, <2>1, <2>4, <3>2 DEF Tell
  <2> QED BY <2>1, <2>3, <2>4 DEF OnObject
<1>10. \A d \in Request \ {c} : ~Telling(txn[d], o) BY <1>2 DEF Telling
<1> QED BY <1>6, <1>9, <1>10

\* A commit.
LEMMA CommitInv == ASSUME EInv, NEW c \in Request, Commit(c) PROVE EInv'
<1>1. PICK t : t = txn[c] OBVIOUS
<1>2. /\ t \in OpenType /\ TxnOK(c, t) /\ t.todo = {} /\ t.plan \in Plans
      /\ wallet' \in [User -> Balance] /\ stored' \in [Object -> Content]
      /\ \A u \in User : lock[u] # c => wallet'[u] = wallet[u]
      /\ \A o \in Object : stored'[o] = IF o \in DOMAIN t.mine THEN t.mine[o] ELSE stored[o]
      /\ \A o \in Object : lock[o] # c => stored'[o] = stored[o]
  BY <1>1, CommitAt
<1>3. ledger' \in [User -> Int] /\ unlogged' \in [User -> Int] /\ LedgerExplains'
  BY <1>1, CommitExplained
<1>4. /\ t.stage = "open" /\ lock' = Unlocked(c) /\ GoIndex(c, IndexSteps(t.plan))
      /\ missed' = (missed \ Touched(t.plan)) \union Missed(c) /\ index' = index
  BY <1>1 DEF Commit
<1>5. IndexSteps(t.plan) \in SUBSET t.plan.statements /\ t.plan.statements \subseteq Step
  BY <1>2, EconomyAssumption DEF IndexSteps, Of, Step
<1>6. PICK t1 : t1 = txn'[c] OBVIOUS
<1>7. /\ TxnTyped' /\ \A d \in Request \ {c} : txn'[d] = txn[d]
      /\ t1.stage # "open" /\ t1.todo = IndexSteps(t.plan)
      /\ t1.stage = "index" <=> IndexSteps(t.plan) # {}
  BY <1>4, <1>5, <1>6, GoIndexAt DEF EInv
<1>8. /\ lock' \in [User \union Object -> Request \union {Free}]
      /\ \A r \in User \union Object : lock'[r] = IF lock[r] = c THEN Free ELSE lock[r]
  BY <1>4 DEF Unlocked, EInv, RowsTyped
<1>9. RowsTyped'
  <2>1. Touched(t.plan) \subseteq Object
    <3>1. \A s \in t.plan.statements : OnObject(s) => s.row \in Object BY <1>5, StepTyped
    <3> QED BY <3>1 DEF Touched, Rows, Of, OnObject
  <2>2. Missed(c) \subseteq Touched(t.plan) BY <1>1 DEF Missed
  <2> QED BY <1>2, <1>3, <1>4, <1>8, <2>1, <2>2 DEF EInv, RowsTyped
<1>10. TxnsOK'
  <2>1. ASSUME NEW d \in Request, txn'[d].stage = "open" PROVE TxnOK(d, txn[d])'
    <3>1. PICK td : td = txn[d] OBVIOUS
    <3>2. d # c /\ td = txn'[d] BY <1>6, <1>7, <2>1, <3>1
    <3>3. td \in OpenType /\ TxnOK(d, td) BY <2>1, <3>1, <3>2, OpenTyped DEF EInv, TxnsOK
    <3>4. \A r \in User \union Object : lock[r] = d => lock'[r] = d BY <1>8, <3>2
    <3>5. TxnOK(d, td)' BY <1>2, <3>2, <3>3, <3>4, TxnKept
    <3> QED BY <3>2, <3>5
  <2> QED BY <2>1 DEF TxnsOK
<1>11. LocksOK'
  <2>1. SUFFICES ASSUME NEW r \in User \union Object, NEW d \in Request, lock'[r] = d
                 PROVE  LockedFor(r, d)'
    BY DEF LocksOK
  <2>2. lock[r] = d /\ d # c BY <1>8, <2>1, EconomyAssumption
  <2>3. LockedFor(r, d) BY <2>2 DEF EInv, LocksOK
  <2>4. Done(txn[d])' = Done(txn[d]) /\ txn'[d].stage = txn[d].stage BY <1>7, <2>2
  <2> QED BY <2>3, <2>4 DEF LockedFor
<1>12. Tells(t1.todo)
  <2>1. \A s, o \in t.plan.statements : s.do = o.do /\ s.n = o.n => s = o
    BY <1>2, EconomyAssumption
  <2>2. \A s \in IndexSteps(t.plan) : OnObject(s) BY DEF IndexSteps, Of, OnObject
  <2> QED BY <1>5, <1>7, <2>1, <2>2 DEF Tells
<1>13. TellsOK' BY <1>6, <1>7, <1>12 DEF EInv, TellsOK
<1>14. ASSUME NEW o \in Object \ missed' PROVE EntryFollows(o)'
  <2>1. o \notin Missed(c) BY <1>4
  <2>2. \A d \in Request \ {c} : Telling(txn'[d], o) <=> Telling(txn[d], o)
    BY <1>7 DEF Telling
  <2>3. ~Telling(txn[c], o) BY <1>1, <1>4 DEF Telling
  <2>4. CASE o \in Touched(t.plan)
    <3>1. /\ o \in Rows(IndexSteps(t.plan))
          /\ \A d \in Request \ {c} : ~Telling(txn[d], o)
          /\ \A s \in IndexSteps(t.plan) :
               LastOn(IndexSteps(t.plan), s, o) => Tell(s) = Shown(stored'[o])
      BY <1>1, <2>1, <2>4, CommitTells
    <3>2. Telling(txn'[c], o) BY <1>6, <1>7, <3>1 DEF Telling, Rows
    <3>3. ASSUME NEW d \in Request, txn'[d].stage = "index", NEW s \in txn'[d].todo,
                 LastOn(txn'[d].todo, s, o)
          PROVE  Tell(s) = Shown(stored'[o])
      <4>1. Telling(txn'[d], o) BY <3>3 DEF Telling, Rows, LastOn
      <4>2. d = c BY <2>2, <3>1, <4>1
      <4> QED BY <1>6, <1>7, <3>1, <3>3, <4>2
    <3> QED BY <2>2, <3>1, <3>2, <3>3 DEF EntryFollows
  <2>5. CASE o \notin Touched(t.plan)
    <3>1. o \in Object \ missed BY <1>4, <2>5
    <3>2. EntryFollows(o) BY <3>1 DEF EInv, EntriesFollow
    <3>3. ~Telling(txn'[c], o) /\ \A s \in IndexSteps(t.plan) : s.row # o
      BY <1>6, <1>7, <2>5 DEF Telling, Rows, IndexSteps, Touched
    <3>4. o \notin DOMAIN t.mine
      <4>1. SUFFICES ASSUME o \in DOMAIN t.mine PROVE FALSE OBVIOUS
      <4>2. PICK s \in Done(t) : OnObject(s) /\ s.row = o BY <1>2, <4>1 DEF TxnOK, Mine
      <4>3. s \in t.plan.statements BY <1>2, <4>2, StatementsTyped DEF Done, OnObject
      <4> QED BY <2>5, <4>2, <4>3 DEF Touched, Rows, Of, OnObject
    <3>5. stored'[o] = stored[o] BY <1>2, <3>1, <3>4
    <3>6. \A d, e \in Request : Telling(txn'[d], o) /\ Telling(txn'[e], o) => d = e
      BY <2>2, <3>2, <3>3 DEF EntryFollows
    <3>7. (\A d \in Request : ~Telling(txn'[d], o)) => index'[o] = Shown(stored'[o])
      BY <1>4, <2>2, <2>3, <3>2, <3>5 DEF EntryFollows
    <3>8. ASSUME NEW d \in Request, txn'[d].stage = "index", NEW s \in txn'[d].todo,
                 LastOn(txn'[d].todo, s, o)
          PROVE  Tell(s) = Shown(stored'[o])
      <4>1. d # c BY <1>6, <1>7, <3>3, <3>8 DEF LastOn
      <4> QED BY <1>7, <3>2, <3>5, <3>8, <4>1 DEF EntryFollows
    <3> QED BY <3>6, <3>7, <3>8 DEF EntryFollows
  <2> QED BY <2>4, <2>5
<1>15. EntriesFollow' BY <1>14 DEF EntriesFollow
<1> QED BY <1>3, <1>7, <1>9, <1>10, <1>11, <1>13, <1>15 DEF EInv

-----------------------------------------------------------------------------
(* Initially, in each step, and the theorems                                 *)

\* Nothing is locked, and the ledger explains the balances there are.
LEMMA EconomyInitInv == EconomyInit => EInv
<1> SUFFICES ASSUME EconomyInit PROVE EInv OBVIOUS
<1>1. wallet \in [User -> Balance]
  <2>1. 0 \in Balance /\ HalfRange - 1 \in Balance BY EconomyAssumption DEF Balance
  <2> QED BY <2>1 DEF EconomyInit
<1>2. wallet \in [User -> Int] BY <1>1, EconomyAssumption DEF Balance
<1>3. /\ stored \in [Object -> Content] /\ index = [o \in Object |-> Absent]
      /\ missed = {o \in Object : stored[o] # Absent}
      /\ lock = [r \in User \union Object |-> Free] /\ txn = [c \in Request |-> NoTxn]
      /\ ledger = wallet /\ unlogged = [u \in User |-> 0]
  BY DEF EconomyInit, Content
<1>4. NoTxn.stage = "idle" BY DEF NoTxn
<1>5. RowsTyped BY <1>1, <1>2, <1>3 DEF RowsTyped, Content
<1>6. TxnTyped BY <1>3 DEF TxnTyped
<1>7. LedgerExplains BY <1>2, <1>3 DEF LedgerExplains
<1>8. TxnsOK /\ TellsOK BY <1>3, <1>4 DEF TxnsOK, TellsOK
<1>9. LocksOK BY <1>3, EconomyAssumption DEF LocksOK
<1>10. EntriesFollow
  <2>1. Shown(Absent) = Absent BY EconomyAssumption DEF Shown
  <2> QED BY <1>3, <1>4, <2>1 DEF EntriesFollow, EntryFollows, Telling
<1> QED BY <1>5, <1>6, <1>7, <1>8, <1>9, <1>10 DEF EInv

\* A transaction opens with nothing done.
LEMMA OpenInv ==
  ASSUME EInv, NEW c \in Request, NEW p \in Plans, Open(c, p) PROVE EInv'
<1>1. PICK t1 : t1 = [stage |-> "open", plan |-> p, todo |-> Statements(p),
                      mine |-> <<>>, read |-> <<>>, gain |-> [u \in User |-> 0]] OBVIOUS
<1>2. /\ txn[c].stage = "idle" /\ txn' = [txn EXCEPT ![c] = t1]
      /\ UNCHANGED <<wallet, ledger, unlogged, stored, lock, index, missed>>
  BY <1>1 DEF Open, committed
<1>3. \A T : <<>> \in [{} -> T] /\ DOMAIN <<>> = {} OBVIOUS
<1>4. /\ t1.stage = "open" /\ t1.plan = p /\ t1.todo = Statements(p)
      /\ DOMAIN t1.mine = {} /\ DOMAIN t1.read = {} /\ t1.gain = [u \in User |-> 0]
  BY <1>1, <1>3
<1>5. t1 \in OpenType
  <2>1. <<>> \in Partly(Object, Content) /\ <<>> \in Partly(User, Balance)
    BY <1>3 DEF Partly
  <2>2. Statements(p) \in SUBSET Step BY StatementsTyped
  <2> QED BY <1>1, <2>1, <2>2 DEF OpenType
<1>6. Done(t1) = {} BY <1>4 DEF Done
<1>7. txn'[c] = t1 /\ \A d \in Request \ {c} : txn'[d] = txn[d] BY <1>2 DEF EInv, TxnTyped
<1>8. RowsTyped' /\ LedgerExplains' BY <1>2 DEF EInv, RowsTyped, LedgerExplains
<1>9. TxnTyped' BY <1>2, <1>5 DEF EInv, TxnTyped
<1>10. TxnsOK'
  <2>1. TxnOK(c, t1)' BY <1>4, <1>6 DEF TxnOK, InOrder, Mine, Holds, Found, Knows
  <2>2. ASSUME NEW d \in Request \ {c}, txn'[d].stage = "open" PROVE TxnOK(d, txn[d])'
    <3>1. PICK td : td = txn[d] OBVIOUS
    <3>2. td \in OpenType /\ TxnOK(d, td) BY <1>7, <2>2, <3>1, OpenTyped DEF EInv, TxnsOK
    <3>3. TxnOK(d, td)' BY <1>2, <3>2, TxnKept
    <3> QED BY <1>7, <2>2, <3>1, <3>3
  <2> QED BY <1>7, <2>1, <2>2 DEF TxnsOK
<1>11. LocksOK'
  <2>1. SUFFICES ASSUME NEW r \in User \union Object, NEW d \in Request, lock'[r] = d
                 PROVE  LockedFor(r, d)'
    BY DEF LocksOK
  <2>2. LockedFor(r, d) BY <1>2, <2>1 DEF EInv, LocksOK
  <2>3. d # c BY <1>2, <2>2 DEF LockedFor
  <2>4. Done(txn[d])' = Done(txn[d]) /\ txn'[d].stage = txn[d].stage BY <1>7, <2>3
  <2> QED BY <2>2, <2>4 DEF LockedFor
<1>12. TellsOK' BY <1>4, <1>7 DEF EInv, TellsOK
<1>13. EntriesFollow' BY <1>2, <1>4, <1>7, EntriesKept DEF EInv
<1> QED BY <1>8, <1>9, <1>10, <1>11, <1>12, <1>13 DEF EInv

\* Every step of the economy preserves its invariant.
LEMMA EconomyStepInv == EInv /\ [EconomyNext]_economyVars => EInv'
<1> SUFFICES ASSUME EInv, [EconomyNext]_economyVars PROVE EInv' OBVIOUS
<1>1. ASSUME NEW c \in Request, NEW p \in Plans, Open(c, p) PROVE EInv'
  BY <1>1, OpenInv
<1>2. ASSUME NEW c \in Request, NEW s \in txn[c].todo,
             \/ UpdateAccount(c, s) \/ WriteOne(c, s) \/ DeleteOne(c, s)
             \/ ReadWallet(c, s) \/ ChangeWallet(c, s) \/ IndexStep(c, s)
             \/ IndexFails(c, s)
      PROVE  EInv'
  BY <1>2, UpdateAccountInv, WriteOneInv, DeleteOneInv, ReadWalletInv, ChangeWalletInv,
     IndexStepInv
<1>3. ASSUME NEW c \in Request, FailTxn(c) \/ Commit(c) PROVE EInv'
  BY <1>3, RollbackInv, CommitInv DEF FailTxn
<1>4. CASE UNCHANGED economyVars
  <2>1. UNCHANGED <<wallet, ledger, unlogged, stored, lock, txn, index, missed>>
    BY <1>4 DEF economyVars
  <2>2. RowsTyped' /\ TxnTyped' /\ LedgerExplains' /\ TellsOK'
    BY <2>1 DEF EInv, RowsTyped, TxnTyped, LedgerExplains, TellsOK
  <2>3. TxnsOK'
    BY <2>1 DEF EInv, TxnsOK, TxnOK, Holds, Found, Knows
  <2>4. LocksOK' BY <2>1 DEF EInv, LocksOK, LockedFor
  <2>5. EntriesFollow' BY <2>1 DEF EInv, EntriesFollow, EntryFollows
  <2> QED BY <2>2, <2>3, <2>4, <2>5 DEF EInv
<1> QED BY <1>1, <1>2, <1>3, <1>4 DEF EconomyNext

\* The invariant holds of every run of the economy.
THEOREM EconomyInvariant == EconomySpec => []EInv
  BY EconomyInitInv, EconomyStepInv, PTL DEF EconomySpec

(* Balances, objects and locks keep their types: no balance is below zero or *)
(* past its width, since a change is refused that would make it so.          *)
THEOREM EconomyTypes == EconomySpec => []EconomyTypeOK
<1>1. EInv => EconomyTypeOK
  BY DEF EInv, RowsTyped, TxnTyped, Balance, Content, EconomyTypeOK, OpenType, IndexType, NoTxn
<1> QED BY <1>1, EconomyInvariant, PTL

(* A balance is the sum of its ledger rows and of the changes made without   *)
(* one: the wallets are read FOR UPDATE, and kept locked until the commit.   *)
THEOREM LedgerExplainsBalances == EconomySpec => []LedgerExplains
<1>1. EInv => LedgerExplains BY DEF EInv
<1> QED BY <1>1, EconomyInvariant, PTL

(* When every call has told the index, an entry is the object as stored,     *)
(* unless its last change is one that the index may miss.                    *)
THEOREM IndexFollowsTheTable == EconomySpec => []IndexFollows
<1>1. EInv => IndexFollows
  BY DEF EInv, EntriesFollow, EntryFollows, Telling, IndexFollows
<1> QED BY <1>1, EconomyInvariant, PTL

\* What a transaction waits for has been locked by a statement before.
LEMMA Waited ==
  ASSUME EInv, NEW c \in Request, NEW d \in Request, WaitsFor(c, d)
  PROVE  /\ txn[c].stage = "open" /\ txn[d].stage = "open" /\ c # d
         /\ \E s \in Turn(c), o \in Done(txn[d]) :
              /\ s.do # "earn" /\ o.do # "earn" /\ lock[s.row] = d /\ o.row = s.row
<1>1. PICK s \in Turn(c) : s.do # "earn" /\ lock[s.row] = d BY DEF WaitsFor
<1>2. txn[c].stage = "open" /\ c # d BY DEF WaitsFor
<1>3. txn[c] \in OpenType BY <1>2, OpenTyped DEF EInv
<1>4. s \in Step BY <1>3 DEF Turn, OpenType
<1>5. s.row \in User \union Object BY <1>4 DEF Step, Statement
<1>6. LockedFor(s.row, d) BY <1>1, <1>5 DEF EInv, LocksOK
<1> QED BY <1>1, <1>2, <1>6 DEF LockedFor

\* What a sorted request has done comes before what it waits with, if that is
\* another row.
LEMMA DoneBefore ==
  ASSUME EInv, NEW c \in Request, txn[c].stage = "open", Sorted(txn[c].plan),
         NEW s \in Turn(c), NEW o \in Done(txn[c]), o.row # s.row
  PROVE  Place[o.row] < Place[s.row] /\ Place[o.row] \in Nat /\ Place[s.row] \in Nat
<1>1. PICK t : t = txn[c] OBVIOUS
<1>2. t \in OpenType /\ InOrder(t) BY <1>1, OpenTyped DEF EInv, TxnsOK, TxnOK
<1>3. s \in t.todo /\ s \in Statements(t.plan) /\ o \in Statements(t.plan) /\ o \in Done(t)
  BY <1>1, <1>2 DEF Turn, InOrder, Done
<1>4. t.plan \in Plans /\ \A r \in {s, o} : r \in Step BY <1>2, <1>3, StatementsTyped DEF OpenType
<1>5. ASSUME NEW r \in {s, o}
      PROVE  \E q \in t.plan.statements : q.row = r.row /\ (q.do = "earn" \/ q = r)
  BY <1>3 DEF Statements, Rows, Of
<1>6. PICK q \in t.plan.statements : q.row = s.row /\ (q.do = "earn" \/ q = s) BY <1>5
<1>7. PICK r \in t.plan.statements : r.row = o.row /\ (r.do = "earn" \/ r = o) BY <1>5
<1>8. q.do = r.do /\ q.do \in {"write", "delete"} BY <1>1, <1>6, <1>7 DEF Sorted
<1>9. s.do = o.do /\ s.do \in {"write", "delete"} BY <1>6, <1>7, <1>8
<1>10. s.row \in Object /\ o.row \in Object BY <1>4, <1>9, StepTyped DEF OnObject
<1>11. Place[s.row] \in Nat /\ Place[o.row] \in Nat /\ Place[s.row] # Place[o.row]
  BY <1>10, EconomyAssumption
<1>12. ~Precedes(s, o) BY <1>2, <1>3 DEF InOrder
<1>13. ~(Place[s.row] < Place[o.row]) BY <1>9, <1>12 DEF Precedes, Rank
<1> QED BY <1>11, <1>13

\* A set of places has a first one.
LEMMA FirstPlace ==
  ASSUME NEW W \in SUBSET Nat, W # {}
  PROVE  \E n \in W : \A k \in W : n <= k
<1> DEFINE R == OpToRel(<,Nat)
<1>1. IsWellFoundedOn(R, Nat) BY NatLessThanWellFounded, Zenon
<1>2. \A k, n \in Nat : k < n => <<k, n>> \in R BY DEF OpToRel
<1> HIDE DEF R
<1>3. PICK n \in W : \A k \in W : <<k, n>> \notin R BY <1>1, WFMin
<1>4. \A k \in W : ~(k < n) BY <1>2, <1>3, Zenon
<1> QED BY <1>4

(* In every circle of requests that wait for each other, of any length, one  *)
(* is not sorted: the storage batches lock objects in their order, so that    *)
(* who waits for the first object of all is waited for at one before it, and  *)
(* a request of one row has nothing when it waits.                            *)
THEOREM SortedBatchesDoNotDeadlock == EconomySpec => []BatchesDoNotDeadlock
<1>1. ASSUME EInv, NEW S \in SUBSET Request, Ring(S), \A c \in S : Sorted(txn[c].plan)
      PROVE  FALSE
  <2> DEFINE WaitsAt(c, d, s) == s \in Turn(c) /\ s.do # "earn" /\ lock[s.row] = d
             W == {n \in Nat : \E c, d \in S : c # d /\ \E s \in Turn(c) :
                                 WaitsAt(c, d, s) /\ n = Place[s.row]}
  <2>1. ASSUME NEW c \in S
        PROVE  \E b \in S : \E r \in Turn(b), o \in Done(txn[c]) :
                 b # c /\ WaitsAt(b, c, r) /\ o.do # "earn" /\ o.row = r.row
    <3>1. PICK b \in S : WaitsFor(b, c) BY <1>1 DEF Ring
    <3> QED BY <1>1, <3>1, Waited
  <2>2. ASSUME NEW c \in S, NEW d \in S, c # d, NEW s \in Turn(c), WaitsAt(c, d, s)
        PROVE  \E k \in W : k < Place[s.row]
    <3>1. txn[c].stage = "open"
      <4>1. PICK e \in S : WaitsFor(c, e) BY <1>1 DEF Ring
      <4> QED BY <4>1 DEF WaitsFor
    <3>2. PICK b \in S : \E r \in Turn(b), o \in Done(txn[c]) :
            b # c /\ WaitsAt(b, c, r) /\ o.do # "earn" /\ o.row = r.row
      BY <2>1
    <3>3. PICK r \in Turn(b), o \in Done(txn[c]) :
            b # c /\ WaitsAt(b, c, r) /\ o.do # "earn" /\ o.row = r.row
      BY <3>2
    <3>4. o.row # s.row BY <2>2, <3>3
    <3>5. Place[o.row] < Place[s.row] /\ Place[o.row] \in Nat
      BY <1>1, <2>2, <3>1, <3>3, <3>4, DoneBefore
    <3>6. Place[r.row] \in W BY <3>3, <3>5
    <3> QED BY <3>3, <3>5, <3>6
  <2>3. W # {}
    <3>1. PICK c \in S : TRUE BY <1>1 DEF Ring
    <3>2. PICK b \in S : \E r \in Turn(b) : b # c /\ WaitsAt(b, c, r) BY <2>1
    <3>3. PICK r \in Turn(b) : b # c /\ WaitsAt(b, c, r) BY <3>2
    <3> QED BY <2>2, <3>3
  <2>4. PICK n \in W : \A k \in W : n <= k
    <3>1. W \in SUBSET Nat OBVIOUS
    <3> HIDE DEF W
    <3> QED BY <2>3, <3>1, FirstPlace
  <2>5. PICK c \in S, d \in S : c # d /\ \E s \in Turn(c) : WaitsAt(c, d, s) /\ n = Place[s.row]
    BY <2>4
  <2>6. PICK s \in Turn(c) : WaitsAt(c, d, s) /\ n = Place[s.row] BY <2>5
  <2>7. PICK k \in W : k < n BY <2>2, <2>5, <2>6
  <2>8. n \in Nat /\ k \in Nat OBVIOUS
  <2> QED BY <2>4, <2>7, <2>8
<1>2. EInv => BatchesDoNotDeadlock BY <1>1 DEF BatchesDoNotDeadlock
<1> QED BY <1>2, EconomyInvariant, PTL

(* A write or delete that names a version finds that version still in the    *)
(* table when its transaction commits: what it has found stays locked.       *)
THEOREM VersionsAreReplaced == EconomySpec => ReplacesWhatItNames
<1>1. ASSUME EInv, NEW c \in Request, Commit(c),
             NEW s \in Of(txn[c].plan, "write") \union Of(txn[c].plan, "delete"),
             First(txn[c].plan, s)
      PROVE  /\ s.version \in Value => stored[s.row] = s.version
             /\ s.version = NewOnly => stored[s.row] = Absent
  <2>1. PICK t : t = txn[c] OBVIOUS
  <2>2. TxnOK(c, t) /\ t.todo = {} BY <1>1, <2>1, CommitAt
  <2>3. s \in Done(t) /\ OnObject(s) BY <1>1, <2>1, <2>2 DEF Done, Statements, Of, OnObject
  <2> QED BY <1>1, <2>1, <2>2, <2>3 DEF TxnOK, Found
<1>2. EInv /\ [EconomyNext]_economyVars =>
        [\A c \in Request : Commit(c) =>
           \A s \in Of(txn[c].plan, "write") \union Of(txn[c].plan, "delete") :
             First(txn[c].plan, s) =>
               /\ s.version \in Value => stored[s.row] = s.version
               /\ s.version = NewOnly => stored[s.row] = Absent]_economyVars
  BY <1>1
<1> QED BY <1>2, EconomyInvariant, PTL DEF EconomySpec, ReplacesWhatItNames

-----------------------------------------------------------------------------
(*                               Leaderboards                                *)

Table == [Owner -> RecordType]

Phases ==
  [submit |-> {"read", "write", "insert", "publish"}, join |-> {"insert"}, delete |-> {"evict"},
   deleteAll |-> {"forget"}, reset |-> {"records", "unrank", "unlist"}]

\* Who submits is an owner, and what it writes follows a record that may score.
Proceeds(r) ==
  /\ r.next \in Phases[r.op]
  /\ r.next \in {"read", "write"} => r.owner \in Owner /\ (r.next = "write" => MayScore(r.old))

TableTyped ==
  /\ tournament \in BOOLEAN /\ joinRequired \in BOOLEAN /\ halfReset \in BOOLEAN
  /\ records \in Table /\ size \in Nat
  /\ call \in [Request -> CallType \union {None}]
  /\ \A c \in Request : Busy(c) => Proceeds(call[c])

CachesTyped ==
  /\ list \in [Host -> Table \union {None}] /\ building \in [Host -> Table \union {None}]
  /\ inbox \in [Host -> Nat] /\ silent \in [Host -> SUBSET {"list", "rank"}]

\* The owners of the records.
Owners == {o \in Owner : records[o] # None}

\* Nobody adds a record without a place: a submission that is under way on a
\* board that must be joined has a place even if its owner's record went.
Placed ==
  ~halfReset => /\ Count <= size
                /\ joinRequired =>
                     /\ Count <= MaxSize
                     /\ \A c \in Request :
                          Shares(c) => Cardinality(Owners \union {call[c].owner}) <= MaxSize

BoardInv == TableTyped /\ CachesTyped /\ Placed

USE BoardAssumption DEF board

-----------------------------------------------------------------------------
(* Counting                                                                  *)

\* The owners are finitely many, and a smaller set of them has a smaller count.
LEMMA OwnersFinite ==
  /\ IsFiniteSet(Owners) /\ Count = Cardinality(Owners) /\ Count \in Nat
  /\ \A T \in SUBSET Owners : IsFiniteSet(T) /\ Cardinality(T) <= Count
  /\ \A x : /\ IsFiniteSet(Owners \union {x})
            /\ Cardinality(Owners \union {x}) \in Nat
            /\ Cardinality(Owners \union {x}) <= Count + 1
            /\ x \in Owners => Cardinality(Owners \union {x}) = Count
<1>1. IsFiniteSet(Owners) BY FS_Subset DEF Owners
<1>2. Count = Cardinality(Owners) BY DEF Count, Owners
<1>3. Count \in Nat BY <1>1, <1>2, FS_CardinalityType
<1>4. \A T \in SUBSET Owners : IsFiniteSet(T) /\ Cardinality(T) <= Count
  BY <1>1, <1>2, FS_Subset
<1>5. ASSUME NEW x
      PROVE  /\ IsFiniteSet(Owners \union {x})
             /\ Cardinality(Owners \union {x}) \in Nat
             /\ Cardinality(Owners \union {x}) <= Count + 1
             /\ x \in Owners => Cardinality(Owners \union {x}) = Count
  <2>1. IsFiniteSet(Owners \union {x}) BY <1>1, FS_AddElement
  <2>2. Cardinality(Owners \union {x}) =
          IF x \in Owners THEN Cardinality(Owners) ELSE Cardinality(Owners) + 1
    BY <1>1, FS_AddElement
  <2> QED BY <1>2, <1>3, <2>1, <2>2
<1> QED BY <1>1, <1>2, <1>3, <1>4, <1>5

\* The same of the next state.
LEMMA OwnersFiniteNext ==
  /\ IsFiniteSet(Owners') /\ Count' = Cardinality(Owners') /\ Count' \in Nat
  /\ \A x : /\ IsFiniteSet(Owners' \union {x})
            /\ Cardinality(Owners' \union {x}) <= Count' + 1
            /\ x \in Owners' => Cardinality(Owners' \union {x}) = Count'
<1>1. IsFiniteSet(Owners') BY FS_Subset DEF Owners
<1>2. Count' = Cardinality(Owners') BY DEF Count, Owners
<1>3. Count' \in Nat BY <1>1, <1>2, FS_CardinalityType
<1>4. ASSUME NEW x
      PROVE  /\ IsFiniteSet(Owners' \union {x})
             /\ Cardinality(Owners' \union {x}) <= Count' + 1
             /\ x \in Owners' => Cardinality(Owners' \union {x}) = Count'
  <2>1. IsFiniteSet(Owners' \union {x}) BY <1>1, FS_AddElement
  <2>2. Cardinality(Owners' \union {x}) =
          IF x \in Owners' THEN Cardinality(Owners') ELSE Cardinality(Owners') + 1
    BY <1>1, FS_AddElement
  <2> QED BY <1>2, <1>3, <2>1, <2>2
<1> QED BY <1>1, <1>2, <1>3, <1>4

\* A step that adds no record and starts no submission keeps the places.
LEMMA PlacedKept ==
  ASSUME Placed, size \in Nat, size' = size,
         joinRequired' = joinRequired, halfReset' = halfReset,
         \A o \in Owner : records[o] = None => records'[o] = None,
         \A c \in Request : Shares(c)' => Shares(c) /\ call'[c].owner = call[c].owner
  PROVE  Placed'
<1>1. Owners' \subseteq Owners BY DEF Owners
<1>2. Count' \in Nat /\ Count \in Nat /\ Count' <= Count
  BY <1>1, OwnersFinite, OwnersFiniteNext
<1>3. ASSUME NEW c \in Request, Shares(c)', ~halfReset, joinRequired
      PROVE  Cardinality(Owners' \union {call'[c].owner}) <= MaxSize
  <2>1. Shares(c) /\ call'[c].owner = call[c].owner BY <1>3
  <2>2. Cardinality(Owners \union {call[c].owner}) <= MaxSize BY <1>3, <2>1 DEF Placed
  <2>3. Owners' \union {call'[c].owner} \in SUBSET (Owners \union {call[c].owner})
    BY <1>1, <2>1
  <2>4. IsFiniteSet(Owners \union {call[c].owner})
        /\ Cardinality(Owners \union {call[c].owner}) \in Nat BY OwnersFinite
  <2>5. /\ IsFiniteSet(Owners' \union {call'[c].owner})
        /\ Cardinality(Owners' \union {call'[c].owner}) <= Cardinality(Owners \union {call[c].owner})
    BY <2>3, <2>4, FS_Subset
  <2>6. Cardinality(Owners' \union {call'[c].owner}) \in Nat
    BY <2>5, FS_CardinalityType
  <2> QED BY <2>2, <2>4, <2>5, <2>6
<1> QED BY <1>2, <1>3 DEF Placed

\* A submission of who has a record, or of anybody on an open board, has its place.
LEMMA PlacedStarted ==
  ASSUME Placed, size \in Nat, NEW c \in Request, NEW o \in Owner,
         UNCHANGED <<records, size, joinRequired, halfReset>>,
         joinRequired => records[o] # None, call'[c].owner = o,
         \A d \in Request \ {c} : call'[d] = call[d]
  PROVE  Placed'
<1>1. Owners' = Owners /\ Count' = Count BY DEF Owners, Count
<1>2. ASSUME NEW d \in Request, Shares(d)', ~halfReset, joinRequired
      PROVE  Cardinality(Owners' \union {call'[d].owner}) <= MaxSize
  <2>1. CASE d = c
    <3>1. o \in Owners BY <1>2 DEF Owners
    <3>2. Cardinality(Owners \union {o}) = Count BY <3>1, OwnersFinite
    <3> QED BY <1>1, <1>2, <2>1, <3>2 DEF Placed
  <2>2. CASE d # c
    <3>1. Shares(d) BY <1>2, <2>2 DEF Shares, Busy
    <3> QED BY <1>1, <1>2, <2>2, <3>1 DEF Placed
  <2> QED BY <2>1, <2>2
<1> QED BY <1>1, <1>2 DEF Placed

\* The commit of a submission: it was alone, and its record has its place.
LEMMA PlacedCommitted ==
  ASSUME TableTyped, Placed, NEW c \in Request, CommitSubmit(c)
  PROVE  Placed'
<1> DEFINE o == call[c].owner
<1>1. /\ Shares(c) /\ \A d \in Request \ {c} : ~Shares(d)
      /\ joinRequired' = joinRequired /\ halfReset' = halfReset /\ size' = Count'
      /\ records' = [records EXCEPT ![o] = Scored(call[c].old)]
  BY DEF CommitSubmit, Shares, OthersShare, Count
<1>2. \A d \in Request : ~Shares(d)'
  <2>1. PICK redis \in BOOLEAN :
          call' = [call EXCEPT ![c].next = "insert", ![c].old = Scored(@), ![c].redis = redis]
    BY DEF CommitSubmit
  <2>2. \A d \in Request \ {c} : call'[d] = call[d] BY <2>1 DEF TableTyped
  <2>3. call[c] \in CallType BY <1>1 DEF TableTyped, Shares, Busy
  <2>4. call'[c].next = "insert" BY <2>1, <2>3 DEF TableTyped, CallType
  <2> QED BY <1>1, <2>2, <2>4 DEF Shares, Busy
<1>3. Owners' \in SUBSET (Owners \union {o}) BY <1>1 DEF Owners, TableTyped, Table
<1>4. (~halfReset /\ joinRequired) => Count' <= MaxSize
  <2>1. /\ IsFiniteSet(Owners \union {o}) /\ Cardinality(Owners \union {o}) \in Nat
    BY OwnersFinite
  <2>2. Count' <= Cardinality(Owners \union {o}) /\ Count' \in Nat
    BY <1>3, <2>1, OwnersFiniteNext, FS_Subset
  <2> QED BY <1>1, <2>1, <2>2 DEF Placed
<1>5. Count' <= Count' BY OwnersFiniteNext
<1> QED BY <1>1, <1>2, <1>4, <1>5 DEF Placed

\* Who joins without a record finds the board's row free and a place left.
LEMMA PlacedJoined ==
  ASSUME TableTyped, Placed, NEW c \in Request, NEW n \in Host, NEW o \in Owner, Join(c, n, o)
  PROVE  Placed'
<1>1. /\ joinRequired' = joinRequired /\ halfReset' = halfReset
      /\ \A d \in Request : ~Shares(d)'
  BY DEF Join, Begin, OthersShare, Shares, Busy, TableTyped
<1>2. CASE UNCHANGED <<records, size>>
  BY <1>1, <1>2, PlacedKept DEF TableTyped
<1>3. CASE /\ records[o] = None /\ HasPlace
           /\ records' = [records EXCEPT ![o] = [score |-> 0, num |-> 0]]
           /\ size' = size + 1
  <2>1. Owners' \in SUBSET (Owners \union {o}) BY <1>3 DEF Owners, TableTyped, Table
  <2>2. /\ IsFiniteSet(Owners \union {o}) /\ Cardinality(Owners \union {o}) \in Nat
        /\ Cardinality(Owners \union {o}) <= Count + 1 /\ Count \in Nat
    BY OwnersFinite
  <2>3. Count' <= Count + 1 /\ Count' \in Nat
    BY <2>1, <2>2, OwnersFiniteNext, FS_Subset
  <2> QED BY <1>1, <1>3, <2>2, <2>3 DEF Placed, HasPlace, TableTyped
<1> QED BY <1>2, <1>3 DEF Join

\* A reset that got to the records leaves none: the rest has its place.
LEMMA PlacedReset ==
  ASSUME TableTyped, Placed, NEW c \in Request, ResetRecords(c)
  PROVE  Placed'
<1>1. /\ joinRequired' = joinRequired /\ size' = size /\ size \in Nat
      /\ records' = [o \in Owner |-> None]
  BY DEF ResetRecords, TableTyped
<1>2. Owners' = {} BY <1>1 DEF Owners
<1>3. Count' = 0 BY <1>2, OwnersFiniteNext, FS_EmptySet
<1>4. \A x : Cardinality(Owners' \union {x}) = 1
  <2>1. \A x : Owners' \union {x} = {x} BY <1>2
  <2> QED BY <2>1, FS_Singleton
<1>5. 0 <= size /\ 0 <= MaxSize /\ 1 <= MaxSize BY <1>1
<1>6. \A d \in Request : Cardinality(Owners' \union {call'[d].owner}) <= MaxSize
  BY <1>4, <1>5
<1> QED BY <1>1, <1>3, <1>5, <1>6 DEF Placed

-----------------------------------------------------------------------------
(* Types                                                                     *)

Typed == TableTyped /\ CachesTyped

\* A record that a submission that may score writes has the type of a record.
LEMMA ScoredType ==
  ASSUME NEW r \in RecordType, MayScore(r)
  PROVE  Scored(r) \in RecordType
  BY DEF RecordType, MayScore, Scored

\* What is known of a call in flight.
LEMMA CallTyped ==
  ASSUME TableTyped, NEW c \in Request, Busy(c)
  PROVE  call[c] \in CallType
  BY DEF TableTyped, Busy

\* The phase of a call tells of what it is.
LEMMA PhaseOf ==
  ASSUME TableTyped, NEW c \in Request, Busy(c)
  PROVE  /\ call[c].next \in {"read", "write", "publish"} => call[c].op = "submit"
         /\ call[c].next \in {"records", "unrank", "unlist"} => call[c].op = "reset"
         /\ call[c].op = "join" => call[c].next = "insert"
<1>1. call[c] \in CallType /\ call[c].next \in Phases[call[c].op]
  BY CallTyped DEF TableTyped, Proceeds
<1> QED BY <1>1 DEF CallType, Phases

\* Only records, a number, and calls are written in the table's part.
LEMMA TableKept ==
  ASSUME TableTyped, halfReset' \in BOOLEAN, board' = board,
         records' \in Table, size' \in Nat, NEW c \in Request,
         NEW r \in CallType \union {None}, call' = [call EXCEPT ![c] = r],
         r # None => Proceeds(r)
  PROVE  TableTyped'
<1>1. call' \in [Request -> CallType \union {None}] BY DEF TableTyped
<1>2. \A d \in Request : call'[d] = IF d = c THEN r ELSE call[d] BY DEF TableTyped
<1>3. \A d \in Request : Busy(d)' => Proceeds(call'[d])
  BY <1>2 DEF TableTyped, Busy
<1>4. \A d \in Request : Proceeds(call'[d]) => Proceeds(call[d])'
  BY DEF Proceeds, MayScore
<1> QED BY <1>1, <1>3, <1>4 DEF TableTyped

\* A call begins.
LEMMA BeginTyped ==
  ASSUME TableTyped, NEW c \in Request, NEW n \in Host, NEW o \in Owner \union {None},
         NEW op, NEW next, Begin(c, op, n, o, next),
         op \in {"submit", "join", "delete", "deleteAll", "reset"},
         next \in {"read", "insert", "evict", "forget", "records"}, next = "read" => o \in Owner,
         next \in Phases[op],
         halfReset' \in BOOLEAN, board' = board,
         records' \in Table, size' \in Nat
  PROVE  TableTyped'
<1> DEFINE r == [op |-> op, node |-> n, owner |-> o, next |-> next,
                 old |-> None, redis |-> TRUE]
<1>1. r \in CallType BY DEF CallType, RecordType
<1>2. call' = [call EXCEPT ![c] = r] BY DEF Begin
<1>3. Proceeds(r) BY DEF Proceeds
<1> QED BY <1>1, <1>2, <1>3, TableKept

\* A call goes on, or ends.
LEMMA GoOnTyped ==
  ASSUME TableTyped, NEW c \in Request, Busy(c), NEW next, GoOn(c, next),
         next \in {"publish", "unrank", "unlist"}, next \in Phases[call[c].op],
         halfReset' \in BOOLEAN, board' = board,
         records' \in Table, size' \in Nat
  PROVE  TableTyped'
<1> DEFINE r == [call[c] EXCEPT !.next = next]
<1>1. call[c] \in CallType BY CallTyped
<1>2. r \in CallType /\ Proceeds(r) BY <1>1 DEF CallType, Proceeds
<1>3. call' = [call EXCEPT ![c] = r] BY DEF GoOn
<1> QED BY <1>2, <1>3, TableKept

\* A call ends and changes nothing in the database.
LEMMA EndTyped ==
  ASSUME TableTyped, NEW c \in Request, End(c),
         UNCHANGED <<board, records, size, halfReset>>
  PROVE  TableTyped'
<1>1. call' = [call EXCEPT ![c] = None] BY DEF End
<1>2. halfReset' \in BOOLEAN /\ records' \in Table /\ size' \in Nat BY DEF TableTyped
<1> QED BY <1>1, <1>2, TableKept

\* The table's part does not change.
LEMMA TableSame ==
  ASSUME TableTyped, UNCHANGED <<board, table, call>>
  PROVE  TableTyped'
  BY DEF TableTyped, table, Busy, Proceeds, MayScore

\* The caches are of the type of what they are read from.
LEMMA CachesKept ==
  ASSUME CachesTyped, NEW n \in Host, UNCHANGED building,
         list' = list \/ EvictList(n),
         inbox' \in [Host -> Nat], silent' \in [Host -> SUBSET {"list", "rank"}]
  PROVE  CachesTyped'
  BY DEF CachesTyped, EvictList

-----------------------------------------------------------------------------
(* Initially, and in each step                                               *)

\* An empty cache and no call: the table is as it was left.
LEMMA BoardInitInv == BoardInit => BoardInv
<1> SUFFICES ASSUME BoardInit PROVE BoardInv OBVIOUS
<1>1. [score |-> 1, num |-> 1] \in RecordType /\ None \in RecordType BY DEF RecordType
<1>2. records \in Table BY <1>1 DEF BoardInit, Table
<1>3. Count \in Nat /\ Cardinality(Owner) \in Nat BY OwnersFinite, FS_CardinalityType
<1>4. size \in Nat /\ Count <= size BY <1>3 DEF BoardInit
<1>5. \A c \in Request : call[c] = None BY DEF BoardInit
<1>6. call \in [Request -> CallType \union {None}] BY DEF BoardInit
<1>7. TableTyped BY <1>2, <1>4, <1>5, <1>6 DEF TableTyped, BoardInit, Busy
<1>8. CachesTyped BY DEF CachesTyped, BoardInit
<1>9. Placed BY <1>3, <1>4, <1>5 DEF Placed, BoardInit, Shares, Busy
<1> QED BY <1>7, <1>8, <1>9 DEF BoardInv

\* Building a list, and messages that arrive.
LEMMA BuildQueryInv == ASSUME BoardInv, NEW n \in Host, BuildQuery(n) PROVE BoardInv'
<1>1. TableTyped' BY TableSame DEF BuildQuery, BoardInv
<1>2. records \in Table BY DEF BoardInv, TableTyped
<1>3. CachesTyped' BY <1>2 DEF BuildQuery, BoardInv, CachesTyped, Heard
<1>4. Placed' BY PlacedKept DEF BuildQuery, BoardInv, TableTyped, table, Shares, Busy
<1> QED BY <1>1, <1>3, <1>4 DEF BoardInv

\* A build stores the list that it has read.
LEMMA BuildStoreInv == ASSUME BoardInv, NEW n \in Host, BuildStore(n) PROVE BoardInv'
<1>1. TableTyped' BY TableSame DEF BuildStore, BoardInv
<1>2. CachesTyped' BY DEF BuildStore, BoardInv, CachesTyped
<1>3. Placed' BY PlacedKept DEF BuildStore, BoardInv, TableTyped, table, Shares, Busy
<1> QED BY <1>1, <1>2, <1>3 DEF BoardInv

\* A message clears caches, and no more.
LEMMA DeliverInv == ASSUME BoardInv, NEW n \in Host, Deliver(n) PROVE BoardInv'
<1>1. TableTyped' BY TableSame DEF Deliver, BoardInv
<1>2. inbox' \in [Host -> Nat] BY DEF Deliver, BoardInv, CachesTyped
<1>3. silent' \in [Host -> SUBSET {"list", "rank"}] BY DEF Deliver, Heard, BoardInv, CachesTyped
<1>4. CachesTyped' BY <1>2, <1>3, CachesKept DEF Deliver, BoardInv
<1>5. Placed' BY PlacedKept DEF Deliver, BoardInv, TableTyped, table, Shares, Busy
<1> QED BY <1>1, <1>4, <1>5 DEF BoardInv

\* Telling the other nodes ends the submission.
LEMMA PublishInv == ASSUME BoardInv, NEW c \in Request, Publish(c) PROVE BoardInv'
<1>1. TableTyped' BY EndTyped DEF Publish, BoardInv, table
<1>2. call[c].node \in Host BY CallTyped DEF Publish, BoardInv, CallType
<1>3. inbox' \in [Host -> Nat] BY DEF Publish, BoardInv, CachesTyped
<1>4. silent' \in [Host -> SUBSET {"list", "rank"}] BY DEF Publish, BoardInv, CachesTyped
<1>5. CachesTyped' BY <1>2, <1>3, <1>4, CachesKept DEF Publish, BoardInv
<1>6. Placed' BY PlacedKept DEF Publish, End, BoardInv, TableTyped, table, Shares, Busy
<1> QED BY <1>1, <1>5, <1>6 DEF BoardInv

\* A submission.
LEMMA BeginSubmitInv ==
  ASSUME BoardInv, NEW c \in Request, NEW n \in Host, NEW o \in Owner, BeginSubmit(c, n, o)
  PROVE  BoardInv'
<1>1. Begin(c, "submit", n, o, "read") /\ UNCHANGED <<board, table, caches>>
  BY DEF BeginSubmit
<1>2. halfReset' \in BOOLEAN /\ records' \in Table /\ size' \in Nat
  BY <1>1 DEF BoardInv, TableTyped, table
<1>3. TableTyped' BY <1>1, <1>2, BeginTyped DEF BoardInv, Phases
<1>4. CachesTyped' BY <1>1 DEF BoardInv, CachesTyped, caches
<1>5. /\ call'[c].owner = o
      /\ \A d \in Request \ {c} : call'[d] = call[d]
  BY <1>1 DEF Begin, BoardInv, TableTyped
<1>6. Placed' BY <1>1, <1>5, PlacedStarted DEF BeginSubmit, BoardInv, TableTyped, table
<1> QED BY <1>3, <1>4, <1>6 DEF BoardInv

\* What a submission will write follows the record it has read.
LEMMA ReadRecordInv == ASSUME BoardInv, NEW c \in Request, ReadRecord(c) PROVE BoardInv'
<1> DEFINE o == call[c].owner
           r == [call[c] EXCEPT !.next = "write", !.old = records[o]]
<1>1. /\ Busy(c) /\ call[c].next = "read" /\ UNCHANGED <<board, table, caches, calls>>
  BY DEF ReadRecord
<1>2. call[c] \in CallType BY <1>1, CallTyped DEF BoardInv
<1>3. CachesTyped' BY <1>1 DEF BoardInv, CachesTyped, caches
<1>4. CASE MayScore(records[o]) /\ call' = [call EXCEPT ![c] = r]
  <2>1. o \in Owner BY <1>1 DEF BoardInv, TableTyped, Proceeds
  <2>2. records[o] \in RecordType BY <2>1 DEF BoardInv, TableTyped, Table
  <2>3. call[c].op = "submit" BY <1>1, PhaseOf DEF BoardInv
  <2>4. r \in CallType /\ r.next = "write" /\ r.op = "submit" /\ r.owner = o /\ r.old = records[o]
    BY <1>2, <2>2, <2>3 DEF CallType
  <2>5. Proceeds(r) BY <1>4, <2>1, <2>4 DEF Proceeds, Phases
  <2>6. halfReset' \in BOOLEAN /\ records' \in Table /\ size' \in Nat
    BY <1>1 DEF BoardInv, TableTyped, table
  <2>7. TableTyped' BY <1>1, <1>4, <2>4, <2>5, <2>6, TableKept DEF BoardInv
  <2>8. \A d \in Request : Shares(d)' => Shares(d) /\ call'[d].owner = call[d].owner
    BY <1>1, <1>2, <1>4 DEF BoardInv, TableTyped, Shares, Busy, CallType
  <2>9. Placed' BY <1>1, <2>8, PlacedKept DEF BoardInv, TableTyped, table
  <2> QED BY <1>3, <2>7, <2>9 DEF BoardInv
<1>5. CASE End(c)
  <2>1. TableTyped' BY <1>1, <1>5, EndTyped DEF BoardInv, table
  <2>2. Placed' BY <1>1, <1>5, PlacedKept DEF End, BoardInv, TableTyped, table, Shares, Busy
  <2> QED BY <1>3, <2>1, <2>2 DEF BoardInv
<1> QED BY <1>4, <1>5 DEF ReadRecord

\* The commit of a submission: its owner had a place, and the count is counted.
LEMMA CommitSubmitInv == ASSUME BoardInv, NEW c \in Request, CommitSubmit(c) PROVE BoardInv'
<1> DEFINE o == call[c].owner
           s == Scored(call[c].old)
<1>1. PICK redis \in BOOLEAN :
        call' = [call EXCEPT ![c].next = "insert", ![c].old = Scored(@), ![c].redis = redis]
  BY DEF CommitSubmit
<1> DEFINE r == [call[c] EXCEPT !.next = "insert", !.old = Scored(@), !.redis = redis]
<1>2. /\ Busy(c) /\ call[c].next = "write"
      /\ UNCHANGED <<board, halfReset, list, building, inbox, silent>>
      /\ records' = [records EXCEPT ![o] = s] /\ size' = Count'
  BY DEF CommitSubmit, caches, Count
<1>3. call[c] \in CallType BY <1>2, CallTyped DEF BoardInv
<1>4. o \in Owner /\ MayScore(call[c].old) BY <1>2 DEF BoardInv, TableTyped, Proceeds
<1>5. s \in RecordType BY <1>3, <1>4, ScoredType DEF CallType
<1>6. r \in CallType /\ Proceeds(r)
  <2>1. call[c].op = "submit" BY <1>2, PhaseOf DEF BoardInv
  <2>2. r \in CallType /\ r.next = "insert" /\ r.op = "submit" BY <1>3, <1>5, <2>1 DEF CallType
  <2> QED BY <2>2 DEF Proceeds, Phases
<1>7. halfReset' \in BOOLEAN /\ records' \in Table /\ size' \in Nat
  BY <1>2, <1>5, OwnersFiniteNext DEF BoardInv, TableTyped, Table
<1>8. call' = [call EXCEPT ![c] = r] BY <1>1
<1>9. TableTyped' BY <1>2, <1>6, <1>7, <1>8, TableKept DEF BoardInv
<1>10. CachesTyped' BY <1>2 DEF BoardInv, CachesTyped
<1>11. Placed' BY PlacedCommitted DEF BoardInv
<1> QED BY <1>9, <1>10, <1>11 DEF BoardInv

\* A submission that the database fails leaves the table.
LEMMA AbortSubmitInv == ASSUME BoardInv, NEW c \in Request, AbortSubmit(c) PROVE BoardInv'
<1>1. TableTyped' BY EndTyped DEF AbortSubmit, BoardInv, table
<1>2. CachesTyped' BY DEF AbortSubmit, BoardInv, CachesTyped, caches
<1>3. Placed' BY PlacedKept DEF AbortSubmit, End, BoardInv, TableTyped, table, Shares, Busy
<1> QED BY <1>1, <1>2, <1>3 DEF BoardInv

\* The rank of a score is inserted; the record is in the table.
LEMMA InsertRankInv == ASSUME BoardInv, NEW c \in Request, InsertRank(c) PROVE BoardInv'
<1>1. /\ Busy(c) /\ call[c].op = "submit" /\ GoOn(c, "publish")
      /\ UNCHANGED <<board, table, list, building, inbox, silent>>
  BY DEF InsertRank
<1>2. halfReset' \in BOOLEAN /\ records' \in Table /\ size' \in Nat
  BY <1>1 DEF BoardInv, TableTyped, table
<1>3. TableTyped' BY <1>1, <1>2, PhaseOf, GoOnTyped DEF BoardInv, Phases
<1>4. CachesTyped' BY <1>1 DEF BoardInv, CachesTyped
<1>5. call[c] \in CallType BY <1>1, CallTyped DEF BoardInv
<1>6. \A d \in Request : Shares(d)' => Shares(d) /\ call'[d].owner = call[d].owner
  BY <1>1, <1>5 DEF GoOn, BoardInv, TableTyped, Shares, Busy, CallType
<1>7. Placed' BY <1>1, <1>6, PlacedKept DEF BoardInv, TableTyped, table
<1> QED BY <1>3, <1>4, <1>7 DEF BoardInv

\* Joining.
LEMMA JoinInv ==
  ASSUME BoardInv, NEW c \in Request, NEW n \in Host, NEW o \in Owner, Join(c, n, o)
  PROVE  BoardInv'
<1>1. /\ Begin(c, "join", n, o, "insert")
      /\ UNCHANGED <<board, halfReset, list, building, rank, inbox>>
      /\ silent' = [m \in Host |-> silent[m] \union {"list"}]
  BY DEF Join
<1>2. [score |-> 0, num |-> 0] \in RecordType BY DEF RecordType
<1>3. halfReset' \in BOOLEAN /\ records' \in Table /\ size' \in Nat
  BY <1>1, <1>2 DEF Join, BoardInv, TableTyped, Table
<1>4. TableTyped' BY <1>1, <1>3, BeginTyped DEF BoardInv, Phases
<1>5. CachesTyped' BY <1>1 DEF BoardInv, CachesTyped
<1>6. Placed' BY PlacedJoined DEF BoardInv
<1> QED BY <1>4, <1>5, <1>6 DEF BoardInv

\* The rank of who joined is inserted; the place has been taken.
LEMMA JoinRankInv == ASSUME BoardInv, NEW c \in Request, JoinRank(c) PROVE BoardInv'
<1>1. TableTyped' BY EndTyped DEF JoinRank, BoardInv, table
<1>2. CachesTyped' BY DEF JoinRank, Hush, BoardInv, CachesTyped
<1>3. Placed' BY PlacedKept DEF JoinRank, End, BoardInv, TableTyped, table, Shares, Busy
<1> QED BY <1>1, <1>2, <1>3 DEF BoardInv

\* Deletions.
LEMMA DeleteInv ==
  ASSUME BoardInv, NEW c \in Request, NEW n \in Host, NEW o \in Owner,
         DeleteRecord(c, n, o) \/ RecordsDeleteAll(c, n, o)
  PROVE  BoardInv'
<1>1. /\ Begin(c, "delete", n, o, "evict") \/ Begin(c, "deleteAll", n, o, "forget")
      /\ records' = [records EXCEPT ![o] = None]
      /\ UNCHANGED <<board, size, halfReset, list, building, rank, inbox>>
  BY DEF DeleteRecord, RecordsDeleteAll
<1>2. None \in RecordType BY DEF RecordType
<1>3. halfReset' \in BOOLEAN /\ records' \in Table /\ size' \in Nat
  BY <1>1, <1>2 DEF BoardInv, TableTyped, Table
<1>4. TableTyped'
  <2>1. CASE Begin(c, "delete", n, o, "evict")
    BY <1>1, <1>3, <2>1, BeginTyped DEF BoardInv, Phases
  <2>2. CASE Begin(c, "deleteAll", n, o, "forget")
    BY <1>1, <1>3, <2>2, BeginTyped DEF BoardInv, Phases
  <2> QED BY <1>1, <2>1, <2>2
<1>5. CachesTyped' BY <1>1 DEF DeleteRecord, RecordsDeleteAll, BoardInv, CachesTyped
<1>6. \A d \in Request : Shares(d)' => Shares(d) /\ call'[d].owner = call[d].owner
  BY <1>1 DEF Begin, BoardInv, TableTyped, Shares, Busy
<1>7. \A p \in Owner : records[p] = None => records'[p] = None
  BY <1>1 DEF BoardInv, TableTyped, Table
<1>8. Placed' BY <1>1, <1>6, <1>7, PlacedKept DEF BoardInv, TableTyped
<1> QED BY <1>4, <1>5, <1>8 DEF BoardInv

\* A deletion clears the caches of its node.
LEMMA EvictInv == ASSUME BoardInv, NEW c \in Request, Evict(c) PROVE BoardInv'
<1>1. TableTyped' BY EndTyped DEF Evict, BoardInv, table
<1>2. CachesTyped' BY DEF Evict, EvictList, BoardInv, CachesTyped
<1>3. Placed' BY PlacedKept DEF Evict, End, BoardInv, TableTyped, table, Shares, Busy
<1> QED BY <1>1, <1>2, <1>3 DEF BoardInv

\* A deletion of all takes the rank of its owner.
LEMMA ForgetInv == ASSUME BoardInv, NEW c \in Request, Forget(c) PROVE BoardInv'
<1>1. TableTyped' BY EndTyped DEF Forget, BoardInv, table
<1>2. CachesTyped' BY DEF Forget, BoardInv, CachesTyped
<1>3. Placed' BY PlacedKept DEF Forget, End, BoardInv, TableTyped, table, Shares, Busy
<1> QED BY <1>1, <1>2, <1>3 DEF BoardInv

\* A manual reset: of a tournament, nothing is promised between its first two
\* statements; of another board, it has done nothing yet.
LEMMA ResetSizeInv == ASSUME BoardInv, NEW c \in Request, NEW n \in Host, ResetSize(c, n) PROVE BoardInv'
<1>1. Begin(c, "reset", n, None, "records") /\ UNCHANGED <<board, records, caches>>
  BY DEF ResetSize
<1>2. tournament => halfReset' = TRUE /\ size' = 0 BY DEF ResetSize
<1>3. ~tournament => UNCHANGED <<size, halfReset>> BY DEF ResetSize
<1>4. halfReset' \in BOOLEAN
  <2>1. halfReset \in BOOLEAN BY DEF BoardInv, TableTyped
  <2> QED BY <1>2, <1>3, <2>1
<1>5. records' \in Table /\ size' \in Nat
  BY <1>1, <1>2, <1>3 DEF BoardInv, TableTyped
<1>6. TableTyped' BY <1>1, <1>4, <1>5, BeginTyped DEF BoardInv, Phases
<1>7. CachesTyped' BY <1>1 DEF BoardInv, CachesTyped, caches
<1>8. ASSUME tournament PROVE Placed' BY <1>2, <1>8 DEF Placed
<1>9. ASSUME ~tournament PROVE Placed'
  <2>1. \A d \in Request : Shares(d)' => Shares(d) /\ call'[d].owner = call[d].owner
    BY <1>1 DEF Begin, BoardInv, TableTyped, Shares, Busy
  <2>2. UNCHANGED <<records, size, joinRequired, halfReset>> BY <1>1, <1>3, <1>9
  <2> QED BY <2>1, <2>2, PlacedKept DEF BoardInv, TableTyped
<1>10. Placed' BY <1>8, <1>9
<1> QED BY <1>6, <1>7, <1>10 DEF BoardInv

\* A reset that empties the records: nobody has one.
LEMMA ResetRecordsInv == ASSUME BoardInv, NEW c \in Request, ResetRecords(c) PROVE BoardInv'
<1>1. /\ Busy(c) /\ call[c].next = "records" /\ GoOn(c, "unrank") /\ halfReset' = FALSE
      /\ records' = [o \in Owner |-> None]
      /\ UNCHANGED <<board, size, list, building, rank, inbox>>
  BY DEF ResetRecords
<1>2. halfReset' \in BOOLEAN /\ records' \in Table /\ size' \in Nat
  BY <1>1 DEF BoardInv, TableTyped, Table, RecordType
<1>3. TableTyped' BY <1>1, <1>2, PhaseOf, GoOnTyped DEF BoardInv, Phases
<1>4. CachesTyped' BY <1>1 DEF ResetRecords, BoardInv, CachesTyped
<1>5. Placed' BY PlacedReset DEF BoardInv
<1> QED BY <1>3, <1>4, <1>5 DEF BoardInv

\* A reset that fails between its statements leaves records without a count.
LEMMA ResetFailsInv == ASSUME BoardInv, NEW c \in Request, ResetFails(c) PROVE BoardInv'
<1>1. TableTyped' BY EndTyped DEF ResetFails, BoardInv, table
<1>2. CachesTyped' BY DEF ResetFails, BoardInv, CachesTyped, caches
<1>3. Placed' BY PlacedKept DEF ResetFails, End, BoardInv, TableTyped, table, Shares, Busy
<1> QED BY <1>1, <1>2, <1>3 DEF BoardInv

\* A reset clears the ranks of its node.
LEMMA ResetRanksInv == ASSUME BoardInv, NEW c \in Request, ResetRanks(c) PROVE BoardInv'
<1>1. /\ Busy(c) /\ call[c].next = "unrank" /\ GoOn(c, "unlist")
      /\ UNCHANGED <<board, table, list, building, inbox, silent>>
  BY DEF ResetRanks
<1>2. halfReset' \in BOOLEAN /\ records' \in Table /\ size' \in Nat
  BY <1>1 DEF BoardInv, TableTyped, table
<1>3. TableTyped' BY <1>1, <1>2, PhaseOf, GoOnTyped DEF BoardInv, Phases
<1>4. CachesTyped' BY <1>1 DEF BoardInv, CachesTyped
<1>5. call[c] \in CallType BY <1>1, CallTyped DEF BoardInv
<1>6. \A d \in Request : Shares(d)' => Shares(d) /\ call'[d].owner = call[d].owner
  BY <1>1, <1>5 DEF GoOn, BoardInv, TableTyped, Shares, Busy, CallType
<1>7. Placed' BY <1>1, <1>6, PlacedKept DEF BoardInv, TableTyped, table
<1> QED BY <1>3, <1>4, <1>7 DEF BoardInv

\* A reset clears the list of its node.
LEMMA ResetListInv == ASSUME BoardInv, NEW c \in Request, ResetList(c) PROVE BoardInv'
<1>1. TableTyped' BY EndTyped DEF ResetList, BoardInv, table
<1>2. CachesTyped' BY DEF ResetList, EvictList, BoardInv, CachesTyped
<1>3. Placed' BY PlacedKept DEF ResetList, End, BoardInv, TableTyped, table, Shares, Busy
<1> QED BY <1>1, <1>2, <1>3 DEF BoardInv

\* Every step of the board preserves its invariant.
LEMMA BoardStepInv == BoardInv /\ [BoardNext]_boardVars => BoardInv'
<1> SUFFICES ASSUME BoardInv, [BoardNext]_boardVars PROVE BoardInv' OBVIOUS
<1>1. ASSUME NEW n \in Host, BuildQuery(n) \/ BuildStore(n) \/ Deliver(n) PROVE BoardInv'
  BY <1>1, BuildQueryInv, BuildStoreInv, DeliverInv
<1>2. ASSUME NEW c \in Request,
             ReadRecord(c) \/ CommitSubmit(c) \/ AbortSubmit(c) \/ InsertRank(c) \/ Publish(c)
      PROVE  BoardInv'
  BY <1>2, ReadRecordInv, CommitSubmitInv, AbortSubmitInv, InsertRankInv, PublishInv
<1>3. ASSUME NEW c \in Request,
             \/ JoinRank(c) \/ Evict(c) \/ Forget(c)
             \/ ResetRecords(c) \/ ResetFails(c) \/ ResetRanks(c) \/ ResetList(c)
      PROVE  BoardInv'
  BY <1>3, JoinRankInv, EvictInv, ForgetInv, ResetRecordsInv, ResetFailsInv, ResetRanksInv,
     ResetListInv
<1>4. ASSUME NEW c \in Request, NEW n \in Host, ResetSize(c, n) PROVE BoardInv'
  BY <1>4, ResetSizeInv
<1>5. ASSUME NEW c \in Request, NEW n \in Host, NEW o \in Owner,
             \/ BeginSubmit(c, n, o) \/ Join(c, n, o)
             \/ DeleteRecord(c, n, o) \/ RecordsDeleteAll(c, n, o)
      PROVE  BoardInv'
  BY <1>5, BeginSubmitInv, JoinInv, DeleteInv
<1>6. CASE UNCHANGED boardVars
  <2>1. TableTyped' BY <1>6, TableSame DEF BoardInv, boardVars, table
  <2>2. CachesTyped' BY <1>6 DEF BoardInv, CachesTyped, boardVars
  <2>3. Placed' BY <1>6, PlacedKept DEF BoardInv, TableTyped, boardVars, Shares, Busy
  <2> QED BY <2>1, <2>2, <2>3 DEF BoardInv
<1> QED BY <1>1, <1>2, <1>3, <1>4, <1>5, <1>6 DEF BoardNext

-----------------------------------------------------------------------------
\* The invariant holds of every run of a board.
THEOREM BoardInvariant == BoardSpec => []BoardInv
  BY BoardInitInv, BoardStepInv, PTL DEF BoardSpec

(* The records, the count and the caches keep their types.  In particular no *)
(* record is scored more than max_num_score times: SubmitScore reads the     *)
(* count with the row locked, and writes nothing at the limit.               *)
THEOREM BoardTypes == BoardSpec => []BoardTypeOK
<1>1. BoardInv => BoardTypeOK
  BY DEF BoardInv, TableTyped, CachesTyped, Table, BoardTypeOK
<1> QED BY <1>1, BoardInvariant, PTL

(* A board that must be joined holds at most max_size records, whatever      *)
(* joins, submissions and deletions interleave, unless a manual reset emptied*)
(* the count and not the records: JoinTournament locks the board's row FOR   *)
(* UPDATE, SubmitScore FOR SHARE.                                            *)
THEOREM SizeIsBounded == BoardSpec => []CountWithinMaxSize
<1>1. BoardInv => CountWithinMaxSize
  BY DEF BoardInv, Placed, CountWithinMaxSize
<1> QED BY <1>1, BoardInvariant, PTL
-----------------------------------------------------------------------------
(* The caches                                                                *)

\* A submission that was committed and that not every node was told of.
Scoring(c) == Busy(c) /\ call[c].op = "submit" /\ call[c].next \in {"insert", "publish"}
\* A deletion on this node that has not cleared its caches.
Deleting(c, n) == Busy(c) /\ call[c].op = "delete" /\ call[c].node = n
\* A reset on this node that has emptied the records, and not the list.
Resetting(c, n) ==
  Busy(c) /\ call[c].op = "reset" /\ call[c].next \in {"unrank", "unlist"} /\ call[c].node = n

\* The ranks, or the list, of node n will go.
RankGoes(n) == inbox[n] > 0 \/ \E c \in Request : Scoring(c) \/ Deleting(c, n)
ListGoes(n) == RankGoes(n) \/ \E c \in Request : Resetting(c, n)

ShowsScores(scores) == \A o \in Owner : scores[o] \in {None, ScoreOf(records[o])}

\* The list, or the one that is built, is that of the table, unless it will go.
ListFollows(n) ==
  "list" \in silent[n] \/ ListGoes(n) \/
    /\ list[n] # None => list[n] = records
    /\ building[n] # None => building[n] = records

\* The ranks are those of the table, or will be when the list is built.
RankFollows(n) ==
  \/ "rank" \in silent[n] \/ RankGoes(n)
  \/ building[n] # None /\ \A o \in Owner : ScoreOf(building[n][o]) \in {None, ScoreOf(records[o])}
  \/ building[n] = None /\ (rank[n] # None => ShowsScores(rank[n]))

RanksTyped == DOMAIN rank = Host /\ \A n \in Host : rank[n] # None => DOMAIN rank[n] = Owner

CacheInv == RanksTyped /\ \A n \in Host : ListFollows(n) /\ RankFollows(n)

\* What will go still will: only the calls that clear the caches may not end.
LEMMA GoesKept ==
  ASSUME NEW c \in Request, \A d \in Request \ {c} : call'[d] = call[d],
         NEW n \in Host, inbox'[n] = inbox[n], ~Scoring(c), ~Deleting(c, n),
         Resetting(c, n) => Resetting(c, n)'
  PROVE  (RankGoes(n) => RankGoes(n)') /\ (ListGoes(n) => ListGoes(n)')
<1>1. \A d \in Request : Scoring(d) => Scoring(d)' BY DEF Scoring, Busy
<1>2. \A d \in Request : Deleting(d, n) => Deleting(d, n)' BY DEF Deleting, Busy
<1>3. \A d \in Request : Resetting(d, n) => Resetting(d, n)' BY DEF Resetting, Busy
<1> QED BY <1>1, <1>2, <1>3 DEF RankGoes, ListGoes

\* While the records stay, a list and ranks that stay, or go, follow them.
LEMMA ListKept ==
  ASSUME NEW n \in Host, ListFollows(n), records' = records,
         list'[n] \in {list[n], None}, building'[n] \in {building[n], None},
         "list" \in silent[n] => "list" \in silent'[n], ListGoes(n) => ListGoes(n)'
  PROVE  ListFollows(n)'
  BY DEF ListFollows

\* The ranks of a node follow the table as before when what they are of stays.
LEMMA RankKept ==
  ASSUME NEW n \in Host, RankFollows(n), records' = records,
         rank'[n] \in {rank[n], None}, building'[n] = building[n],
         "rank" \in silent[n] => "rank" \in silent'[n], RankGoes(n) => RankGoes(n)'
  PROVE  RankFollows(n)'
<1>1. \A o \in Owner : ScoreOf(records[o])' = ScoreOf(records[o]) BY DEF ScoreOf
<1>2. ASSUME building[n] # None,
             \A o \in Owner : ScoreOf(building[n][o]) \in {None, ScoreOf(records[o])}
      PROVE  RankFollows(n)'
  BY <1>1, <1>2 DEF RankFollows, ScoreOf
<1>3. ASSUME building[n] = None, rank[n] # None => ShowsScores(rank[n]) PROVE RankFollows(n)'
  BY <1>1, <1>3 DEF RankFollows, ShowsScores
<1> QED BY <1>2, <1>3 DEF RankFollows

\* A step of a call that leaves the caches, and is not one that clears them.
LEMMA CachesLeft ==
  ASSUME CacheInv, NEW c \in Request, \A d \in Request \ {c} : call'[d] = call[d],
         UNCHANGED <<records, list, building, rank, inbox, silent>>, ~Scoring(c),
         \A n \in Host : ~Deleting(c, n) /\ ~Resetting(c, n)
  PROVE  CacheInv'
<1>1. ASSUME NEW n \in Host PROVE ListFollows(n)' /\ RankFollows(n)'
  <2>1. (RankGoes(n) => RankGoes(n)') /\ (ListGoes(n) => ListGoes(n)') BY GoesKept
  <2> QED BY <2>1, ListKept, RankKept DEF CacheInv
<1> QED BY <1>1 DEF CacheInv, RanksTyped

\* The ranks and lists will go everywhere.
LEMMA AllGo ==
  ASSUME RanksTyped', NEW c \in Request, Scoring(c)' PROVE CacheInv'
  BY DEF CacheInv, ListFollows, RankFollows, ListGoes, RankGoes

\* The caches are empty when the servers start.
LEMMA CachesInit == BoardInit => CacheInv
<1> SUFFICES ASSUME BoardInit PROVE CacheInv OBVIOUS
<1> QED BY DEF BoardInit, CacheInv, RanksTyped, ListFollows, RankFollows

\* A list is read from the table and stored, and messages arrive.
LEMMA BuildQueryCaches ==
  ASSUME BoardInv, CacheInv, NEW n \in Host, BuildQuery(n) PROVE CacheInv'
<1>1. /\ list[n] = None /\ building' = [building EXCEPT ![n] = records]
      /\ silent' = [silent EXCEPT ![n] = @ \ {"list", "rank"}]
      /\ UNCHANGED <<records, call, list, rank, inbox>>
  BY DEF BuildQuery, Heard, table
<1>2. /\ building'[n] = records /\ silent'[n] \subseteq silent[n]
      /\ \A m \in Host : m # n => building'[m] = building[m] /\ silent'[m] = silent[m]
  BY <1>1 DEF BoardInv, CachesTyped
<1>3. \A m \in Host : (RankGoes(m) => RankGoes(m)') /\ (ListGoes(m) => ListGoes(m)')
  BY <1>1 DEF RankGoes, ListGoes, Scoring, Deleting, Resetting, Busy
<1>4. ASSUME NEW m \in Host, m # n PROVE ListFollows(m)' /\ RankFollows(m)'
  BY <1>1, <1>2, <1>3, <1>4, ListKept, RankKept DEF CacheInv
<1>5. ListFollows(n)' BY <1>1, <1>2 DEF ListFollows
<1>6. RankFollows(n)'
  <2>1. records # None BY DEF BoardInv, TableTyped, Table
  <2> QED BY <1>1, <1>2, <2>1 DEF RankFollows, ScoreOf
<1> QED BY <1>1, <1>4, <1>5, <1>6 DEF CacheInv, RanksTyped

\* A build stores the list, and with it the ranks, that it has read.
LEMMA BuildStoreCaches ==
  ASSUME BoardInv, CacheInv, NEW n \in Host, BuildStore(n) PROVE CacheInv'
<1>1. /\ building[n] # None
      /\ list' = [list EXCEPT ![n] = building[n]]
      /\ rank' = [rank EXCEPT ![n] = [o \in Owner |-> ScoreOf(building[n][o])]]
      /\ building' = [building EXCEPT ![n] = None]
      /\ UNCHANGED <<records, call, inbox, silent>>
  BY DEF BuildStore, table
<1>2. /\ building'[n] = None /\ list'[n] = building[n]
      /\ rank'[n] = [o \in Owner |-> ScoreOf(building[n][o])]
      /\ \A m \in Host : m # n => /\ building'[m] = building[m] /\ list'[m] = list[m]
                                  /\ rank'[m] = rank[m]
  BY <1>1 DEF BoardInv, CachesTyped, CacheInv, RanksTyped
<1>3. \A m \in Host : (RankGoes(m) => RankGoes(m)') /\ (ListGoes(m) => ListGoes(m)')
  BY <1>1 DEF RankGoes, ListGoes, Scoring, Deleting, Resetting, Busy
<1>4. ASSUME NEW m \in Host, m # n PROVE ListFollows(m)' /\ RankFollows(m)'
  BY <1>1, <1>2, <1>3, <1>4, ListKept, RankKept DEF CacheInv
<1>5. ListFollows(n)' BY <1>1, <1>2, <1>3 DEF CacheInv, ListFollows
<1>6. RankFollows(n)'
  <2>1. CASE "rank" \in silent[n] \/ RankGoes(n) BY <1>1, <1>3, <2>1 DEF RankFollows
  <2>2. CASE \A o \in Owner : ScoreOf(building[n][o]) \in {None, ScoreOf(records[o])}
    <3>1. \A o \in Owner : rank'[n][o] = ScoreOf(building[n][o]) BY <1>2
    <3>2. \A o \in Owner : ScoreOf(records[o])' = ScoreOf(records[o]) BY <1>1 DEF ScoreOf
    <3>3. ShowsScores(rank[n])' BY <2>2, <3>1, <3>2 DEF ShowsScores
    <3> QED BY <1>2, <3>3 DEF RankFollows
  <2> QED BY <1>1, <2>1, <2>2 DEF CacheInv, RankFollows
<1>7. RanksTyped' BY <1>1 DEF CacheInv, RanksTyped
<1> QED BY <1>4, <1>5, <1>6, <1>7 DEF CacheInv

\* A message that arrives clears what it was sent for.
LEMMA DeliverCaches ==
  ASSUME BoardInv, CacheInv, NEW n \in Host, Deliver(n) PROVE CacheInv'
<1>1. /\ building[n] = None
      /\ inbox' = [inbox EXCEPT ![n] = @ - 1]
      /\ list' = [list EXCEPT ![n] = None] /\ rank' = [rank EXCEPT ![n] = None]
      /\ silent' = [silent EXCEPT ![n] = @ \ {"list", "rank"}]
      /\ UNCHANGED <<records, call, building>>
  BY DEF Deliver, EvictList, MutexFree, Heard, table
<1>2. /\ list'[n] = None /\ rank'[n] = None /\ building'[n] = None
      /\ \A m \in Host : m # n => /\ list'[m] = list[m] /\ rank'[m] = rank[m]
                                  /\ silent'[m] = silent[m] /\ inbox'[m] = inbox[m]
  BY <1>1 DEF BoardInv, CachesTyped, CacheInv, RanksTyped
<1>3. \A m \in Host : m # n => (RankGoes(m) => RankGoes(m)') /\ (ListGoes(m) => ListGoes(m)')
  BY <1>1, <1>2 DEF RankGoes, ListGoes, Scoring, Deleting, Resetting, Busy
<1>4. ASSUME NEW m \in Host, m # n PROVE ListFollows(m)' /\ RankFollows(m)'
  BY <1>1, <1>2, <1>3, <1>4, ListKept, RankKept DEF CacheInv
<1>5. ListFollows(n)' /\ RankFollows(n)' BY <1>2 DEF ListFollows, RankFollows
<1>6. RanksTyped' BY <1>1 DEF CacheInv, RanksTyped
<1> QED BY <1>4, <1>5, <1>6 DEF CacheInv

\* Publishing: everybody has a message, or hears of nothing.
LEMMA PublishCaches ==
  ASSUME BoardInv, CacheInv, NEW c \in Request, Publish(c) PROVE CacheInv'
<1> DEFINE n == call[c].node
<1>1. /\ building[n] = None /\ list' = [list EXCEPT ![n] = None]
      /\ inbox' = [m \in Host |-> inbox[m] + IF call[c].redis THEN 1 ELSE 0]
      /\ silent' = [m \in Host |->
                     IF call[c].redis THEN silent[m]
                     ELSE IF m = n THEN (silent[m] \ {"list"}) \union {"rank"}
                     ELSE {"list", "rank"}]
      /\ UNCHANGED <<building, rank>>
  BY DEF Publish, EvictList, MutexFree
<1>2. RanksTyped' BY <1>1 DEF CacheInv, RanksTyped
<1>3. CASE call[c].redis
  <2>1. \A m \in Host : inbox[m] \in Nat BY DEF BoardInv, CachesTyped
  <2>2. \A m \in Host : inbox'[m] > 0 BY <1>1, <1>3, <2>1
  <2> QED BY <1>2, <2>2 DEF CacheInv, ListFollows, RankFollows, ListGoes, RankGoes
<1>4. CASE ~call[c].redis
  <2>1. \A m \in Host : "rank" \in silent'[m] /\ (m # n => "list" \in silent'[m])
    BY <1>1, <1>4
  <2>2. n \in Host /\ list'[n] = None /\ building'[n] = None
    <3>1. n \in Host BY CallTyped DEF Publish, BoardInv, CallType
    <3> QED BY <1>1, <3>1 DEF BoardInv, CachesTyped
  <2> QED BY <1>2, <2>1, <2>2 DEF CacheInv, ListFollows, RankFollows
<1> QED BY <1>3, <1>4

\* A submission: nothing before its commit, and after it all lists and ranks go.
LEMMA BeginCalls ==
  ASSUME TableTyped, NEW c \in Request, NEW op, NEW n, NEW o, NEW next, Begin(c, op, n, o, next)
  PROVE  /\ \A d \in Request \ {c} : call'[d] = call[d]
         /\ ~Busy(c) /\ ~Scoring(c) /\ \A m : ~Deleting(c, m) /\ ~Resetting(c, m)
         /\ call'[c] = [op |-> op, node |-> n, owner |-> o, next |-> next,
                        old |-> None, redis |-> TRUE]
  BY DEF Begin, TableTyped, Scoring, Deleting, Resetting

\* A call that ends is gone, and the others are as they were.
LEMMA EndCalls ==
  ASSUME TableTyped, NEW c \in Request, End(c)
  PROVE  call'[c] = None /\ \A d \in Request \ {c} : call'[d] = call[d]
  BY DEF End, TableTyped

\* A call clears no caches, but for the last phases of three operations.
LEMMA ClearsNothing ==
  ASSUME TableTyped, NEW c \in Request, Busy(c)
  PROVE  /\ call[c].next \in {"read", "write"} =>
              ~Scoring(c) /\ \A n : ~Deleting(c, n) /\ ~Resetting(c, n)
         /\ call[c].op \in {"join", "deleteAll"} \/ call[c].next = "records" =>
              ~Scoring(c) /\ \A n : ~Deleting(c, n) /\ ~Resetting(c, n)
         /\ call[c].next \in {"unrank", "unlist"} => ~Scoring(c) /\ \A n : ~Deleting(c, n)
         /\ call[c].op = "delete" => ~Scoring(c) /\ \A n : ~Resetting(c, n)
  BY PhaseOf DEF Scoring, Deleting, Resetting

\* A submission that starts has written nothing.
LEMMA BeginSubmitCaches ==
  ASSUME BoardInv, CacheInv, NEW c \in Request, NEW n \in Host, NEW o \in Owner,
         BeginSubmit(c, n, o)
  PROVE  CacheInv'
<1>1. /\ Begin(c, "submit", n, o, "read")
      /\ UNCHANGED <<records, list, building, rank, inbox, silent>>
  BY DEF BeginSubmit, table, caches
<1>2. /\ \A d \in Request \ {c} : call'[d] = call[d]
      /\ ~Scoring(c) /\ \A m : ~Deleting(c, m) /\ ~Resetting(c, m)
  BY <1>1, BeginCalls DEF BoardInv
<1> QED BY <1>1, <1>2, CachesLeft

\* A submission that reads, fails, or stops has written nothing.
LEMMA ReadRecordCaches ==
  ASSUME BoardInv, CacheInv, NEW c \in Request, ReadRecord(c) \/ AbortSubmit(c) \/ ResetFails(c)
  PROVE  CacheInv'
<1>1. /\ Busy(c) /\ call[c].next \in {"read", "write", "records"}
      /\ \A d \in Request \ {c} : call'[d] = call[d]
      /\ UNCHANGED <<records, list, building, rank, inbox, silent>>
  BY DEF ReadRecord, AbortSubmit, ResetFails, End, Shares, BoardInv, TableTyped, table, caches
<1>2. ~Scoring(c) /\ \A n : ~Deleting(c, n) /\ ~Resetting(c, n)
  BY <1>1, ClearsNothing DEF BoardInv
<1> QED BY <1>1, <1>2, CachesLeft

\* A committed score will be told of: until then the caches may lag.
LEMMA CommitSubmitCaches ==
  ASSUME BoardInv, CacheInv, NEW c \in Request, CommitSubmit(c) PROVE CacheInv'
<1>1. PICK redis \in BOOLEAN :
        call' = [call EXCEPT ![c].next = "insert", ![c].old = Scored(@), ![c].redis = redis]
  BY DEF CommitSubmit
<1>2. Busy(c) /\ call[c].next = "write" /\ rank' = rank BY DEF CommitSubmit, caches
<1>3. call[c] \in CallType /\ call[c].op = "submit" BY <1>2, CallTyped, PhaseOf DEF BoardInv
<1>4. PICK r : r = [call[c] EXCEPT !.next = "insert", !.old = Scored(@), !.redis = redis] OBVIOUS
<1>5. r.op = "submit" /\ r.next = "insert" BY <1>3, <1>4 DEF CallType
<1>6. call'[c] = r BY <1>1, <1>4 DEF BoardInv, TableTyped
<1>7. r # None
  <2>1. MayScore(call[c].old) BY <1>2 DEF BoardInv, TableTyped, Proceeds
  <2>2. Scored(call[c].old) \in RecordType BY <1>3, <2>1, ScoredType DEF CallType
  <2>3. r \in CallType BY <1>3, <1>4, <2>2 DEF CallType
  <2> QED BY <2>3
<1>8. Scoring(c)' BY <1>5, <1>6, <1>7 DEF Scoring, Busy
<1>9. RanksTyped' BY <1>2 DEF CacheInv, RanksTyped
<1> QED BY <1>8, <1>9, AllGo

\* A rank inserted after that of a later score goes with the message.
LEMMA InsertRankCaches ==
  ASSUME BoardInv, CacheInv, NEW c \in Request, InsertRank(c) PROVE CacheInv'
<1>1. /\ Busy(c) /\ call[c].op = "submit"
      /\ call' = [call EXCEPT ![c].next = "publish"]
      /\ Insert(call[c].node, call[c].owner, call[c].old.score)
  BY DEF InsertRank, GoOn
<1>2. PICK r : r = [call[c] EXCEPT !.next = "publish"] OBVIOUS
<1>3. call[c] \in CallType BY <1>1, CallTyped DEF BoardInv
<1>4. r \in CallType /\ r.op = "submit" /\ r.next = "publish" BY <1>1, <1>2, <1>3 DEF CallType
<1>5. call'[c] = r BY <1>1, <1>2 DEF BoardInv, TableTyped
<1>6. Scoring(c)' BY <1>4, <1>5 DEF Scoring, Busy
<1>7. RanksTyped' BY <1>1 DEF Insert, Partition, CacheInv, RanksTyped
<1> QED BY <1>6, <1>7, AllGo

\* Who joins has score 0 in the table and none in the ranks.
LEMMA JoinCaches ==
  ASSUME BoardInv, CacheInv, NEW c \in Request, NEW n \in Host, NEW o \in Owner, Join(c, n, o)
  PROVE  CacheInv'
<1>1. /\ Begin(c, "join", n, o, "insert")
      /\ \/ records' = records
         \/ records[o] = None /\ records' = [records EXCEPT ![o] = [score |-> 0, num |-> 0]]
      /\ silent' = [m \in Host |-> silent[m] \union {"list"}]
      /\ UNCHANGED <<list, building, rank, inbox>>
  BY DEF Join
<1>2. /\ \A d \in Request \ {c} : call'[d] = call[d]
      /\ ~Scoring(c) /\ \A m : ~Deleting(c, m) /\ ~Resetting(c, m)
  BY <1>1, BeginCalls DEF BoardInv
<1>3. \A p \in Owner : records[p] = None \/ records'[p] = records[p]
  BY <1>1 DEF BoardInv, TableTyped, Table
<1>4. \A p \in Owner : \A x : x \in {None, ScoreOf(records[p])} => x \in {None, ScoreOf(records[p])'}
  BY <1>3 DEF ScoreOf
<1>5. ASSUME NEW m \in Host PROVE ListFollows(m)' /\ RankFollows(m)'
  <2>1. "list" \in silent'[m] /\ ("rank" \in silent[m] => "rank" \in silent'[m]) BY <1>1
  <2>2. RankGoes(m) => RankGoes(m)' BY <1>1, <1>2, GoesKept
  <2>3. CASE "rank" \in silent[m] \/ RankGoes(m) BY <2>1, <2>2, <2>3 DEF ListFollows, RankFollows
  <2>4. CASE /\ building[m] # None
             /\ \A p \in Owner : ScoreOf(building[m][p]) \in {None, ScoreOf(records[p])}
    <3>1. \A p \in Owner : ScoreOf(building[m][p]) \in {None, ScoreOf(records[p])'}
      BY <1>4, <2>4
    <3>2. \A p \in Owner : ScoreOf(building[m][p])' = ScoreOf(building[m][p])
      BY <1>1 DEF ScoreOf
    <3>3. RankFollows(m)' BY <1>1, <2>4, <3>1, <3>2 DEF RankFollows
    <3> QED BY <2>1, <3>3 DEF ListFollows
  <2>5. CASE building[m] = None /\ (rank[m] # None => ShowsScores(rank[m]))
    <3>1. ShowsScores(rank[m]) => ShowsScores(rank[m])' BY <1>1, <1>4 DEF ShowsScores
    <3>2. RankFollows(m)' BY <1>1, <2>5, <3>1 DEF RankFollows
    <3> QED BY <2>1, <3>2 DEF ListFollows
  <2> QED BY <2>3, <2>4, <2>5 DEF CacheInv, RankFollows
<1> QED BY <1>1, <1>5 DEF CacheInv, RanksTyped

\* A step that ends with the ranks of one node in doubt, and leaves the lists.
LEMMA RankDoubted ==
  ASSUME BoardInv, CacheInv, NEW c \in Request, NEW n \in Host,
         \A d \in Request \ {c} : call'[d] = call[d], ~Scoring(c),
         \A m \in Host : ~Deleting(c, m) /\ ~Resetting(c, m),
         UNCHANGED <<records, list, building, inbox>>, RanksTyped',
         \A m \in Host : silent[m] \subseteq silent'[m],
         \A m \in Host : m # n => rank'[m] = rank[m], RankFollows(n)'
  PROVE  CacheInv'
<1>1. ASSUME NEW m \in Host PROVE ListFollows(m)' /\ RankFollows(m)'
  <2>1. (RankGoes(m) => RankGoes(m)') /\ (ListGoes(m) => ListGoes(m)') BY GoesKept
  <2>2. ListFollows(m)' BY <2>1, ListKept DEF CacheInv
  <2>3. m # n => RankFollows(m)' BY <2>1, RankKept DEF CacheInv
  <2> QED BY <2>2, <2>3
<1> QED BY <1>1 DEF CacheInv

\* No message tells of the rank of who joins.
LEMMA JoinRankCaches ==
  ASSUME BoardInv, CacheInv, NEW c \in Request, JoinRank(c) PROVE CacheInv'
<1>0. PICK n : n = call[c].node OBVIOUS
<1>1. /\ Busy(c) /\ call[c].op = "join" /\ End(c) /\ Insert(n, call[c].owner, 0)
      /\ silent' = [silent EXCEPT ![n] = @ \union {"rank"}]
      /\ UNCHANGED <<records, list, building, inbox>>
  BY <1>0 DEF JoinRank, Hush, table
<1>2. n \in Host BY <1>0, <1>1, CallTyped DEF BoardInv, CallType
<1>3. ~Scoring(c) /\ \A m : ~Deleting(c, m) /\ ~Resetting(c, m)
  BY <1>1, ClearsNothing DEF BoardInv
<1>4. \A d \in Request \ {c} : call'[d] = call[d] BY <1>1, EndCalls DEF BoardInv
<1>5. RanksTyped' /\ \A m \in Host : m # n => rank'[m] = rank[m]
  BY <1>1, <1>2 DEF Insert, Partition, CacheInv, RanksTyped
<1>6. "rank" \in silent'[n] /\ \A m \in Host : silent[m] \subseteq silent'[m]
  BY <1>1, <1>2 DEF BoardInv, CachesTyped
<1>7. RankFollows(n)' BY <1>6 DEF RankFollows
<1> QED BY <1>1, <1>2, <1>3, <1>4, <1>5, <1>6, <1>7, RankDoubted

\* A deletion: its own node will clear its caches, the others hear of nothing.
LEMMA DeleteCaches ==
  ASSUME BoardInv, CacheInv, NEW c \in Request, NEW n \in Host, NEW o \in Owner,
         DeleteRecord(c, n, o) \/ RecordsDeleteAll(c, n, o)
  PROVE  CacheInv'
<1>1. UNCHANGED <<list, building, rank, inbox>> BY DEF DeleteRecord, RecordsDeleteAll
<1>2. RanksTyped' BY <1>1 DEF CacheInv, RanksTyped
<1>3. CASE RecordsDeleteAll(c, n, o)
  <2>1. \A m \in Host : silent'[m] = {"list", "rank"} BY <1>3 DEF RecordsDeleteAll
  <2> QED BY <1>2, <2>1 DEF CacheInv, ListFollows, RankFollows
<1>4. CASE DeleteRecord(c, n, o)
  <2>1. Begin(c, "delete", n, o, "evict") BY <1>4 DEF DeleteRecord
  <2>2. call'[c] = [op |-> "delete", node |-> n, owner |-> o, next |-> "evict",
                    old |-> None, redis |-> TRUE]
    BY <2>1, BeginCalls DEF BoardInv
  <2>3. [op |-> "delete", node |-> n, owner |-> o, next |-> "evict",
         old |-> None, redis |-> TRUE] \in CallType
    BY DEF CallType, RecordType
  <2>4. Deleting(c, n)'
    <3>1. call'[c] # None BY <2>2, <2>3
    <3> QED BY <2>2, <3>1 DEF Deleting, Busy
  <2>5. RankGoes(n)' BY <2>4 DEF RankGoes
  <2>6. \A m \in Host : m # n => silent'[m] = {"list", "rank"} BY <1>4 DEF DeleteRecord
  <2> QED BY <1>2, <2>5, <2>6 DEF CacheInv, ListFollows, RankFollows, ListGoes
<1> QED BY <1>3, <1>4

\* The caches of a deletion's node are gone at its end.
LEMMA EvictCaches ==
  ASSUME BoardInv, CacheInv, NEW c \in Request, Evict(c) PROVE CacheInv'
<1>0. PICK n : n = call[c].node OBVIOUS
<1>1. /\ Busy(c) /\ call[c].op = "delete" /\ End(c) /\ building[n] = None
      /\ list' = [list EXCEPT ![n] = None] /\ rank' = [rank EXCEPT ![n] = None]
      /\ UNCHANGED <<records, building, inbox, silent>>
  BY <1>0 DEF Evict, EvictList, MutexFree, table
<1>2. n \in Host BY <1>0, <1>1, CallTyped DEF BoardInv, CallType
<1>3. ~Scoring(c) /\ \A m : ~Resetting(c, m) BY <1>1, ClearsNothing DEF BoardInv
<1>4. \A d \in Request \ {c} : call'[d] = call[d] BY <1>1, EndCalls DEF BoardInv
<1>5. /\ list'[n] = None /\ rank'[n] = None
      /\ \A m \in Host : m # n => list'[m] = list[m] /\ rank'[m] = rank[m]
  BY <1>1, <1>2 DEF BoardInv, CachesTyped, CacheInv, RanksTyped
<1>6. ASSUME NEW m \in Host, m # n PROVE ListFollows(m)' /\ RankFollows(m)'
  <2>1. ~Deleting(c, m) BY <1>0, <1>6 DEF Deleting
  <2>2. (RankGoes(m) => RankGoes(m)') /\ (ListGoes(m) => ListGoes(m)')
    BY <1>1, <1>3, <1>4, <2>1, GoesKept
  <2> QED BY <1>1, <1>5, <1>6, <2>2, ListKept, RankKept DEF CacheInv
<1>7. ListFollows(n)' /\ RankFollows(n)' BY <1>1, <1>5 DEF ListFollows, RankFollows
<1>8. RanksTyped' BY <1>1 DEF CacheInv, RanksTyped
<1> QED BY <1>6, <1>7, <1>8 DEF CacheInv

\* The ranks of one owner go, or those of a node in a reset.
LEMMA ForgetCaches ==
  ASSUME BoardInv, CacheInv, NEW c \in Request, Forget(c) PROVE CacheInv'
<1>0. PICK n : n = call[c].node OBVIOUS
<1>1. /\ Busy(c) /\ call[c].op = "deleteAll" /\ End(c)
      /\ rank' = [rank EXCEPT ![n] = IF @ = None THEN None ELSE [@ EXCEPT ![call[c].owner] = None]]
      /\ UNCHANGED <<records, list, building, inbox, silent>>
  BY <1>0 DEF Forget, table
<1>2. n \in Host BY <1>0, <1>1, CallTyped DEF BoardInv, CallType
<1>3. ~Scoring(c) /\ \A m : ~Deleting(c, m) /\ ~Resetting(c, m)
  BY <1>1, ClearsNothing DEF BoardInv
<1>4. \A d \in Request \ {c} : call'[d] = call[d] BY <1>1, EndCalls DEF BoardInv
<1>5. PICK r : r = rank[n] OBVIOUS
<1>6. PICK r1 : r1 = IF r = None THEN None ELSE [r EXCEPT ![call[c].owner] = None] OBVIOUS
<1>7. /\ rank'[n] = r1 /\ \A m \in Host : m # n => rank'[m] = rank[m]
      /\ rank' = [rank EXCEPT ![n] = r1]
  BY <1>1, <1>2, <1>5, <1>6 DEF CacheInv, RanksTyped
<1>8. r # None => DOMAIN r1 = Owner /\ \A o \in Owner : r1[o] \in {None, r[o]}
  BY <1>2, <1>5, <1>6 DEF CacheInv, RanksTyped
<1>9. RanksTyped' BY <1>6, <1>7, <1>8 DEF CacheInv, RanksTyped
<1>10. RankFollows(n)'
  <2>1. (RankGoes(n) => RankGoes(n)') BY <1>1, <1>2, <1>3, <1>4, GoesKept
  <2>2. \A o \in Owner : ScoreOf(records[o])' = ScoreOf(records[o]) BY <1>1 DEF ScoreOf
  <2>3. CASE building[n] # None
    <3>1. \A o \in Owner : ScoreOf(building[n][o])' = ScoreOf(building[n][o])
      BY <1>1 DEF ScoreOf
    <3> QED BY <1>1, <1>2, <2>1, <2>2, <2>3, <3>1 DEF CacheInv, RankFollows
  <2>4. CASE building[n] = None
    <3>1. ASSUME r # None, ShowsScores(r) PROVE ShowsScores(r1)
      BY <1>8, <3>1 DEF ShowsScores
    <3>2. ShowsScores(r1) => ShowsScores(r1)' BY <2>2 DEF ShowsScores
    <3> QED BY <1>1, <1>2, <1>5, <1>6, <1>7, <2>1, <2>4, <3>1, <3>2 DEF CacheInv, RankFollows
  <2> QED BY <2>3, <2>4
<1> QED BY <1>1, <1>2, <1>3, <1>4, <1>7, <1>9, <1>10, RankDoubted

\* A reset that got to the records: its list will go, and no other node hears.
LEMMA ResetRecordsCaches ==
  ASSUME BoardInv, CacheInv, NEW c \in Request, ResetRecords(c) PROVE CacheInv'
<1>0. PICK n : n = call[c].node OBVIOUS
<1>1. /\ Busy(c) /\ call[c].next = "records" /\ call' = [call EXCEPT ![c].next = "unrank"]
      /\ silent' = [m \in Host |-> IF m = n THEN silent[m] \union {"rank"} ELSE {"list", "rank"}]
      /\ UNCHANGED <<list, building, rank, inbox>>
  BY <1>0 DEF ResetRecords, GoOn
<1>2. call[c] \in CallType /\ call[c].op = "reset" BY <1>1, CallTyped, PhaseOf DEF BoardInv
<1>3. PICK r : r = [call[c] EXCEPT !.next = "unrank"] OBVIOUS
<1>4. r \in CallType /\ r.op = "reset" /\ r.next = "unrank" /\ r.node = n
  BY <1>0, <1>2, <1>3 DEF CallType
<1>5. call'[c] = r BY <1>1, <1>3 DEF BoardInv, TableTyped
<1>6. Resetting(c, n)' BY <1>4, <1>5 DEF Resetting, Busy
<1>7. \A m \in Host : "rank" \in silent'[m] /\ (m # n => "list" \in silent'[m]) BY <1>1
<1>8. RanksTyped' BY <1>1 DEF CacheInv, RanksTyped
<1> QED BY <1>6, <1>7, <1>8 DEF CacheInv, ListFollows, RankFollows, ListGoes

\* A reset clears ranks that no message will clear.
LEMMA ResetRanksCaches ==
  ASSUME BoardInv, CacheInv, NEW c \in Request, ResetRanks(c) PROVE CacheInv'
<1>0. PICK n : n = call[c].node OBVIOUS
<1>1. /\ Busy(c) /\ call[c].next = "unrank" /\ call' = [call EXCEPT ![c].next = "unlist"]
      /\ rank' = [rank EXCEPT ![n] = None]
      /\ UNCHANGED <<records, list, building, inbox, silent>>
  BY <1>0 DEF ResetRanks, GoOn, table
<1>2. call[c] \in CallType /\ call[c].op = "reset" BY <1>1, CallTyped, PhaseOf DEF BoardInv
<1>3. PICK r : r = [call[c] EXCEPT !.next = "unlist"] OBVIOUS
<1>4. r \in CallType /\ r.op = "reset" /\ r.next = "unlist" /\ r.node = call[c].node
  BY <1>2, <1>3 DEF CallType
<1>5. call'[c] = r /\ \A d \in Request \ {c} : call'[d] = call[d]
  BY <1>1, <1>3 DEF BoardInv, TableTyped
<1>6. \A m \in Host : Resetting(c, m) => Resetting(c, m)' BY <1>4, <1>5 DEF Resetting, Busy
<1>7. ~Scoring(c) /\ \A m : ~Deleting(c, m) BY <1>1, ClearsNothing DEF BoardInv
<1>8. RanksTyped' /\ \A m \in Host : rank'[m] \in {rank[m], None}
  BY <1>1 DEF CacheInv, RanksTyped
<1>9. ASSUME NEW m \in Host PROVE ListFollows(m)' /\ RankFollows(m)'
  <2>1. (RankGoes(m) => RankGoes(m)') /\ (ListGoes(m) => ListGoes(m)')
    BY <1>1, <1>5, <1>6, <1>7, GoesKept
  <2> QED BY <1>1, <1>8, <2>1, ListKept, RankKept DEF CacheInv
<1> QED BY <1>8, <1>9 DEF CacheInv

\* A reset clears the list it has made stale, once no build is under way.
LEMMA ResetListCaches ==
  ASSUME BoardInv, CacheInv, NEW c \in Request, ResetList(c) PROVE CacheInv'
<1>0. PICK n : n = call[c].node OBVIOUS
<1>1. /\ Busy(c) /\ call[c].next = "unlist" /\ End(c)
      /\ building[n] = None /\ list' = [list EXCEPT ![n] = None]
      /\ UNCHANGED <<records, building, rank, inbox, silent>>
  BY <1>0 DEF ResetList, EvictList, MutexFree, table
<1>2. n \in Host BY <1>0, <1>1, CallTyped DEF BoardInv, CallType
<1>3. ~Scoring(c) /\ \A m : ~Deleting(c, m) BY <1>1, ClearsNothing DEF BoardInv
<1>4. \A d \in Request \ {c} : call'[d] = call[d] BY <1>1, EndCalls DEF BoardInv
<1>5. list'[n] = None /\ \A m \in Host : m # n => list'[m] = list[m]
  BY <1>1, <1>2 DEF BoardInv, CachesTyped
<1>6. ASSUME NEW m \in Host PROVE RankFollows(m)' /\ (m # n => ListFollows(m)')
  <2>1. RankGoes(m) => RankGoes(m)'
    <3>1. \A d \in Request : (Scoring(d) => Scoring(d)') /\ (Deleting(d, m) => Deleting(d, m)')
      BY <1>3, <1>4 DEF Scoring, Deleting, Busy
    <3> QED BY <1>1, <3>1 DEF RankGoes
  <2>2. m # n => (ListGoes(m) => ListGoes(m)')
    <3>1. m # n => ~Resetting(c, m) BY <1>0 DEF Resetting
    <3> QED BY <1>1, <1>3, <1>4, <3>1, GoesKept
  <2>3. RankFollows(m)' BY <1>1, <2>1, RankKept DEF CacheInv
  <2>4. m # n => ListFollows(m)' BY <1>1, <1>5, <2>2, ListKept DEF CacheInv
  <2> QED BY <2>3, <2>4
<1>7. ListFollows(n)' BY <1>1, <1>5 DEF ListFollows
<1>8. RanksTyped' BY <1>1 DEF CacheInv, RanksTyped
<1> QED BY <1>6, <1>7, <1>8 DEF CacheInv

\* Every step keeps what is known of the caches.
LEMMA CachesStep == BoardInv /\ CacheInv /\ [BoardNext]_boardVars => CacheInv'
<1> SUFFICES ASSUME BoardInv, CacheInv, [BoardNext]_boardVars PROVE CacheInv' OBVIOUS
<1>1. ASSUME NEW n \in Host, BuildQuery(n) \/ BuildStore(n) \/ Deliver(n) PROVE CacheInv'
  BY <1>1, BuildQueryCaches, BuildStoreCaches, DeliverCaches
<1>2. ASSUME NEW c \in Request,
             ReadRecord(c) \/ CommitSubmit(c) \/ AbortSubmit(c) \/ InsertRank(c) \/ Publish(c)
      PROVE  CacheInv'
  BY <1>2, ReadRecordCaches, CommitSubmitCaches, InsertRankCaches, PublishCaches
<1>3. ASSUME NEW c \in Request,
             \/ JoinRank(c) \/ Evict(c) \/ Forget(c)
             \/ ResetRecords(c) \/ ResetFails(c) \/ ResetRanks(c) \/ ResetList(c)
      PROVE  CacheInv'
  BY <1>3, JoinRankCaches, EvictCaches, ForgetCaches, ResetRecordsCaches, ReadRecordCaches,
     ResetRanksCaches, ResetListCaches
<1>4. ASSUME NEW c \in Request, NEW n \in Host, ResetSize(c, n) PROVE CacheInv'
  <2>1. /\ Begin(c, "reset", n, None, "records")
        /\ UNCHANGED <<records, list, building, rank, inbox, silent>>
    BY <1>4 DEF ResetSize, caches
  <2>2. /\ \A d \in Request \ {c} : call'[d] = call[d]
        /\ ~Scoring(c) /\ \A m : ~Deleting(c, m) /\ ~Resetting(c, m)
    BY <2>1, BeginCalls DEF BoardInv
  <2> QED BY <2>1, <2>2, CachesLeft
<1>5. ASSUME NEW c \in Request, NEW n \in Host, NEW o \in Owner,
             \/ BeginSubmit(c, n, o) \/ Join(c, n, o)
             \/ DeleteRecord(c, n, o) \/ RecordsDeleteAll(c, n, o)
      PROVE  CacheInv'
  BY <1>5, BeginSubmitCaches, JoinCaches, DeleteCaches
<1>6. CASE UNCHANGED boardVars
  BY <1>6 DEF boardVars, CacheInv, RanksTyped, ListFollows, RankFollows, ListGoes, RankGoes,
     Scoring, Deleting, Resetting, Busy, ShowsScores, ScoreOf
<1> QED BY <1>1, <1>2, <1>3, <1>4, <1>5, <1>6 DEF BoardNext

(* When everything has settled, a node shows the list and the ranks of the   *)
(* records in the table, unless it was not told of the last change: a list   *)
(* that is read while a score is committed does not outlive the message.     *)
THEOREM CachesFollowTheTable == BoardSpec => []CachesFollow
<1>1. BoardInit => CacheInv BY CachesInit
<1>2. BoardSpec => []CacheInv BY <1>1, CachesStep, BoardInvariant, PTL DEF BoardSpec
<1>3. ASSUME BoardInv, CacheInv, Quiet, NEW n \in Host
      PROVE  /\ (list[n] # None /\ "list" \notin silent[n]) => list[n] = records
             /\ (rank[n] # None /\ "rank" \notin silent[n]) =>
                  \A o \in Owner : rank[n][o] \in {None, ScoreOf(records[o])}
  <2>1. building[n] = None /\ inbox[n] = 0 BY <1>3 DEF Quiet, MutexFree
  <2>2. ~ListGoes(n) /\ ~RankGoes(n)
    BY <1>3, <2>1 DEF Quiet, ListGoes, RankGoes, Scoring, Deleting, Resetting
  <2> QED BY <1>3, <2>1, <2>2 DEF CacheInv, ListFollows, RankFollows, ShowsScores
<1>4. BoardInv /\ CacheInv => CachesFollow BY <1>3 DEF CachesFollow
<1> QED BY <1>2, <1>4, BoardInvariant, PTL
=============================================================================
