------------------------------- MODULE Economy -------------------------------
(* Wallets, their ledger and the objects of the storage engine               *)
(* (internal/economy, internal/storage), changed by transactions that run at *)
(* once.                                                                     *)
(*                                                                           *)
(* UpdateWallets, WriteStorageObjects, DeleteStorageObjects and MultiUpdate  *)
(* are one kind of request, a set of numbered statements: account updates,   *)
(* then writes, then deletes, then the wallets, each of the first three with *)
(* one section only.  Each statement locks its row until the transaction     *)
(* ends; the database runs them READ COMMITTED.  The index of the storage is *)
(* told after the commit, object by object.                                  *)
EXTENDS Users

CONSTANTS
  Object, Value,
  Kept,      \* the values that the filter of the index keeps
  Place,     \* of an object in the order the batches are sorted by
  HalfRange, \* a balance has the width of HalfRange * 2 values
  Plans,     \* the requests
  Free, Absent, AnyVersion, NewOnly,
  MaxOpened  \* bound: transactions opened

Delta == - HalfRange .. HalfRange - 1

(* n is the position in the request.  A trusted (server) delete passes over  *)
(* what is not there; one of a global object may fail to name it (see        *)
(* IndexSteps).                                                              *)
Statement ==
  [do : {"account"}, row : User, n : Nat]
  \union [do : {"write"}, row : Object, n : Nat, value : Value,
          version : Value \union {AnyVersion, NewOnly}]
  \union [do : {"delete"}, row : Object, n : Nat, version : Value \union {AnyVersion},
          server : BOOLEAN, named : BOOLEAN]
  \union [do : {"earn"}, row : User, n : Nat, delta : Delta]

ASSUME EconomyAssumption ==
  /\ HalfRange \in Nat \ {0}
  /\ User \cap Object = {}
  /\ Kept \subseteq Value
  /\ Place \in [Object -> Nat]
  /\ \A o, p \in Object : Place[o] = Place[p] => o = p
  /\ Free \notin Request /\ Absent \notin Value
  /\ AnyVersion \notin Value \union {Absent} /\ NewOnly \notin Value \union {Absent, AnyVersion}
  /\ Plans \subseteq [statements : SUBSET Statement, logged : BOOLEAN]
  /\ \A p \in Plans : \A s, o \in p.statements : s.do = o.do /\ s.n = o.n => s = o

VARIABLES
  wallet,   \* user -> balance
  ledger,   \* user -> sum of the rows in wallet_ledger
  unlogged, \* user -> sum of the changes made with updateLedger = false
  stored,   \* object -> Absent or value, whose hash is its version
  lock,     \* row -> Free or the transaction
  txn,
  index,    \* object -> Absent or value: the storage index of this node
  missed,   \* objects whose index entry may be out of date (see Missed)
  opened

economyVars == <<wallet, ledger, unlogged, stored, lock, txn, index, missed, opened>>
committed == <<wallet, ledger, unlogged, stored>>

NoTxn == [stage |-> "idle", todo |-> {}]
\* f with v at x, and g with what f says.
Put(f, x, v) == [y \in DOMAIN f \union {x} |-> IF y = x THEN v ELSE f[y]]
Over(f, g) == [x \in DOMAIN g |-> IF x \in DOMAIN f THEN f[x] ELSE g[x]]

Rows(statements) == {s.row : s \in statements}
Of(p, what) == {s \in p.statements : s.do = what}

EconomyInit ==
  /\ wallet \in [User -> {0, HalfRange - 1}] /\ ledger = wallet
  /\ unlogged = [u \in User |-> 0]
  /\ stored \in [Object -> Value \union {Absent}]
  /\ lock = [r \in User \union Object |-> Free]
  /\ txn = [c \in Request |-> NoTxn]
  /\ index = [o \in Object |-> Absent]
  /\ missed = {o \in Object : stored[o] # Absent}
  /\ opened = 0

-----------------------------------------------------------------------------
(* The order of the statements                                               *)

Section == [account |-> 1, write |-> 2, delete |-> 3, wallet |-> 4, earn |-> 5]

\* SELECT ... FOR UPDATE takes each wallet once, in the order of its scan.
Statements(p) ==
  p.statements \union {[do |-> "wallet", row |-> u, n |-> 0] : u \in Rows(Of(p, "earn"))}

\* Mutant: the statements of a batch run in the order given.
Rank_AsGiven(s) == s.n

\* Objects are sorted; accounts and changes are taken as given.  The wallets
\* have no order: n is 0 in each.
Rank(s) == IF s.do \in {"write", "delete"} THEN Place[s.row] ELSE s.n

\* The sort of the writes is stable.
Precedes(o, s) ==
  \/ Section[o.do] < Section[s.do]
  \/ /\ o.do = s.do
     /\ \/ Rank(o) < Rank(s)
        \/ s.do = "write" /\ Rank(o) = Rank(s) /\ o.n < s.n

\* The statements of an open transaction that may be next.
Turn(c) == {s \in txn[c].todo : \A o \in txn[c].todo : ~Precedes(o, s)}

\* mine are its changes of objects, read the wallets as it has changed them,
\* gain the changes.
Open(c, p) ==
  /\ txn[c].stage = "idle" /\ opened < MaxOpened /\ opened' = opened + 1
  /\ txn' = [txn EXCEPT ![c] = [stage |-> "open", plan |-> p, todo |-> Statements(p),
                                mine |-> <<>>, read |-> <<>>, gain |-> [u \in User |-> 0]]]
  /\ UNCHANGED <<committed, lock, index, missed>>

-----------------------------------------------------------------------------
(* Statements                                                                *)

Runs(c, s, what) == txn[c].stage = "open" /\ s \in Turn(c) /\ s.do = what
MyTurn(c, row) == lock[row] \in {Free, c}

\* Mutant: statements take no row locks.
LockRow_None(c, row) == UNCHANGED lock
LockRow(c, row) == MyTurn(c, row) /\ lock' = [lock EXCEPT ![row] = c]

\* Mutant: the wallet is read without FOR UPDATE.
LockWallet_NoForUpdate(c, u) == UNCHANGED lock
LockWallet(c, u) == LockRow(c, u)

\* The statement is done; what it found or changed is remembered.
Advance(c, s, mine, read, gain) ==
  /\ txn' = [txn EXCEPT ![c] = [stage |-> "open", plan |-> @.plan, todo |-> @.todo \ {s},
                                mine |-> mine, read |-> read, gain |-> gain]]
  /\ UNCHANGED <<committed, index, missed, opened>>

Unlocked(c) == [r \in DOMAIN lock |-> IF lock[r] = c THEN Free ELSE lock[r]]

Rollback(c) ==
  /\ lock' = Unlocked(c)
  /\ txn' = [txn EXCEPT ![c] = NoTxn]
  /\ UNCHANGED <<committed, index, missed, opened>>

\* An object as the transaction sees it: its own change, or what is committed.
Seen(c, o) == IF o \in DOMAIN txn[c].mine THEN txn[c].mine[o] ELSE stored[o]

UpdateAccount(c, s) ==
  /\ Runs(c, s, "account")
  /\ LockRow(c, s.row)
  /\ Advance(c, s, txn[c].mine, txn[c].read, txn[c].gain)

Change(c, s, value) == Advance(c, s, Put(txn[c].mine, s.row, value), txn[c].read, txn[c].gain)

\* The version a write asks for: any, none, or that of a value.
Fits(s, seen) ==
  \/ s.version = AnyVersion
  \/ s.version = NewOnly /\ seen = Absent
  \/ s.version = seen

\* An insert waits for who holds the row before it finds it taken; an update of
\* a version that is not the committed one is rejected at once.
WriteOne(c, s) ==
  /\ Runs(c, s, "write")
  /\ IF Fits(s, Seen(c, s.row))
     THEN LockRow(c, s.row) /\ Change(c, s, s.value)
     ELSE (s.version = NewOnly => MyTurn(c, s.row)) /\ Rollback(c)

Hits(s, seen) == seen # Absent /\ s.version \in {AnyVersion, seen}

\* Only the server may delete what is not there.
DeleteOne(c, s) ==
  /\ Runs(c, s, "delete")
  /\ IF Hits(s, Seen(c, s.row)) THEN LockRow(c, s.row) /\ Change(c, s, Absent)
     ELSE IF s.server /\ s.version = AnyVersion
     THEN Advance(c, s, txn[c].mine, txn[c].read, txn[c].gain) /\ UNCHANGED lock
     ELSE Rollback(c)

ReadWallet(c, s) ==
  /\ Runs(c, s, "wallet")
  /\ LockWallet(c, s.row)
  /\ Advance(c, s, txn[c].mine, Put(txn[c].read, s.row, wallet[s.row]), txn[c].gain)

Wrapped(n) == ((n + HalfRange) % (2 * HalfRange)) - HalfRange

\* Mutant: a balance below zero is accepted.
Negative_Unchecked(balance) == FALSE
Negative(balance) == balance < 0

\* One change of a wallet, with its row of the ledger.
ChangeWallet(c, s) ==
  LET balance == Wrapped(txn[c].read[s.row] + s.delta)
  IN /\ Runs(c, s, "earn")
     /\ IF Negative(balance) THEN Rollback(c)
        ELSE /\ Advance(c, s, txn[c].mine, [txn[c].read EXCEPT ![s.row] = balance],
                        [txn[c].gain EXCEPT ![s.row] = @ + s.delta])
             /\ UNCHANGED lock

\* The database breaks a circle of waiting transactions, or the connection does.
FailTxn(c) == txn[c].stage = "open" /\ Rollback(c)

-----------------------------------------------------------------------------
(* The end of a transaction                                                  *)

Touched(p) == Rows(Of(p, "write") \union Of(p, "delete"))

\* What the index is told after the commit.  A delete that names a global object
\* by the empty user id reaches no entry.
IndexSteps(p) == Of(p, "write") \union {s \in Of(p, "delete") : s.named}

\* Mutant: the index hears of the deletes first.
IndexBefore_DeletesFirst(o, s) ==
  Section[o.do] > Section[s.do] \/ (o.do = s.do /\ o.n < s.n)

\* The writes, then the deletes, as they were given.
IndexBefore(o, s) == Section[o.do] < Section[s.do] \/ (o.do = s.do /\ o.n < s.n)

(* What another call has committed and not indexed yet may reach the index   *)
(* after this one's; a delete that found nothing may unindex what was written *)
(* since; a delete may reach no entry.                                       *)
Missed(c) ==
  LET p == txn[c].plan
  IN {o \in Touched(p) :
       \/ \E d \in Request \ {c} : txn[d].stage = "index" /\ o \in Rows(txn[d].todo)
       \/ o \in Rows(Of(p, "delete")) \ DOMAIN txn[c].mine /\ stored[o] # Absent
       \/ \E s \in Of(p, "delete") : s.row = o /\ ~s.named}

GoIndex(c, steps) ==
  txn' = [txn EXCEPT ![c] = IF steps = {} THEN NoTxn ELSE [stage |-> "index", todo |-> steps]]

Commit(c) ==
  LET p == txn[c].plan
      Plus(sums) == [u \in User |-> sums[u] + txn[c].gain[u]]
  IN /\ txn[c].stage = "open" /\ txn[c].todo = {}
     /\ wallet' = Over(txn[c].read, wallet)
     /\ ledger' = IF p.logged THEN Plus(ledger) ELSE ledger
     /\ unlogged' = IF p.logged THEN unlogged ELSE Plus(unlogged)
     /\ stored' = Over(txn[c].mine, stored)
     /\ lock' = Unlocked(c)
     /\ missed' = (missed \ Touched(p)) \union Missed(c)
     /\ GoIndex(c, IndexSteps(p))
     /\ UNCHANGED <<index, opened>>

\* The entry of an object with that content.
Shown(content) == IF content \in Kept THEN content ELSE Absent

SetEntry(c, s, entry) ==
  /\ txn[c].stage = "index"
  /\ \A o \in txn[c].todo : ~IndexBefore(o, s)
  /\ index' = [index EXCEPT ![s.row] = entry]
  /\ GoIndex(c, txn[c].todo \ {s})
  /\ UNCHANGED <<committed, lock, opened>>

IndexStep(c, s) ==
  /\ SetEntry(c, s, IF s.do = "write" THEN Shown(s.value) ELSE Absent)
  /\ UNCHANGED missed

\* The filter fails and the entry goes, or the document or the writer does and
\* it stays; neither is reported.
IndexFails(c, s) ==
  /\ SetEntry(c, s, index[s.row]) \/ (s.do = "write" /\ SetEntry(c, s, Absent))
  /\ missed' = missed \union {s.row}

EconomyNext ==
  \E c \in Request :
    \/ \E p \in Plans : Open(c, p)
    \/ \E s \in txn[c].todo : \/ UpdateAccount(c, s) \/ WriteOne(c, s) \/ DeleteOne(c, s)
                             \/ ReadWallet(c, s) \/ ChangeWallet(c, s) \/ IndexStep(c, s)
                             \/ IndexFails(c, s)
    \/ FailTxn(c) \/ Commit(c)

EconomySpec == EconomyInit /\ [][EconomyNext]_economyVars

-----------------------------------------------------------------------------
EconomyTypeOK ==
  /\ wallet \in [User -> 0 .. HalfRange - 1]
  /\ stored \in [Object -> Value \union {Absent}]
  /\ index \in [Object -> Value \union {Absent}]
  /\ lock \in [User \union Object -> Request \union {Free}]
  /\ missed \subseteq Object
  /\ \A c \in Request : txn[c].stage \in {"idle", "open", "index"}

(* A balance is the sum of its ledger rows and of the changes made without    *)
(* one: no update is lost to another that read the wallet at the same time,   *)
(* none is kept of a batch that was rejected, and none is added up past the   *)
(* width of a balance.                                                        *)
LedgerExplains == \A u \in User : wallet[u] = ledger[u] + unlogged[u]

\* The statement of p that is the first to touch its object.
First(p, s) ==
  \A o \in Of(p, "write") \union Of(p, "delete") :
    o.row = s.row => o = s \/ Precedes(s, o)

(* A write or delete that names a version replaces the object of that version *)
(* and "*" an absent one, in the table as it is when the transaction commits, *)
(* unless an earlier statement of the same batch is what it found.            *)
ReplacesWhatItNames ==
  [][\A c \in Request : Commit(c) =>
       \A s \in Of(txn[c].plan, "write") \union Of(txn[c].plan, "delete") :
         First(txn[c].plan, s) =>
           /\ s.version \in Value => stored[s.row] = s.version
           /\ s.version = NewOnly => stored[s.row] = Absent]_economyVars

\* Transaction c waits for d to end.
WaitsFor(c, d) ==
  /\ c # d /\ txn[c].stage = "open"
  /\ \E s \in Turn(c) :
       /\ s.do # "earn" /\ lock[s.row] = d
       /\ s.do = "write" => s.version = NewOnly \/ Fits(s, Seen(c, s.row))
       /\ s.do = "delete" => Hits(s, Seen(c, s.row))

\* A request that locks one row only, or objects in their order.
Sorted(p) ==
  \A s, o \in p.statements : s.row = o.row \/ (s.do = o.do /\ s.do \in {"write", "delete"})

\* The transactions S block each other: each waits for one of S and is waited
\* for by one of S.
Ring(S) ==
  /\ S # {}
  /\ \A c \in S : (\E d \in S : WaitsFor(c, d)) /\ (\E b \in S : WaitsFor(b, c))

(* The batches of the storage engine are sorted so that they cannot deadlock,  *)
(* whatever the order their callers gave: in every circle of waits there is a  *)
(* request that changes several wallets or accounts, which nothing sorts, or   *)
(* goes from writes to deletes or from one kind of row to another.             *)
BatchesDoNotDeadlock ==
  \A S \in SUBSET Request : Ring(S) => \E c \in S : ~Sorted(txn[c].plan)

(* When every call has told the index, the entry of an object is the object as *)
(* stored, or none when the filter does not keep it, unless its last change is *)
(* one of those that the index may miss.                                       *)
IndexFollows ==
  (\A c \in Request : txn[c].stage # "index") =>
    \A o \in Object \ missed : index[o] = Shown(stored[o])
=============================================================================
