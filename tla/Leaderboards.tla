---------------------------- MODULE Leaderboards ----------------------------
(* The records of one occurrence of a leaderboard or tournament              *)
(* (internal/leaderboard), their count in the board's row, and the caches    *)
(* each node keeps of them: the sorted list and the ranks.                   *)
(*                                                                           *)
(* A submission is a transaction of two steps, the reads and the writes; it  *)
(* holds the board's row FOR SHARE from its first read and updates that row  *)
(* last.  What follows the commit (the caches, the message to the other      *)
(* nodes) happens later, and in any order with that of other calls.          *)
EXTENDS Users

CONSTANTS
  Owner,       \* the users who may have a record
  Host,        \* the nodes
  None,        \* no call, no record, no list, no partition
  MaxSize,     \* the board's max_size
  MaxNumScore, \* the board's max_num_score
  MaxCalls     \* bound: calls made

RecordType == [score : Nat, num : 0 .. MaxNumScore] \union {None}

CallType ==
  [op : {"submit", "join", "delete", "deleteAll", "reset"}, node : Host,
   owner : Owner \union {None},
   next : {"read", "write", "insert", "publish", "evict", "forget", "records", "unrank", "unlist"},
   old : RecordType, redis : BOOLEAN]

\* CreateLeaderboard takes 0 for no limit.
ASSUME BoardAssumption ==
  /\ IsFiniteSet(Owner) /\ MaxSize \in Nat \ {0} /\ MaxNumScore \in Nat \ {0}
  /\ None \notin CallType \union [Owner -> RecordType]

VARIABLES
  tournament,   \* the board is one (its duration is not 0)
  joinRequired, \* of the board
  records,      \* owner -> None or [score, num]
  size,         \* of the board's row
  call,         \* call in flight -> None or what it does next
  list,         \* node -> None or records: localCache
  building,     \* node -> None or the records read while its mutex is held
  rank,         \* node -> None or the partition: owner -> None or score
  inbox,        \* node -> invalidation messages on their way
  silent,       \* node -> caches that no message told of the last change
  halfReset,    \* a manual reset emptied the size and not the records
  calls

board == <<tournament, joinRequired>>
boardVars == <<board, records, size, call, list, building, rank, inbox,
               silent, halfReset, calls>>
caches == <<list, building, rank, inbox, silent>>
table == <<records, size, halfReset>>

Count == Cardinality({o \in Owner : records[o] # None})
Busy(c) == call[c] # None
Shares(c) == Busy(c) /\ call[c].next \in {"read", "write"} \* holds the board's row FOR SHARE
OthersShare(c) == \E d \in Request \ {c} : Shares(d)
RecordLocked(o) == \E d \in Request : /\ Busy(d) /\ call[d].next = "write"
                                     /\ call[d].owner = o /\ call[d].old # None

Begin(c, op, n, o, next) ==
  /\ ~Busy(c) /\ calls < MaxCalls /\ calls' = calls + 1
  /\ call' = [call EXCEPT ![c] = [op |-> op, node |-> n, owner |-> o, next |-> next,
                                  old |-> None, redis |-> TRUE]]
GoOn(c, next) == call' = [call EXCEPT ![c].next = next]
End(c) == call' = [call EXCEPT ![c] = None]

\* The servers start, with empty caches, on a table that earlier calls left: as
\* many records as the count says, or fewer when some were deleted.
BoardInit ==
  /\ tournament \in BOOLEAN /\ joinRequired \in BOOLEAN /\ (joinRequired => tournament)
  /\ records \in [Owner -> {None, [score |-> 1, num |-> 1]}]
  /\ size \in Count .. Cardinality(Owner)
  /\ joinRequired => size <= MaxSize
  /\ call = [c \in Request |-> None]
  /\ list = [n \in Host |-> None] /\ building = [n \in Host |-> None]
  /\ rank = [n \in Host |-> None]
  /\ inbox = [n \in Host |-> 0] /\ silent = [n \in Host |-> {}]
  /\ halfReset = FALSE /\ calls = 0

-----------------------------------------------------------------------------
(* Caches.  The list changes only under the mutex, which a build holds from  *)
(* its query to its store.                                                   *)

\* Mutant: the list is queried outside the mutex.
MutexFree_QueryOutside(n) == TRUE
MutexFree(n) == building[n] = None

\* A server forgets its list.
EvictList(n) == MutexFree(n) /\ list' = [list EXCEPT ![n] = None]

Hush(n, what) == silent' = [silent EXCEPT ![n] = @ \union what]
Heard(n, what) == silent' = [silent EXCEPT ![n] = @ \ what]
Partition(n) == IF rank[n] = None THEN [o \in Owner |-> None] ELSE rank[n]
Insert(n, o, score) == rank' = [rank EXCEPT ![n] = [Partition(n) EXCEPT ![o] = score]]

ScoreOf(r) == IF r = None THEN None ELSE r.score

\* getOrBuildRankCache misses, and queries the records.
BuildQuery(n) ==
  /\ list[n] = None /\ MutexFree(n)
  /\ building' = [building EXCEPT ![n] = records]
  /\ Heard(n, {"list", "rank"})
  /\ UNCHANGED <<board, table, call, list, rank, inbox, calls>>

BuildStore(n) ==
  /\ building[n] # None
  /\ list' = [list EXCEPT ![n] = building[n]]
  /\ rank' = [rank EXCEPT ![n] = [o \in Owner |-> ScoreOf(building[n][o])]]
  /\ building' = [building EXCEPT ![n] = None]
  /\ UNCHANGED <<board, table, call, inbox, silent, calls>>

\* An invalidation message arrives: the list goes, then the ranks.
Deliver(n) ==
  /\ inbox[n] > 0 /\ inbox' = [inbox EXCEPT ![n] = @ - 1]
  /\ EvictList(n)
  /\ rank' = [rank EXCEPT ![n] = None]
  /\ Heard(n, {"list", "rank"})
  /\ UNCHANGED <<board, table, call, building, calls>>

\* publishInvalidation: the own list is evicted; with Redis everybody is told.
Publish(c) ==
  LET n == call[c].node
  IN /\ Busy(c) /\ call[c].next = "publish"
     /\ EvictList(n)
     /\ inbox' = [m \in Host |-> inbox[m] + IF call[c].redis THEN 1 ELSE 0]
     /\ silent' = [m \in Host |->
                    IF call[c].redis THEN silent[m]
                    ELSE IF m = n THEN (silent[m] \ {"list"}) \union {"rank"}
                    ELSE {"list", "rank"}]
     /\ End(c)
     /\ UNCHANGED <<board, table, building, rank, calls>>

-----------------------------------------------------------------------------
(* SubmitScore, with Redis or as the runtime calls it, without               *)

\* Whether it may is asked of the table before the record is read.
BeginSubmit(c, n, o) ==
  /\ Begin(c, "submit", n, o, "read")
  /\ joinRequired => records[o] # None
  /\ UNCHANGED <<board, table, caches>>

\* Mutant: the number of submissions is not limited.
MayScore_NoCount(r) == TRUE
MayScore(r) == r # None => r.num < MaxNumScore

ReadRecord(c) ==
  LET o == call[c].owner
  IN /\ Busy(c) /\ call[c].next = "read" /\ ~RecordLocked(o)
     /\ IF MayScore(records[o])
        THEN call' = [call EXCEPT ![c].next = "write", ![c].old = records[o]]
        ELSE End(c)
     /\ UNCHANGED <<board, table, caches, calls>>

\* The new score comes of the old one; here each submission adds 1.
Scored(r) == IF r = None THEN [score |-> 1, num |-> 1]
             ELSE [score |-> r.score + 1, num |-> r.num + 1]

\* The writes and the commit, once nobody else holds the board's row.
CommitSubmit(c) ==
  LET o == call[c].owner
  IN /\ Busy(c) /\ call[c].next = "write" /\ ~OthersShare(c)
     /\ records' = [records EXCEPT ![o] = Scored(call[c].old)]
     /\ size' = Cardinality({p \in Owner : records'[p] # None})
     /\ \E redis \in BOOLEAN :
          call' = [call EXCEPT ![c].next = "insert", ![c].old = Scored(@), ![c].redis = redis]
     /\ UNCHANGED <<board, halfReset, caches, calls>>

\* Two submissions that hold the row wait for each other: the database fails one.
AbortSubmit(c) ==
  /\ Shares(c) /\ OthersShare(c) /\ End(c)
  /\ UNCHANGED <<board, table, caches, calls>>

InsertRank(c) ==
  /\ Busy(c) /\ call[c].op = "submit" /\ call[c].next = "insert"
  /\ Insert(call[c].node, call[c].owner, call[c].old.score)
  /\ GoOn(c, "publish")
  /\ UNCHANGED <<board, table, list, building, inbox, silent, calls>>

-----------------------------------------------------------------------------
(* JoinTournament holds the board's row FOR UPDATE to its commit.            *)

\* Mutant: the last place is given twice.
HasPlace_OffByOne == size <= MaxSize
HasPlace == size < MaxSize

Join(c, n, o) ==
  /\ Begin(c, "join", n, o, "insert")
  /\ tournament /\ ~OthersShare(c)
  /\ \/ records[o] # None /\ UNCHANGED <<records, size>>
     \/ /\ records[o] = None /\ HasPlace
        /\ records' = [records EXCEPT ![o] = [score |-> 0, num |-> 0]]
        /\ size' = size + 1
  /\ silent' = [m \in Host |-> silent[m] \union {"list"}]
  /\ UNCHANGED <<board, halfReset, list, building, rank, inbox>>

\* The rank of who joined starts with score 0, also of who had joined before.
JoinRank(c) ==
  LET n == call[c].node
  IN /\ Busy(c) /\ call[c].op = "join"
     /\ Insert(n, call[c].owner, 0) /\ Hush(n, {"rank"})
     /\ End(c)
     /\ UNCHANGED <<board, table, list, building, inbox, calls>>

-----------------------------------------------------------------------------
(* Deletions.  The count in the board's row stays.                           *)

\* DeleteRecord clears the caches of its own node only.
DeleteRecord(c, n, o) ==
  /\ Begin(c, "delete", n, o, "evict")
  /\ records[o] # None /\ ~RecordLocked(o)
  /\ records' = [records EXCEPT ![o] = None]
  /\ silent' = [m \in Host |-> IF m = n THEN silent[m] ELSE {"list", "rank"}]
  /\ UNCHANGED <<board, size, halfReset, list, building, rank, inbox>>

Evict(c) ==
  LET n == call[c].node
  IN /\ Busy(c) /\ call[c].op = "delete"
     /\ EvictList(n) /\ rank' = [rank EXCEPT ![n] = None]
     /\ End(c)
     /\ UNCHANGED <<board, table, building, inbox, silent, calls>>

\* RecordsDeleteAll, with the account: it leaves the list, and the ranks go
\* without the mutex.
RecordsDeleteAll(c, n, o) ==
  /\ Begin(c, "deleteAll", n, o, "forget")
  /\ records[o] # None /\ ~RecordLocked(o)
  /\ records' = [records EXCEPT ![o] = None]
  /\ silent' = [m \in Host |-> {"list", "rank"}]
  /\ UNCHANGED <<board, size, halfReset, list, building, rank, inbox>>

Forget(c) ==
  LET n == call[c].node
  IN /\ Busy(c) /\ call[c].op = "deleteAll"
     /\ rank' = [rank EXCEPT ![n] = IF @ = None THEN None ELSE [@ EXCEPT ![call[c].owner] = None]]
     /\ End(c)
     /\ UNCHANGED <<board, table, list, building, inbox, silent, calls>>

(* ManualReset, statement by statement: size = 0 of a tournament, the        *)
(* records, the ranks of its node, the list of its node.                     *)
ResetSize(c, n) ==
  /\ Begin(c, "reset", n, None, "records")
  /\ IF tournament THEN ~OthersShare(c) /\ size' = 0 /\ halfReset' = TRUE
     ELSE UNCHANGED <<size, halfReset>>
  /\ UNCHANGED <<board, records, caches>>

ResetRecords(c) ==
  LET n == call[c].node
  IN /\ Busy(c) /\ call[c].next = "records"
     /\ \A o \in Owner : ~RecordLocked(o)
     /\ records' = [o \in Owner |-> None] /\ halfReset' = FALSE
     /\ GoOn(c, "unrank")
     /\ silent' = [m \in Host |-> IF m = n THEN silent[m] \union {"rank"} ELSE {"list", "rank"}]
     /\ UNCHANGED <<board, size, list, building, rank, inbox, calls>>

\* A statement of the reset fails, and the rest is not done.
ResetFails(c) ==
  /\ Busy(c) /\ call[c].next = "records" /\ End(c)
  /\ UNCHANGED <<board, table, caches, calls>>

\* The ranks go without the mutex: a build under way puts the old ones back.
ResetRanks(c) ==
  /\ Busy(c) /\ call[c].next = "unrank"
  /\ rank' = [rank EXCEPT ![call[c].node] = None]
  /\ GoOn(c, "unlist")
  /\ UNCHANGED <<board, table, list, building, inbox, silent, calls>>

ResetList(c) ==
  /\ Busy(c) /\ call[c].next = "unlist" /\ EvictList(call[c].node)
  /\ End(c)
  /\ UNCHANGED <<board, table, building, rank, inbox, silent, calls>>

BoardNext ==
  \/ \E n \in Host : BuildQuery(n) \/ BuildStore(n) \/ Deliver(n)
  \/ \E c \in Request : \/ ReadRecord(c) \/ CommitSubmit(c) \/ AbortSubmit(c) \/ InsertRank(c) \/ Publish(c)
                        \/ JoinRank(c) \/ Evict(c) \/ Forget(c)
                        \/ ResetRecords(c) \/ ResetFails(c) \/ ResetRanks(c) \/ ResetList(c)
                        \/ \E n \in Host :
                             \/ ResetSize(c, n)
                             \/ \E o \in Owner : \/ BeginSubmit(c, n, o) \/ Join(c, n, o)
                                               \/ DeleteRecord(c, n, o) \/ RecordsDeleteAll(c, n, o)

BoardSpec == BoardInit /\ [][BoardNext]_boardVars

-----------------------------------------------------------------------------
BoardTypeOK ==
  /\ tournament \in BOOLEAN /\ joinRequired \in BOOLEAN /\ halfReset \in BOOLEAN
  /\ \A c \in Request : call[c] \in CallType \union {None}
  /\ \A o \in Owner : records[o] \in RecordType
  /\ size \in Nat
  /\ \A n \in Host : /\ list[n] # None => list[n] \in [Owner -> RecordType]
                     /\ silent[n] \subseteq {"list", "rank"} /\ inbox[n] \in Nat

(* Who joins finds a place that the count in the board's row shows: however  *)
(* joins, submissions and deletions interleave, a board that must be joined  *)
(* holds at most max_size records, unless a manual reset emptied the count   *)
(* and not (yet) the records.                                                *)
CountWithinMaxSize ==
  ~halfReset => Count <= size /\ (joinRequired => Count <= MaxSize)

Quiet == (\A c \in Request : ~Busy(c)) /\ \A n \in Host : MutexFree(n) /\ inbox[n] = 0

(* When everything has settled, a node shows the list and the ranks of the   *)
(* records in the table, unless the last change is one that the node is not  *)
(* told of (a join, a reset or deletion on another node, a score of the      *)
(* runtime): a list that is read while a score is committed, and a rank      *)
(* inserted after the one of a later score, do not outlive the message.      *)
CachesFollow ==
  Quiet => \A n \in Host :
    /\ (list[n] # None /\ "list" \notin silent[n]) => list[n] = records
    /\ (rank[n] # None /\ "rank" \notin silent[n]) =>
         \A o \in Owner : rank[n][o] \in {None, ScoreOf(records[o])}
=============================================================================
