------------------------------ MODULE MatchLoop ------------------------------
(***************************************************************************)
(* One authoritative match: the tick loop of internal/match/loop.go and    *)
(* the calls of other goroutines into it.                                  *)
(*                                                                         *)
(* The loop's goroutine holds ml.mu for a whole tick.  The channels need   *)
(* no mutex, so requests may arrive while a tick runs, and each iteration  *)
(* of its drain loops, and each stage after them, is an action.  A         *)
(* JoinAttempt looks at the presences with the mutex, then sends its       *)
(* request, then waits for the answer or its time-out: three steps.        *)
(*                                                                         *)
(* The game code behind the loop (Go or Lua) is not in this repository: it *)
(* may accept or reject a join, kick a session and defer a broadcast from  *)
(* any handler, panic, and end the match.  roster is what it knows of the  *)
(* presences, from MatchJoin and MatchLeave.                               *)
(*                                                                         *)
(* Abstracted: the match state, the label, the inputs and signals and      *)
(* their queues; the ways a tick ends the match (game code, state quota,   *)
(* idle quota, overruns), which are one choice; terminate's grace period.  *)
(***************************************************************************)
EXTENDS Integers, Sequences, SequencesExt

CONSTANTS
  Session,      \* session ids
  Call,         \* calls of JoinAttempt, each made once at most
  Caller,       \* the session of each call
  QueueSize,    \* capacity of joinRequests and leaveRequests (128 in the code)
  DeferredSize  \* deferredQueueSize

ASSUME MatchLoopAssumption ==
  /\ Caller \in [Call -> Session]
  /\ QueueSize \in Nat \ {0}
  /\ DeferredSize \in Nat

VARIABLES
  presences,  \* ml.presences, by session id
  roster,     \* the presences the game code was told of
  joinQ,      \* ml.joinRequests: calls
  leaveQ,     \* ml.leaveRequests: session ids
  deferred,   \* how many broadcasts ml.deferredCh holds
  tick,       \* the loop: its stage, joinedPresences, leftPresences, IsFinished
  call,       \* where each JoinAttempt is
  answer      \* the respChan of each JoinAttempt

loopVars == <<presences, roster, joinQ, leaveQ, deferred, tick>>
callVars == <<call, answer>>
matchVars == <<loopVars, callVars>>

Stages == {"sleep", "joins", "leaves", "signals", "tellJoin", "tellLeave", "loop", "ended"}
CallStages == {"idle", "called", "sending", "waiting", "accepted", "rejected", "timeout"}

MatchInit ==
  /\ presences = {}
  /\ roster = {}
  /\ joinQ = <<>>
  /\ leaveQ = <<>>
  /\ deferred = 0
  /\ tick = [stage |-> "sleep", joined |-> {}, left |-> {}, finished |-> FALSE]
  /\ call = [c \in Call |-> "idle"]
  /\ answer = [c \in Call |-> "none"]

\* onEnd has unregistered the match from the router.
Registered == tick.stage # "ended"

\* ml.mu is free for readers; the drain stages and the handlers hold it.
Unlocked == tick.stage \in {"sleep", "ended"}

-----------------------------------------------------------------------------
(* The other goroutines.                                                   *)

Become(c, st) == call' = [call EXCEPT ![c] = st]

\* JoinAttempt, under the read lock: a presence is accepted at once.
CheckMember(c) ==
  /\ call[c] = "called"
  /\ Unlocked
  /\ Become(c, IF Caller[c] \in presences THEN "accepted" ELSE "sending")
  /\ UNCHANGED <<loopVars, answer>>

\* Mutant: the send does not look for room.
SendJoin_NoRoomCheck(c) ==
  /\ call[c] = "sending"
  /\ joinQ' = Append(joinQ, c)
  /\ Become(c, "waiting")
  /\ UNCHANGED <<presences, roster, leaveQ, deferred, tick, answer>>

\* JoinAttempt, the send: "match join queue full" if there is no room.
SendJoin(c) ==
  /\ call[c] = "sending"
  /\ IF Len(joinQ) < QueueSize
     THEN joinQ' = Append(joinQ, c) /\ Become(c, "waiting")
     ELSE joinQ' = joinQ /\ Become(c, "rejected")
  /\ UNCHANGED <<presences, roster, leaveQ, deferred, tick, answer>>

ReceiveAnswer(c) ==
  /\ call[c] = "waiting"
  /\ answer[c] # "none"
  /\ Become(c, answer[c])
  /\ UNCHANGED <<loopVars, answer>>

\* After five seconds, even if the answer has just been sent; the request
\* stays in the queue.
JoinTimeout(c) ==
  /\ call[c] = "waiting"
  /\ Become(c, "timeout")
  /\ UNCHANGED <<loopVars, answer>>

\* SubmitLeave and KickPlayer: a request that finds the queue full is dropped.
QueueLeave(s) == leaveQ' = IF Len(leaveQ) < QueueSize THEN Append(leaveQ, s) ELSE leaveQ

-----------------------------------------------------------------------------
(* A tick.                                                                 *)

TickStart ==
  /\ tick.stage = "sleep"
  /\ ~tick.finished
  /\ tick' = [tick EXCEPT !.stage = "joins"]
  /\ UNCHANGED <<presences, roster, joinQ, leaveQ, deferred, callVars>>

\* Mutant: the request of a session that is a presence already is a new join.
DrainJoin_NoMemberCheck ==
  /\ tick.stage = "joins"
  /\ joinQ # <<>>
  /\ joinQ' = Tail(joinQ)
  /\ presences' = presences \cup {Caller[Head(joinQ)]}
  /\ tick' = [tick EXCEPT !.joined = @ \cup {Caller[Head(joinQ)]}]
  /\ answer' = [answer EXCEPT ![Head(joinQ)] = "accepted"]
  /\ UNCHANGED <<roster, leaveQ, deferred, call>>

DrainJoin ==
  /\ tick.stage = "joins"
  /\ joinQ # <<>>
  /\ joinQ' = Tail(joinQ)
  /\ LET c == Head(joinQ)
         s == Caller[c]
     IN  \/ /\ s \in presences
            /\ answer' = [answer EXCEPT ![c] = "accepted"]
            /\ UNCHANGED <<presences, tick>>
         \/ /\ s \notin presences
            /\ presences' = presences \cup {s}
            /\ tick' = [tick EXCEPT !.joined = @ \cup {s}]
            /\ answer' = [answer EXCEPT ![c] = "accepted"]
         \/ /\ s \notin presences
            /\ answer' = [answer EXCEPT ![c] = "rejected"]
            /\ UNCHANGED <<presences, tick>>
  /\ UNCHANGED <<roster, leaveQ, deferred, call>>

JoinsDone ==
  /\ tick.stage = "joins"
  /\ joinQ = <<>>
  /\ tick' = [tick EXCEPT !.stage = "leaves"]
  /\ UNCHANGED <<presences, roster, joinQ, leaveQ, deferred, callVars>>

\* Mutant: the leave of a session that joined in this tick is ignored.
DrainLeave_NotJustJoined ==
  /\ tick.stage = "leaves"
  /\ leaveQ # <<>>
  /\ leaveQ' = Tail(leaveQ)
  /\ LET gone == ({Head(leaveQ)} \cap presences) \ tick.joined
     IN  /\ presences' = presences \ gone
         /\ tick' = [tick EXCEPT !.left = @ \cup gone]
  /\ UNCHANGED <<roster, joinQ, deferred, callVars>>

DrainLeave ==
  /\ tick.stage = "leaves"
  /\ leaveQ # <<>>
  /\ leaveQ' = Tail(leaveQ)
  /\ presences' = presences \ {Head(leaveQ)}
  /\ tick' = [tick EXCEPT !.left = @ \cup ({Head(leaveQ)} \cap presences)]
  /\ UNCHANGED <<roster, joinQ, deferred, callVars>>

LeavesDone ==
  /\ tick.stage = "leaves"
  /\ leaveQ = <<>>
  /\ tick' = [tick EXCEPT !.stage = "signals"]
  /\ UNCHANGED <<presences, roster, joinQ, leaveQ, deferred, callVars>>

SignalsDone ==
  /\ tick.stage = "signals"
  /\ tick' = [tick EXCEPT !.stage = "tellJoin"]
  /\ UNCHANGED <<presences, roster, joinQ, leaveQ, deferred, callVars>>

\* MatchJoin, unless nobody joined.
TellJoin ==
  /\ tick.stage = "tellJoin"
  /\ roster' = roster \cup tick.joined
  /\ tick' = [tick EXCEPT !.stage = "tellLeave", !.joined = {}]
  /\ UNCHANGED <<presences, joinQ, leaveQ, deferred, callVars>>

\* MatchLeave, unless nobody left.
TellLeave ==
  /\ tick.stage = "tellLeave"
  /\ roster' = roster \ tick.left
  /\ tick' = [tick EXCEPT !.stage = "loop", !.left = {}]
  /\ UNCHANGED <<presences, joinQ, leaveQ, deferred, callVars>>

\* MatchLoop and the end of the tick: the deferred broadcasts are flushed,
\* and the match may be finished.
TickEnd ==
  /\ tick.stage = "loop"
  /\ \E finished \in BOOLEAN :
       tick' = [tick EXCEPT !.stage = "sleep", !.finished = finished]
  /\ deferred' = 0
  /\ UNCHANGED <<presences, roster, joinQ, leaveQ, callVars>>

\* The game code is running: the handler of a join, a signal, MatchJoin,
\* MatchLeave or MatchLoop.
HandlerRuns ==
  \/ tick.stage = "joins" /\ joinQ # <<>> /\ Caller[Head(joinQ)] \notin presences
  \/ tick.stage \in {"signals", "loop"}
  \/ tick.stage = "tellJoin" /\ tick.joined # {}
  \/ tick.stage = "tellLeave" /\ tick.left # {}

\* BroadcastMessageDeferred.
Defer ==
  /\ HandlerRuns
  /\ deferred < DeferredSize
  /\ deferred' = deferred + 1
  /\ UNCHANGED <<presences, roster, joinQ, leaveQ, tick, callVars>>

\* Mutant: the recovery does not flush the deferred broadcasts.
Panic_NoFlush ==
  /\ HandlerRuns
  /\ tick' = [stage |-> "sleep", joined |-> {}, left |-> {}, finished |-> TRUE]
  /\ joinQ' = IF tick.stage = "joins" THEN Tail(joinQ) ELSE joinQ
  /\ UNCHANGED <<presences, roster, leaveQ, deferred, callVars>>

\* A handler panics: the tick is abandoned, its deferred broadcasts flushed
\* and the match finished.  A join being handled is never answered.
Panic ==
  /\ HandlerRuns
  /\ tick' = [stage |-> "sleep", joined |-> {}, left |-> {}, finished |-> TRUE]
  /\ joinQ' = IF tick.stage = "joins" THEN Tail(joinQ) ELSE joinQ
  /\ deferred' = 0
  /\ UNCHANGED <<presences, roster, leaveQ, callVars>>

\* terminate: MatchTerminate, the last flush of what it deferred, and onEnd.
Terminate ==
  /\ tick.stage = "sleep"
  /\ tick.finished
  /\ tick' = [tick EXCEPT !.stage = "ended"]
  /\ UNCHANGED <<presences, roster, joinQ, leaveQ, deferred, callVars>>

LoopStep ==
  \/ TickStart \/ DrainJoin \/ JoinsDone \/ DrainLeave \/ LeavesDone
  \/ SignalsDone \/ TellJoin \/ TellLeave \/ TickEnd \/ Terminate
=============================================================================
