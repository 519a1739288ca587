---------------------------- MODULE MatchGateway ----------------------------
(***************************************************************************)
(* The socket gateway's use of one authoritative match: the MatchJoin and  *)
(* MatchLeave messages and handleDisconnect of internal/socket/socket.go,  *)
(* over the loop of MatchLoop.                                             *)
(*                                                                         *)
(* A MatchJoin looks the match up and leaves the JoinAttempt to a          *)
(* goroutine, which enters the match in the session's matchIDs when it is  *)
(* accepted, whatever the session has done since.  A disconnect starts a   *)
(* cleanup, in a goroutine of its own, that leaves the matches of          *)
(* matchIDs.                                                               *)
(*                                                                         *)
(* Abstracted: the replies.  Left out: the relayed match that a MatchJoin  *)
(* falls back to when the router does not know the match, and sessions     *)
(* that reconnect within a grace period (the default period is zero).      *)
(***************************************************************************)
EXTENDS MatchLoop

VARIABLES
  online,     \* the sessions whose readPump runs
  matchIDs,   \* the sessions that hold the match in Session.matchIDs
  cleaned,    \* the sessions whose cleanup has run
  excused     \* history: why a session may still be a presence, see below

gatewayVars == <<online, matchIDs, cleaned, excused>>
vars == <<matchVars, gatewayVars>>

GatewayInit ==
  /\ MatchInit
  /\ online = Session
  /\ matchIDs = {}
  /\ cleaned = {}
  /\ excused = {}

Ended(c) == call[c] \in {"accepted", "rejected", "timeout", "done"}
UnderWay(s) == {c \in Call : Caller[c] = s /\ call[c] \notin {"idle", "done"}}

-----------------------------------------------------------------------------
\* The MatchJoin message: GetMatchLoop, and a goroutine for the rest.
MatchJoin(c) ==
  /\ Caller[c] \in online
  /\ call[c] = "idle"
  /\ Registered
  /\ Become(c, "called")
  /\ UNCHANGED <<loopVars, answer, gatewayVars>>

\* The goroutine of a MatchJoin ends.
MatchJoined(c) ==
  /\ call[c] = "accepted"
  /\ matchIDs' = matchIDs \cup {Caller[c]}
  /\ Become(c, "done")
  /\ UNCHANGED <<loopVars, answer, online, cleaned, excused>>

MatchNotJoined(c) ==
  /\ call[c] \in {"rejected", "timeout"}
  /\ Become(c, "done")
  /\ excused' = IF call[c] = "timeout" THEN excused \cup {Caller[c]} ELSE excused
  /\ UNCHANGED <<loopVars, answer, online, matchIDs, cleaned>>

\* Submit a leave of s, if the router still knows the match.
LeaveIfRegistered(s) == IF Registered THEN QueueLeave(s) ELSE leaveQ' = leaveQ

\* The history of a leave that found the queue full.
Dropped == Registered /\ Len(leaveQ) >= QueueSize

\* The MatchLeave message.
MatchLeave(s) ==
  /\ s \in online
  /\ LeaveIfRegistered(s)
  /\ matchIDs' = matchIDs \ {s}
  /\ excused' = IF Dropped THEN excused \cup {s} ELSE excused
  /\ UNCHANGED <<presences, roster, joinQ, deferred, tick, callVars, online, cleaned>>

\* The game code kicks a presence.
MatchKick(s) ==
  /\ HandlerRuns
  /\ s \in presences
  /\ QueueLeave(s)
  /\ UNCHANGED <<presences, roster, joinQ, deferred, tick, callVars, gatewayVars>>

Disconnect(s) ==
  /\ s \in online
  /\ online' = online \ {s}
  /\ UNCHANGED <<matchVars, matchIDs, cleaned, excused>>

\* Mutant: the cleanup leaves no match.
Cleanup_NoLeave(s) ==
  /\ s \notin online \cup cleaned
  /\ cleaned' = cleaned \cup {s}
  /\ excused' = IF UnderWay(s) # {} THEN excused \cup {s} ELSE excused
  /\ UNCHANGED <<matchVars, online, matchIDs>>

\* The cleanup that handleDisconnect starts.
Cleanup(s) ==
  /\ s \notin online \cup cleaned
  /\ IF s \in matchIDs THEN LeaveIfRegistered(s) ELSE leaveQ' = leaveQ
  /\ cleaned' = cleaned \cup {s}
  /\ excused' = IF UnderWay(s) # {} \/ (s \in matchIDs /\ Dropped)
                THEN excused \cup {s} ELSE excused
  /\ UNCHANGED <<presences, roster, joinQ, deferred, tick, callVars, online, matchIDs>>

CallStep(c) ==
  /\ CheckMember(c) \/ SendJoin(c) \/ ReceiveAnswer(c) \/ JoinTimeout(c)
  /\ UNCHANGED gatewayVars

GatewayStep ==
  \/ \E c \in Call : MatchJoin(c) \/ MatchJoined(c) \/ MatchNotJoined(c)
  \/ \E s \in Session : MatchLeave(s) \/ MatchKick(s) \/ Disconnect(s) \/ Cleanup(s)

MatchStep ==
  /\ LoopStep \/ Defer \/ Panic
  /\ UNCHANGED gatewayVars

Next == GatewayStep \/ MatchStep \/ \E c \in Call : CallStep(c)

Spec == GatewayInit /\ [][Next]_vars

\* The loop's ticker fires again and again and a tick runs to its end; the
\* clients and the game code owe nothing.
Fairness == WF_vars(LoopStep /\ UNCHANGED gatewayVars)

FairSpec == Spec /\ Fairness

-----------------------------------------------------------------------------
(* Properties.                                                             *)

\* The variables have their types, and a call is answered only while its
\* JoinAttempt waits or after it gave up.
TypeOK ==
  /\ presences \subseteq Session
  /\ roster \subseteq Session
  /\ joinQ \in Seq(Call) /\ Len(joinQ) <= QueueSize
  /\ leaveQ \in Seq(Session) /\ Len(leaveQ) <= QueueSize
  /\ deferred \in 0 .. DeferredSize
  /\ tick \in [stage : Stages, joined : SUBSET Session, left : SUBSET Session,
               finished : BOOLEAN]
  /\ call \in [Call -> CallStages \cup {"done"}]
  /\ answer \in [Call -> {"none", "accepted", "rejected"}]
  /\ online \subseteq Session
  /\ matchIDs \subseteq Session
  /\ cleaned \subseteq Session \ online
  /\ excused \subseteq Session
  /\ \A c \in Call : answer[c] # "none" => call[c] \in {"waiting", "timeout"} \/ Ended(c)

\* Between ticks the game code's view of the match is the loop's: every
\* presence was announced by MatchJoin and not taken back by MatchLeave, and
\* no deferred broadcast is left over, even when a handler panicked (the
\* match is finished then, and only the broadcasts matter).
TickSettles ==
  tick.stage = "sleep" =>
    /\ deferred = 0
    /\ ~tick.finished => roster = presences

\* The game code sees MatchJoin and MatchLeave of a session alternate: the
\* loop never announces a join of a presence it has announced, nor a leave of
\* one it has not, also when a session leaves and rejoins within a tick.
HandlersAlternate ==
  /\ tick.joined \cap roster = {}
  /\ tick.left \subseteq roster \cup tick.joined

\* Once a disconnected session's cleanup has run, and the loop has seen the
\* leave it queued, the session is no presence; except after a join that
\* timed out or that the cleanup overtook, or a leave dropped by a full queue.
GoneAreOut ==
  \A s \in cleaned \ excused :
    s \in presences => tick.stage = "ended" \/ \E i \in DOMAIN leaveQ : leaveQ[i] = s

\* Disconnecting a session ends, after "matchmaker/match cleanup" and the
\* leave it queues, its presence in the match.
DisconnectLeavesMatch ==
  \A s \in cleaned :
    s \in presences => tick.stage = "ended" \/ \E i \in DOMAIN leaveQ : leaveQ[i] = s

\* A queued leave is carried out, or the match ends: ticks come again, drain
\* whatever else is queued before it, and end.
LeaveHonoured ==
  \A s \in Session :
    (\E i \in DOMAIN leaveQ : leaveQ[i] = s) ~> (s \notin presences \/ tick.stage = "ended")
=============================================================================
