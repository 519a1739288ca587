----------------------------- MODULE MatchProofs -----------------------------
(* Theorems about an authoritative match and its clients (MatchLoop,         *)
(* MatchGateway), for any number of sessions and calls and any queue sizes.  *)
EXTENDS MatchGateway, TLAPS

USE MatchLoopAssumption

In(q, x) == \E i \in DOMAIN q : q[i] = x

\* What the game code has been told and has still to be told in this tick is
\* what the loop knows.
Told ==
  /\ tick.stage \notin {"sleep", "ended"} => ~tick.finished
  /\ ~tick.finished => presences = (roster \cup tick.joined) \ tick.left
  /\ tick.joined \cap roster = {}
  /\ tick.left \subseteq roster \cup tick.joined
  /\ tick.stage \notin {"joins", "leaves", "signals", "tellJoin"} => tick.joined = {}
  /\ tick.stage \notin {"leaves", "signals", "tellJoin", "tellLeave"} => tick.left = {}
  /\ tick.stage = "sleep" => deferred = 0

\* A request in the queue is there once and unanswered; its JoinAttempt waits
\* or gave up.
Requests ==
  /\ \A i, j \in DOMAIN joinQ : joinQ[i] = joinQ[j] => i = j
  /\ \A c \in Call : In(joinQ, c) =>
       /\ answer[c] = "none"
       /\ call[c] \in {"waiting", "timeout"} \/ (call[c] = "done" /\ Caller[c] \in excused)

\* A JoinAttempt that will enter the match in matchIDs, or give up.
Accepted(c) ==
  call[c] \in {"accepted", "timeout"} \/ (call[c] = "waiting" /\ answer[c] = "accepted")

\* Why a session is a presence: the match is among its matches or will be, its
\* leave is queued, or the history excuses it.
Reason(s) ==
  \/ s \in matchIDs \cup excused
  \/ In(leaveQ, s)
  \/ \E c \in Call : Caller[c] = s /\ Accepted(c)
  \/ tick.stage = "ended"

Reasons == \A s \in presences : Reason(s)

\* A session that is cleaned up makes no more JoinAttempts.
Silent ==
  \A s \in cleaned \ excused :
    \A c \in Call : Caller[c] = s => call[c] \in {"idle", "done"}

Gone == Silent /\ GoneAreOut

IInv == TypeOK /\ Told /\ Requests /\ Reasons /\ Gone

-----------------------------------------------------------------------------
(* Queues.                                                                 *)

\* A queue with one more entry: its length, its places, and what is in it.
LEMMA Appended ==
  ASSUME NEW S, NEW q \in Seq(S), NEW x \in S
  PROVE  /\ Append(q, x) \in Seq(S) /\ Len(Append(q, x)) = Len(q) + 1
         /\ DOMAIN Append(q, x) = DOMAIN q \cup {Len(q) + 1}
         /\ \A i \in DOMAIN q : i # Len(q) + 1 /\ Append(q, x)[i] = q[i]
         /\ Append(q, x)[Len(q) + 1] = x
         /\ \A y : In(Append(q, x), y) <=> In(q, y) \/ y = x
<1>1. /\ Append(q, x) \in Seq(S) /\ Len(Append(q, x)) = Len(q) + 1
      /\ DOMAIN Append(q, x) = DOMAIN q \cup {Len(q) + 1}
      /\ \A i \in DOMAIN q : i # Len(q) + 1 /\ Append(q, x)[i] = q[i]
      /\ Append(q, x)[Len(q) + 1] = x
  OBVIOUS
<1>2. \A y : In(Append(q, x), y) <=> In(q, y) \/ y = x
  BY <1>1 DEF In
<1> QED BY <1>1, <1>2

\* A queue without its first entry: its length, its places, and what is in it.
LEMMA Removed ==
  ASSUME NEW S, NEW q \in Seq(S), q # <<>>
  PROVE  /\ Tail(q) \in Seq(S) /\ Len(Tail(q)) = Len(q) - 1 /\ Len(q) \in Nat
         /\ Head(q) \in S /\ 1 \in DOMAIN q /\ Head(q) = q[1]
         /\ \A i \in DOMAIN Tail(q) : i + 1 \in DOMAIN q /\ Tail(q)[i] = q[i + 1]
         /\ \A y : In(Tail(q), y) => In(q, y)
         /\ \A y : In(q, y) => In(Tail(q), y) \/ y = Head(q)
<1>1. /\ Tail(q) \in Seq(S) /\ Len(Tail(q)) = Len(q) - 1 /\ Len(q) \in Nat
      /\ Head(q) \in S /\ 1 \in DOMAIN q /\ Head(q) = q[1]
      /\ \A i \in DOMAIN Tail(q) : i + 1 \in DOMAIN q /\ Tail(q)[i] = q[i + 1]
  OBVIOUS
<1>2. \A y : In(Tail(q), y) => In(q, y)
  BY <1>1 DEF In
<1>3. \A i \in DOMAIN q : i = 1 \/ (i - 1 \in DOMAIN Tail(q) /\ Tail(q)[i - 1] = q[i])
  OBVIOUS
<1>4. \A y : In(q, y) => In(Tail(q), y) \/ y = Head(q)
  BY <1>1, <1>3 DEF In
<1> QED BY <1>1, <1>2, <1>4

\* QueueLeave keeps what is queued, and adds the leave if there is room for it.
LEMMA QueueLeaveEffect ==
  ASSUME TypeOK, NEW s \in Session, QueueLeave(s)
  PROVE  /\ leaveQ' \in Seq(Session) /\ Len(leaveQ') <= QueueSize
         /\ \A x : In(leaveQ, x) => In(leaveQ', x)
         /\ Len(leaveQ) < QueueSize => In(leaveQ', s)
<1>1. leaveQ \in Seq(Session) /\ Len(leaveQ) <= QueueSize /\ Len(leaveQ) \in Nat
  BY DEF TypeOK
<1>2. CASE Len(leaveQ) < QueueSize
  <2>1. leaveQ' = Append(leaveQ, s) BY <1>2 DEF QueueLeave
  <2> QED BY <1>1, <1>2, <2>1, Appended
<1>3. CASE ~(Len(leaveQ) < QueueSize)
  BY <1>1, <1>3 DEF QueueLeave
<1> QED BY <1>2, <1>3

\* A client's leave: queued, dropped for lack of room, or too late.
LEMMA LeaveEffect ==
  ASSUME TypeOK, NEW s \in Session, LeaveIfRegistered(s)
  PROVE  /\ leaveQ' \in Seq(Session) /\ Len(leaveQ') <= QueueSize
         /\ \A x : In(leaveQ, x) => In(leaveQ', x)
         /\ ~Dropped => In(leaveQ', s) \/ tick.stage = "ended"
<1>1. leaveQ \in Seq(Session) /\ Len(leaveQ) <= QueueSize /\ Len(leaveQ) \in Nat
  BY DEF TypeOK
<1>2. CASE Registered
  BY <1>1, <1>2, QueueLeaveEffect DEF LeaveIfRegistered, Dropped
<1>3. CASE ~Registered
  BY <1>1, <1>3 DEF LeaveIfRegistered, Registered
<1> QED BY <1>2, <1>3

-----------------------------------------------------------------------------
\* The invariant holds at first: no match call, request or presence.
LEMMA InitInv == GatewayInit => IInv
BY DEF GatewayInit, MatchInit, IInv, TypeOK, Told, Requests, Reasons, Gone, Silent,
       GoneAreOut, In, Stages, CallStages

-----------------------------------------------------------------------------
(* The types.                                                              *)

\* A step of the match loop keeps the types.
LEMMA TypeLoop ==
  ASSUME TypeOK, Requests, MatchStep
  PROVE  TypeOK'
<1> USE DEF TypeOK, gatewayVars, callVars, Stages
<1>1. CASE TickStart BY <1>1 DEF MatchStep, TickStart, Ended
<1>2. CASE DrainJoin
  <2>1. /\ joinQ' = Tail(joinQ) /\ joinQ # <<>>
        /\ UNCHANGED <<roster, leaveQ, deferred, call, online, matchIDs, cleaned, excused>>
    BY <1>2 DEF MatchStep, DrainJoin
  <2>2. /\ Head(joinQ) \in Call /\ In(joinQ, Head(joinQ))
        /\ joinQ' \in Seq(Call) /\ Len(joinQ') <= QueueSize
    BY <2>1, Removed DEF In
  <2>3. call[Head(joinQ)] \in {"waiting", "timeout", "done"}
    BY <2>2 DEF Requests
  <2>4. /\ \E a \in {"accepted", "rejected"} : answer' = [answer EXCEPT ![Head(joinQ)] = a]
        /\ presences' \subseteq Session
        /\ tick' \in [stage : Stages, joined : SUBSET Session, left : SUBSET Session,
                      finished : BOOLEAN]
    BY <1>2, <2>2 DEF DrainJoin
  <2> QED BY <2>1, <2>2, <2>3, <2>4 DEF Ended
<1>3. CASE JoinsDone BY <1>3 DEF MatchStep, JoinsDone, Ended
<1>4. CASE DrainLeave
  <2>1. leaveQ' \in Seq(Session) /\ Len(leaveQ') <= QueueSize
    BY <1>4, Removed DEF DrainLeave
  <2> QED BY <1>4, <2>1 DEF MatchStep, DrainLeave, Ended
<1>5. CASE LeavesDone BY <1>5 DEF MatchStep, LeavesDone, Ended
<1>6. CASE SignalsDone BY <1>6 DEF MatchStep, SignalsDone, Ended
<1>7. CASE TellJoin BY <1>7 DEF MatchStep, TellJoin, Ended
<1>8. CASE TellLeave BY <1>8 DEF MatchStep, TellLeave, Ended
<1>9. CASE TickEnd
  <2>1. PICK finished \in BOOLEAN : tick' = [tick EXCEPT !.stage = "sleep", !.finished = finished]
    BY <1>9 DEF TickEnd
  <2>2. tick' \in [stage : Stages, joined : SUBSET Session, left : SUBSET Session,
                   finished : BOOLEAN]
    BY <2>1, Zenon
  <2>3. deferred' \in 0 .. DeferredSize
    BY <1>9 DEF TickEnd
  <2> QED BY <1>9, <2>2, <2>3 DEF MatchStep, TickEnd, Ended
<1>10. CASE Terminate BY <1>10 DEF MatchStep, Terminate, Ended
<1>11. CASE Defer BY <1>11 DEF MatchStep, Defer, Ended
<1>12. CASE Panic
  <2>1. joinQ' \in Seq(Call) /\ Len(joinQ') <= QueueSize
    BY <1>12, Removed DEF Panic, HandlerRuns
  <2> QED BY <1>12, <2>1 DEF MatchStep, Panic, Ended
<1> QED BY <1>1, <1>2, <1>3, <1>4, <1>5, <1>6, <1>7, <1>8, <1>9, <1>10, <1>11, <1>12
        DEF MatchStep, LoopStep

\* A step of a JoinAttempt, or of the gateway's part of it, keeps the types.
LEMMA TypeCall ==
  ASSUME TypeOK, NEW c \in Call, CallStep(c) \/ MatchJoin(c) \/ MatchJoined(c) \/ MatchNotJoined(c)
  PROVE  TypeOK'
<1> USE DEF TypeOK, gatewayVars, loopVars, CallStages, Become
<1>1. CASE CallStep(c) /\ CheckMember(c) BY <1>1 DEF CallStep, CheckMember, Ended
<1>2. CASE CallStep(c) /\ SendJoin(c)
  <2>1. joinQ' \in Seq(Call) /\ Len(joinQ') <= QueueSize
    BY <1>2, Appended, SMTT(30) DEF SendJoin
  <2> QED BY <1>2, <2>1 DEF CallStep, SendJoin, Ended
<1>3. CASE CallStep(c) /\ ReceiveAnswer(c) BY <1>3 DEF CallStep, ReceiveAnswer, Ended
<1>4. CASE CallStep(c) /\ JoinTimeout(c) BY <1>4 DEF CallStep, JoinTimeout, Ended
<1>5. CASE MatchJoin(c) BY <1>5 DEF MatchJoin, Ended
<1>6. CASE MatchJoined(c) BY <1>6 DEF MatchJoined, Ended
<1>7. CASE MatchNotJoined(c) BY <1>7 DEF MatchNotJoined, Ended
<1> QED BY <1>1, <1>2, <1>3, <1>4, <1>5, <1>6, <1>7 DEF CallStep

\* A leave, a kick, a disconnect and a cleanup keep the types.
LEMMA TypeSession ==
  ASSUME TypeOK, NEW s \in Session, MatchLeave(s) \/ MatchKick(s) \/ Disconnect(s) \/ Cleanup(s)
  PROVE  TypeOK'
<1>1. leaveQ' \in Seq(Session) /\ Len(leaveQ') <= QueueSize
  <2>1. leaveQ \in Seq(Session) /\ Len(leaveQ) <= QueueSize BY DEF TypeOK
  <2>2. LeaveIfRegistered(s) \/ QueueLeave(s) \/ leaveQ' = leaveQ
    BY DEF MatchLeave, MatchKick, Disconnect, Cleanup, matchVars, loopVars
  <2> QED BY <2>1, <2>2, LeaveEffect, QueueLeaveEffect
<1>2. /\ UNCHANGED <<presences, roster, joinQ, deferred, tick, call, answer>>
      /\ online' \subseteq online
      /\ matchIDs' \subseteq Session
      /\ excused' \subseteq Session
      /\ cleaned' \subseteq Session \ online'
  BY DEF TypeOK, MatchLeave, MatchKick, Disconnect, Cleanup,
         matchVars, loopVars, callVars, gatewayVars
<1> QED BY <1>1, <1>2 DEF TypeOK, Ended

-----------------------------------------------------------------------------
(* What the game code knows.                                               *)

\* A step of the match loop keeps the presences and what the match was told apart
\* by no more than the tick under way.
LEMMA ToldLoop == ASSUME TypeOK, Told, MatchStep PROVE Told'
<1> USE DEF TypeOK, Told, Stages
<1>1. CASE TickStart BY <1>1 DEF TickStart
<1>2. CASE DrainJoin
  <2> DEFINE s == Caller[Head(joinQ)]
  <2>1. /\ tick.stage = "joins" /\ ~tick.finished /\ tick.left = {}
        /\ roster' = roster /\ deferred' = deferred
    BY <1>2 DEF DrainJoin
  <2>2. CASE UNCHANGED <<presences, tick>> BY <2>1, <2>2
  <2>3. CASE /\ s \notin presences /\ presences' = presences \cup {s}
             /\ tick' = [tick EXCEPT !.joined = @ \cup {s}]
    <3>1. s \notin roster BY <2>1, <2>3
    <3>2. /\ tick'.stage = "joins" /\ ~tick'.finished /\ tick'.left = {}
          /\ tick'.joined = tick.joined \cup {s}
      BY <2>1, <2>3
    <3> QED BY <2>1, <2>3, <3>1, <3>2
  <2> QED BY <1>2, <2>2, <2>3 DEF DrainJoin
<1>3. CASE JoinsDone BY <1>3 DEF JoinsDone
<1>4. CASE DrainLeave
  <2> DEFINE s == Head(leaveQ)
  <2>1. /\ tick.stage = "leaves" /\ ~tick.finished
        /\ roster' = roster /\ deferred' = deferred
        /\ presences' = presences \ {s}
        /\ tick' = [tick EXCEPT !.left = @ \cup ({s} \cap presences)]
    BY <1>4 DEF DrainLeave
  <2>2. /\ tick'.stage = "leaves" /\ ~tick'.finished /\ tick'.joined = tick.joined
        /\ tick'.left = tick.left \cup ({s} \cap presences)
    BY <2>1
  <2>3. presences = (roster \cup tick.joined) \ tick.left
    BY <2>1
  <2> QED BY <2>1, <2>2, <2>3
<1>5. CASE LeavesDone BY <1>5 DEF LeavesDone
<1>6. CASE SignalsDone BY <1>6 DEF SignalsDone
<1>7. CASE TellJoin
  <2>1. /\ tick'.stage = "tellLeave" /\ ~tick'.finished /\ tick'.joined = {}
        /\ tick'.left = tick.left /\ ~tick.finished
        /\ roster' = roster \cup tick.joined /\ presences' = presences
    BY <1>7 DEF TellJoin
  <2> QED BY <2>1
<1>8. CASE TellLeave
  <2>1. /\ tick'.stage = "loop" /\ ~tick'.finished /\ tick'.joined = {} /\ tick.joined = {}
        /\ tick'.left = {} /\ ~tick.finished
        /\ roster' = roster \ tick.left /\ presences' = presences
    BY <1>8 DEF TellLeave
  <2> QED BY <2>1
<1>9. CASE TickEnd BY <1>9 DEF TickEnd
<1>10. CASE Terminate BY <1>10 DEF Terminate
<1>11. CASE Defer BY <1>11 DEF Defer, HandlerRuns
<1>12. CASE Panic BY <1>12 DEF Panic
<1> QED BY <1>1, <1>2, <1>3, <1>4, <1>5, <1>6, <1>7, <1>8, <1>9, <1>10, <1>11, <1>12
        DEF MatchStep, LoopStep

\* What touches neither the presences nor the tick keeps Told.
LEMMA ToldElse ==
  ASSUME Told, UNCHANGED <<presences, roster, deferred, tick>> PROVE Told'
BY DEF Told

-----------------------------------------------------------------------------
(* The requests, the reasons of the presences, and the gone.               *)

\* Steps that leave the requests alone.
LEMMA RequestsElse ==
  ASSUME Requests, UNCHANGED <<joinQ, call, answer>>, excused \subseteq excused'
  PROVE  Requests'
BY DEF Requests, In

\* A request leaves the queue, answered or, in a panic, not.
LEMMA RequestTaken ==
  ASSUME TypeOK, Requests, joinQ # <<>>, joinQ' = Tail(joinQ), call' = call, excused' = excused,
         \/ answer' = answer
         \/ \E a : answer' = [answer EXCEPT ![Head(joinQ)] = a]
  PROVE  Requests'
<1>1. joinQ \in Seq(Call) BY DEF TypeOK
<1>2. /\ \A i, j \in DOMAIN joinQ' : joinQ'[i] = joinQ'[j] => i = j
      /\ ~In(joinQ', Head(joinQ))
  <2>1. \A i \in DOMAIN joinQ' : i \in Nat /\ i >= 1
    BY <1>1, Removed
  <2> QED BY <1>1, <2>1, Removed DEF Requests, In
<1>3. \A c \in Call : In(joinQ', c) => In(joinQ, c) /\ answer'[c] = answer[c]
  BY <1>1, <1>2, Removed DEF TypeOK
<1> QED BY <1>2, <1>3 DEF Requests

\* A step of the match loop takes requests from the queue, and adds none.
LEMMA RequestsLoop == ASSUME TypeOK, Requests, MatchStep PROVE Requests'
<1> USE DEF gatewayVars, callVars
<1>1. CASE DrainJoin
  <2>1. \E a : answer' = [answer EXCEPT ![Head(joinQ)] = a]
    BY <1>1 DEF DrainJoin
  <2> QED BY <1>1, <2>1, RequestTaken DEF DrainJoin, MatchStep
<1>2. CASE Panic
  <2>1. CASE tick.stage = "joins"
    BY <1>2, <2>1, RequestTaken DEF Panic, HandlerRuns, MatchStep
  <2>2. CASE tick.stage # "joins"
    BY <1>2, <2>2, RequestsElse DEF Panic, MatchStep
  <2> QED BY <2>1, <2>2
<1>3. CASE /\ UNCHANGED <<joinQ, call, answer>> BY <1>3, RequestsElse DEF MatchStep
<1> QED BY <1>1, <1>2, <1>3 DEF MatchStep, LoopStep, TickStart, JoinsDone, DrainLeave,
           LeavesDone, SignalsDone, TellJoin, TellLeave, TickEnd, Terminate, Defer

\* A JoinAttempt queues its request once; its time-out leaves it there.
LEMMA RequestsCall ==
  ASSUME TypeOK, Requests, NEW c \in Call,
         CallStep(c) \/ MatchJoin(c) \/ MatchJoined(c) \/ MatchNotJoined(c)
  PROVE  Requests'
<1> USE DEF gatewayVars, loopVars, Become
<1>1. ASSUME joinQ' = joinQ, answer' = answer, excused \subseteq excused',
             NEW st, call' = [call EXCEPT ![c] = st],
             In(joinQ, c) => st = "timeout" \/ (st = "done" /\ Caller[c] \in excused')
      PROVE  Requests'
  <2>1. \A d \in Call : In(joinQ', d) => In(joinQ, d) /\ (d # c => call'[d] = call[d])
    BY <1>1 DEF In, TypeOK
  <2>2. call'[c] = st BY <1>1 DEF TypeOK
  <2> QED BY <1>1, <2>1, <2>2 DEF Requests
<1>2. CASE CallStep(c) /\ CheckMember(c)
  BY <1>1, <1>2 DEF CallStep, CheckMember, Requests
<1>3. CASE CallStep(c) /\ SendJoin(c)
  <2>1. CASE Len(joinQ) < QueueSize
    <3>1. /\ joinQ \in Seq(Call) /\ joinQ' = Append(joinQ, c) /\ answer' = answer
          /\ excused' = excused /\ call[c] = "sending"
          /\ call' = [call EXCEPT ![c] = "waiting"]
      BY <1>3, <2>1 DEF CallStep, SendJoin, TypeOK
    <3>2. ~In(joinQ, c) BY <3>1 DEF Requests
    <3>3. \A i, j \in DOMAIN joinQ' : joinQ'[i] = joinQ'[j] => i = j
      BY <3>1, <3>2, Appended DEF Requests, In
    <3>4. answer[c] = "none" BY <3>1 DEF TypeOK, Ended
    <3>5. \A d \in Call : In(joinQ', d) => d = c \/ (In(joinQ, d) /\ call'[d] = call[d])
      BY <3>1, Appended DEF TypeOK
    <3>6. call'[c] = "waiting" BY <3>1 DEF TypeOK
    <3> QED BY <3>1, <3>3, <3>4, <3>5, <3>6 DEF Requests
  <2>2. CASE ~(Len(joinQ) < QueueSize)
    BY <1>1, <1>3, <2>2 DEF CallStep, SendJoin, Requests
  <2> QED BY <2>1, <2>2
<1>4. CASE CallStep(c) /\ ReceiveAnswer(c)
  BY <1>1, <1>4 DEF CallStep, ReceiveAnswer, Requests
<1>5. CASE CallStep(c) /\ JoinTimeout(c)
  BY <1>1, <1>5 DEF CallStep, JoinTimeout
<1>6. CASE MatchJoin(c)
  BY <1>1, <1>6 DEF MatchJoin, Requests
<1>7. CASE MatchJoined(c)
  BY <1>1, <1>7 DEF MatchJoined, Requests
<1>8. CASE MatchNotJoined(c)
  <2>1. call[c] = "timeout" => Caller[c] \in excused' BY <1>8 DEF MatchNotJoined
  <2> QED BY <1>1, <1>8, <2>1 DEF MatchNotJoined, Requests
<1> QED BY <1>2, <1>3, <1>4, <1>5, <1>6, <1>7, <1>8 DEF CallStep

\* Every presence keeps its reason, where no reason is taken away.
LEMMA ReasonsElse ==
  ASSUME Reasons, presences' \subseteq presences, UNCHANGED <<call, answer>>,
         matchIDs \cup excused \subseteq matchIDs' \cup excused',
         \A s \in presences' : In(leaveQ, s) => In(leaveQ', s),
         tick.stage = "ended" => tick'.stage = "ended"
  PROVE  Reasons'
BY DEF Reasons, Reason, Accepted

\* The loop adds a presence only with the answer that will put the match among
\* the session's, and takes a leave from the queue only with its presence.
LEMMA ReasonsLoop == ASSUME TypeOK, Requests, Reasons, MatchStep PROVE Reasons'
<1> USE DEF gatewayVars, callVars
<1>0. tick.stage = "ended" => tick'.stage = "ended"
  BY DEF MatchStep, LoopStep, TickStart, DrainJoin, JoinsDone, DrainLeave, LeavesDone,
         SignalsDone, TellJoin, TellLeave, TickEnd, Terminate, Defer, Panic, HandlerRuns
<1>1. CASE DrainJoin
  <2>0. PICK c \in Call : c = Head(joinQ)
    BY <1>1, Removed DEF DrainJoin, TypeOK
  <2>1. In(joinQ, c) /\ UNCHANGED <<leaveQ, call, matchIDs, excused>>
    BY <1>1, <2>0, Removed DEF DrainJoin, MatchStep, TypeOK, In
  <2>2. \A d \in Call \ {c} : answer'[d] = answer[d]
    BY <1>1, <2>0 DEF DrainJoin, TypeOK
  <2>3. answer[c] = "none"
    BY <2>1 DEF Requests
  <2>4. \A d \in Call : Accepted(d) => Accepted(d)'
    BY <2>1, <2>2, <2>3 DEF Accepted
  <2>5. ASSUME NEW s, Reason(s) PROVE Reason(s)'
    BY <1>0, <2>1, <2>4, <2>5 DEF Reason
  <2>6. CASE presences' = presences
    BY <2>5, <2>6 DEF Reasons
  <2>7. CASE presences' = presences \cup {Caller[c]} /\ answer' = [answer EXCEPT ![c] = "accepted"]
    <3>1. answer'[c] = "accepted" BY <2>1, <2>7 DEF TypeOK
    <3>2. Accepted(c)' \/ Caller[c] \in excused'
      BY <2>1, <3>1 DEF Requests, Accepted
    <3>3. Reason(Caller[c])' BY <2>1, <3>2 DEF Reason
    <3> QED BY <2>5, <2>7, <3>3 DEF Reasons
  <2> QED BY <1>1, <2>0, <2>6, <2>7 DEF DrainJoin
<1>2. CASE DrainLeave
  <2>1. \A s \in presences' : In(leaveQ, s) => In(leaveQ', s)
    BY <1>2, Removed DEF DrainLeave, TypeOK
  <2> QED BY <1>0, <1>2, <2>1, ReasonsElse DEF DrainLeave, MatchStep
<1>3. CASE UNCHANGED <<presences, leaveQ, call, answer>>
  BY <1>0, <1>3, ReasonsElse DEF MatchStep
<1> QED BY <1>1, <1>2, <1>3 DEF MatchStep, LoopStep, TickStart, JoinsDone,
           LeavesDone, SignalsDone, TellJoin, TellLeave, TickEnd, Terminate, Defer, Panic

\* A JoinAttempt that is answered puts the match among its session's before it
\* is done, or it is excused by its time-out.
LEMMA ReasonsCall ==
  ASSUME TypeOK, Requests, Reasons, NEW c \in Call,
         CallStep(c) \/ MatchJoin(c) \/ MatchJoined(c) \/ MatchNotJoined(c)
  PROVE  Reasons'
<1> USE DEF gatewayVars, loopVars, Become
<1>1. /\ UNCHANGED <<presences, leaveQ, tick, answer>>
      /\ excused \subseteq excused' /\ matchIDs \subseteq matchIDs'
      /\ \E st : call' = [call EXCEPT ![c] = st]
  BY DEF CallStep, CheckMember, SendJoin, ReceiveAnswer, JoinTimeout, MatchJoin, MatchJoined,
         MatchNotJoined
<1>2. Accepted(c) => Accepted(c)' \/ Caller[c] \in matchIDs' \cup excused'
  <2> USE DEF TypeOK, Accepted
  <2>1. CASE CallStep(c) /\ CheckMember(c) BY <2>1 DEF CheckMember
  <2>2. CASE CallStep(c) /\ SendJoin(c) BY <2>2 DEF SendJoin
  <2>3. CASE CallStep(c) /\ ReceiveAnswer(c) BY <2>3 DEF ReceiveAnswer
  <2>4. CASE CallStep(c) /\ JoinTimeout(c) BY <2>4 DEF JoinTimeout
  <2>5. CASE MatchJoin(c) BY <2>5 DEF MatchJoin
  <2>6. CASE MatchJoined(c) BY <2>6 DEF MatchJoined
  <2>7. CASE MatchNotJoined(c) BY <2>7 DEF MatchNotJoined
  <2> QED BY <2>1, <2>2, <2>3, <2>4, <2>5, <2>6, <2>7 DEF CallStep
<1>3. \A d \in Call \ {c} : Accepted(d) => Accepted(d)'
  BY <1>1 DEF TypeOK, Accepted
<1>4. ASSUME NEW s \in presences, Reason(s) PROVE Reason(s)'
  BY <1>1, <1>2, <1>3, <1>4 DEF Reason
<1> QED BY <1>1, <1>4 DEF Reasons

\* The cleaned up stay silent and out when no step adds to them.
LEMMA GoneElse ==
  ASSUME Gone, presences' \subseteq presences, call' = call, cleaned' = cleaned,
         excused \subseteq excused',
         \A s \in presences' : In(leaveQ, s) => In(leaveQ', s),
         tick.stage = "ended" => tick'.stage = "ended"
  PROVE  Gone'
BY DEF Gone, Silent, GoneAreOut, In

\* The loop makes no session that is cleaned up a presence again, but an excused
\* one, and takes a leave from the queue only with its presence.
LEMMA GoneLoop == ASSUME TypeOK, Requests, Gone, MatchStep PROVE Gone'
<1> USE DEF gatewayVars, callVars
<1>0. tick.stage = "ended" => tick'.stage = "ended"
  BY DEF MatchStep, LoopStep, TickStart, DrainJoin, JoinsDone, DrainLeave, LeavesDone,
         SignalsDone, TellJoin, TellLeave, TickEnd, Terminate, Defer, Panic, HandlerRuns
<1>1. CASE DrainJoin
  <2> DEFINE c == Head(joinQ)
  <2>1. /\ c \in Call /\ In(joinQ, c)
        /\ UNCHANGED <<leaveQ, call, cleaned, excused>>
        /\ presences' \subseteq presences \cup {Caller[c]}
    BY <1>1, Removed DEF DrainJoin, MatchStep, TypeOK, In
  <2>2. Caller[c] \notin cleaned \ excused
    BY <2>1 DEF Requests, Gone, Silent
  <2> QED BY <1>0, <2>1, <2>2 DEF Gone, Silent, GoneAreOut
<1>2. CASE DrainLeave
  <2>1. \A s \in presences' : In(leaveQ, s) => In(leaveQ', s)
    BY <1>2, Removed DEF DrainLeave, TypeOK
  <2> QED BY <1>0, <1>2, <2>1, GoneElse DEF DrainLeave, MatchStep
<1>3. CASE UNCHANGED <<presences, leaveQ, call>>
  BY <1>0, <1>3, GoneElse DEF MatchStep
<1> QED BY <1>1, <1>2, <1>3 DEF MatchStep, LoopStep, TickStart, JoinsDone,
           LeavesDone, SignalsDone, TellJoin, TellLeave, TickEnd, Terminate, Defer, Panic

\* The calls of a session that is cleaned up have ended, or it is excused.
LEMMA GoneCall ==
  ASSUME TypeOK, Gone, NEW c \in Call,
         CallStep(c) \/ MatchJoin(c) \/ MatchJoined(c) \/ MatchNotJoined(c)
  PROVE  Gone'
<1> USE DEF gatewayVars, loopVars, Become
<1>1. /\ UNCHANGED <<presences, leaveQ, tick, cleaned>>
      /\ excused \subseteq excused'
      /\ \E st : call' = [call EXCEPT ![c] = st]
  BY DEF CallStep, CheckMember, SendJoin, ReceiveAnswer, JoinTimeout, MatchJoin, MatchJoined,
         MatchNotJoined
<1>2. Caller[c] \in cleaned \ excused' => call'[c] \in {"idle", "done"}
  <2> USE DEF TypeOK
  <2>1. CASE MatchJoin(c) BY <2>1 DEF MatchJoin
  <2>2. CASE MatchJoined(c) BY <2>2 DEF MatchJoined
  <2>3. CASE MatchNotJoined(c) BY <2>3 DEF MatchNotJoined
  <2>4. CASE CallStep(c)
    <3>1. call[c] \notin {"idle", "done"} /\ excused' = excused
      BY <2>4 DEF CallStep, CheckMember, SendJoin, ReceiveAnswer, JoinTimeout
    <3> QED BY <3>1 DEF Gone, Silent
  <2> QED BY <2>1, <2>2, <2>3, <2>4
<1>3. Silent'
  BY <1>1, <1>2 DEF TypeOK, Gone, Silent
<1> QED BY <1>1, <1>3 DEF Gone, GoneAreOut

-----------------------------------------------------------------------------
(* The steps of the sessions.                                              *)

\* The leave message: the session's reason is its queued leave from now on, or
\* the excuse of a full queue.
LEMMA MatchLeaveInv ==
  ASSUME IInv, NEW s \in Session, MatchLeave(s)
  PROVE  Told' /\ Requests' /\ Reasons' /\ Gone'
<1>1. /\ UNCHANGED <<presences, roster, joinQ, deferred, tick, call, answer, cleaned>>
      /\ excused \subseteq excused' /\ (Dropped => s \in excused')
      /\ matchIDs' = matchIDs \ {s}
  BY DEF MatchLeave, callVars
<1>2. /\ \A x : In(leaveQ, x) => In(leaveQ', x)
      /\ ~Dropped => In(leaveQ', s) \/ tick.stage = "ended"
  BY LeaveEffect DEF IInv, MatchLeave
<1>3. Reasons'
  BY <1>1, <1>2 DEF IInv, Reasons, Reason, Accepted
<1> QED BY <1>1, <1>2, <1>3, ToldElse, RequestsElse, GoneElse DEF IInv

\* A kick queues a leave, and takes nothing away.
LEMMA MatchKickInv ==
  ASSUME IInv, NEW s \in Session, MatchKick(s)
  PROVE  Told' /\ Requests' /\ Reasons' /\ Gone'
<1>1. UNCHANGED <<presences, roster, joinQ, deferred, tick, call, answer, cleaned, excused, matchIDs>>
  BY DEF MatchKick, callVars, gatewayVars
<1>2. \A x : In(leaveQ, x) => In(leaveQ', x)
  BY QueueLeaveEffect DEF IInv, MatchKick
<1> QED BY <1>1, <1>2, ToldElse, RequestsElse, ReasonsElse, GoneElse DEF IInv

\* A disconnect changes nothing that the match, or the history, knows.
LEMMA DisconnectInv ==
  ASSUME IInv, NEW s \in Session, Disconnect(s)
  PROVE  Told' /\ Requests' /\ Reasons' /\ Gone'
<1>1. UNCHANGED <<presences, roster, joinQ, leaveQ, deferred, tick, call, answer,
                  cleaned, excused, matchIDs>>
  BY DEF Disconnect, matchVars, loopVars, callVars
<1> QED BY <1>1, ToldElse, RequestsElse, ReasonsElse, GoneElse DEF IInv

\* A session with a reason to be a presence at its cleanup, and no call under
\* way, holds the match or has its leave queued.
LEMMA CleanupInv ==
  ASSUME IInv, NEW s \in Session, Cleanup(s)
  PROVE  Told' /\ Requests' /\ Reasons' /\ Gone'
<1>1. /\ UNCHANGED <<presences, roster, joinQ, deferred, tick, call, answer, matchIDs>>
      /\ cleaned' = cleaned \cup {s}
      /\ excused' = IF UnderWay(s) # {} \/ (s \in matchIDs /\ Dropped)
                    THEN excused \cup {s} ELSE excused
  BY DEF Cleanup, callVars
<1>2. /\ \A x : In(leaveQ, x) => In(leaveQ', x)
      /\ s \in matchIDs /\ ~Dropped => In(leaveQ', s) \/ tick.stage = "ended"
  BY LeaveEffect DEF IInv, Cleanup
<1>3. Reasons'
  BY <1>1, <1>2, ReasonsElse DEF IInv
<1>4. Silent'
  <2>1. s \notin excused' => \A c \in Call : Caller[c] = s => call[c] \in {"idle", "done"}
    BY <1>1 DEF UnderWay
  <2> QED BY <1>1, <2>1 DEF IInv, Gone, Silent
<1>5. s \in presences /\ s \notin excused' => tick.stage = "ended" \/ In(leaveQ', s)
  <2> SUFFICES ASSUME s \in presences, s \notin excused'
               PROVE  tick.stage = "ended" \/ In(leaveQ', s)
    OBVIOUS
  <2>1. \A c \in Call : Caller[c] = s => ~Accepted(c)
    BY <1>1 DEF UnderWay, Accepted
  <2>2. s \in matchIDs \/ In(leaveQ, s) \/ tick.stage = "ended"
    BY <1>1, <2>1 DEF IInv, Reasons, Reason
  <2> QED BY <1>1, <1>2, <2>2
<1>6. GoneAreOut'
  <2> SUFFICES ASSUME NEW x \in cleaned' \ excused', x \in presences
               PROVE  tick.stage = "ended" \/ In(leaveQ', x)
    BY <1>1 DEF GoneAreOut, In
  <2>1. CASE x = s BY <1>5, <2>1
  <2>2. CASE x # s
    <3>1. tick.stage = "ended" \/ In(leaveQ, x)
      BY <1>1, <2>2 DEF IInv, Gone, GoneAreOut, In
    <3> QED BY <1>2, <3>1
  <2> QED BY <2>1, <2>2
<1> QED BY <1>1, <1>3, <1>4, <1>6, ToldElse, RequestsElse DEF IInv, Gone

-----------------------------------------------------------------------------
\* Every step keeps the invariant.
LEMMA NextInv == IInv /\ [Next]_vars => IInv'
<1> SUFFICES ASSUME IInv, [Next]_vars PROVE IInv'
  OBVIOUS
<1>1. CASE MatchStep
  BY <1>1, TypeLoop, ToldLoop, RequestsLoop, ReasonsLoop, GoneLoop DEF IInv
<1>2. ASSUME NEW c \in Call, CallStep(c) \/ MatchJoin(c) \/ MatchJoined(c) \/ MatchNotJoined(c)
      PROVE  IInv'
  <2>1. UNCHANGED <<presences, roster, deferred, tick>>
    BY <1>2 DEF CallStep, CheckMember, SendJoin, ReceiveAnswer, JoinTimeout,
                MatchJoin, MatchJoined, MatchNotJoined, loopVars
  <2> QED BY <1>2, <2>1, TypeCall, ToldElse, RequestsCall, ReasonsCall, GoneCall DEF IInv
<1>3. ASSUME NEW s \in Session, MatchLeave(s) \/ MatchKick(s) \/ Disconnect(s) \/ Cleanup(s)
      PROVE  IInv'
  BY <1>3, TypeSession, MatchLeaveInv, MatchKickInv, DisconnectInv, CleanupInv DEF IInv
<1>4. CASE UNCHANGED vars
  BY <1>4 DEF vars, matchVars, loopVars, callVars, gatewayVars, IInv, TypeOK, Ended, Told,
              Requests, Reasons, Reason, Accepted, Gone, Silent, GoneAreOut, In
<1> QED BY <1>1, <1>2, <1>3, <1>4 DEF Next, GatewayStep

\* The invariant holds in every behaviour of the gateway with its match.
LEMMA Invariance == Spec => []IInv
BY InitInv, NextInv, PTL DEF Spec

\* The queues of a match stay within their capacity, and a JoinAttempt is
\* answered only once it waits (loop.go).
THEOREM MatchTypes == Spec => []TypeOK
<1>1. IInv => TypeOK BY DEF IInv
<1> QED BY <1>1, Invariance, PTL

\* Between ticks the game code's view of the presences is the loop's.
THEOREM TicksSettle == Spec => []TickSettles
<1>1. IInv => TickSettles BY DEF IInv, Told, TickSettles
<1> QED BY <1>1, Invariance, PTL

\* MatchJoin and MatchLeave alternate for every session (loop.go, the drains
\* of a tick), also when it leaves and rejoins within one.
THEOREM Alternation == Spec => []HandlersAlternate
<1>1. IInv => HandlersAlternate BY DEF IInv, Told, HandlersAlternate
<1> QED BY <1>1, Invariance, PTL

\* A join overtaken by the cleanup, a join that timed out and a leave dropped
\* at a full queue are the only causes of a presence without a session
\* (socket.go, handleDisconnect).
THEOREM GoneLeave == Spec => []GoneAreOut
<1>1. IInv => GoneAreOut BY DEF IInv, Gone
<1> QED BY <1>1, Invariance, PTL
=============================================================================
