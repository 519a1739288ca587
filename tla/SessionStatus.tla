---------------------------- MODULE SessionStatus ----------------------------
(***************************************************************************)
(* The WebSocket sessions of a node: the connection registry and the life  *)
(* of a connection (internal/socket/socket.go), the streams and follows of *)
(* its session (socket_status.go, presence/stream_tracker.go), and the     *)
(* asynchronous status registry with its online cache and index            *)
(* (presence/status_registry.go, online_index.go).                         *)
(*                                                                         *)
(* A client may connect again under the id of a session it has: each       *)
(* connection has an object and a reader goroutine of its own, while the   *)
(* registry, the tracker, the follows and the online cache know the        *)
(* session only.  A reader's step ends where it releases a mutex or sends  *)
(* on the event queue, but for Attach and Detach, whose tracker and follow *)
(* calls only a connection of the same session could tell apart.  A        *)
(* time-out may come at any time.  A session belongs to one user here: the *)
(* code takes the session id that the client gives and does not ask whose  *)
(* it was.                                                                 *)
(*                                                                         *)
(* Abstracted: the status text, the payloads and their delivery, except    *)
(* that a full send buffer closes a connection; the streams of channels,   *)
(* parties and matches; the matches and tickets of an evicted session      *)
(* (PartyGateway, MatchGateway); cr.userSessions, the objects by user,     *)
(* which delivery by user reads; the mesh; follows made by the game code.  *)
(***************************************************************************)
EXTENDS Integers, Sequences, FiniteSets

SeqExt == INSTANCE SequencesExt

CONSTANTS
  Conn,          \* connections, each made once
  SessionID,
  UserID,
  SidOf, UserOf, \* the session of a connection, the user of a session
  NoConn,
  QueueSize,     \* capacity of eventsCh (1024 in the code)
  MaxFollows     \* maxSubscriptions (1000 in the code)

ASSUME SessionStatusAssumption ==
  /\ SidOf \in [Conn -> SessionID]
  /\ UserOf \in [SessionID -> UserID]
  /\ NoConn \notin Conn
  /\ QueueSize \in Nat \ {0}
  /\ MaxFollows \in Nat \ {0}

VARIABLES
  entry,    \* cr.sessions: the object of each session
  active,   \* the connections whose IsActive is set
  grace,    \* whether there is a grace period
  armed,    \* the sessions whose timer is running and in cr.graceTimers
  loose,    \* how many timer functions of a session nothing can stop any more
  at,       \* where each connection is
  streams,  \* the tracked streams of each session
  follows,  \* sr.bySession and sr.byUser
  eventsCh, \* queued status events
  late,     \* events of goroutines that wait for room in eventsCh, oldest first
  onlineCache, \* sr.onlineCache: sessions
  count,    \* OnlineIndex.sessionCount
  closed,   \* history: connections a full send buffer closed
  crossed,  \* history: connections that shared their session with another
  overtaken \* history: sessions one of whose events overtook another

registryVars == <<entry, active, grace, armed, loose>>
eventVars == <<eventsCh, late, onlineCache, count, overtaken>>
histories == <<closed, crossed>>
sessionVars == <<registryVars, at, streams, follows, eventVars, histories>>

SessionsInit ==
  /\ entry = [s \in SessionID |-> NoConn]
  /\ active = {}
  /\ grace \in BOOLEAN
  /\ armed = {}
  /\ loose = [s \in SessionID |-> 0]
  /\ at = [c \in Conn |-> "new"]
  /\ streams = [s \in SessionID |-> {}]
  /\ follows = [s \in SessionID |-> {}]
  /\ eventsCh = <<>>
  /\ late = <<>>
  /\ onlineCache = {}
  /\ count = [u \in UserID |-> 0]
  /\ closed = {}
  /\ crossed = {}
  /\ overtaken = {}

Go(c, from, to) == at[c] = from /\ at' = [at EXCEPT ![c] = to]

-----------------------------------------------------------------------------
(* The status events.                                                      *)

\* Mutant: an event that finds the queue full is dropped.
Queue_Drop(e) ==
  /\ eventsCh' = IF Len(eventsCh) < QueueSize THEN Append(eventsCh, e) ELSE eventsCh
  /\ UNCHANGED <<late, overtaken, onlineCache, count>>

\* An event that finds the queue full is left to a goroutine.
Queue(e) ==
  /\ IF Len(eventsCh) < QueueSize
     THEN /\ eventsCh' = Append(eventsCh, e)
          /\ overtaken' = overtaken \cup ({e.session} \cap {late[i].session : i \in DOMAIN late})
          /\ UNCHANGED late
     ELSE late' = Append(late, e) /\ UNCHANGED <<eventsCh, overtaken>>
  /\ UNCHANGED <<onlineCache, count>>

\* One of the goroutines finds room.
SendLate ==
  /\ Len(eventsCh) < QueueSize
  /\ \E i \in DOMAIN late :
       /\ eventsCh' = Append(eventsCh, late[i])
       /\ late' = SeqExt!RemoveAt(late, i)
       /\ overtaken' = overtaken \cup ({late[i].session} \cap {late[j].session : j \in 1..(i - 1)})
  /\ UNCHANGED <<registryVars, at, streams, follows, onlineCache, count, histories>>

\* applyOnline: the cache and, with it, the index.
ApplyOnline ==
  /\ eventsCh # <<>>
  /\ LET e == Head(eventsCh)
         u == UserOf[e.session]
     IN /\ onlineCache' = IF e.join THEN onlineCache \cup {e.session}
                         ELSE onlineCache \ {e.session}
        /\ count' = [count EXCEPT ![u] =
                       IF e.join /\ e.session \notin onlineCache THEN @ + 1
                       ELSE IF ~e.join /\ e.session \in onlineCache THEN @ - 1 ELSE @]
  /\ eventsCh' = Tail(eventsCh)
  /\ UNCHANGED <<registryVars, at, streams, follows, late, histories, overtaken>>

JoinEvent(s) == [session |-> s, join |-> TRUE]
LeaveEvent(s) == [session |-> s, join |-> FALSE]

-----------------------------------------------------------------------------
(* A connection.                                                           *)

\* Connections of the same session that have begun and not ended.
Others(c) == {d \in Conn \ {c} : SidOf[d] = SidOf[c] /\ at[d] \notin {"new", "gone"}}

\* Upgrade, to the end of Add.
Add(c) ==
  /\ Go(c, "new", "added")
  /\ entry' = [entry EXCEPT ![SidOf[c]] = c]
  /\ active' = active \cup {c}
  /\ armed' = armed \ {SidOf[c]}
  /\ crossed' = IF Others(c) = {} THEN crossed ELSE crossed \cup Others(c) \cup {c}
  /\ UNCHANGED <<grace, loose, streams, follows, eventVars, closed>>

\* trackNotifications and TrackStatusOnConnect; status=true tracks the status.
Attach(c) ==
  /\ \E status \in BOOLEAN :
       /\ Go(c, "added", IF status THEN "joining" ELSE "open")
       /\ streams' = [streams EXCEPT ![SidOf[c]] =
                        @ \cup {"notifications"} \cup (IF status THEN {"status"} ELSE {})]
  /\ follows' = [follows EXCEPT ![SidOf[c]] = @ \cup {UserOf[SidOf[c]]}]
  /\ UNCHANGED <<registryVars, eventVars, histories>>

\* The end of TrackStatusOnConnect or of handleStatusUpdate.
Announce(c) ==
  /\ \/ Go(c, "joining", "open") /\ Queue(JoinEvent(SidOf[c]))
     \/ Go(c, "leaving", "open") /\ Queue(LeaveEvent(SidOf[c]))
  /\ UNCHANGED <<registryVars, streams, follows, histories>>

\* handleStatusUpdate: a text tracks the status, null untracks it.
UpdateStatus(c) ==
  /\ \/ Go(c, "open", "joining") /\ streams' = [streams EXCEPT ![SidOf[c]] = @ \cup {"status"}]
     \/ /\ "status" \in streams[SidOf[c]]
        /\ Go(c, "open", "leaving")
        /\ streams' = [streams EXCEPT ![SidOf[c]] = @ \ {"status"}]
  /\ UNCHANGED <<registryVars, follows, eventVars, histories>>

\* handleStatusFollow and handleStatusUnfollow, of one other user.
Follow(c, u) ==
  /\ at[c] = "open"
  /\ u # UserOf[SidOf[c]]
  /\ \/ /\ Cardinality(follows[SidOf[c]]) + 1 <= MaxFollows
        /\ follows' = [follows EXCEPT ![SidOf[c]] = @ \cup {u}]
     \/ follows' = [follows EXCEPT ![SidOf[c]] = @ \ {u}]
  /\ UNCHANGED <<registryVars, at, streams, eventVars, histories>>

\* TrySend to a session whose buffer is full closes its connection.
CloseConn(c) ==
  /\ entry[SidOf[c]] = c
  /\ c \in active
  /\ active' = active \ {c}
  /\ closed' = closed \cup {c}
  /\ UNCHANGED <<entry, grace, armed, loose, at, streams, follows, eventVars, crossed>>

\* handleDisconnect, to onDisconnect.
HandleDisconnect(c) ==
  /\ Go(c, "open", "closing")
  /\ active' = active \ {c}
  /\ UNCHANGED <<entry, grace, armed, loose, streams, follows, eventVars, histories>>

\* UntrackStatusOnDisconnect, its three steps.
UntrackStatus(c) ==
  /\ Go(c, "closing", IF "status" \in streams[SidOf[c]] THEN "farewell" ELSE "detaching")
  /\ streams' = [streams EXCEPT ![SidOf[c]] = @ \ {"status"}]
  /\ UNCHANGED <<registryVars, follows, eventVars, histories>>

Farewell(c) ==
  /\ Go(c, "farewell", "detaching")
  /\ Queue(LeaveEvent(SidOf[c]))
  /\ UNCHANGED <<registryVars, streams, follows, histories>>

Detach(c) ==
  /\ Go(c, "detaching", "parting")
  /\ streams' = [streams EXCEPT ![SidOf[c]] = {}]
  /\ follows' = [follows EXCEPT ![SidOf[c]] = {}]
  /\ UNCHANGED <<registryVars, eventVars, histories>>

\* StartGracePeriod acts on the object the registry holds, whosever it is.
\* With no grace period the object stays in the registry, inactive.
StartGracePeriod(c) ==
  LET s == SidOf[c]
  IN /\ Go(c, "parting", "gone")
     /\ active' = active \ {entry[s]}
     /\ armed' = IF entry[s] # NoConn /\ grace THEN armed \cup {s} ELSE armed
     /\ UNCHANGED <<entry, grace, loose, streams, follows, eventVars, histories>>

-----------------------------------------------------------------------------
(* The grace timers.                                                       *)

\* The timer of s fires: its function will run, and Stop comes too late.
Fire(s) ==
  /\ s \in armed
  /\ armed' = armed \ {s}
  /\ loose' = [loose EXCEPT ![s] = @ + 1]
  /\ UNCHANGED <<entry, active, grace, at, streams, follows, eventVars, histories>>

\* Mutant: the timer function does not look whether the session is back.
Expired_Unchecked(s) == entry[s] # NoConn

Expired(s) == entry[s] # NoConn /\ entry[s] \notin active

\* The timer function.  The timer in graceTimers, if it is a later one, is
\* forgotten and runs on.
RunTimer(s) ==
  /\ loose[s] > 0
  /\ IF Expired(s)
     THEN /\ entry' = [entry EXCEPT ![s] = NoConn]
          /\ armed' = armed \ {s}
          /\ loose' = [loose EXCEPT ![s] = IF s \in armed THEN @ ELSE @ - 1]
     ELSE loose' = [loose EXCEPT ![s] = @ - 1] /\ UNCHANGED <<entry, armed>>
  /\ UNCHANGED <<active, grace, at, streams, follows, eventVars, histories>>

-----------------------------------------------------------------------------
SessionsNext ==
  \/ \E c \in Conn :
       \/ Add(c) \/ Attach(c) \/ Announce(c) \/ UpdateStatus(c)
       \/ \E u \in UserID : Follow(c, u)
       \/ CloseConn(c) \/ HandleDisconnect(c)
       \/ UntrackStatus(c) \/ Farewell(c) \/ Detach(c) \/ StartGracePeriod(c)
  \/ \E s \in SessionID : Fire(s) \/ RunTimer(s)
  \/ SendLate
  \/ ApplyOnline

SessionsSpec == SessionsInit /\ [][SessionsNext]_sessionVars

-----------------------------------------------------------------------------
(* Properties.                                                             *)

\* The registry holds, active, the object of every connection, whatever
\* timers of earlier connections of its session fire late.  Excepted are
\* connections the server has closed, and those that overlap another of
\* their session: the StartGracePeriod of the one marks the other inactive.
LiveIsRegistered ==
  \A c \in Conn \ (crossed \cup closed) :
    at[c] \in {"added", "joining", "leaving", "open"} =>
      entry[SidOf[c]] = c /\ c \in active

Quiet == /\ \A c \in Conn : at[c] \in {"new", "open", "gone"}
         /\ eventsCh = <<>>
         /\ late = <<>>

\* Once the events are applied, a session is online exactly if its status is
\* tracked; a session that is gone has no stream and follows nobody; and the
\* index counts the online sessions of each user.  Excepted are sessions two
\* connections of which overlapped, and those one of whose events, left to a
\* goroutine by a full queue, was overtaken by a later one.
StatusSettles ==
  Quiet =>
    /\ \A u \in UserID : count[u] = Cardinality({s \in onlineCache : UserOf[s] = u})
    /\ \A s \in SessionID \ {SidOf[c] : c \in crossed} :
         /\ s \notin overtaken => (s \in onlineCache <=> "status" \in streams[s])
         /\ (\A c \in Conn : SidOf[c] = s => at[c] # "open") =>
              streams[s] = {} /\ follows[s] = {}
=============================================================================
