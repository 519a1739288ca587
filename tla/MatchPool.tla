------------------------------ MODULE MatchPool ------------------------------
(***************************************************************************)
(* What a matchmaker promises: tickets wait, and leave either for nothing  *)
(* (cancelled, expired) or for one match, whose size every ticket of the   *)
(* match asked for and which takes no two tickets of one party.            *)
(***************************************************************************)
EXTENDS Integers

CONSTANTS
  Ticket,   \* ticket ids
  Ask,      \* what each ticket asks for: min, max, multiple, count and party
  NoParty,  \* the party of a ticket that is nobody's party ticket
  Players(_) \* the number of players of a set of tickets

VARIABLES
  waiting,  \* the tickets in the pool
  formed    \* the matches made of waiting tickets: the tickets, and whether
            \* game code (a processor or override hook) chose them

Acceptable(g) ==
  /\ \A t \in g : /\ Ask[t].min <= Players(g) /\ Players(g) <= Ask[t].max
                  /\ Players(g) % Ask[t].multiple = 0
  /\ \A t, o \in g : Ask[t].party = Ask[o].party => t = o \/ Ask[t].party = NoParty

Init == waiting = {} /\ formed = {}

Used == UNION {m.tickets : m \in formed}

Enter(t) ==
  /\ t \notin waiting \cup Used
  /\ waiting' = waiting \cup {t}
  /\ UNCHANGED formed

Withdraw(S) ==
  /\ S # {} /\ S \subseteq waiting
  /\ waiting' = waiting \ S
  /\ UNCHANGED formed

Form(g, hooked) ==
  /\ g # {} /\ g \subseteq waiting
  /\ hooked \/ Acceptable(g)
  /\ waiting' = waiting \ g
  /\ formed' = formed \cup {[tickets |-> g, hooked |-> hooked]}

Next ==
  \/ \E t \in Ticket : Enter(t)
  \/ \E S \in SUBSET waiting : Withdraw(S) \/ \E h \in BOOLEAN : Form(S, h)

Spec == Init /\ [][Next]_<<waiting, formed>>

-----------------------------------------------------------------------------
\* No ticket is in two matches, or in one and waiting for another; and a match
\* has the size that all its tickets asked for, unless game code chose it.
OneMatchEach ==
  /\ \A m, o \in formed : m.tickets \cap o.tickets # {} => m = o
  /\ \A m \in formed : m.tickets \cap waiting = {} /\ (m.hooked \/ Acceptable(m.tickets))
=============================================================================
