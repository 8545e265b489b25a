--------------------------------- MODULE Live ----------------------------------
(***************************************************************************)
(* What an agent's open page is told: who else views the ticket, over a     *)
(* stream of server-sent events, and his notifications.                     *)
(***************************************************************************)
EXTENDS PageRequest

CONSTANTS
    Streams,      \* bound: open pages of one ticket
    Viewers,      \* the agents
    AgentOf,      \* whose page a stream feeds; an agent may have two
    ViewerTTL,    \* rounds of 15 seconds after which a key of 35 seconds is gone
    Notes         \* 1 .. n, in the order they are created

VARIABLES
    streams,      \* where each is, whom it has found, and whom its page shows
    viewerKeys,   \* rounds the keys viewer:{ticket}:{agent} have left
    viewerSet,    \* the set viewers:{ticket}
    setTTL,       \* rounds that set has left
    away,         \* rounds since an agent's last stream was open, to ViewerTTL + 1
    notes

liveVars == <<streams, viewerKeys, viewerSet, setTTL, away, notes>>

ASSUME LiveAssumption == AgentOf \in [Streams -> Viewers] /\ ViewerTTL \in Nat \ {0}
ASSUME NotesAssumption == Notes \subseteq Nat /\ IsFiniteSet(Notes)

Closed == [pc |-> "closed", found |-> {}, shown |-> {}]

LiveInit ==
    /\ streams = [s \in Streams |-> Closed]
    /\ viewerKeys = [v \in Viewers |-> 0] /\ viewerSet = {} /\ setTTL = 0
    /\ away = [v \in Viewers |-> ViewerTTL + 1]
    /\ notes = [n \in Notes |-> [state |-> "none", user |-> None, is_read |-> FALSE]]

-----------------------------------------------------------------------------
(* The viewers of a ticket.                                                 *)

Open(s) == streams[s].pc # "closed"

\* setex and sadd, and the only expire the set gets.
Register(s) ==
    LET v == AgentOf[s]
    IN  /\ ~Open(s)
        /\ streams' = [streams EXCEPT ![s].pc = "due"]
        /\ viewerKeys' = [viewerKeys EXCEPT ![v] = ViewerTTL]
        /\ viewerSet' = viewerSet \cup {v} /\ setTTL' = ViewerTTL
        /\ away' = [away EXCEPT ![v] = 0]
        /\ UNCHANGED <<page, req, notes>>

NamedAlways(v) == TRUE
Named(v) == viewerKeys[v] > 0

\* The members that still have a name; the others are removed.
CollectViewers(s) ==
    LET found == {v \in viewerSet : Named(v)}
    IN  /\ streams[s].pc = "due"
        /\ streams' = [streams EXCEPT ![s].pc = "found", ![s].found = found]
        /\ viewerSet' = found
        /\ UNCHANGED <<page, req, viewerKeys, setTTL, away, notes>>

\* The page is sent the others, and shows them while the stream sleeps and until it
\* sends again.
RefreshAndEmit(s) ==
    /\ streams[s].pc = "found"
    /\ streams' = [streams EXCEPT ![s] =
            [pc |-> "asleep", found |-> {}, shown |-> streams[s].found \ {AgentOf[s]}]]
    /\ viewerKeys' = [viewerKeys EXCEPT ![AgentOf[s]] = ViewerTTL]
    /\ UNCHANGED <<page, req, viewerSet, setTTL, away, notes>>

\* The client leaves: finally removes the agent, another page of his or not.
Leave(s) ==
    LET v == AgentOf[s]
    IN  /\ Open(s)
        /\ streams' = [streams EXCEPT ![s] = Closed]
        /\ viewerSet' = viewerSet \ {v} /\ viewerKeys' = [viewerKeys EXCEPT ![v] = 0]
        /\ UNCHANGED <<page, req, setTTL, away, notes>>

\* The server process dies: nothing is removed.
Die(s) ==
    /\ Open(s)
    /\ streams' = [streams EXCEPT ![s] = Closed]
    /\ UNCHANGED <<page, req, viewerKeys, viewerSet, setTTL, away, notes>>

\* 15 seconds: every stream has gone round once.
Round ==
    /\ \A s \in Streams : streams[s].pc \in {"closed", "asleep"}
    /\ streams' = [s \in Streams |-> IF Open(s) THEN [streams[s] EXCEPT !.pc = "due"] ELSE Closed]
    /\ viewerKeys' = [v \in Viewers |-> IF viewerKeys[v] > 0 THEN viewerKeys[v] - 1 ELSE 0]
    /\ setTTL' = (IF setTTL > 0 THEN setTTL - 1 ELSE 0)
    /\ viewerSet' = (IF setTTL > 1 THEN viewerSet ELSE {})
    /\ away' = [v \in Viewers |->
                  IF \E s \in Streams : Open(s) /\ AgentOf[s] = v THEN 0
                  ELSE IF away[v] <= ViewerTTL THEN away[v] + 1 ELSE away[v]]
    /\ UNCHANGED <<page, req, notes>>

ViewersNext ==
    /\ page.area = "viewers"
    /\ \/ Round
       \/ \E s \in Streams : Register(s) \/ CollectViewers(s) \/ RefreshAndEmit(s) \/ Leave(s) \/ Die(s)

-----------------------------------------------------------------------------
(* Notifications.                                                           *)

streamVars == <<streams, viewerKeys, viewerSet, setTTL, away>>

Sent(n) == notes[n].state = "sent"
get_unread_count(user) == Cardinality({n \in Notes : Sent(n) /\ notes[n].user = user /\ ~notes[n].is_read})

\* Staged by the handler of a ticket or by the SLA sweep.
create_notification(c, user) ==
    LET free == {n \in Notes : notes[n].state = "none"}
        n == CHOOSE n \in free : \A m \in free : n <= m
    IN  /\ free # {}
        /\ Begin(c, [op |-> "create_notification", user |-> user, stage |-> Only(n, [state |-> "sent"])])
        /\ notes' = [notes EXCEPT ![n].state = "staged", ![n].user = user]
        /\ UNCHANGED streamVars

\* One UPDATE each, over the rows that are there when it runs.
UnreadOf(user) == {n \in Notes : Sent(n) /\ notes[n].user = user /\ ~notes[n].is_read}
AnyUserAt(n, user) == {m \in {n} : Sent(m)}
OneOf(n, user) == {m \in {n} : Sent(m) /\ notes[m].user = user}

BeginRead(c, op, user, matched) ==
    /\ Begin(c, [op |-> op, user |-> user, stage |-> [n \in matched |-> [is_read |-> TRUE]]])
    /\ UNCHANGED liveVars

mark_all_read(c, user) == BeginRead(c, "mark_all_read", user, UnreadOf(user))
mark_one_read(c, n, user) == BeginRead(c, "mark_one_read", user, OneOf(n, user))

CommitNotes(c) ==
    /\ Busy(c)
    /\ notes' = Written(notes, req[c].stage)
    /\ Finish(c)
    /\ UNCHANGED streamVars

NotesNext ==
    /\ page.area = "notes"
    /\ \E c \in Slots :
         \/ \E user \in Viewers : \/ create_notification(c, user) \/ mark_all_read(c, user)
                                  \/ \E n \in Notes : mark_one_read(c, n, user)
         \/ CommitNotes(c)
=============================================================================
