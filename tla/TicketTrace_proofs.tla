------------------------- MODULE TicketTrace_proofs -------------------------
(***************************************************************************)
(* The rows and the timeline tell the same story: proofs of the invariants  *)
(* of TicketDeskProps that relate a column to an event, for any number of   *)
(* concurrent sessions.                                                     *)
(***************************************************************************)
EXTENDS TicketDesk_proofs

-----------------------------------------------------------------------------
(* What each handler does to the promised columns of the row it has read.   *)

\* A row's promised columns, column by column.
Promise(status, owner, queue, reopens, breached) ==
  [status |-> status, owner |-> owner, queue |-> queue, reopens |-> reopens,
   breached |-> breached]

\* The work time is not among the promised columns.
LEMMA AccumulateEffect ==
  ASSUME NEW r \in Row, NEW at
  PROVE  Promised(AccumulateWorkTime(r, at)) = Promised(r)
  BY DEF AccumulateWorkTime, Promised, Row

\* A status change keeps the owner and the flag, counts a reopen, and hands a
\* ticket reopened once too often to the supervisors (change_ticket_status).
LEMMA StatusEffect ==
  ASSUME NEW r \in Row, NEW target \in Statuses, NEW at \in Nat
  PROVE  Promised(ChangeTicketStatus(r, target, at)) =
           Promise(target, r.assigned_to,
                   IF IsReopen(r, target)
                      /\ NeedsAutoEscalation([r EXCEPT !.reopen_count = @ + 1])
                   THEN "supervisor" ELSE r.current_queue,
                   IF IsReopen(r, target) THEN r.reopen_count + 1 ELSE r.reopen_count,
                   r.sla_breached)
<1> DEFINE timed   == IF r.status = "open" THEN AccumulateWorkTime(r, at) ELSE r
           clocked == IF target = "open" THEN [timed EXCEPT !.last_opened_at = at] ELSE timed
           moved   == [clocked EXCEPT !.status = target, !.version = @ + 1]
           counted == [moved EXCEPT !.reopen_count = @ + 1]
<1>1. timed \in Row /\ Promised(timed) = Promised(r)
  BY AccumulateType, AccumulateEffect DEF KeepsPause
<1>2. clocked \in Row /\ Promised(clocked) = Promised(r)
  <2> HIDE DEF timed
  <2>1. [timed EXCEPT !.last_opened_at = at] \in Row
    BY <1>1, SetColumn DEF Time
  <2>2. Promised([timed EXCEPT !.last_opened_at = at]) = Promised(timed)
    BY <1>1 DEF Row, Promised
  <2> QED
    BY <1>1, <2>1, <2>2
<1>3. /\ moved \in Row
      /\ moved.status = target /\ moved.assigned_to = r.assigned_to
      /\ moved.current_queue = r.current_queue /\ moved.reopen_count = r.reopen_count
      /\ moved.sla_breached = r.sla_breached
  <2> HIDE DEF clocked
  <2>1. \A v \in Nat : [clocked EXCEPT !.status = target, !.version = v] \in Row
    BY <1>2, SetColumn
  <2>2. clocked.version + 1 \in Nat
    BY <1>2, Columns
  <2>3. moved \in Row
    BY <2>1, <2>2
  <2>4. /\ moved.status = target /\ moved.assigned_to = clocked.assigned_to
        /\ moved.current_queue = clocked.current_queue
        /\ moved.reopen_count = clocked.reopen_count
        /\ moved.sla_breached = clocked.sla_breached
    BY <1>2 DEF Row
  <2> QED
    BY <1>2, <2>3, <2>4 DEF Promised
<1> HIDE DEF moved
<1>4. /\ counted \in Row
      /\ counted.status = target /\ counted.assigned_to = r.assigned_to
      /\ counted.current_queue = r.current_queue /\ counted.reopen_count = r.reopen_count + 1
      /\ counted.sla_breached = r.sla_breached
  BY <1>3, Columns, SetColumn DEF Row
<1>5. NeedsAutoEscalation(counted) <=> NeedsAutoEscalation([r EXCEPT !.reopen_count = @ + 1])
  BY <1>4 DEF NeedsAutoEscalation, Row
<1> HIDE DEF counted
<1>6. Promised(CheckAutoEscalation(counted)) =
        Promise(target, r.assigned_to,
                IF NeedsAutoEscalation(counted) THEN "supervisor" ELSE r.current_queue,
                r.reopen_count + 1, r.sla_breached)
  <2>1. Promised([counted EXCEPT !.current_queue = "supervisor"]) =
          Promise(target, r.assigned_to, "supervisor", r.reopen_count + 1, r.sla_breached)
    BY <1>4 DEF Promised, Promise, Row
  <2> QED
    BY <1>4, <2>1 DEF CheckAutoEscalation, Promised, Promise
<1>7. ChangeTicketStatus(r, target, at) =
        IF IsReopen(r, target) THEN CheckAutoEscalation(counted) ELSE moved
  BY DEF ChangeTicketStatus, counted, moved
<1> QED
  BY <1>3, <1>5, <1>6, <1>7 DEF Promised, Promise

\* Claim, balance, bulk assign and transfer name a new owner; the first three
\* start a new ticket.
LEMMA AssignmentEffects ==
  ASSUME NEW r \in Row, NEW a, NEW at
  PROVE  /\ Promised(ClaimTicket(r, a, at)) =
              Promise(IF r.status = "new" THEN "open" ELSE r.status, a, r.current_queue,
                      r.reopen_count, r.sla_breached)
         /\ Promised(BulkAssignTicket(r, a)) =
              Promise(IF r.status = "new" THEN "open" ELSE r.status, a, r.current_queue,
                      r.reopen_count, r.sla_breached)
         /\ Promised(BalanceTicket(r, a, at)) =
              Promise("open", a, r.current_queue, r.reopen_count, r.sla_breached)
         /\ Promised(TransferTicket(r, a)) =
              Promise(r.status, a, r.current_queue, r.reopen_count, r.sla_breached)
  BY DEF ClaimTicket, BulkAssignTicket, BalanceTicket, TransferTicket, Promised, Promise, Row

\* Escalation, return, bulk move and merge.
LEMMA MoveEffects ==
  ASSUME NEW r \in Row, NEW a, NEW owner, NEW queue, NEW at, NEW p
  PROVE  /\ Promised(EscalateTicket(r, a)) =
              Promise(r.status, r.assigned_to, EscalationTarget(a), r.reopen_count,
                      r.sla_breached)
         /\ Promised(ReturnTicket(r, owner, queue, at)) =
              Promise(IF r.status \in {"pending_customer", "pending_3rd"} THEN "open"
                      ELSE r.status, owner, queue, r.reopen_count, r.sla_breached)
         /\ Promised(BulkMoveTicket(r, owner, queue)) =
              Promise(r.status, owner, queue, r.reopen_count, r.sla_breached)
         /\ Promised(MergeTicket(r, p)) =
              Promise("closed", r.assigned_to, r.current_queue, r.reopen_count, r.sla_breached)
  BY DEF EscalateTicket, ReturnTicket, BulkMoveTicket, MergeTicket, Promised, Promise, Row

\* Replies, priority, pause, resume and the sweeps.
LEMMA SweepEffects ==
  ASSUME NEW r \in Row, NEW at, NEW p
  PROVE  /\ Promised(CustomerReplyTicket(r, at)) =
              Promise(IF r.status = "pending_customer" THEN "open" ELSE r.status,
                      r.assigned_to, r.current_queue, r.reopen_count, r.sla_breached)
         /\ Promised([r EXCEPT !.version = @ + 1]) = Promised(r)
         /\ Promised([r EXCEPT !.priority = p, !.version = @ + 1]) = Promised(r)
         /\ Promised(PauseTicket(r, at)) = Promised(r)
         /\ Promised(ResumeTicket(r, at)) = Promised(r)
         /\ Promised(BreachTicket(r)) =
              Promise(r.status, r.assigned_to,
                      IF BreachEscalates(r) THEN "supervisor" ELSE r.current_queue,
                      r.reopen_count, TRUE)
         /\ Promised(AutoResolveTicket(r)) =
              Promise("resolved", r.assigned_to, r.current_queue, r.reopen_count,
                      r.sla_breached)
<1>1. Promised(CustomerReplyTicket(r, at)) =
              Promise(IF r.status = "pending_customer" THEN "open" ELSE r.status,
                      r.assigned_to, r.current_queue, r.reopen_count, r.sla_breached)
  BY DEF CustomerReplyTicket, Promised, Promise, Row
<1>2. Promised([r EXCEPT !.version = @ + 1]) = Promised(r)
  BY DEF Promised, Row
<1>3. Promised([r EXCEPT !.priority = p, !.version = @ + 1]) = Promised(r)
  BY DEF Promised, Row
<1>4. Promised(PauseTicket(r, at)) = Promised(r) /\ Promised(ResumeTicket(r, at)) = Promised(r)
  BY DEF PauseTicket, ResumeTicket, Promised, Row
<1>5. Promised(BreachTicket(r)) =
              Promise(r.status, r.assigned_to,
                      IF BreachEscalates(r) THEN "supervisor" ELSE r.current_queue,
                      r.reopen_count, TRUE)
  BY DEF BreachTicket, BreachEscalates, Promised, Promise, Row
<1>6. Promised(AutoResolveTicket(r)) =
              Promise("resolved", r.assigned_to, r.current_queue, r.reopen_count,
                      r.sla_breached)
  BY DEF AutoResolveTicket, Promised, Promise, Row
<1> QED
  BY <1>1, <1>2, <1>3, <1>4, <1>5, <1>6

-----------------------------------------------------------------------------
(* What the events of a ticket must tell, as sets of events.                *)

OwnerTypes     == {"ticket_created", "assigned", "transferred"}
TracedStatuses == {"pending_customer", "pending_3rd", "resolved", "closed"}

SaysStatus(E, status) == \E e \in E : e.to = status \/ (status = "closed" /\ e.type = "merged")
SaysOwner(E, owner)   == \E e \in E : e.type \in OwnerTypes /\ e.to = owner
SaysManager(E) ==
  \E e \in E : e.to = "manager" /\ e.actor # None /\ SupervisorPlus(e.actor)
SaysBreach(E)  == \E e \in E : e.type = "sla_breach"
SaysReopen(E)  == \E e \in E : e.type = "reopened"

\* The events E account for what the promised columns y have that x had not.
Traced(x, y, E) ==
  /\ y.status # x.status /\ y.status \in TracedStatuses => SaysStatus(E, y.status)
  /\ y.queue = "manager" /\ x.queue # "manager" => SaysManager(E)
  /\ SaysBreach(E) <=> y.breached /\ ~x.breached
  /\ x.breached => y.breached
  /\ y.reopens # x.reopens => y.reopens = x.reopens + 1 /\ SaysReopen(E)

OwnerTraced(x, y, E) == y.owner \notin {None, x.owner} => SaysOwner(E, y.owner)

\* The handlers that read their tickets one after the other, and those that
\* stage all they will ever stage in one step.
ManyHandlers == {"merge", "bulk_reassign", "bulk_move", "bulk_assign"}
LoneHandlers == Handlers \ (ManyHandlers \cup {"auto_resolve"})

\* Of the promised columns of the tickets in S, only the status changes.
SetsStatusOnly(S, read, new) ==
  \A t \in S : \E x \in Statuses : Promised(new[t]) = [Promised(read[t]) EXCEPT !.status = x]

\* What keeps the timelines true at the commit of s: the staged events account
\* for the staged rows; a bulk move is a supervisor's, and only the supervisor
\* page's bulk assign leaves the new owner out of the timeline.
TraceStaged(s) ==
  /\ \A t \in s.has : Traced(Promised(s.read[t]), Promised(s.new[t]), Range(s.log[t]))
  /\ s.op # "bulk_assign" =>
        \A t \in s.has : OwnerTraced(Promised(s.read[t]), Promised(s.new[t]), Range(s.log[t]))
  /\ \A t \in Tickets \ s.has : ~SaysBreach(Range(s.log[t]))
  /\ s.op \in Handlers \cup {"idle"}
  /\ s.op \in {"bulk_reassign", "bulk_move"} => s.by # None /\ SupervisorPlus(s.by)
  /\ s.op = "bulk_reassign" => s.queue = "main"
  /\ s.op = "bulk_move" => s.owner = None
  /\ s.op \in ManyHandlers => s.todo \cap s.has = {}
  /\ s.op = "auto_resolve" => SetsStatusOnly(s.has, s.read, s.new)

\* A staged reopen was counted on a row whose reopens are all in the timeline.
CountStaged(s) ==
  \A t \in s.has : s.new[t].reopen_count # s.read[t].reopen_count =>
      s.read[t].reopen_count <= Cardinality(Reopens(t))

\* The inductive invariant, relative to DeskInv.
TraceInv ==
  /\ BreachLogged /\ StatusLogged /\ ManagerQueueEarned /\ ReopensLogged
  /\ "bulk_assign" \in Handlers \/ OwnerLogged
  /\ \A c \in Slots : TraceStaged(sess[c])
  /\ \A c \in Slots : CountStaged(sess[c])

-----------------------------------------------------------------------------
(* Sequences of events as sets.                                             *)

\* The events of short and of joined sequences.
LEMMA RangeFacts ==
  /\ Range(<<>>) = {}
  /\ \A e : Range(<<e>>) = {e}
  /\ \A q, l \in Seq(Event) : Range(q \o l) = Range(q) \cup Range(l)
<1>1. Range(<<>>) = {}
  BY DEF Range
<1>2. \A e : Range(<<e>>) = {e}
  BY DEF Range
<1>3. \A q, l \in Seq(Event) : Range(q \o l) = Range(q) \cup Range(l)
  BY RangeConcatenation
<1> QED
  BY <1>1, <1>2, <1>3

\* The logging invariants, stated over sets of events.
LEMMA LoggedAsSets ==
  /\ BreachLogged <=> \A t \in Tickets :
        tickets[t].sla_breached <=> SaysBreach(Range(timeline[t]))
  /\ StatusLogged <=> \A t \in Tickets :
        tickets[t].status \in TracedStatuses => SaysStatus(Range(timeline[t]), tickets[t].status)
  /\ ManagerQueueEarned <=> \A t \in Tickets :
        tickets[t].current_queue = "manager" => SaysManager(Range(timeline[t]))
  /\ OwnerLogged <=> \A t \in Tickets :
        tickets[t].assigned_to # None =>
            SaysOwner(Range(timeline[t]), tickets[t].assigned_to)
<1>1. BreachLogged <=> \A t \in Tickets :
        tickets[t].sla_breached <=> SaysBreach(Range(timeline[t]))
  BY Zenon DEF BreachLogged, SaysBreach, Range
<1>2. StatusLogged <=> \A t \in Tickets :
        tickets[t].status \in TracedStatuses => SaysStatus(Range(timeline[t]), tickets[t].status)
  BY Zenon DEF StatusLogged, SaysStatus, Range, TracedStatuses
<1>3. ManagerQueueEarned <=> \A t \in Tickets :
        tickets[t].current_queue = "manager" => SaysManager(Range(timeline[t]))
  BY Zenon DEF ManagerQueueEarned, SaysManager, Range
<1>4. OwnerLogged <=> \A t \in Tickets :
        tickets[t].assigned_to # None =>
            SaysOwner(Range(timeline[t]), tickets[t].assigned_to)
  BY Zenon DEF OwnerLogged, SaysOwner, Range, OwnerTypes
<1> QED
  BY <1>1, <1>2, <1>3, <1>4

\* The same after a step.
LEMMA PrimedLogged ==
  /\ BreachLogged' <=> \A t \in Tickets :
        tickets'[t].sla_breached <=> SaysBreach(Range(timeline'[t]))
  /\ StatusLogged' <=> \A t \in Tickets :
        tickets'[t].status \in TracedStatuses =>
            SaysStatus(Range(timeline'[t]), tickets'[t].status)
  /\ ManagerQueueEarned' <=> \A t \in Tickets :
        tickets'[t].current_queue = "manager" => SaysManager(Range(timeline'[t]))
  /\ OwnerLogged' <=> \A t \in Tickets :
        tickets'[t].assigned_to # None =>
            SaysOwner(Range(timeline'[t]), tickets'[t].assigned_to)
<1>1. BreachLogged' <=> \A t \in Tickets :
        tickets'[t].sla_breached <=> SaysBreach(Range(timeline'[t]))
  BY Zenon DEF BreachLogged, SaysBreach, Range
<1>2. StatusLogged' <=> \A t \in Tickets :
        tickets'[t].status \in TracedStatuses =>
            SaysStatus(Range(timeline'[t]), tickets'[t].status)
  BY Zenon DEF StatusLogged, SaysStatus, Range, TracedStatuses
<1>3. ManagerQueueEarned' <=> \A t \in Tickets :
        tickets'[t].current_queue = "manager" => SaysManager(Range(timeline'[t]))
  BY Zenon DEF ManagerQueueEarned, SaysManager, Range
<1>4. OwnerLogged' <=> \A t \in Tickets :
        tickets'[t].assigned_to # None =>
            SaysOwner(Range(timeline'[t]), tickets'[t].assigned_to)
  BY Zenon DEF OwnerLogged, SaysOwner, Range, OwnerTypes
<1> QED
  BY <1>1, <1>2, <1>3, <1>4

\* More events tell no less.
LEMMA SaysMore ==
  ASSUME NEW E, NEW F, E \subseteq F
  PROVE  /\ \A x : SaysStatus(E, x) => SaysStatus(F, x)
         /\ \A x : SaysOwner(E, x) => SaysOwner(F, x)
         /\ SaysManager(E) => SaysManager(F)
         /\ SaysBreach(E) => SaysBreach(F)
         /\ SaysReopen(E) => SaysReopen(F)
  BY DEF SaysStatus, SaysOwner, SaysManager, SaysBreach, SaysReopen

\* A breach told by two sets together is told by one of them.
LEMMA BreachOfUnion ==
  ASSUME NEW E, NEW F
  PROVE  SaysBreach(E \cup F) <=> SaysBreach(E) \/ SaysBreach(F)
  BY DEF SaysBreach

\* Events added to a trace keep it one, unless they tell of a breach.
LEMMA TracedMore ==
  ASSUME NEW x, NEW y, NEW E, NEW F, Traced(x, y, E), E \subseteq F,
         SaysBreach(F) => SaysBreach(E)
  PROVE  Traced(x, y, F)
  BY SaysMore DEF Traced

\* Events added keep the owner traced.
LEMMA OwnerTracedMore ==
  ASSUME NEW x, NEW y, NEW E, NEW F, OwnerTraced(x, y, E), E \subseteq F
  PROVE  OwnerTraced(x, y, F)
  BY SaysMore DEF OwnerTraced

\* A row whose promised columns stay is traced by any events but a breach.
LEMMA TracedSame ==
  ASSUME NEW x, NEW E, ~SaysBreach(E)
  PROVE  Traced(x, x, E) /\ OwnerTraced(x, x, E)
  BY DEF Traced, OwnerTraced

\* The reopens of a sequence of events.
ReopensIn(q) == {i \in DOMAIN q : q[i].type = "reopened"}

\* A longer timeline has no fewer reopens, and one more if a reopen was added.
LEMMA ReopensGrow ==
  ASSUME NEW q \in Seq(Event), NEW l \in Seq(Event)
  PROVE  /\ Cardinality(ReopensIn(q)) \in Nat /\ Cardinality(ReopensIn(q \o l)) \in Nat
         /\ Cardinality(ReopensIn(q)) <= Cardinality(ReopensIn(q \o l))
         /\ SaysReopen(Range(l)) =>
               Cardinality(ReopensIn(q)) + 1 <= Cardinality(ReopensIn(q \o l))
<1>1. /\ q \o l \in Seq(Event) /\ Len(q) \in Nat /\ Len(l) \in Nat
      /\ Len(q \o l) = Len(q) + Len(l)
      /\ \A i \in 1..(Len(q) + Len(l)) :
            (q \o l)[i] = IF i <= Len(q) THEN q[i] ELSE l[i - Len(q)]
      /\ DOMAIN q = 1..Len(q) /\ DOMAIN l = 1..Len(l) /\ DOMAIN (q \o l) = 1..(Len(q) + Len(l))
  BY ConcatProperties, LenProperties
<1>2. ReopensIn(q) \subseteq ReopensIn(q \o l)
  BY <1>1 DEF ReopensIn
<1>3. IsFiniteSet(ReopensIn(q \o l)) /\ Cardinality(ReopensIn(q \o l)) \in Nat
  <2>1. IsFiniteSet(1..(Len(q) + Len(l)))
    BY <1>1, FS_Interval
  <2>2. ReopensIn(q \o l) \in SUBSET (1..(Len(q) + Len(l)))
    BY <1>1 DEF ReopensIn
  <2> QED
    BY <2>1, <2>2, FS_Subset, FS_CardinalityType
<1>4. /\ IsFiniteSet(ReopensIn(q)) /\ Cardinality(ReopensIn(q)) \in Nat
      /\ Cardinality(ReopensIn(q)) <= Cardinality(ReopensIn(q \o l))
  BY <1>2, <1>3, FS_Subset, FS_CardinalityType
<1>5. ASSUME SaysReopen(Range(l))
      PROVE  Cardinality(ReopensIn(q)) + 1 <= Cardinality(ReopensIn(q \o l))
  <2>1. PICK j \in DOMAIN l : l[j].type = "reopened"
    BY <1>5 DEF SaysReopen, Range
  <2> DEFINE i == Len(q) + j
  <2>2. i \in 1..(Len(q) + Len(l)) /\ ~(i <= Len(q)) /\ i - Len(q) = j
    BY <1>1, <2>1
  <2>3. i \in ReopensIn(q \o l)
    BY <1>1, <2>1, <2>2 DEF ReopensIn
  <2>4. i \notin ReopensIn(q)
    BY <1>1, <2>2 DEF ReopensIn
  <2> HIDE DEF i
  <2>5. /\ ReopensIn(q) \cup {i} \in SUBSET ReopensIn(q \o l)
        /\ Cardinality(ReopensIn(q) \cup {i}) = Cardinality(ReopensIn(q)) + 1
    BY <1>2, <1>4, <2>3, <2>4, FS_AddElement
  <2> QED
    BY <1>3, <2>5, FS_Subset
<1> QED
  BY <1>3, <1>4, <1>5

-----------------------------------------------------------------------------
(* Sessions.                                                                *)

\* The idle session stages nothing.
LEMMA IdleTraced == TraceStaged(Idle) /\ CountStaged(Idle)
<1>1. \A t \in Tickets : Idle.log[t] = <<>> /\ Idle.has = {} /\ Idle.op = "idle"
  BY DEF Idle, NoEvents
<1> QED
  BY <1>1, RangeFacts DEF TraceStaged, CountStaged, SaysBreach, SetsStatusOnly, Idle, ManyHandlers

\* Replacing one session by a traced one keeps the invariant.
LEMMA BeginTrace ==
  ASSUME DeskInv, TraceInv, NEW c \in Slots, NEW s, TraceStaged(s), CountStaged(s), Begin(c, s)
  PROVE  TraceInv'
<1>1. sess' = [sess EXCEPT ![c] = s] /\ UNCHANGED <<now, tickets, timeline, pauses>>
  BY DEF Begin
<1>2. \A d \in Slots : sess'[d] = IF d = c THEN s ELSE sess[d]
  BY <1>1 DEF DeskInv, TypeOK
<1>3. BreachLogged' /\ StatusLogged' /\ ManagerQueueEarned' /\ ReopensLogged'
  BY <1>1 DEF TraceInv, BreachLogged, StatusLogged, ManagerQueueEarned, ReopensLogged, Reopens
<1>4. OwnerLogged => OwnerLogged'
  BY <1>1 DEF OwnerLogged
<1>5. \A d \in Slots : TraceStaged(sess'[d])
  BY <1>2 DEF TraceInv
<1>6. \A d \in Slots : CountStaged(sess'[d])
  BY <1>2 DEF TraceInv
<1>7. (\A d \in Slots : CountStaged(sess[d]))'
  BY <1>1, <1>6 DEF CountStaged, Reopens
<1>8. (\A d \in Slots : TraceStaged(sess[d]))'
  BY <1>5 DEF TraceStaged
<1> QED
  BY <1>3, <1>4, <1>7, <1>8 DEF TraceInv

\* A session that has staged one ticket, whose events account for its row.
LEMMA OneTraced ==
  ASSUME DeskInv, TraceInv, NEW s, NEW op \in LoneHandlers,
         NEW t \in Tickets, NEW row, NEW events,
         s.op = op, s.has = {t}, s.read[t] = tickets[t], s.new[t] = row,
         s.log = [NoEvents EXCEPT ![t] = events],
         Traced(Promised(tickets[t]), Promised(row), Range(events)),
         OwnerTraced(Promised(tickets[t]), Promised(row), Range(events))
  PROVE  TraceStaged(s) /\ CountStaged(s)
<1>1. s.log[t] = events /\ \A u \in Tickets \ {t} : s.log[u] = <<>>
  BY DEF NoEvents
<1>2. \A u \in Tickets \ s.has : ~SaysBreach(Range(s.log[u]))
  BY <1>1, RangeFacts DEF SaysBreach
<1>3. CountStaged(s)
  BY DEF CountStaged, TraceInv, ReopensLogged
<1>4. TraceStaged(s)
  BY <1>1, <1>2 DEF TraceStaged, ManyHandlers, LoneHandlers
<1> QED
  BY <1>3, <1>4

\* The handlers of one ticket.
LEMMA StagedTrace ==
  ASSUME DeskInv, TraceInv, NEW c \in Slots,
         NEW op \in LoneHandlers,
         NEW a, NEW t \in Tickets, NEW row, NEW events,
         Traced(Promised(tickets[t]), Promised(row), Range(events)),
         OwnerTraced(Promised(tickets[t]), Promised(row), Range(events)),
         \/ Begin(c, Staged(op, a, t, row, events))
         \/ \E i : Begin(c, [Staged(op, a, t, row, events) EXCEPT !.ins = i])
         \/ \E u : Begin(c, [Staged(op, a, t, row, events) EXCEPT !.upd = u])
  PROVE  TraceInv'
<1> DEFINE s0 == Staged(op, a, t, row, events)
<1>1. [NoRows EXCEPT ![t] = tickets[t]][t] = tickets[t] /\ [NoRows EXCEPT ![t] = row][t] = row
  BY DEF NoRows
<1>2. /\ s0.op = op /\ s0.has = {t} /\ s0.read[t] = tickets[t] /\ s0.new[t] = row
      /\ s0.log = [NoEvents EXCEPT ![t] = events]
  BY <1>1 DEF Staged, Opened
<1>3. ASSUME Begin(c, s0) PROVE TraceInv'
  <2> HIDE DEF s0
  <2> QED
    BY <1>2, <1>3, OneTraced, BeginTrace
<1>4. ASSUME NEW i, Begin(c, [s0 EXCEPT !.ins = i]) PROVE TraceInv'
  <2> DEFINE s == [s0 EXCEPT !.ins = i]
  <2>1. /\ s.op = s0.op /\ s.has = s0.has /\ s.read = s0.read /\ s.new = s0.new
        /\ s.log = s0.log
    BY DEF Staged, Opened
  <2>2. Begin(c, s)
    BY <1>4
  <2> HIDE DEF s0, s
  <2> QED
    BY <1>2, <2>1, <2>2, OneTraced, BeginTrace
<1>5. ASSUME NEW u, Begin(c, [s0 EXCEPT !.upd = u]) PROVE TraceInv'
  <2> DEFINE s == [s0 EXCEPT !.upd = u]
  <2>1. /\ s.op = s0.op /\ s.has = s0.has /\ s.read = s0.read /\ s.new = s0.new
        /\ s.log = s0.log
    BY DEF Staged, Opened
  <2>2. Begin(c, s)
    BY <1>5
  <2> HIDE DEF s0, s
  <2> QED
    BY <1>2, <2>1, <2>2, OneTraced, BeginTrace
<1> QED
  BY <1>3, <1>4, <1>5

-----------------------------------------------------------------------------
(* The handlers of one ticket.                                              *)

\* claim_ticket names the new owner and starts a new ticket.
LEMMA ClaimTrace ==
  ASSUME DeskInv, TraceInv, NEW c \in Slots, NEW a \in Agents, NEW t \in Tickets, Claim(c, a, t)
  PROVE  TraceInv'
<1>1. tickets[t] \in Row
  BY TicketRowType DEF DeskInv
<1> DEFINE x == Promised(tickets[t])
           y == Promised(ClaimTicket(tickets[t], a, now))
           E == Range(<<Ev("assigned", a, a)>>)
<1>2. y = Promise(IF x.status = "new" THEN "open" ELSE x.status, a, x.queue, x.reopens, x.breached)
  BY <1>1, AssignmentEffects DEF Promised
<1>3. E = {Ev("assigned", a, a)}
  BY RangeFacts
<1>4. Traced(x, y, E)
  BY <1>2, <1>3 DEF Traced, Promise, TracedStatuses, SaysBreach, Ev
<1>5. OwnerTraced(x, y, E)
  BY <1>2, <1>3 DEF OwnerTraced, Promise, SaysOwner, OwnerTypes, Ev
<1>6. "claim" \in LoneHandlers
  BY DEF Claim, CanStart, CanRun, ManyHandlers, LoneHandlers
<1> QED
  BY <1>4, <1>5, <1>6, StagedTrace DEF Claim

\* change_status, resolve and close name the new status, and a reopen.
LEMMA SetStatusTrace ==
  ASSUME DeskInv, TraceInv, NEW c \in Slots, NEW a \in Agents, NEW t \in Tickets,
         NEW op \in {"change_status", "resolve", "close"}, NEW target \in Statuses,
         SetStatus(c, op, a, t, target)
  PROVE  TraceInv'
<1>1. TypeOK /\ tickets[t] \in Row /\ now \in Nat
  BY TicketRowType DEF DeskInv
<1> DEFINE r == tickets[t]
           x == Promised(r)
           y == Promised(ChangeTicketStatus(r, target, now))
           E == Range(StatusEvents(r, target, a))
           e == Ev(StatusEvent(r, target), a, target)
<1>2. /\ y.status = target /\ y.owner = x.owner /\ y.breached = x.breached
      /\ y.reopens # x.reopens => IsReopen(r, target) /\ y.reopens = x.reopens + 1
      /\ y.queue \in {x.queue, "supervisor"}
  BY <1>1, StatusEffect DEF Promised, Promise
<1>3. e \in E /\ E \subseteq {e, Ev("escalated", a, "supervisor")}
  <2>1. <<Ev("escalated", a, "supervisor")>> \in Seq(Event)
    BY <1>1, EvType DEF EventTypes, Queues
  <2>2. StatusEvent(r, target) \in EventTypes
    BY DEF StatusEvent, EventTypes
  <2>3. <<e>> \in Seq(Event) /\ <<>> \in Seq(Event)
    BY <1>1, <2>2, EvType
  <2> DEFINE esc == IF IsReopen(r, target)
                       /\ NeedsAutoEscalation([r EXCEPT !.reopen_count = @ + 1])
                    THEN <<Ev("escalated", a, "supervisor")>> ELSE <<>>
  <2>4. StatusEvents(r, target, a) = esc \o <<e>>
    BY DEF StatusEvents
  <2>5. esc \in Seq(Event) /\ Range(esc) \subseteq {Ev("escalated", a, "supervisor")}
    BY <2>1, <2>3, RangeFacts
  <2> HIDE DEF esc, e
  <2>6. Range(esc \o <<e>>) = Range(esc) \cup {e}
    <3>1. Range(esc \o <<e>>) = Range(esc) \cup Range(<<e>>)
      BY <2>3, <2>5, RangeFacts
    <3> QED
      BY <3>1, RangeFacts
  <2> QED
    BY <2>4, <2>5, <2>6
<1>4. /\ e.to = target /\ e.type = StatusEvent(r, target)
      /\ e.type # "sla_breach" /\ Ev("escalated", a, "supervisor").type = "escalated"
  BY DEF Ev, StatusEvent
<1>5. IsReopen(r, target) => e.type = "reopened"
  BY <1>4 DEF StatusEvent, IsReopen
<1> HIDE DEF x, y, E, e
<1>6. Traced(x, y, E)
  <2>1. SaysStatus(E, target) /\ (IsReopen(r, target) => SaysReopen(E)) /\ ~SaysBreach(E)
    BY <1>3, <1>4, <1>5 DEF SaysStatus, SaysReopen, SaysBreach
  <2> QED
    BY <1>2, <2>1 DEF Traced
<1>7. OwnerTraced(x, y, E)
  BY <1>2 DEF OwnerTraced
<1>8. op \in LoneHandlers
  BY DEF SetStatus, CanStart, CanRun, ManyHandlers, LoneHandlers
<1>9. Begin(c, Staged(op, a, t, ChangeTicketStatus(r, target, now), StatusEvents(r, target, a)))
  BY DEF SetStatus
<1> QED
  BY <1>6, <1>7, <1>8, <1>9, StagedTrace DEF x, y, E

\* transfer names the new owner.
LEMMA TransferTrace ==
  ASSUME DeskInv, TraceInv, NEW c \in Slots, NEW a \in Agents, NEW t \in Tickets,
         NEW b \in Agents, Transfer(c, a, t, b)
  PROVE  TraceInv'
<1>1. tickets[t] \in Row
  BY TicketRowType DEF DeskInv
<1> DEFINE x == Promised(tickets[t])
           y == Promised(TransferTicket(tickets[t], b))
           E == Range(<<Ev("transferred", a, b)>>)
<1>2. y = Promise(x.status, b, x.queue, x.reopens, x.breached)
  BY <1>1, AssignmentEffects DEF Promised
<1>3. E = {Ev("transferred", a, b)}
  BY RangeFacts
<1>4. Traced(x, y, E)
  BY <1>2, <1>3 DEF Traced, Promise, SaysBreach, Ev
<1>5. OwnerTraced(x, y, E)
  BY <1>2, <1>3 DEF OwnerTraced, Promise, SaysOwner, OwnerTypes, Ev
<1>6. "transfer" \in LoneHandlers
  BY DEF Transfer, CanStart, CanRun, ManyHandlers, LoneHandlers
<1> QED
  BY <1>4, <1>5, <1>6, StagedTrace DEF Transfer

\* Handlers that keep the promised columns log one event that is no breach:
\* reply, update_priority, pause_sla and resume_sla.
LEMMA KeptTrace ==
  ASSUME DeskInv, TraceInv, NEW c \in Slots, NEW a \in Agents, NEW t \in Tickets,
         \/ \E type \in {"reply_external", "reply_internal"} : Reply(c, a, t, type)
         \/ \E p \in Priorities : UpdatePriority(c, a, t, p)
         \/ PauseSla(c, a, t)
         \/ ResumeSla(c, a, t)
  PROVE  TraceInv'
<1>1. tickets[t] \in Row
  BY TicketRowType DEF DeskInv
<1>2. ASSUME NEW type \in EventTypes \ {"sla_breach"}, NEW x
      PROVE  LET E == Range(<<Ev(type, a, None)>>) IN Traced(x, x, E) /\ OwnerTraced(x, x, E)
  <2>1. ~SaysBreach(Range(<<Ev(type, a, None)>>))
    BY RangeFacts DEF SaysBreach, Ev
  <2> QED
    BY <2>1, TracedSame
<1>3. ASSUME NEW type \in {"reply_external", "reply_internal"}, Reply(c, a, t, type)
      PROVE  TraceInv'
  <2>1. "reply" \in LoneHandlers /\ type \in EventTypes \ {"sla_breach"}
    BY <1>3 DEF Reply, CanStart, CanRun, EventTypes, ManyHandlers, LoneHandlers
  <2>2. Promised([tickets[t] EXCEPT !.version = @ + 1]) = Promised(tickets[t])
    BY <1>1, SweepEffects
  <2> QED
    BY <1>2, <1>3, <2>1, <2>2, StagedTrace DEF Reply
<1>4. ASSUME NEW p \in Priorities, UpdatePriority(c, a, t, p)
      PROVE  TraceInv'
  <2>1. "update_priority" \in LoneHandlers /\ "status_changed" \in EventTypes \ {"sla_breach"}
    BY <1>4 DEF UpdatePriority, CanStart, CanRun, EventTypes, ManyHandlers, LoneHandlers
  <2>2. Promised([tickets[t] EXCEPT !.priority = p, !.version = @ + 1]) = Promised(tickets[t])
    BY <1>1, SweepEffects
  <2> QED
    BY <1>2, <1>4, <2>1, <2>2, StagedTrace DEF UpdatePriority
<1>5. CASE PauseSla(c, a, t)
  <2>1. "pause_sla" \in LoneHandlers /\ "sla_paused" \in EventTypes \ {"sla_breach"}
    BY <1>5 DEF PauseSla, CanStart, CanRun, EventTypes, ManyHandlers, LoneHandlers
  <2>2. Promised(PauseTicket(tickets[t], now)) = Promised(tickets[t])
    BY <1>1, SweepEffects
  <2>3. \E i : Begin(c, [Staged("pause_sla", a, t, PauseTicket(tickets[t], now),
                                <<Ev("sla_paused", a, None)>>) EXCEPT !.ins = i])
    BY <1>5 DEF PauseSla
  <2> QED
    BY <1>2, <2>1, <2>2, <2>3, StagedTrace
<1>6. CASE ResumeSla(c, a, t)
  <2>1. "resume_sla" \in LoneHandlers /\ "sla_resumed" \in EventTypes \ {"sla_breach"}
    BY <1>6 DEF ResumeSla, CanStart, CanRun, EventTypes, ManyHandlers, LoneHandlers
  <2>2. Promised(ResumeTicket(tickets[t], now)) = Promised(tickets[t])
    BY <1>1, SweepEffects
  <2>3. \E u : Begin(c, [Staged("resume_sla", a, t, ResumeTicket(tickets[t], now),
                                <<Ev("sla_resumed", a, None)>>) EXCEPT !.upd = u])
    BY <1>6 DEF ResumeSla
  <2> QED
    BY <1>2, <2>1, <2>2, <2>3, StagedTrace
<1> QED
  BY <1>3, <1>4, <1>5, <1>6

\* escalate names its queue, and only a supervisor's names the managers'.
LEMMA EscalateTrace ==
  ASSUME DeskInv, TraceInv, NEW c \in Slots, NEW a \in Agents, NEW t \in Tickets,
         Escalate(c, a, t)
  PROVE  TraceInv'
<1>1. tickets[t] \in Row
  BY TicketRowType DEF DeskInv
<1> DEFINE x == Promised(tickets[t])
           y == Promised(EscalateTicket(tickets[t], a))
           E == Range(<<Ev("escalated", a, EscalationTarget(a))>>)
<1>2. y = Promise(x.status, x.owner, EscalationTarget(a), x.reopens, x.breached)
  BY <1>1, MoveEffects DEF Promised
<1>3. E = {Ev("escalated", a, EscalationTarget(a))}
  BY RangeFacts
<1>4. a # None /\ (EscalationTarget(a) = "manager" => SupervisorPlus(a))
  <2>1. RoleOf[a] \in Roles
    BY StaffAssumption
  <2> QED
    BY <2>1, NoneAssumption DEF EscalationTarget, SupervisorPlus, Roles
<1>5. Traced(x, y, E) /\ OwnerTraced(x, y, E)
  BY <1>2, <1>3, <1>4 DEF Traced, OwnerTraced, Promise, SaysBreach, SaysManager, Ev
<1>6. "escalate" \in LoneHandlers
  BY DEF Escalate, CanStart, CanRun, ManyHandlers, LoneHandlers
<1> QED
  BY <1>5, <1>6, StagedTrace DEF Escalate

\* return_ticket names the new owner and never reaches the managers.
LEMMA ReturnTrace ==
  ASSUME DeskInv, TraceInv, NEW c \in Slots, NEW a \in Agents, NEW t \in Tickets,
         NEW owner, NEW queue \in {"main", "specialized"}, ReturnTo(c, a, t, owner, queue)
  PROVE  TraceInv'
<1>1. tickets[t] \in Row
  BY TicketRowType DEF DeskInv
<1> DEFINE x == Promised(tickets[t])
           y == Promised(ReturnTicket(tickets[t], owner, queue, now))
           E == Range(<<Ev("transferred", a, owner)>>)
<1>2. y = Promise(IF x.status \in {"pending_customer", "pending_3rd"} THEN "open" ELSE x.status,
                  owner, queue, x.reopens, x.breached)
  <2>1. /\ x.status = tickets[t].status /\ x.owner = tickets[t].assigned_to
        /\ x.queue = tickets[t].current_queue /\ x.reopens = tickets[t].reopen_count
        /\ x.breached = tickets[t].sla_breached
    BY DEF Promised
  <2> HIDE DEF x
  <2> QED
    BY <1>1, <2>1, MoveEffects
<1>3. E = {Ev("transferred", a, owner)}
  BY RangeFacts
<1>4. Traced(x, y, E)
  BY <1>2, <1>3 DEF Traced, Promise, TracedStatuses, SaysBreach, Ev
<1>5. OwnerTraced(x, y, E)
  BY <1>2, <1>3 DEF OwnerTraced, Promise, SaysOwner, OwnerTypes, Ev
<1>6. "return_ticket" \in LoneHandlers
  BY DEF ReturnTo, CanStart, CanRun, ManyHandlers, LoneHandlers
<1> QED
  BY <1>4, <1>5, <1>6, StagedTrace DEF ReturnTo

\* The customer's reply reopens a waiting ticket and moves nothing else.
LEMMA CustomerReplyTrace ==
  ASSUME DeskInv, TraceInv, NEW c \in Slots, NEW t \in Tickets, CustomerReply(c, t)
  PROVE  TraceInv'
<1>1. tickets[t] \in Row
  BY TicketRowType DEF DeskInv
<1> DEFINE x == Promised(tickets[t])
           y == Promised(CustomerReplyTicket(tickets[t], now))
           E == Range(<<Ev("reply_customer", None, None)>>)
<1>2. y = Promise(IF x.status = "pending_customer" THEN "open" ELSE x.status,
                  x.owner, x.queue, x.reopens, x.breached)
  <2>1. /\ x.status = tickets[t].status /\ x.owner = tickets[t].assigned_to
        /\ x.queue = tickets[t].current_queue /\ x.reopens = tickets[t].reopen_count
        /\ x.breached = tickets[t].sla_breached
    BY DEF Promised
  <2> HIDE DEF x
  <2> QED
    BY <1>1, <2>1, SweepEffects
<1>3. E = {Ev("reply_customer", None, None)}
  BY RangeFacts
<1>4. Traced(x, y, E) /\ OwnerTraced(x, y, E)
  BY <1>2, <1>3 DEF Traced, OwnerTraced, Promise, TracedStatuses, SaysBreach, Ev
<1>5. "customer_reply" \in LoneHandlers
  BY DEF CustomerReply, CanStart, CanRun, ManyHandlers, LoneHandlers
<1> QED
  BY <1>4, <1>5, StagedTrace DEF CustomerReply

-----------------------------------------------------------------------------
(* The handlers of several tickets.                                         *)

\* Logging more events tells no less, and of no breach unless they do.
LEMMA LoggedMore ==
  ASSUME NEW f \in [Tickets -> Seq(Event)], NEW p, NEW l \in Seq(Event), ~SaysBreach(Range(l)),
         NEW t \in Tickets
  PROVE  /\ Range(f[t]) \subseteq Range(Logged(f, p, l)[t])
         /\ t = p => Range(Logged(f, p, l)[t]) = Range(f[t]) \cup Range(l)
         /\ SaysBreach(Range(Logged(f, p, l)[t])) => SaysBreach(Range(f[t]))
<1>1. CASE t = p
  <2>1. Logged(f, p, l)[t] = f[t] \o l
    BY <1>1 DEF Logged
  <2>2. Range(f[t] \o l) = Range(f[t]) \cup Range(l)
    BY RangeFacts
  <2> QED
    BY <2>1, <2>2, BreachOfUnion
<1>2. CASE t # p
  <2>1. Logged(f, p, l)[t] = f[t]
    BY <1>2 DEF Logged
  <2> QED
    BY <1>2, <2>1
<1> QED
  BY <1>1, <1>2

\* The replies a merge copies are public replies of the timeline.
LEMMA RepliesRange ==
  ASSUME NEW events \in Seq(Event), NEW replies \in PublicReplies(events)
  PROVE  /\ \A e \in Range(replies) : IsPublicReply(e) /\ e \in Range(events)
         /\ \A e \in Range(events) : IsPublicReply(e) => e \in Range(replies)
         /\ ~SaysBreach(Range(replies))
<1> DEFINE X == {i \in DOMAIN events : IsPublicReply(events[i])}
<1>1. PICK o \in Orders(X) : replies = [i \in DOMAIN o |-> events[o[i]]]
  BY DEF PublicReplies
<1>2. /\ o \in [1..Cardinality(X) -> X]
      /\ \A x \in X : \E i \in DOMAIN o : o[i] = x
  BY DEF Orders
<1>3. \A e \in Range(replies) : \E x \in X : e = events[x]
  <2> HIDE DEF X
  <2> QED
    BY <1>1, <1>2 DEF Range
<1>4. \A x \in X : events[x] \in Range(replies)
  <2> HIDE DEF X
  <2> QED
    BY <1>1, <1>2 DEF Range
<1>5. \A e \in Range(replies) : IsPublicReply(e) /\ e \in Range(events)
  BY <1>3 DEF Range
<1>6. \A e \in Range(events) : IsPublicReply(e) => e \in Range(replies)
  BY <1>4 DEF Range
<1>7. ~SaysBreach(Range(replies))
  BY <1>5 DEF SaysBreach, IsPublicReply
<1> QED
  BY <1>5, <1>6, <1>7

\* A session of several tickets has staged nothing when it starts.
LEMMA EmptyTraced ==
  ASSUME NEW s, s.has = {}, s.log = NoEvents, s.op \in Handlers,
         s.op \in {"bulk_reassign", "bulk_move"} => s.by # None /\ SupervisorPlus(s.by),
         s.op = "bulk_reassign" => s.queue = "main",
         s.op = "bulk_move" => s.owner = None
  PROVE  TraceStaged(s) /\ CountStaged(s)
<1>1. \A t \in Tickets : ~SaysBreach(Range(s.log[t]))
  BY RangeFacts DEF NoEvents, SaysBreach
<1> QED
  BY <1>1 DEF TraceStaged, CountStaged, SetsStatusOnly

\* merge, bulk_reassign, bulk_move_to_queue and bulk_assign_tickets start so.
LEMMA StartManyTrace ==
  ASSUME DeskInv, TraceInv, NEW c \in Slots, NEW a \in Agents, NEW S \in SUBSET Tickets,
         \/ \E p \in Tickets : Merge(c, a, p, S)
         \/ \E b \in Agents : BulkReassign(c, a, S, b)
         \/ \E q \in Queues : BulkMoveToQueue(c, a, S, q)
         \/ \E b \in Agents : BulkAssign(c, a, S, b)
  PROVE  TraceInv'
<1>1. a # None
  BY NoneAssumption
<1>2. ASSUME NEW p \in Tickets, Merge(c, a, p, S) PROVE TraceInv'
  <2> DEFINE s == [ManySession("merge", a, S) EXCEPT !.primary = p]
  <2>1. s.has = {} /\ s.log = NoEvents /\ s.op = "merge"
    BY DEF ManySession, Opened
  <2>2. "merge" \in Handlers /\ Begin(c, s)
    BY <1>2 DEF Merge, StartMany, CanRun
  <2> HIDE DEF s
  <2> QED
    BY <2>1, <2>2, EmptyTraced, BeginTrace
<1>3. ASSUME NEW b \in Agents, BulkReassign(c, a, S, b) PROVE TraceInv'
  <2> DEFINE s == [ManySession("bulk_reassign", a, S) EXCEPT !.owner = b, !.queue = "main"]
  <2>1. s.has = {} /\ s.log = NoEvents /\ s.op = "bulk_reassign" /\ s.by = a /\ s.queue = "main"
    BY DEF ManySession, Opened
  <2>2. "bulk_reassign" \in Handlers /\ Begin(c, s) /\ SupervisorPlus(a)
    BY <1>3 DEF BulkReassign, StartMany, CanRun
  <2> HIDE DEF s
  <2> QED
    BY <1>1, <2>1, <2>2, EmptyTraced, BeginTrace
<1>4. ASSUME NEW q \in Queues, BulkMoveToQueue(c, a, S, q) PROVE TraceInv'
  <2> DEFINE s == [ManySession("bulk_move", a, S) EXCEPT !.queue = q]
  <2>1. s.has = {} /\ s.log = NoEvents /\ s.op = "bulk_move" /\ s.by = a /\ s.owner = None
    BY DEF ManySession, Opened
  <2>2. "bulk_move" \in Handlers /\ Begin(c, s) /\ SupervisorPlus(a)
    BY <1>4 DEF BulkMoveToQueue, StartMany, CanRun
  <2> HIDE DEF s
  <2> QED
    BY <1>1, <2>1, <2>2, EmptyTraced, BeginTrace
<1>5. ASSUME NEW b \in Agents, BulkAssign(c, a, S, b) PROVE TraceInv'
  <2> DEFINE s == [ManySession("bulk_assign", a, S) EXCEPT !.owner = b]
  <2>1. s.has = {} /\ s.log = NoEvents /\ s.op = "bulk_assign"
    BY DEF ManySession, Opened
  <2>2. "bulk_assign" \in Handlers /\ Begin(c, s)
    BY <1>5 DEF BulkAssign, StartMany, CanRun
  <2> HIDE DEF s
  <2> QED
    BY <2>1, <2>2, EmptyTraced, BeginTrace
<1> QED
  BY <1>2, <1>3, <1>4, <1>5

\* One more ticket is read and staged with events that account for its row.
LEMMA ExtendTrace ==
  ASSUME DeskInv, TraceInv, NEW c \in Slots, NEW t \in Tickets, NEW row,
         NEW events \in [Tickets -> Seq(Event)], Extend(c, t, row, events),
         Traced(Promised(tickets[t]), Promised(row), Range(events[t])),
         \/ sess[c].op = "bulk_assign"
         \/ OwnerTraced(Promised(tickets[t]), Promised(row), Range(events[t])),
         sess[c].op \in ManyHandlers,
         \A u \in Tickets : /\ Range(sess[c].log[u]) \subseteq Range(events[u])
                            /\ SaysBreach(Range(events[u])) => SaysBreach(Range(sess[c].log[u]))
  PROVE  TraceInv'
<1> DEFINE s == sess[c]
           y == [s EXCEPT !.has  = @ \cup {t},
                          !.read = [@ EXCEPT ![t] = tickets[t]],
                          !.new  = [@ EXCEPT ![t] = row],
                          !.log  = events,
                          !.todo = @ \ {t}]
<1>1. s \in Session /\ TraceStaged(s) /\ CountStaged(s)
  BY DEF DeskInv, TypeOK, TraceInv
<1>2. Begin(c, y)
  BY DEF Extend
<1>3. /\ s.read \in [Tickets -> Row] /\ s.new \in [Tickets -> Row] /\ s.has \subseteq Tickets
      /\ s.log \in [Tickets -> Seq(Event)]
  BY <1>1, Fields
<1>4. /\ y.has = s.has \cup {t} /\ y.log = events
      /\ y.op = s.op /\ y.by = s.by /\ y.queue = s.queue /\ y.owner = s.owner
      /\ y.todo = s.todo \ {t}
      /\ y.read = [s.read EXCEPT ![t] = tickets[t]] /\ y.new = [s.new EXCEPT ![t] = row]
  BY <1>1 DEF Session
<1> HIDE DEF s, y
<1>5. /\ y.read[t] = tickets[t] /\ y.new[t] = row
      /\ \A u \in Tickets \ {t} : y.read[u] = s.read[u] /\ y.new[u] = s.new[u]
  BY <1>3, <1>4
<1>6. ASSUME NEW u \in y.has
      PROVE  Traced(Promised(y.read[u]), Promised(y.new[u]), Range(y.log[u]))
  <2>1. CASE u = t
    BY <1>4, <1>5, <2>1
  <2>2. CASE u # t
    <3>1. u \in s.has /\ u \in Tickets /\ y.read[u] = s.read[u] /\ y.new[u] = s.new[u]
      BY <1>3, <1>4, <1>5, <1>6, <2>2
    <3>2. Traced(Promised(s.read[u]), Promised(s.new[u]), Range(s.log[u]))
      BY <1>1, <3>1 DEF TraceStaged
    <3>3. /\ Range(s.log[u]) \subseteq Range(y.log[u])
          /\ SaysBreach(Range(y.log[u])) => SaysBreach(Range(s.log[u]))
      BY <1>4, <3>1 DEF s
    <3> QED
      BY <3>1, <3>2, <3>3, TracedMore
  <2> QED
    BY <2>1, <2>2
<1>7. ASSUME NEW u \in y.has, s.op # "bulk_assign"
      PROVE  OwnerTraced(Promised(y.read[u]), Promised(y.new[u]), Range(y.log[u]))
  <2>1. CASE u = t
    BY <1>4, <1>5, <1>7, <2>1 DEF s
  <2>2. CASE u # t
    <3>1. u \in s.has /\ u \in Tickets /\ y.read[u] = s.read[u] /\ y.new[u] = s.new[u]
      BY <1>3, <1>4, <1>5, <1>7, <2>2
    <3>2. OwnerTraced(Promised(s.read[u]), Promised(s.new[u]), Range(s.log[u]))
      BY <1>1, <1>7, <3>1 DEF TraceStaged
    <3>3. Range(s.log[u]) \subseteq Range(y.log[u])
      BY <1>4, <3>1 DEF s
    <3> QED
      BY <3>1, <3>2, <3>3, OwnerTracedMore
  <2> QED
    BY <2>1, <2>2
<1>8. \A u \in Tickets \ y.has : ~SaysBreach(Range(y.log[u]))
  BY <1>1, <1>4 DEF TraceStaged, s
<1>9. TraceStaged(y)
  BY <1>1, <1>4, <1>6, <1>7, <1>8 DEF TraceStaged, ManyHandlers, s
<1>10. CountStaged(y)
  <2>1. tickets[t].reopen_count <= Cardinality(Reopens(t))
    BY DEF TraceInv, ReopensLogged
  <2> QED
    BY <1>1, <1>3, <1>4, <1>5, <2>1 DEF CountStaged
<1> QED
  BY <1>2, <1>9, <1>10, BeginTrace

\* Each further ticket of a merge: the primary is told of the child's public
\* replies, the child of the merge that closes it.
LEMMA MergeChildTrace ==
  ASSUME DeskInv, TraceInv, NEW c \in Slots, NEW t \in Tickets, MergeChild(c, t)
  PROVE  TraceInv'
<1> DEFINE s == sess[c]
           e == Ev("merged", s.by, None)
<1>1. /\ TypeOK /\ s \in Session /\ TraceStaged(s) /\ CountStaged(s)
      /\ tickets[t] \in Row /\ timeline[t] \in Seq(Event)
  BY TicketRowType DEF DeskInv, TypeOK, TraceInv
<1>2. s.log \in [Tickets -> Seq(Event)] /\ s.by \in Agents \cup {None}
  BY <1>1, Fields
<1>3. s.op = "merge" /\ s.op \in ManyHandlers /\ t \notin s.has
  BY <1>1 DEF MergeChild, ManyHandlers, TraceStaged
<1>4. CASE Begin(c, [s EXCEPT !.todo = @ \ {t}])
  <2> DEFINE y == [s EXCEPT !.todo = @ \ {t}]
  <2>1. /\ y.has = s.has /\ y.read = s.read /\ y.new = s.new /\ y.log = s.log
        /\ y.op = s.op /\ y.by = s.by /\ y.queue = s.queue /\ y.owner = s.owner
        /\ y.todo = s.todo \ {t}
    BY <1>1 DEF Session
  <2> HIDE DEF y, s
  <2>2. TraceStaged(y) /\ CountStaged(y)
    BY <1>1, <2>1 DEF TraceStaged, CountStaged
  <2> QED
    BY <1>4, <2>2, BeginTrace DEF y
<1>5. ASSUME NEW replies \in PublicReplies(timeline[t]),
             Extend(c, t, MergeTicket(tickets[t], s.primary),
                    Logged(Logged(s.log, s.primary, replies), t, <<e>>))
      PROVE  TraceInv'
  <2> DEFINE told   == Logged(s.log, s.primary, replies)
             events == Logged(told, t, <<e>>)
             x      == Promised(tickets[t])
             y      == Promised(MergeTicket(tickets[t], s.primary))
  <2>1. replies \in Seq(Event) /\ ~SaysBreach(Range(replies))
    BY <1>1, RepliesType, RepliesRange
  <2>2. <<e>> \in Seq(Event) /\ Range(<<e>>) = {e} /\ e.type = "merged"
    BY <1>1, <1>2, EvType, RangeFacts DEF EventTypes, Ev
  <2>3. ~SaysBreach(Range(<<e>>))
    BY <2>2 DEF SaysBreach
  <2> HIDE DEF e
  <2>4. told \in [Tickets -> Seq(Event)]
    BY <1>2, <2>1, LogAppend
  <2>5. events \in [Tickets -> Seq(Event)]
    <3> HIDE DEF told
    <3> QED BY <2>2, <2>4, LogAppend
  <2>6. \A u \in Tickets : /\ Range(s.log[u]) \subseteq Range(told[u])
                           /\ SaysBreach(Range(told[u])) => SaysBreach(Range(s.log[u]))
    BY <1>2, <2>1, LoggedMore
  <2>7. \A u \in Tickets : /\ Range(told[u]) \subseteq Range(events[u])
                           /\ SaysBreach(Range(events[u])) => SaysBreach(Range(told[u]))
    <3> HIDE DEF told
    <3> QED BY <2>2, <2>3, <2>4, LoggedMore
  <2>8. e \in Range(events[t])
    <3> HIDE DEF told
    <3> QED BY <2>2, <2>3, <2>4, LoggedMore
  <2> HIDE DEF told, events
  <2>9. Traced(x, y, Range(events[t])) /\ OwnerTraced(x, y, Range(events[t]))
    <3>1. y = Promise("closed", tickets[t].assigned_to, tickets[t].current_queue,
                      tickets[t].reopen_count, tickets[t].sla_breached)
      BY <1>1, MoveEffects
    <3>2. /\ y.status = "closed" /\ y.owner = x.owner /\ y.queue = x.queue
          /\ y.reopens = x.reopens /\ y.breached = x.breached
      BY <3>1 DEF Promise, Promised
    <3>3. SaysStatus(Range(events[t]), "closed")
      BY <2>2, <2>8 DEF SaysStatus
    <3>4. ~SaysBreach(Range(s.log[t]))
      BY <1>1, <1>3 DEF TraceStaged
    <3>5. ~SaysBreach(Range(events[t]))
      BY <2>6, <2>7, <3>4
    <3> QED
      BY <3>2, <3>3, <3>5 DEF Traced, OwnerTraced
  <2> QED
    BY <1>5, <1>3, <2>5, <2>6, <2>7, <2>9, ExtendTrace DEF events, told
<1> QED
  BY <1>4, <1>5 DEF MergeChild, e

\* Each further ticket of a bulk move names the new owner or the queue, and the
\* managers' queue is named by a supervisor.
LEMMA BulkMoveTrace ==
  ASSUME DeskInv, TraceInv, NEW c \in Slots, NEW t \in Tickets, BulkMoveNext(c, t)
  PROVE  TraceInv'
<1> DEFINE s      == sess[c]
           to     == IF s.op = "bulk_move" THEN s.queue ELSE s.owner
           e      == Ev("transferred", s.by, to)
           events == Logged(s.log, t, <<e>>)
           x      == Promised(tickets[t])
           y      == Promised(BulkMoveTicket(tickets[t], s.owner, s.queue))
<1>1. TypeOK /\ s \in Session /\ TraceStaged(s) /\ tickets[t] \in Row
  BY TicketRowType DEF DeskInv, TypeOK, TraceInv
<1>2. /\ s.log \in [Tickets -> Seq(Event)] /\ s.by \in Agents \cup {None}
      /\ to \in Agents \cup Statuses \cup Queues \cup {None}
  BY <1>1, Fields
<1>3. s.op \in {"bulk_reassign", "bulk_move"} /\ t \in s.todo
  BY DEF BulkMoveNext
<1>4. /\ s.op \in ManyHandlers /\ t \notin s.has /\ s.by # None /\ SupervisorPlus(s.by)
      /\ s.op = "bulk_reassign" => s.queue = "main"
  BY <1>1, <1>3 DEF ManyHandlers, TraceStaged
<1>5. Extend(c, t, BulkMoveTicket(tickets[t], s.owner, s.queue), events)
  BY DEF BulkMoveNext
<1>6. y = Promise(tickets[t].status, s.owner, s.queue, tickets[t].reopen_count,
                  tickets[t].sla_breached)
  BY <1>1, MoveEffects
<1>7. /\ y.status = x.status /\ y.owner = s.owner /\ y.queue = s.queue
      /\ y.reopens = x.reopens /\ y.breached = x.breached
  BY <1>6 DEF Promise, Promised
<1>8. s.op = "bulk_move" => s.owner = None
  BY <1>1 DEF TraceStaged
<1>9. e.type = "transferred" /\ e.to = to /\ e.actor = s.by
  BY DEF Ev
<1>10. <<e>> \in Seq(Event)
  <2> HIDE DEF to
  <2> QED BY <1>1, <1>2, EvType DEF EventTypes
<1> HIDE DEF e, s
<1>11. Range(<<e>>) = {e} /\ ~SaysBreach(Range(<<e>>))
  BY <1>9, RangeFacts DEF SaysBreach
<1>12. events \in [Tickets -> Seq(Event)]
  BY <1>2, <1>10, LogAppend
<1>13. e \in Range(events[t])
  <2>1. Range(events[t]) = Range(s.log[t]) \cup Range(<<e>>)
    BY <1>2, <1>10, <1>11, LoggedMore
  <2> QED
    BY <1>11, <2>1
<1>14. \A u \in Tickets : /\ Range(s.log[u]) \subseteq Range(events[u])
                          /\ SaysBreach(Range(events[u])) => SaysBreach(Range(s.log[u]))
  BY <1>2, <1>10, <1>11, LoggedMore
<1> HIDE DEF x, y, events
<1>15. ~SaysBreach(Range(events[t]))
  BY <1>1, <1>4, <1>14 DEF TraceStaged
<1>16. Traced(x, y, Range(events[t])) /\ OwnerTraced(x, y, Range(events[t]))
  <2>1. s.queue = "manager" => SaysManager(Range(events[t]))
    BY <1>3, <1>4, <1>9, <1>13 DEF SaysManager
  <2>2. s.owner # None => SaysOwner(Range(events[t]), s.owner)
    BY <1>3, <1>8, <1>9, <1>13 DEF SaysOwner, OwnerTypes
  <2> QED
    BY <1>7, <1>15, <2>1, <2>2 DEF Traced, OwnerTraced
<1> QED
  BY <1>4, <1>5, <1>12, <1>14, <1>16, ExtendTrace DEF s, x, y, events

\* The supervisor page's bulk assign logs nothing: the status it may set, open,
\* needs no event, and the owner it sets is why OwnerLogged excludes it.
LEMMA BulkAssignTrace ==
  ASSUME DeskInv, TraceInv, NEW c \in Slots, NEW t \in Tickets, BulkAssignNext(c, t)
  PROVE  TraceInv'
<1> DEFINE s == sess[c]
           x == Promised(tickets[t])
           y == Promised(BulkAssignTicket(tickets[t], s.owner))
<1>1. TypeOK /\ s \in Session /\ TraceStaged(s) /\ tickets[t] \in Row
  BY TicketRowType DEF DeskInv, TypeOK, TraceInv
<1>2. s.log \in [Tickets -> Seq(Event)]
  BY <1>1, Fields
<1>3. s.op = "bulk_assign" /\ t \in s.todo
  BY DEF BulkAssignNext
<1>4. s.op \in ManyHandlers /\ t \notin s.has
  BY <1>1, <1>3 DEF ManyHandlers, TraceStaged
<1>5. Extend(c, t, BulkAssignTicket(tickets[t], s.owner), s.log)
  BY DEF BulkAssignNext
<1>6. y = Promise(IF tickets[t].status = "new" THEN "open" ELSE tickets[t].status, s.owner,
                  tickets[t].current_queue, tickets[t].reopen_count, tickets[t].sla_breached)
  BY <1>1, AssignmentEffects
<1>7. /\ y.status \in {x.status, "open"} /\ y.queue = x.queue
      /\ y.reopens = x.reopens /\ y.breached = x.breached
  BY <1>6 DEF Promise, Promised
<1>8. ~SaysBreach(Range(s.log[t]))
  BY <1>1, <1>4 DEF TraceStaged
<1>9. Traced(x, y, Range(s.log[t]))
  BY <1>7, <1>8 DEF Traced, TracedStatuses
<1> QED
  BY <1>2, <1>3, <1>4, <1>5, <1>9, ExtendTrace

-----------------------------------------------------------------------------
(* The handlers that read all their tickets in one SELECT.                  *)

\* Such a session is traced if each ticket is, and counts no reopen.
LEMMA OpenedTrace ==
  ASSUME DeskInv, TraceInv, NEW c \in Slots, NEW op \in Handlers \ ManyHandlers, NEW a,
         NEW S \in SUBSET Tickets, NEW read, NEW new, NEW log, NEW todo,
         \A t \in S : /\ Traced(Promised(read[t]), Promised(new[t]), Range(log[t]))
                      /\ OwnerTraced(Promised(read[t]), Promised(new[t]), Range(log[t]))
                      /\ new[t].reopen_count = read[t].reopen_count,
         \A t \in Tickets \ S : ~SaysBreach(Range(log[t])),
         op # "auto_resolve" \/ SetsStatusOnly(S, read, new),
         Begin(c, Opened(op, a, S, read, new, log, todo))
  PROVE  TraceInv'
<1> DEFINE s == Opened(op, a, S, read, new, log, todo)
<1>1. s.op = op /\ s.has = S /\ s.read = read /\ s.new = new /\ s.log = log
  BY DEF Opened
<1> HIDE DEF s
<1>2. TraceStaged(s)
  BY <1>1 DEF TraceStaged, ManyHandlers
<1>3. CountStaged(s)
  BY <1>1 DEF CountStaged
<1> QED
  BY <1>2, <1>3, BeginTrace DEF s

\* auto_balance names each new owner; the new tickets become open.
LEMMA AutoBalanceTrace ==
  ASSUME DeskInv, TraceInv, NEW c \in Slots, NEW a \in Agents, AutoBalance(c, a)
  PROVE  TraceInv'
<1> DEFINE idle == {t \in Tickets : tickets[t].assigned_to = None /\ tickets[t].status = "new"}
<1>1. \A t \in Tickets : tickets[t] \in Row
  BY TicketRowType DEF DeskInv
<1>2. PICK agents \in Orders(Online), queue \in Orders(idle) :
         LET turn(t)  == (CHOOSE i \in DOMAIN queue : queue[i] = t) - 1
             agent(t) == agents[(turn(t) % Cardinality(Online)) + 1]
             row(t)   == BalanceTicket(tickets[t], agent(t), now)
             event(t) == <<Ev("assigned", a, agent(t))>>
         IN  Begin(c, Opened("auto_balance", a, idle, Rows(idle, Current),
                             Rows(idle, row), Events(idle, event), {}))
  BY DEF AutoBalance
<1> DEFINE turn(t)  == (CHOOSE i \in DOMAIN queue : queue[i] = t) - 1
           agent(t) == agents[(turn(t) % Cardinality(Online)) + 1]
           read     == [t \in Tickets |-> IF t \in idle THEN tickets[t] ELSE BlankRow]
           new      == [t \in Tickets |-> IF t \in idle
                            THEN BalanceTicket(tickets[t], agent(t), now) ELSE BlankRow]
           log      == [t \in Tickets |-> IF t \in idle
                            THEN <<Ev("assigned", a, agent(t))>> ELSE <<>>]
<1>3. Begin(c, Opened("auto_balance", a, idle, read, new, log, {}))
  BY <1>2 DEF Rows, Events, Current
<1> HIDE DEF agent
<1>4. idle \in SUBSET Tickets
  OBVIOUS
<1>5. \A t \in idle : /\ read[t] = tickets[t]
                      /\ new[t] = BalanceTicket(tickets[t], agent(t), now)
                      /\ log[t] = <<Ev("assigned", a, agent(t))>>
  OBVIOUS
<1>6. \A t \in Tickets \ idle : log[t] = <<>>
  OBVIOUS
<1> HIDE DEF read, new, log, idle
<1>7. ASSUME NEW t \in idle
      PROVE  /\ Traced(Promised(read[t]), Promised(new[t]), Range(log[t]))
             /\ OwnerTraced(Promised(read[t]), Promised(new[t]), Range(log[t]))
             /\ new[t].reopen_count = read[t].reopen_count
  <2> DEFINE x == Promised(tickets[t])
             y == Promised(BalanceTicket(tickets[t], agent(t), now))
             e == Ev("assigned", a, agent(t))
  <2>1. y = Promise("open", agent(t), tickets[t].current_queue, tickets[t].reopen_count,
                    tickets[t].sla_breached)
    BY <1>1, <1>4, AssignmentEffects
  <2>2. /\ y.status = "open" /\ y.owner = agent(t) /\ y.queue = x.queue
        /\ y.reopens = x.reopens /\ y.breached = x.breached
    BY <2>1 DEF Promise, Promised
  <2>3. e.type = "assigned" /\ e.to = agent(t)
    BY DEF Ev
  <2>4. Range(log[t]) = {e}
    BY <1>5, RangeFacts
  <2>5. new[t].reopen_count = y.reopens /\ read[t].reopen_count = x.reopens
    BY <1>5 DEF Promised
  <2> HIDE DEF x, y, e
  <2>6. Traced(x, y, {e}) /\ OwnerTraced(x, y, {e})
    BY <2>2, <2>3 DEF Traced, OwnerTraced, TracedStatuses, SaysBreach, SaysOwner, OwnerTypes
  <2> QED
    BY <1>5, <2>2, <2>4, <2>5, <2>6 DEF x, y
<1>8. \A t \in Tickets \ idle : ~SaysBreach(Range(log[t]))
  BY <1>6, RangeFacts DEF SaysBreach
<1>9. "auto_balance" \in Handlers \ ManyHandlers /\ "auto_balance" # "auto_resolve"
  BY DEF AutoBalance, CanRun, ManyHandlers
<1> QED
  BY <1>3, <1>4, <1>7, <1>8, <1>9, OpenedTrace

\* The breach sweep flags exactly the tickets it logs a breach of.
LEMMA BreachTrace ==
  ASSUME DeskInv, TraceInv, NEW w \in Slots, CheckSlaBreaches(w)
  PROVE  TraceInv'
<1> DEFINE overdue == {t \in Tickets : IsOverdue(tickets[t], now)}
           read    == [t \in Tickets |-> IF t \in overdue THEN tickets[t] ELSE BlankRow]
           new     == [t \in Tickets |-> IF t \in overdue THEN BreachedRow(t) ELSE BlankRow]
           log     == [t \in Tickets |-> IF t \in overdue THEN BreachEvents(t) ELSE <<>>]
<1>1. TypeOK /\ \A t \in Tickets : tickets[t] \in Row
  BY TicketRowType DEF DeskInv
<1>2. Begin(w, Opened("check_sla_breaches", None, overdue, read, new, log, {}))
  BY DEF CheckSlaBreaches, Rows, Events, Current
<1>3. /\ overdue \in SUBSET Tickets
      /\ \A t \in overdue : read[t] = tickets[t] /\ new[t] = BreachedRow(t)
                            /\ log[t] = BreachEvents(t) /\ ~tickets[t].sla_breached
      /\ \A t \in Tickets \ overdue : log[t] = <<>>
  BY DEF IsOverdue
<1> HIDE DEF read, new, log, overdue
<1>4. ASSUME NEW t \in overdue
      PROVE  /\ Traced(Promised(read[t]), Promised(new[t]), Range(log[t]))
             /\ OwnerTraced(Promised(read[t]), Promised(new[t]), Range(log[t]))
             /\ new[t].reopen_count = read[t].reopen_count
  <2> DEFINE x   == Promised(tickets[t])
             y   == Promised(BreachTicket(tickets[t]))
             e   == Ev("sla_breach", None, None)
             esc == IF BreachEscalates(tickets[t])
                    THEN <<Ev("escalated", None, "supervisor")>> ELSE <<>>
  <2>1. y = Promise(tickets[t].status, tickets[t].assigned_to,
                    IF BreachEscalates(tickets[t]) THEN "supervisor"
                    ELSE tickets[t].current_queue,
                    tickets[t].reopen_count, TRUE)
    BY <1>1, <1>3, SweepEffects
  <2>2. /\ y.status = x.status /\ y.owner = x.owner /\ y.queue \in {x.queue, "supervisor"}
        /\ y.reopens = x.reopens /\ y.breached
    BY <2>1 DEF Promise, Promised
  <2>3. ~x.breached
    BY <1>3 DEF Promised
  <2>4. e.type = "sla_breach"
    BY DEF Ev
  <2>5. <<Ev("escalated", None, "supervisor")>> \in Seq(Event)
    BY <1>1, EvType DEF EventTypes, Queues
  <2>6. <<e>> \in Seq(Event) /\ <<>> \in Seq(Event)
    BY <1>1, EvType DEF EventTypes
  <2>7. esc \in Seq(Event)
    BY <2>5, <2>6
  <2>8. BreachEvents(t) = <<e>> \o esc
    BY DEF BreachEvents
  <2> HIDE DEF e, esc
  <2>9. e \in Range(BreachEvents(t))
    <3>1. Range(<<e>> \o esc) = Range(<<e>>) \cup Range(esc)
      BY <2>6, <2>7, RangeFacts
    <3> QED
      BY <2>8, <3>1, RangeFacts
  <2>10. new[t].reopen_count = y.reopens /\ read[t].reopen_count = x.reopens
    BY <1>3 DEF Promised, BreachedRow
  <2> HIDE DEF x, y
  <2>11. /\ Traced(x, y, Range(BreachEvents(t)))
         /\ OwnerTraced(x, y, Range(BreachEvents(t)))
    BY <2>2, <2>3, <2>4, <2>9 DEF Traced, OwnerTraced, SaysBreach
  <2>12. Promised(read[t]) = x /\ Promised(new[t]) = y /\ log[t] = BreachEvents(t)
    BY <1>3 DEF x, y, BreachedRow
  <2> QED
    BY <2>2, <2>10, <2>11, <2>12
<1>5. \A t \in Tickets \ overdue : ~SaysBreach(Range(log[t]))
  BY <1>3, RangeFacts DEF SaysBreach
<1>6. "check_sla_breaches" \in Handlers \ ManyHandlers /\ "check_sla_breaches" # "auto_resolve"
  BY DEF CheckSlaBreaches, CanRun, ManyHandlers
<1> QED
  BY <1>2, <1>3, <1>4, <1>5, <1>6, OpenedTrace

\* The auto-resolve task starts with the rows as it has read them.
LEMMA AutoResolveTrace ==
  ASSUME DeskInv, TraceInv, NEW w \in Slots, AutoResolve(w)
  PROVE  TraceInv'
<1> DEFINE stuck == {t \in Tickets : IsStuck(tickets[t])}
           read  == [t \in Tickets |-> IF t \in stuck THEN tickets[t] ELSE BlankRow]
<1>1. \A t \in Tickets : tickets[t] \in Row
  BY TicketRowType DEF DeskInv
<1>2. Begin(w, Opened("auto_resolve", None, stuck, read, read, NoEvents, stuck))
  BY DEF AutoResolve, Rows, Current
<1>3. stuck \in SUBSET Tickets /\ \A t \in stuck : read[t] = tickets[t]
  OBVIOUS
<1>4. \A t \in Tickets : NoEvents[t] = <<>> /\ ~SaysBreach(Range(NoEvents[t]))
  BY RangeFacts DEF NoEvents, SaysBreach
<1> HIDE DEF read, stuck
<1>5. ASSUME NEW t \in stuck
      PROVE  /\ Traced(Promised(read[t]), Promised(read[t]), Range(NoEvents[t]))
             /\ OwnerTraced(Promised(read[t]), Promised(read[t]), Range(NoEvents[t]))
  BY <1>3, <1>4, TracedSame
<1>6. SetsStatusOnly(stuck, read, read)
  <2> SUFFICES ASSUME NEW t \in stuck
               PROVE  \E x \in Statuses :
                         Promised(read[t]) = [Promised(read[t]) EXCEPT !.status = x]
    BY DEF SetsStatusOnly
  <2>1. read[t].status \in Statuses
    BY <1>1, <1>3, Columns
  <2>2. Promised(read[t]) = [Promised(read[t]) EXCEPT !.status = read[t].status]
    BY DEF Promised
  <2> QED
    BY <2>1, <2>2
<1>7. "auto_resolve" \in Handlers \ ManyHandlers
  BY DEF AutoResolve, CanRun, ManyHandlers
<1>8. \A t \in Tickets \ stuck : ~SaysBreach(Range(NoEvents[t]))
  BY <1>4
<1> QED
  BY <1>2, <1>3, <1>5, <1>6, <1>7, <1>8, OpenedTrace

\* Each ticket the auto-resolve task decides on is logged as resolved.
LEMMA AutoResolveCheckTrace ==
  ASSUME DeskInv, TraceInv, NEW w \in Slots, NEW t \in Tickets, AutoResolveCheck(w, t)
  PROVE  TraceInv'
<1> DEFINE s   == sess[w]
           e   == Ev("resolved", None, "resolved")
           new == [s.new EXCEPT ![t] = AutoResolveTicket(s.new[t])]
           log == [s.log EXCEPT ![t] = <<e>>]
           y   == [s EXCEPT !.todo = @ \ {t}]
           z   == [s EXCEPT !.todo = @ \ {t}, !.new = new, !.log = log]
<1>1. TypeOK /\ s \in Session /\ TraceStaged(s) /\ CountStaged(s) /\ s.op = "auto_resolve"
  BY DEF DeskInv, TypeOK, TraceInv, AutoResolveCheck
<1>2. /\ s.new \in [Tickets -> Row] /\ s.log \in [Tickets -> Seq(Event)]
      /\ s.has \subseteq Tickets
  BY <1>1, Fields
<1>3. Begin(w, y) \/ Begin(w, z)
  BY DEF AutoResolveCheck
<1>4. e.type = "resolved" /\ e.to = "resolved"
  BY DEF Ev
<1>5. Range(<<e>>) = {e}
  BY RangeFacts
<1> HIDE DEF s, e
<1>6. /\ new[t] = AutoResolveTicket(s.new[t]) /\ log[t] = <<e>>
      /\ \A u \in Tickets \ {t} : new[u] = s.new[u] /\ log[u] = s.log[u]
  BY <1>2
<1>7. /\ y.has = s.has /\ y.read = s.read /\ y.new = s.new /\ y.log = s.log /\ y.op = s.op
      /\ z.has = s.has /\ z.read = s.read /\ z.new = new /\ z.log = log /\ z.op = s.op
  <2> HIDE DEF new, log
  <2> QED BY <1>1 DEF Session
<1> HIDE DEF new, log, y, z
<1>8. TraceStaged(y) /\ CountStaged(y)
  BY <1>1, <1>7 DEF TraceStaged, CountStaged, ManyHandlers
<1>9. ASSUME t \in s.has
      PROVE  /\ Traced(Promised(s.read[t]), Promised(new[t]), {e})
             /\ OwnerTraced(Promised(s.read[t]), Promised(new[t]), {e})
             /\ Promised(new[t]) = [Promised(s.read[t]) EXCEPT !.status = "resolved"]
             /\ new[t].reopen_count = s.read[t].reopen_count
  <2> DEFINE r == s.new[t]
  <2>1. PICK x \in Statuses : Promised(r) = [Promised(s.read[t]) EXCEPT !.status = x]
    BY <1>1, <1>9 DEF TraceStaged, SetsStatusOnly
  <2>2. /\ r.assigned_to = s.read[t].assigned_to /\ r.current_queue = s.read[t].current_queue
        /\ r.reopen_count = s.read[t].reopen_count /\ r.sla_breached = s.read[t].sla_breached
    BY <2>1 DEF Promised
  <2>3. r \in Row
    BY <1>2
  <2>4. Promised(new[t]) = Promise("resolved", r.assigned_to, r.current_queue, r.reopen_count,
                                   r.sla_breached)
    BY <1>6, <2>3, SweepEffects
  <2>5. Promised(new[t]) = [Promised(s.read[t]) EXCEPT !.status = "resolved"]
    BY <2>2, <2>4 DEF Promised, Promise
  <2> DEFINE x0 == Promised(s.read[t])
             y0 == Promised(new[t])
  <2>6. /\ y0.status = "resolved" /\ y0.owner = x0.owner /\ y0.queue = x0.queue
        /\ y0.reopens = x0.reopens /\ y0.breached = x0.breached
    BY <2>5 DEF Promised
  <2>7. y0.reopens = new[t].reopen_count /\ x0.reopens = s.read[t].reopen_count
    BY DEF Promised
  <2> HIDE DEF x0, y0
  <2>8. Traced(x0, y0, {e}) /\ OwnerTraced(x0, y0, {e})
    BY <1>4, <2>6 DEF Traced, OwnerTraced, SaysStatus, SaysBreach
  <2> QED
    BY <2>5, <2>6, <2>7, <2>8 DEF x0, y0
<1>10. ASSUME NEW u \in s.has
       PROVE  /\ Traced(Promised(s.read[u]), Promised(new[u]), Range(log[u]))
              /\ OwnerTraced(Promised(s.read[u]), Promised(new[u]), Range(log[u]))
  <2>1. CASE u = t
    BY <1>5, <1>6, <1>9, <2>1
  <2>2. CASE u # t
    <3>1. new[u] = s.new[u] /\ log[u] = s.log[u]
      BY <1>2, <1>6, <2>2
    <3>2. s.op # "bulk_assign"
      BY <1>1
    <3> QED
      BY <1>1, <3>1, <3>2 DEF TraceStaged
  <2> QED
    BY <2>1, <2>2
<1>11. /\ \A u \in z.has : Traced(Promised(z.read[u]), Promised(z.new[u]), Range(z.log[u]))
       /\ \A u \in z.has : OwnerTraced(Promised(z.read[u]), Promised(z.new[u]), Range(z.log[u]))
  BY <1>7, <1>10
<1>12. SetsStatusOnly(z.has, z.read, z.new)
  <2> SUFFICES ASSUME NEW u \in s.has
               PROVE  \E x \in Statuses :
                         Promised(new[u]) = [Promised(s.read[u]) EXCEPT !.status = x]
    BY <1>7 DEF SetsStatusOnly
  <2>1. CASE u = t
    BY <1>9, <2>1 DEF Statuses
  <2>2. CASE u # t
    <3>1. new[u] = s.new[u]
      BY <1>2, <1>6, <2>2
    <3> QED
      BY <1>1, <3>1 DEF TraceStaged, SetsStatusOnly
  <2> QED
    BY <2>1, <2>2
<1>13. \A u \in Tickets \ z.has : ~SaysBreach(Range(z.log[u]))
  <2>1. ~SaysBreach({e})
    BY <1>4 DEF SaysBreach
  <2> QED
    BY <1>1, <1>5, <1>6, <1>7, <2>1 DEF TraceStaged
<1>14. TraceStaged(z)
  BY <1>1, <1>7, <1>11, <1>12, <1>13 DEF TraceStaged, ManyHandlers
<1>15. CountStaged(z)
  BY <1>1, <1>2, <1>6, <1>7, <1>9 DEF CountStaged
<1> QED
  BY <1>3, <1>8, <1>14, <1>15, BeginTrace

\* The archive UPDATE sets a status that needs no event, and nothing else.
LEMMA AutoArchiveTrace ==
  ASSUME DeskInv, TraceInv, NEW w \in Slots, AutoArchive(w)
  PROVE  TraceInv'
<1> DEFINE row(t) == [tickets[t] EXCEPT !.status = "archived", !.updated_at = now]
<1>1. \A t \in Tickets : tickets[t] \in Row
  BY DEF DeskInv, TypeOK
<1>2. PICK old \in SUBSET Tickets :
         /\ tickets' = [t \in Tickets |-> IF t \in old THEN row(t) ELSE tickets[t]]
         /\ UNCHANGED <<now, timeline, pauses, sess>>
  BY DEF AutoArchive
<1>3. ASSUME NEW t \in Tickets
      PROVE  /\ row(t).status = "archived"
             /\ row(t).current_queue = tickets[t].current_queue
             /\ row(t).assigned_to = tickets[t].assigned_to
             /\ row(t).sla_breached = tickets[t].sla_breached
             /\ row(t).reopen_count = tickets[t].reopen_count
  BY <1>1 DEF Row
<1> HIDE DEF row
<1>4. \A t \in Tickets : /\ tickets'[t].status \in {"archived", tickets[t].status}
                         /\ tickets'[t].current_queue = tickets[t].current_queue
                         /\ tickets'[t].assigned_to = tickets[t].assigned_to
                         /\ tickets'[t].sla_breached = tickets[t].sla_breached
                         /\ tickets'[t].reopen_count = tickets[t].reopen_count
  BY <1>2, <1>3
<1>5. timeline' = timeline /\ sess' = sess
  BY <1>2
<1>6. BreachLogged'
  BY <1>4, <1>5 DEF TraceInv, BreachLogged
<1>7. StatusLogged'
  BY <1>4, <1>5 DEF TraceInv, StatusLogged
<1>8. ManagerQueueEarned'
  BY <1>4, <1>5 DEF TraceInv, ManagerQueueEarned
<1>9. ReopensLogged'
  BY <1>4, <1>5 DEF TraceInv, ReopensLogged, Reopens
<1>10. OwnerLogged => OwnerLogged'
  BY <1>4, <1>5 DEF OwnerLogged
<1>11. (\A c \in Slots : TraceStaged(sess[c]))' /\ (\A c \in Slots : CountStaged(sess[c]))'
  BY <1>5 DEF TraceInv, TraceStaged, CountStaged, Reopens
<1> QED
  BY <1>6, <1>7, <1>8, <1>9, <1>10, <1>11 DEF TraceInv

-----------------------------------------------------------------------------
(* The end of a session.                                                    *)

\* What a commit appends is what was staged, and perhaps the primary's "merged".
LEMMA FinalLogTrace ==
  ASSUME NEW s \in Session, NEW t \in Tickets
  PROVE  /\ Range(s.log[t]) \subseteq Range(FinalLog(s)[t])
         /\ SaysBreach(Range(FinalLog(s)[t])) => SaysBreach(Range(s.log[t]))
<1> DEFINE e == [type |-> "merged", actor |-> s.by, to |-> None, at |-> s.at]
<1>1. e \in Event /\ e.type = "merged"
  BY Fields DEF Event, EventTypes
<1>2. <<e>> \in Seq(Event) /\ Range(<<e>>) = {e}
  BY <1>1, RangeFacts
<1>3. s.log \in [Tickets -> Seq(Event)]
  BY Fields
<1> HIDE DEF e
<1>4. ~SaysBreach(Range(<<e>>))
  BY <1>1, <1>2 DEF SaysBreach
<1>5. FinalLog(s) = IF s.op = "merge" THEN Logged(s.log, s.primary, <<e>>) ELSE s.log
  BY DEF FinalLog, e
<1>6. CASE s.op = "merge"
  <2> DEFINE told == Logged(s.log, s.primary, <<e>>)
  <2>1. /\ Range(s.log[t]) \subseteq Range(told[t])
        /\ SaysBreach(Range(told[t])) => SaysBreach(Range(s.log[t]))
    BY <1>2, <1>3, <1>4, LoggedMore
  <2> HIDE DEF told
  <2> QED
    BY <1>5, <1>6, <2>1 DEF told
<1>7. CASE s.op # "merge"
  BY <1>5, <1>7
<1> QED
  BY <1>6, <1>7

\* reopen_count is written like any other column.
LEMMA CountWritten ==
  ASSUME NEW read, NEW new, NEW current, NEW at
  PROVE  UpdateRow(read, new, current, at).reopen_count =
           Written(read.reopen_count, new.reopen_count, current.reopen_count)
  BY DEF UpdateRow

\* The events L tell of the columns of row r.
Told(r, L) ==
  /\ r.sla_breached <=> SaysBreach(L)
  /\ r.status \in TracedStatuses => SaysStatus(L, r.status)
  /\ r.current_queue = "manager" => SaysManager(L)

OwnerTold(r, L) == r.assigned_to # None => SaysOwner(L, r.assigned_to)

\* A column that is written is told by the events of the same commit, one that
\* is not was told before: the row and its timeline after a commit.
LEMMA WrittenTold ==
  ASSUME NEW read \in Row, NEW new \in Row, NEW current \in Row, NEW at, NEW L, NEW E,
         Traced(Promised(read), Promised(new), E),
         NEW row, row = UpdateRow(read, new, current, at)
  PROVE  /\ Told(current, L) => Told(row, L \cup E)
         /\ OwnerTraced(Promised(read), Promised(new), E) /\ OwnerTold(current, L) =>
              OwnerTold(row, L \cup E)
<1>1. /\ row.sla_breached = Written(read.sla_breached, new.sla_breached, current.sla_breached)
      /\ row.status = Written(read.status, new.status, current.status)
      /\ row.current_queue = Written(read.current_queue, new.current_queue, current.current_queue)
      /\ row.assigned_to = Written(read.assigned_to, new.assigned_to, current.assigned_to)
  BY DEF UpdateRow
<1>2. /\ read.sla_breached \in BOOLEAN /\ new.sla_breached \in BOOLEAN
      /\ current.sla_breached \in BOOLEAN
  BY Columns
<1> DEFINE x == Promised(read)
           y == Promised(new)
<1>3. /\ x.status = read.status /\ x.owner = read.assigned_to /\ x.queue = read.current_queue
      /\ x.breached = read.sla_breached
      /\ y.status = new.status /\ y.owner = new.assigned_to /\ y.queue = new.current_queue
      /\ y.breached = new.sla_breached
  BY DEF Promised
<1> HIDE DEF x, y
<1>4. Traced(x, y, E)
  BY DEF x, y
<1>5. ASSUME current.sla_breached <=> SaysBreach(L)
      PROVE  row.sla_breached <=> SaysBreach(L \cup E)
  <2>1. SaysBreach(E) <=> new.sla_breached /\ ~read.sla_breached
    BY <1>3, <1>4 DEF Traced
  <2>2. read.sla_breached => new.sla_breached
    BY <1>3, <1>4 DEF Traced
  <2>3. SaysBreach(L \cup E) <=> SaysBreach(L) \/ SaysBreach(E)
    BY BreachOfUnion
  <2>4. CASE new.sla_breached # read.sla_breached
    BY <1>1, <1>2, <2>1, <2>2, <2>3, <2>4 DEF Written
  <2>5. CASE new.sla_breached = read.sla_breached
    BY <1>1, <1>2, <1>5, <2>1, <2>3, <2>5 DEF Written
  <2> QED
    BY <2>4, <2>5
<1>6. ASSUME current.status \in TracedStatuses => SaysStatus(L, current.status),
             row.status \in TracedStatuses
      PROVE  SaysStatus(L \cup E, row.status)
  <2>1. SaysStatus(L, row.status) \/ SaysStatus(E, row.status)
    BY <1>1, <1>3, <1>4, <1>6 DEF Traced, Written
  <2> QED
    BY <2>1 DEF SaysStatus
<1>7. ASSUME current.current_queue = "manager" => SaysManager(L), row.current_queue = "manager"
      PROVE  SaysManager(L \cup E)
  <2>1. SaysManager(L) \/ SaysManager(E)
    BY <1>1, <1>3, <1>4, <1>7 DEF Traced, Written
  <2> QED
    BY <2>1 DEF SaysManager
<1>8. ASSUME OwnerTraced(x, y, E),
             current.assigned_to # None => SaysOwner(L, current.assigned_to),
             row.assigned_to # None
      PROVE  SaysOwner(L \cup E, row.assigned_to)
  <2>1. SaysOwner(L, row.assigned_to) \/ SaysOwner(E, row.assigned_to)
    BY <1>1, <1>3, <1>8 DEF OwnerTraced, Written
  <2> QED
    BY <2>1 DEF SaysOwner
<1>9. Told(current, L) => Told(row, L \cup E)
  BY <1>5, <1>6, <1>7 DEF Told
<1>10. OwnerTraced(x, y, E) /\ OwnerTold(current, L) => OwnerTold(row, L \cup E)
  BY <1>8 DEF OwnerTold
<1> QED
  BY <1>9, <1>10 DEF x, y

\* A commit leaves every column told by the timeline it leaves.
LEMMA CommitTrace ==
  ASSUME DeskInv, TraceInv, NEW c \in Slots, Commit(c)
  PROVE  TraceInv'
<1> DEFINE s      == sess[c]
           row(t) == UpdateRow(s.read[t], s.new[t], tickets[t], s.at)
           l(t)   == FinalLog(s)[t]
           L(t)   == Range(timeline[t])
           E(t)   == Range(l(t))
<1>1. TypeOK /\ s \in Session /\ TraceStaged(s) /\ CountStaged(s)
  BY DEF DeskInv, TypeOK, TraceInv
<1>2. /\ s.has \subseteq Tickets
      /\ \A t \in Tickets : /\ s.read[t] \in Row /\ s.new[t] \in Row /\ tickets[t] \in Row
                            /\ timeline[t] \in Seq(Event)
  BY <1>1, Fields DEF TypeOK
<1>3. /\ tickets' = [t \in Tickets |-> IF t \in s.has THEN row(t) ELSE tickets[t]]
      /\ timeline' = [t \in Tickets |-> timeline[t] \o l(t)]
      /\ sess' = [sess EXCEPT ![c] = Idle]
  BY DEF Commit
<1>4. \A t \in Tickets : l(t) \in Seq(Event)
  BY <1>1, FinalLogType
<1>5. \A t \in Tickets : /\ Range(s.log[t]) \subseteq E(t)
                         /\ SaysBreach(E(t)) => SaysBreach(Range(s.log[t]))
  BY <1>1, FinalLogTrace
<1> HIDE DEF s
<1>6. \A t \in Tickets : Range(timeline'[t]) = L(t) \cup E(t)
  <2> TAKE t \in Tickets
  <2>1. timeline'[t] = timeline[t] \o l(t)
    BY <1>3
  <2> HIDE DEF l
  <2> QED
    BY <1>2, <1>4, <2>1, RangeFacts
<1> HIDE DEF row, l, L, E
<1>7. \A t \in Tickets : tickets'[t] = IF t \in s.has THEN row(t) ELSE tickets[t]
  BY <1>3
<1>8. ASSUME NEW t \in s.has PROVE Traced(Promised(s.read[t]), Promised(s.new[t]), E(t))
  BY <1>1, <1>2, <1>5, TracedMore DEF TraceStaged
<1>9. \A t \in Tickets \ s.has : ~SaysBreach(E(t))
  BY <1>1, <1>5 DEF TraceStaged
<1>10. \A t \in Tickets : Told(tickets[t], L(t))
  BY LoggedAsSets DEF TraceInv, L, Told
<1>11. ASSUME NEW t \in s.has
       PROVE  /\ t \in Tickets /\ s.read[t] \in Row /\ s.new[t] \in Row /\ tickets[t] \in Row
              /\ tickets'[t] = UpdateRow(s.read[t], s.new[t], tickets[t], s.at)
  BY <1>2, <1>7 DEF row
<1>12. BreachLogged' /\ StatusLogged' /\ ManagerQueueEarned'
  <2>1. ASSUME NEW t \in Tickets PROVE Told(tickets'[t], L(t) \cup E(t))
    <3>1. CASE t \in s.has
      BY <1>8, <1>10, <1>11, <3>1, WrittenTold
    <3>2. CASE t \notin s.has
      <4>1. tickets'[t] = tickets[t] /\ ~SaysBreach(E(t)) /\ L(t) \subseteq L(t) \cup E(t)
        BY <1>7, <1>9, <3>2
      <4>2. SaysBreach(L(t) \cup E(t)) <=> SaysBreach(L(t))
        BY <4>1, BreachOfUnion
      <4> QED
        BY <1>10, <4>1, <4>2, SaysMore DEF Told
    <3> QED
      BY <3>1, <3>2
  <2> QED
    BY <1>6, <2>1, PrimedLogged DEF Told
<1>13. ASSUME "bulk_assign" \notin Handlers PROVE OwnerLogged'
  <2>1. s.op # "bulk_assign"
    BY <1>1, <1>13 DEF TraceStaged
  <2>2. \A t \in Tickets : OwnerTold(tickets[t], L(t))
    BY <1>13, LoggedAsSets DEF TraceInv, L, OwnerTold
  <2>3. ASSUME NEW t \in Tickets PROVE OwnerTold(tickets'[t], L(t) \cup E(t))
    <3>1. CASE t \in s.has
      <4>1. OwnerTraced(Promised(s.read[t]), Promised(s.new[t]), E(t))
        BY <1>1, <1>2, <1>5, <2>1, <3>1, OwnerTracedMore DEF TraceStaged
      <4> QED
        BY <1>8, <1>11, <2>2, <3>1, <4>1, WrittenTold
    <3>2. CASE t \notin s.has
      <4>1. L(t) \subseteq L(t) \cup E(t) /\ tickets'[t] = tickets[t]
        BY <1>7, <3>2
      <4> QED
        BY <2>2, <4>1, SaysMore DEF OwnerTold
    <3> QED
      BY <3>1, <3>2
  <2> QED
    BY <1>6, <2>3, PrimedLogged DEF OwnerTold
<1>14. ASSUME NEW t \in Tickets
       PROVE  /\ Cardinality(Reopens(t)) \in Nat /\ Cardinality(Reopens(t)') \in Nat
              /\ Cardinality(Reopens(t)) <= Cardinality(Reopens(t)')
              /\ SaysReopen(E(t)) => Cardinality(Reopens(t)) + 1 <= Cardinality(Reopens(t)')
  <2>1. timeline'[t] = timeline[t] \o l(t)
    BY <1>3
  <2>2. Reopens(t) = ReopensIn(timeline[t]) /\ Reopens(t)' = ReopensIn(timeline[t] \o l(t))
    BY <2>1 DEF Reopens, ReopensIn
  <2> QED
    BY <1>2, <1>4, <2>2, ReopensGrow DEF E
<1>15. ReopensLogged'
  <2> SUFFICES ASSUME NEW t \in Tickets
               PROVE  tickets'[t].reopen_count <= Cardinality(Reopens(t)')
    BY DEF ReopensLogged
  <2>1. tickets[t].reopen_count <= Cardinality(Reopens(t)) /\ tickets[t].reopen_count \in Nat
    BY <1>2, Columns DEF TraceInv, ReopensLogged
  <2>2. t \in s.has => tickets'[t].reopen_count =
            Written(s.read[t].reopen_count, s.new[t].reopen_count, tickets[t].reopen_count)
    BY <1>11, CountWritten
  <2>3. CASE t \notin s.has \/ s.new[t].reopen_count = s.read[t].reopen_count
    <3>1. tickets'[t].reopen_count = tickets[t].reopen_count
      BY <1>7, <2>3, <2>2 DEF Written
    <3> QED
      BY <1>14, <2>1, <3>1
  <2>4. CASE t \in s.has /\ s.new[t].reopen_count # s.read[t].reopen_count
    <3>1. tickets'[t].reopen_count = s.new[t].reopen_count
      BY <2>4, <2>2 DEF Written
    <3>2. s.new[t].reopen_count = s.read[t].reopen_count + 1 /\ SaysReopen(E(t))
      BY <1>8, <2>4 DEF Traced, Promised
    <3>3. s.read[t].reopen_count <= Cardinality(Reopens(t)) /\ s.read[t].reopen_count \in Nat
      BY <1>1, <1>2, <2>4, Columns DEF CountStaged
    <3> QED
      BY <1>14, <3>1, <3>2, <3>3
  <2> QED
    BY <2>3, <2>4
<1>16. \A d \in Slots : sess'[d] = IF d = c THEN Idle ELSE sess[d]
  BY <1>1, <1>3 DEF TypeOK
<1>17. (\A d \in Slots : TraceStaged(sess[d]))'
  <2>1. \A d \in Slots : TraceStaged(sess'[d])
    BY <1>16, IdleTraced DEF TraceInv
  <2> QED
    BY <2>1 DEF TraceStaged
<1>18. (\A d \in Slots : CountStaged(sess[d]))'
  <2> SUFFICES ASSUME NEW d \in Slots, NEW t \in sess'[d].has,
                      sess'[d].new[t].reopen_count # sess'[d].read[t].reopen_count
               PROVE  sess'[d].read[t].reopen_count <= Cardinality(Reopens(t)')
    BY DEF CountStaged
  <2>1. d # c /\ sess'[d] = sess[d]
    BY <1>16 DEF Idle
  <2>2. /\ sess[d] \in Session /\ CountStaged(sess[d])
        /\ t \in Tickets /\ sess[d].read[t] \in Row
    BY <1>1, <2>1, Fields DEF TypeOK, TraceInv
  <2>3. /\ sess[d].read[t].reopen_count <= Cardinality(Reopens(t))
        /\ sess[d].read[t].reopen_count \in Nat
    BY <2>1, <2>2, Columns DEF CountStaged
  <2> QED
    BY <1>14, <2>1, <2>2, <2>3
<1> QED
  BY <1>12, <1>13, <1>15, <1>17, <1>18 DEF TraceInv

-----------------------------------------------------------------------------
(* The theorems.                                                            *)

\* A created row needs no event but the one that names its owner.
LEMMA InitTrace == Init => TraceInv
<1> SUFFICES ASSUME Init PROVE TraceInv
  OBVIOUS
<1>1. ASSUME NEW r \in CreatedRows
      PROVE  /\ ~r.sla_breached /\ r.status \in {"new", "open"}
             /\ r.current_queue # "manager" /\ r.reopen_count = 0
  BY DEF CreatedRows, PortalRows, EmployeeRequestRow, CallTicketRow, FollowupRows, BlankRow
<1>2. ASSUME NEW t \in Tickets
      PROVE  /\ tickets[t] \in CreatedRows
             /\ timeline[t] = <<CreatedEvent(tickets[t])>>
             /\ timeline[t] \in Seq(Event)
  <2>1. tickets[t] \in CreatedRows
    BY DeskAssumption DEF Init
  <2>2. timeline \in [Tickets -> Seq(Event)]
    BY InitInv DEF DeskInv, TypeOK
  <2> QED
    BY <2>1, <2>2 DEF Init
<1>3. ASSUME NEW t \in Tickets
      PROVE  /\ Told(tickets[t], Range(timeline[t]))
             /\ OwnerTold(tickets[t], Range(timeline[t]))
  <2> DEFINE e == CreatedEvent(tickets[t])
  <2>1. Range(timeline[t]) = {e}
    BY <1>2, RangeFacts
  <2>2. e.type = "ticket_created" /\ e.to = tickets[t].assigned_to
    BY DEF CreatedEvent
  <2> HIDE DEF e
  <2>3. ~SaysBreach({e})
    BY <2>2 DEF SaysBreach
  <2>4. SaysOwner({e}, tickets[t].assigned_to)
    BY <2>2 DEF SaysOwner, OwnerTypes
  <2> QED
    BY <1>1, <1>2, <2>1, <2>3, <2>4 DEF Told, OwnerTold, TracedStatuses
<1>4. BreachLogged /\ StatusLogged /\ ManagerQueueEarned /\ OwnerLogged
  BY <1>3, LoggedAsSets DEF Told, OwnerTold
<1>5. ReopensLogged
  <2> SUFFICES ASSUME NEW t \in Tickets PROVE tickets[t].reopen_count <= Cardinality(Reopens(t))
    BY DEF ReopensLogged
  <2>1. <<>> \in Seq(Event)
    OBVIOUS
  <2>2. Cardinality(ReopensIn(timeline[t])) \in Nat
    BY <1>2, <2>1, ReopensGrow
  <2>3. Reopens(t) = ReopensIn(timeline[t])
    BY DEF Reopens, ReopensIn
  <2> QED
    BY <1>1, <1>2, <2>2, <2>3
<1>6. \A c \in Slots : TraceStaged(sess[c]) /\ CountStaged(sess[c])
  BY IdleTraced DEF Init
<1> QED
  BY <1>4, <1>5, <1>6 DEF TraceInv

\* Every request of an agent keeps the invariant.
LEMMA AgentRequestTrace ==
  ASSUME DeskInv, TraceInv, NEW c \in Slots, NEW a \in Agents, AgentRequest(c, a)
  PROVE  TraceInv'
<1>1. {"resolved", "closed"} \subseteq Statuses
  BY DEF Statuses
<1>2. ASSUME NEW t \in Tickets, NEW s \in Statuses, ChangeStatus(c, a, t, s) PROVE TraceInv'
  BY <1>2, SetStatusTrace DEF ChangeStatus
<1>3. ASSUME NEW t \in Tickets, Resolve(c, a, t) \/ Close(c, a, t) PROVE TraceInv'
  BY <1>1, <1>3, SetStatusTrace DEF Resolve, Close
<1>4. ASSUME NEW t \in Tickets,
             \/ \E type \in {"reply_external", "reply_internal"} : Reply(c, a, t, type)
             \/ \E p \in Priorities : UpdatePriority(c, a, t, p)
             \/ PauseSla(c, a, t)
             \/ ResumeSla(c, a, t)
      PROVE  TraceInv'
  BY <1>4, KeptTrace
<1>5. ASSUME NEW t \in Tickets,
             Claim(c, a, t) \/ (\E b \in Agents : Transfer(c, a, t, b)) \/ Escalate(c, a, t)
      PROVE  TraceInv'
  BY <1>5, ClaimTrace, TransferTrace, EscalateTrace
<1>6. ASSUME NEW t \in Tickets, NEW q \in Queues, ReturnToQueue(c, a, t, q) PROVE TraceInv'
  BY <1>6, ReturnTrace DEF ReturnToQueue
<1>7. ASSUME NEW t \in Tickets, ReturnToEscalator(c, a, t) PROVE TraceInv'
  <2>1. PICK b \in LatestEscalators(t) \ {None} : ReturnTo(c, a, t, b, "main")
    BY <1>7 DEF ReturnToEscalator
  <2>2. b \in Agents
    <3>1. timeline[t] \in Seq(Event)
      BY TicketRowType DEF DeskInv
    <3>2. \A i \in DOMAIN timeline[t] : timeline[t][i] \in Event
      BY <3>1
    <3>3. \A i \in DOMAIN timeline[t] : timeline[t][i].actor \in Agents \cup {None}
      BY <3>2 DEF Event
    <3> QED
      BY <2>1, <3>3 DEF LatestEscalators
  <2> QED
    BY <2>1, <2>2, ReturnTrace
<1>8. ASSUME NEW t \in Tickets, NEW b \in Agents, ReturnToAgent(c, a, t, b) PROVE TraceInv'
  BY <1>8, ReturnTrace DEF ReturnToAgent
<1>9. ASSUME NEW S \in SUBSET Tickets,
             \/ \E p \in Tickets : Merge(c, a, p, S)
             \/ \E b \in Agents : BulkReassign(c, a, S, b)
             \/ \E q \in Queues : BulkMoveToQueue(c, a, S, q)
             \/ \E b \in Agents : BulkAssign(c, a, S, b)
      PROVE  TraceInv'
  BY <1>9, StartManyTrace
<1> QED
  BY <1>2, <1>3, <1>4, <1>5, <1>6, <1>7, <1>8, <1>9, AutoBalanceTrace DEF AgentRequest

\* Every step keeps the invariant.
LEMMA NextTrace == DeskInv /\ TraceInv /\ [Next]_vars => TraceInv'
<1> SUFFICES ASSUME DeskInv, TraceInv, [Next]_vars PROVE TraceInv'
  OBVIOUS
<1>1. Sessions \subseteq Slots /\ Workers \subseteq Slots
  BY DEF Slots
<1>2. ASSUME NEW c \in Sessions, WebStep(c) PROVE TraceInv'
  BY <1>1, <1>2, AgentRequestTrace, CustomerReplyTrace, MergeChildTrace, BulkMoveTrace,
     BulkAssignTrace DEF WebStep
<1>3. ASSUME NEW w \in Workers, WorkerStep(w) PROVE TraceInv'
  BY <1>1, <1>3, BreachTrace, AutoResolveTrace, AutoResolveCheckTrace, AutoArchiveTrace
     DEF WorkerStep
<1>4. ASSUME NEW c \in Slots, Rollback(c) PROVE TraceInv'
  BY <1>4, IdleTraced, BeginTrace DEF Rollback
<1>5. CASE Tick \/ UNCHANGED vars
  <2>1. UNCHANGED <<tickets, timeline, sess>>
    BY <1>5 DEF Tick, vars
  <2>2. BreachLogged' /\ StatusLogged' /\ ManagerQueueEarned' /\ ReopensLogged'
    BY <2>1 DEF TraceInv, BreachLogged, StatusLogged, ManagerQueueEarned, ReopensLogged, Reopens
  <2>3. OwnerLogged => OwnerLogged'
    BY <2>1 DEF OwnerLogged
  <2>4. (\A c \in Slots : TraceStaged(sess[c]))' /\ (\A c \in Slots : CountStaged(sess[c]))'
    BY <2>1 DEF TraceInv, TraceStaged, CountStaged, Reopens
  <2> QED
    BY <2>2, <2>3, <2>4 DEF TraceInv
<1> QED
  BY <1>2, <1>3, <1>4, <1>5, CommitTrace DEF Next

\* Both invariants hold of every reachable state.
LEMMA AlwaysTraced == Spec => [](DeskInv /\ TraceInv)
<1>1. Init => DeskInv /\ TraceInv
  BY InitInv, InitTrace
<1>2. (DeskInv /\ TraceInv) /\ [Next]_vars => (DeskInv /\ TraceInv)'
  BY NextInv, NextTrace
<1> QED
  BY <1>1, <1>2, PTL DEF Spec

\* However requests, sweeps and commits interleave, a ticket carries the breach
\* flag exactly when its timeline tells of a breach: no concurrent UPDATE loses
\* the flag the sweep has set, and no sweep logs a breach it does not flag
\* (check_sla_breaches_async).
THEOREM BreachesAreLogged == Spec => []BreachLogged
<1>1. DeskInv /\ TraceInv => BreachLogged
  BY DEF TraceInv
<1> QED
  BY <1>1, AlwaysTraced, PTL

\* No ticket waits, is resolved or is closed without an event that says so,
\* whichever of the transactions that raced for it wrote the status last.
THEOREM StatusesAreLogged == Spec => []StatusLogged
<1>1. DeskInv /\ TraceInv => StatusLogged
  BY DEF TraceInv
<1> QED
  BY <1>1, AlwaysTraced, PTL

\* Employees cannot bypass supervisors: whatever races, a ticket is in the
\* manager queue only after a supervisor, a manager or an administrator put it
\* there (escalate_ticket, bulk_move_to_queue).
THEOREM ManagersAreAsked == Spec => []ManagerQueueEarned
<1>1. DeskInv /\ TraceInv => ManagerQueueEarned
  BY DEF TraceInv
<1> QED
  BY <1>1, AlwaysTraced, PTL

\* No reopen is counted twice, even when two requests reopen the same ticket at
\* the same time: reopen_count never exceeds the reopens of the timeline
\* (change_ticket_status).
THEOREM ReopensAreLogged == Spec => []ReopensLogged
<1>1. DeskInv /\ TraceInv => ReopensLogged
  BY DEF TraceInv
<1> QED
  BY <1>1, AlwaysTraced, PTL

\* Where the supervisor page's bulk assign does not run, nobody owns a ticket
\* that no event of its timeline gave him, however many claims, transfers and
\* returns race for it; that handler is the one that logs nothing.
THEOREM OwnersAreLogged == "bulk_assign" \notin Handlers /\ Spec => []OwnerLogged
<1> SUFFICES ASSUME "bulk_assign" \notin Handlers PROVE Spec => []OwnerLogged
  OBVIOUS
<1>1. DeskInv /\ TraceInv => OwnerLogged
  BY DEF TraceInv
<1> QED
  BY <1>1, AlwaysTraced, PTL
=============================================================================
