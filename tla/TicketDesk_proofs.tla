-------------------------- MODULE TicketDesk_proofs --------------------------
(***************************************************************************)
(* Proofs about TicketDesk, for any number of tickets, agents, sessions and *)
(* workers and whatever order they commit in.                               *)
(***************************************************************************)
EXTENDS TicketDeskProps, FiniteSetTheorems, SequenceTheorems, TLAPS

-----------------------------------------------------------------------------
(* Rows: what a handler computes from a row is a row, and which handlers    *)
(* leave the pause column alone.                                            *)

\* Assigning one column of a row keeps it a row and the other columns as they are.
LEMMA SetColumn ==
  ASSUME NEW r \in Row
  PROVE  /\ \A s \in Statuses : [r EXCEPT !.status = s] \in Row
         /\ \A q \in Queues : [r EXCEPT !.current_queue = q] \in Row
         /\ \A d \in Depts \cup {None} : [r EXCEPT !.sub_queue_dept_id = d] \in Row
         /\ \A a \in Agents \cup {None} : [r EXCEPT !.assigned_to = a] \in Row
         /\ \A p \in Tickets \cup {None} : [r EXCEPT !.parent_ticket_id = p] \in Row
         /\ \A p \in Priorities : [r EXCEPT !.priority = p] \in Row
         /\ \A d \in Time : [r EXCEPT !.sla_deadline = d] \in Row
         /\ \A d \in Time : [r EXCEPT !.sla_paused_at = d] \in Row
         /\ \A b \in BOOLEAN : [r EXCEPT !.sla_breached = b] \in Row
         /\ \A n \in Nat : [r EXCEPT !.reopen_count = n] \in Row
         /\ \A n \in Nat : [r EXCEPT !.work_time_seconds = n] \in Row
         /\ \A d \in Time : [r EXCEPT !.last_opened_at = d] \in Row
         /\ \A n \in Nat : [r EXCEPT !.updated_at = n] \in Row
         /\ \A n \in Nat : [r EXCEPT !.version = n] \in Row
  BY DEF Row

\* The columns of a row have the types of the table.
LEMMA Columns ==
  ASSUME NEW r \in Row
  PROVE  /\ r.status \in Statuses /\ r.current_queue \in Queues
         /\ r.sub_queue_dept_id \in Depts \cup {None}
         /\ r.assigned_to \in Agents \cup {None}
         /\ r.parent_ticket_id \in Tickets \cup {None}
         /\ r.priority \in Priorities /\ r.sla_deadline \in Time /\ r.sla_paused_at \in Time
         /\ r.sla_breached \in BOOLEAN /\ r.reopen_count \in Nat
         /\ r.work_time_seconds \in Nat /\ r.last_opened_at \in Time
         /\ r.updated_at \in Nat /\ r.version \in Nat
  BY DEF Row

\* The row the creation paths start from is a row.
LEMMA BlankRowType == BlankRow \in Row
  BY DEF BlankRow, Row, Statuses, Queues, Priorities, Time

\* So is every row the creation paths insert.
LEMMA CreatedRowsType == CreatedRows \subseteq Row
<1>1. [BlankRow EXCEPT !.sla_deadline = SlaBudget] \in Row
  BY SetColumn, BlankRowType, BudgetAssumption DEF Time
<1> DEFINE main == [BlankRow EXCEPT !.sla_deadline = SlaBudget]
<1>2. PortalRows \subseteq Row
  <2>1. ASSUME NEW d \in Depts
        PROVE  [main EXCEPT !.current_queue = "specialized", !.sub_queue_dept_id = d] \in Row
    <3> HIDE DEF main
    <3> QED BY <1>1, SetColumn DEF Queues, main
  <2> QED BY <1>1, <2>1 DEF PortalRows
<1>3. EmployeeRequestRow \in Row /\ CallTicketRow \in Row
  BY BlankRowType, SetColumn DEF EmployeeRequestRow, CallTicketRow, Queues
<1>4. FollowupRows \subseteq Row
  <2>1. ASSUME NEW a \in Agents
        PROVE  [CallTicketRow EXCEPT !.status = "open", !.assigned_to = a] \in Row
    BY <1>3, SetColumn DEF Statuses
  <2> QED BY <2>1 DEF FollowupRows
<1> QED
  BY <1>2, <1>3, <1>4 DEF CreatedRows

\* y is a row whose pause and deadline columns are those of r.
SameClock(r, y)  == y.sla_paused_at = r.sla_paused_at /\ y.sla_deadline = r.sla_deadline
KeepsPause(r, y) == y \in Row /\ SameClock(r, y)

\* Adding the open stretch of work time yields a row (_accumulate_work_time).
LEMMA AccumulateType ==
  ASSUME NEW r \in Row, NEW at \in Nat
  PROVE  KeepsPause(r, AccumulateWorkTime(r, at))
<1> DEFINE spent == IF r.last_opened_at # None /\ at > r.last_opened_at
                    THEN r.work_time_seconds + (at - r.last_opened_at)
                    ELSE r.work_time_seconds
<1>1. spent \in Nat
  BY Columns DEF Time
<1>2. AccumulateWorkTime(r, at) = [r EXCEPT !.work_time_seconds = spent, !.last_opened_at = None]
  BY DEF AccumulateWorkTime
<1>3. [r EXCEPT !.work_time_seconds = spent, !.last_opened_at = None] \in Row
  <2> HIDE DEF spent
  <2> QED BY <1>1, SetColumn DEF Time
<1>4. SameClock(r, [r EXCEPT !.work_time_seconds = spent, !.last_opened_at = None])
  <2> HIDE DEF spent
  <2> QED BY DEF Row, SameClock
<1> QED
  BY <1>2, <1>3, <1>4 DEF KeepsPause

\* A status change yields a row and leaves the pause column alone.
LEMMA ChangeStatusType ==
  ASSUME NEW r \in Row, NEW target \in Statuses, NEW at \in Nat
  PROVE  KeepsPause(r, ChangeTicketStatus(r, target, at))
<1> DEFINE timed   == IF r.status = "open" THEN AccumulateWorkTime(r, at) ELSE r
           clocked == IF target = "open" THEN [timed EXCEPT !.last_opened_at = at] ELSE timed
           moved   == [clocked EXCEPT !.status = target, !.version = @ + 1]
           counted == [moved EXCEPT !.reopen_count = @ + 1]
<1>1. KeepsPause(r, timed)
  BY AccumulateType DEF KeepsPause, SameClock
<1>2. KeepsPause(r, clocked)
  <2> HIDE DEF timed
  <2>1. [timed EXCEPT !.last_opened_at = at] \in Row
    BY <1>1, SetColumn DEF KeepsPause, Time
  <2>2. SameClock(timed, [timed EXCEPT !.last_opened_at = at])
    BY <1>1 DEF KeepsPause, SameClock, Row
  <2> QED BY <1>1, <2>1, <2>2 DEF KeepsPause, SameClock
<1>3. KeepsPause(r, moved)
  <2> HIDE DEF clocked
  <2>1. moved \in Row
    <3>1. \A v \in Nat : [clocked EXCEPT !.status = target, !.version = v] \in Row
      BY <1>2, SetColumn DEF KeepsPause
    <3>2. clocked.version + 1 \in Nat
      BY <1>2, Columns DEF KeepsPause
    <3> QED BY <3>1, <3>2
  <2>2. SameClock(clocked, moved)
    BY <1>2 DEF KeepsPause, SameClock, Row
  <2> QED BY <1>2, <2>1, <2>2 DEF KeepsPause, SameClock
<1>4. KeepsPause(r, counted)
  <2> HIDE DEF moved
  <2>1. counted \in Row
    BY <1>3, Columns, SetColumn DEF KeepsPause
  <2>2. SameClock(moved, counted)
    BY <1>3 DEF KeepsPause, SameClock, Row
  <2> QED BY <1>3, <2>1, <2>2 DEF KeepsPause, SameClock
<1>5. KeepsPause(r, CheckAutoEscalation(counted))
  <2> HIDE DEF counted
  <2>1. [counted EXCEPT !.current_queue = "supervisor"] \in Row
    BY <1>4, SetColumn DEF KeepsPause, Queues
  <2>2. SameClock(counted, [counted EXCEPT !.current_queue = "supervisor"])
    BY <1>4 DEF KeepsPause, SameClock, Row
  <2> QED BY <1>4, <2>1, <2>2 DEF KeepsPause, SameClock, CheckAutoEscalation
<1> QED
  BY <1>3, <1>5 DEF ChangeTicketStatus

\* So do claim, balance, bulk assign and transfer.
LEMMA AssignmentTypes ==
  ASSUME NEW r \in Row, NEW a \in Agents, NEW at \in Nat
  PROVE  /\ KeepsPause(r, ClaimTicket(r, a, at))
         /\ KeepsPause(r, BalanceTicket(r, a, at))
         /\ KeepsPause(r, TransferTicket(r, a))
         /\ KeepsPause(r, EscalateTicket(r, a))
<1>1. KeepsPause(r, ClaimTicket(r, a, at))
  <2>1. ClaimTicket(r, a, at) \in Row
    BY SetColumn DEF ClaimTicket, Statuses, Time
  <2> QED BY <2>1 DEF ClaimTicket, KeepsPause, SameClock, Row
<1>2. KeepsPause(r, BalanceTicket(r, a, at))
  <2>1. BalanceTicket(r, a, at) \in Row
    BY SetColumn DEF BalanceTicket, Statuses, Time
  <2> QED BY <2>1 DEF BalanceTicket, KeepsPause, SameClock, Row
<1>3. KeepsPause(r, TransferTicket(r, a))
  <2>1. TransferTicket(r, a) \in Row
    <3>1. \A v \in Nat : [r EXCEPT !.assigned_to = a, !.version = v] \in Row
      BY SetColumn
    <3>2. r.version + 1 \in Nat
      BY Columns
    <3> QED BY <3>1, <3>2 DEF TransferTicket
  <2> QED BY <2>1 DEF TransferTicket, KeepsPause, SameClock, Row
<1>4. KeepsPause(r, EscalateTicket(r, a))
  <2>1. EscalateTicket(r, a) \in Row
    <3>1. \A v \in Nat, q \in Queues : [r EXCEPT !.current_queue = q, !.version = v] \in Row
      BY SetColumn
    <3>2. EscalationTarget(a) \in Queues
      BY DEF EscalationTarget, Queues
    <3>3. r.version + 1 \in Nat
      BY Columns
    <3> QED BY <3>1, <3>2, <3>3 DEF EscalateTicket
  <2> QED BY <2>1 DEF EscalateTicket, KeepsPause, SameClock, Row
<1> QED
  BY <1>1, <1>2, <1>3, <1>4

\* So do escalation, return, bulk move and merge.
LEMMA MoveTypes ==
  ASSUME NEW r \in Row, NEW owner \in Agents \cup {None}, NEW queue \in Queues,
         NEW at \in Nat, NEW p \in Tickets \cup {None}
  PROVE  /\ KeepsPause(r, ReturnTicket(r, owner, queue, at))
         /\ KeepsPause(r, BulkMoveTicket(r, owner, queue))
         /\ KeepsPause(r, BulkAssignTicket(r, owner))
         /\ KeepsPause(r, MergeTicket(r, p))
<1> DEFINE moved == [r EXCEPT !.assigned_to = owner, !.current_queue = queue,
                              !.version = @ + 1]
<1>1. KeepsPause(r, moved)
  <2>1. moved \in Row
    <3>1. \A v \in Nat : [r EXCEPT !.assigned_to = owner, !.current_queue = queue,
                                     !.version = v] \in Row
      BY SetColumn
    <3>2. r.version + 1 \in Nat
      BY Columns
    <3> QED BY <3>1, <3>2
  <2> QED BY <2>1 DEF KeepsPause, SameClock, Row
<1>2. KeepsPause(r, [moved EXCEPT !.status = "open", !.last_opened_at = at])
  <2> HIDE DEF moved
  <2>1. [moved EXCEPT !.status = "open", !.last_opened_at = at] \in Row
    BY <1>1, SetColumn DEF KeepsPause, Statuses, Time
  <2>2. SameClock(moved, [moved EXCEPT !.status = "open", !.last_opened_at = at])
    BY <1>1 DEF KeepsPause, SameClock, Row
  <2> QED BY <1>1, <2>1, <2>2 DEF KeepsPause, SameClock
<1>3. KeepsPause(r, MergeTicket(r, p))
  <2>1. MergeTicket(r, p) \in Row
    BY SetColumn DEF MergeTicket, Statuses
  <2> QED BY <2>1 DEF MergeTicket, KeepsPause, SameClock, Row
<1>4. KeepsPause(r, BulkAssignTicket(r, owner))
  <2>1. BulkAssignTicket(r, owner) \in Row
    BY SetColumn, Columns DEF BulkAssignTicket, Statuses
  <2> QED BY <2>1 DEF BulkAssignTicket, KeepsPause, SameClock, Row
<1> QED
  BY <1>1, <1>2, <1>3, <1>4 DEF ReturnTicket, BulkMoveTicket

\* So do the customer's reply, the breach flag and the auto-resolve.
LEMMA SweepAndReplyTypes ==
  ASSUME NEW r \in Row, NEW at \in Nat
  PROVE  /\ KeepsPause(r, CustomerReplyTicket(r, at))
         /\ KeepsPause(r, BreachTicket(r))
         /\ KeepsPause(r, AutoResolveTicket(r))
         /\ KeepsPause(r, [r EXCEPT !.version = @ + 1])
         /\ \A p \in Priorities :
                KeepsPause(r, [r EXCEPT !.priority = p, !.version = @ + 1])
<1>1. KeepsPause(r, CustomerReplyTicket(r, at))
  <2>1. CustomerReplyTicket(r, at) \in Row
    BY SetColumn DEF CustomerReplyTicket, Statuses, Time
  <2> QED BY <2>1 DEF CustomerReplyTicket, KeepsPause, SameClock, Row
<1>2. KeepsPause(r, BreachTicket(r))
  <2>1. BreachTicket(r) \in Row
    BY SetColumn, Columns DEF BreachTicket, Queues
  <2> QED BY <2>1 DEF BreachTicket, KeepsPause, SameClock, Row
<1>3. KeepsPause(r, AutoResolveTicket(r))
  <2>1. AutoResolveTicket(r) \in Row
    BY SetColumn DEF AutoResolveTicket, Statuses
  <2> QED BY <2>1 DEF AutoResolveTicket, KeepsPause, SameClock, Row
<1>4. KeepsPause(r, [r EXCEPT !.version = @ + 1])
  <2>1. [r EXCEPT !.version = @ + 1] \in Row
    BY SetColumn, Columns
  <2> QED BY <2>1 DEF KeepsPause, SameClock, Row
<1>5. ASSUME NEW p \in Priorities
      PROVE  KeepsPause(r, [r EXCEPT !.priority = p, !.version = @ + 1])
  <2>1. [r EXCEPT !.priority = p, !.version = @ + 1] \in Row
    <3>1. \A v \in Nat : [r EXCEPT !.priority = p, !.version = v] \in Row
      BY SetColumn
    <3>2. r.version + 1 \in Nat
      BY Columns
    <3> QED BY <3>1, <3>2
  <2> QED BY <2>1 DEF KeepsPause, SameClock, Row
<1> QED
  BY <1>1, <1>2, <1>3, <1>4, <1>5

\* The deadline of r when its pause ends at "at".
Extended(r, at) ==
  IF r.sla_deadline = None THEN None ELSE r.sla_deadline + (at - r.sla_paused_at)

\* Pause and resume yield rows: paused from now on, or no longer paused.
LEMMA PauseTypes ==
  ASSUME NEW r \in Row, NEW at \in Nat
  PROVE  /\ PauseTicket(r, at) \in Row
         /\ PauseTicket(r, at).sla_paused_at = at
         /\ r.sla_paused_at # None /\ at > r.sla_paused_at => ResumeTicket(r, at) \in Row
         /\ ResumeTicket(r, at).sla_paused_at = None
         /\ PauseTicket(r, at).sla_deadline = r.sla_deadline
         /\ ResumeTicket(r, at).sla_deadline = Extended(r, at)
<1>1. PauseTicket(r, at) \in Row
  BY SetColumn DEF PauseTicket, Time
<1>2. /\ PauseTicket(r, at).sla_paused_at = at /\ ResumeTicket(r, at).sla_paused_at = None
      /\ PauseTicket(r, at).sla_deadline = r.sla_deadline
      /\ ResumeTicket(r, at).sla_deadline = Extended(r, at)
  BY DEF PauseTicket, ResumeTicket, Row, Extended
<1>3. ASSUME r.sla_paused_at # None, at > r.sla_paused_at
      PROVE  ResumeTicket(r, at) \in Row
  <2> DEFINE deadline == IF r.sla_deadline = None THEN None
                         ELSE r.sla_deadline + (at - r.sla_paused_at)
  <2>1. deadline \in Time
    BY <1>3, Columns DEF Time
  <2>2. ResumeTicket(r, at) = [r EXCEPT !.sla_deadline = deadline, !.sla_paused_at = None]
    BY DEF ResumeTicket
  <2>3. None \in Time
    BY DEF Time
  <2>4. \A d \in Time : [r EXCEPT !.sla_deadline = d, !.sla_paused_at = None] \in Row
    BY <2>3, SetColumn
  <2> HIDE DEF deadline
  <2> QED BY <2>1, <2>2, <2>4
<1> QED
  BY <1>1, <1>2, <1>3

\* What an UPDATE leaves of two reads and a current row is a row.
LEMMA UpdateRowType ==
  ASSUME NEW read \in Row, NEW new \in Row, NEW current \in Row, NEW at \in Nat
  PROVE  /\ UpdateRow(read, new, current, at) \in Row
         /\ UpdateRow(read, new, current, at).sla_paused_at
               = Written(read.sla_paused_at, new.sla_paused_at, current.sla_paused_at)
  BY Columns DEF UpdateRow, Written, Row

-----------------------------------------------------------------------------
(* Sessions: what a handler stages is well typed and keeps the pause rows.  *)

\* Assigning one field of a session keeps it a session and the others as they are.
LEMMA SetField ==
  ASSUME NEW s \in Session
  PROVE  /\ \A x \in AllHandlers \cup {"idle"} : [s EXCEPT !.op = x] \in Session
         /\ \A x \in Agents \cup {None} : [s EXCEPT !.by = x] \in Session
         /\ \A x \in Nat : [s EXCEPT !.at = x] \in Session
         /\ \A x \in SUBSET Tickets : [s EXCEPT !.has = x] \in Session
         /\ \A x \in [Tickets -> Row] : [s EXCEPT !.read = x] \in Session
         /\ \A x \in [Tickets -> Row] : [s EXCEPT !.new = x] \in Session
         /\ \A x \in [Tickets -> Seq(Event)] : [s EXCEPT !.log = x] \in Session
         /\ \A x \in Tickets \cup {None} : [s EXCEPT !.ins = x] \in Session
         /\ \A x \in (Tickets \X Nat) \cup {None} : [s EXCEPT !.upd = x] \in Session
         /\ \A x \in SUBSET Tickets : [s EXCEPT !.todo = x] \in Session
         /\ \A x \in Agents \cup {None} : [s EXCEPT !.owner = x] \in Session
         /\ \A x \in Queues : [s EXCEPT !.queue = x] \in Session
         /\ \A x \in Tickets \cup {None} : [s EXCEPT !.primary = x] \in Session
<1>1. ASSUME NEW x \in AllHandlers \cup {"idle"} PROVE [s EXCEPT !.op = x] \in Session
  BY DEF Session
<1>2. ASSUME NEW x \in Agents \cup {None} PROVE [s EXCEPT !.by = x] \in Session
  BY DEF Session
<1>3. ASSUME NEW x \in Nat PROVE [s EXCEPT !.at = x] \in Session
  BY DEF Session
<1>4. ASSUME NEW x \in SUBSET Tickets PROVE [s EXCEPT !.has = x] \in Session
  BY DEF Session
<1>5. ASSUME NEW x \in [Tickets -> Row] PROVE [s EXCEPT !.read = x] \in Session
  BY DEF Session
<1>6. ASSUME NEW x \in [Tickets -> Row] PROVE [s EXCEPT !.new = x] \in Session
  BY DEF Session
<1>7. ASSUME NEW x \in [Tickets -> Seq(Event)] PROVE [s EXCEPT !.log = x] \in Session
  BY DEF Session
<1>8. ASSUME NEW x \in Tickets \cup {None} PROVE [s EXCEPT !.ins = x] \in Session
  BY DEF Session
<1>9. ASSUME NEW x \in (Tickets \X Nat) \cup {None} PROVE [s EXCEPT !.upd = x] \in Session
  BY DEF Session
<1>10. ASSUME NEW x \in SUBSET Tickets PROVE [s EXCEPT !.todo = x] \in Session
  BY DEF Session
<1>11. ASSUME NEW x \in Agents \cup {None} PROVE [s EXCEPT !.owner = x] \in Session
  BY DEF Session
<1>12. ASSUME NEW x \in Queues PROVE [s EXCEPT !.queue = x] \in Session
  BY DEF Session
<1>13. ASSUME NEW x \in Tickets \cup {None} PROVE [s EXCEPT !.primary = x] \in Session
  BY DEF Session
<1> QED
  BY <1>1, <1>2, <1>3, <1>4, <1>5, <1>6, <1>7, <1>8, <1>9, <1>10, <1>11, <1>12, <1>13

\* The fields of a session have their types.
LEMMA Fields ==
  ASSUME NEW s \in Session
  PROVE  /\ s.op \in AllHandlers \cup {"idle"} /\ s.by \in Agents \cup {None}
         /\ s.at \in Nat /\ s.has \in SUBSET Tickets
         /\ s.read \in [Tickets -> Row] /\ s.new \in [Tickets -> Row]
         /\ s.log \in [Tickets -> Seq(Event)] /\ s.ins \in Tickets \cup {None}
         /\ s.upd \in (Tickets \X Nat) \cup {None} /\ s.todo \in SUBSET Tickets
         /\ s.owner \in Agents \cup {None} /\ s.queue \in Queues
         /\ s.primary \in Tickets \cup {None}
  BY DEF Session

\* The idle session, its empty rows and its empty log are well typed.
LEMMA IdleType == Idle \in Session /\ NoRows \in [Tickets -> Row] /\ NoEvents \in [Tickets -> Seq(Event)]
<1>1. NoRows \in [Tickets -> Row] /\ NoEvents \in [Tickets -> Seq(Event)]
  BY BlankRowType DEF NoRows, NoEvents
<1>2. "main" \in Queues
  BY DEF Queues
<1> QED BY <1>1, <1>2 DEF Idle, Session

\* The handlers that write the pause and deadline columns.
ClockHandlers == {"pause_sla", "resume_sla"}

\* What they stage, and that the others leave the columns and pause rows alone.
ClockStaged(s) ==
  /\ s.op \notin ClockHandlers =>
        /\ s.ins = None /\ s.upd = None
        /\ \A t \in s.has : SameClock(s.read[t], s.new[t])
  /\ s.op = "pause_sla" => \E t \in Tickets :
        /\ s.has = {t} /\ s.ins = t /\ s.upd = None
        /\ s.read[t].sla_paused_at = None
        /\ s.new[t].sla_paused_at = s.at
        /\ s.new[t].sla_deadline = s.read[t].sla_deadline
  /\ s.op = "resume_sla" => \E t \in Tickets :
        /\ s.has = {t} /\ s.ins = None /\ (s.upd # None => s.upd[1] = t)
        /\ s.read[t].sla_paused_at # None /\ s.at > s.read[t].sla_paused_at
        /\ s.new[t].sla_paused_at = None
        /\ s.new[t].sla_deadline = Extended(s.read[t], s.at)

\* What keeps PausedHasOpenRow at the commit of s: a row that becomes paused
\* comes with its pause row, and a pause row is closed only for a row that
\* stops being paused.
PauseStaged(s) ==
  /\ ClockStaged(s)
  /\ \A t \in s.has :
        s.new[t].sla_paused_at \notin {None, s.read[t].sla_paused_at} => s.ins = t
  /\ s.upd # None =>
        /\ s.op = "resume_sla"
        /\ s.upd[1] \in s.has
        /\ s.read[s.upd[1]].sla_paused_at # None
        /\ s.new[s.upd[1]].sla_paused_at = None

Sound(s) == s \in Session /\ PauseStaged(s)

\* An idle session stages nothing that could disturb a pause.
LEMMA IdleSound == Sound(Idle)
  BY IdleType DEF Sound, PauseStaged, ClockStaged, ClockHandlers, Idle

\* A session opened on well-typed rows and events is well typed.
LEMMA OpenedType ==
  ASSUME TypeOK, NEW op \in AllHandlers, NEW a \in Agents \cup {None},
         NEW has \in SUBSET Tickets, NEW read \in [Tickets -> Row],
         NEW new \in [Tickets -> Row], NEW log \in [Tickets -> Seq(Event)],
         NEW todo \in SUBSET Tickets
  PROVE  Opened(op, a, has, read, new, log, todo) \in Session
<1>1. "main" \in Queues
  BY DEF Queues
<1> QED
  BY <1>1 DEF Opened, Session, TypeOK

\* So is one that has staged a single ticket.
LEMMA StagedType ==
  ASSUME TypeOK, NEW op \in AllHandlers, NEW a \in Agents \cup {None}, NEW t \in Tickets,
         NEW row \in Row, NEW events \in Seq(Event)
  PROVE  /\ Staged(op, a, t, row, events) \in Session
         /\ Staged(op, a, t, row, events).has = {t}
         /\ Staged(op, a, t, row, events).read[t] = tickets[t]
         /\ Staged(op, a, t, row, events).new[t] = row
         /\ Staged(op, a, t, row, events).upd = None
         /\ Staged(op, a, t, row, events).ins = None
         /\ Staged(op, a, t, row, events).op = op
         /\ Staged(op, a, t, row, events).at = now
<1>1. /\ [NoRows EXCEPT ![t] = tickets[t]] \in [Tickets -> Row]
      /\ [NoRows EXCEPT ![t] = row] \in [Tickets -> Row]
      /\ [NoEvents EXCEPT ![t] = events] \in [Tickets -> Seq(Event)]
      /\ [NoRows EXCEPT ![t] = tickets[t]][t] = tickets[t]
      /\ [NoRows EXCEPT ![t] = row][t] = row
  BY IdleType DEF TypeOK
<1>2. Staged(op, a, t, row, events) \in Session
  BY <1>1, OpenedType DEF Staged
<1> QED
  BY <1>1, <1>2 DEF Staged, Opened

\* A session that leaves the pause column of its ticket alone is sound.
LEMMA StagedSound ==
  ASSUME TypeOK, NEW op \in AllHandlers, op \notin ClockHandlers,
         NEW a \in Agents \cup {None}, NEW t \in Tickets,
         NEW row, KeepsPause(tickets[t], row), NEW events \in Seq(Event)
  PROVE  Sound(Staged(op, a, t, row, events))
<1>1. row \in Row
  BY DEF KeepsPause
<1>2. SameClock(tickets[t], row)
  BY DEF KeepsPause
<1> DEFINE s == Staged(op, a, t, row, events)
<1>3. /\ s \in Session /\ s.has = {t} /\ s.upd = None /\ s.ins = None /\ s.op = op
      /\ s.read[t] = tickets[t] /\ s.new[t] = row
  <2>1. s.op = op
    BY DEF Staged, Opened
  <2>2. /\ s \in Session /\ s.has = {t} /\ s.upd = None /\ s.ins = None
        /\ s.read[t] = tickets[t] /\ s.new[t] = row
    BY <1>1, StagedType
  <2> QED
    BY <2>1, <2>2
<1> HIDE DEF s
<1>4. ClockStaged(s)
  BY <1>2, <1>3 DEF ClockStaged, ClockHandlers
<1>5. Sound(s)
  BY <1>2, <1>3, <1>4 DEF Sound, PauseStaged, SameClock
<1> QED
  BY <1>5 DEF s

\* An event stamped with the clock is an event.
LEMMA EvType ==
  ASSUME TypeOK, NEW type \in EventTypes, NEW actor \in Agents \cup {None},
         NEW to \in Agents \cup Statuses \cup Queues \cup {None}
  PROVE  Ev(type, actor, to) \in Event /\ <<Ev(type, actor, to)>> \in Seq(Event)
<1>1. Ev(type, actor, to) \in Event
  BY DEF Ev, Event, TypeOK
<1> QED
  BY <1>1

-----------------------------------------------------------------------------
(* The inductive invariant.                                                 *)

DeskInv ==
  /\ TypeOK
  /\ PausedHasOpenRow
  /\ \A c \in Slots : PauseStaged(sess[c])

\* Replacing one session by a sound one keeps the invariant: Begin writes no table.
LEMMA BeginInv ==
  ASSUME DeskInv, NEW c \in Slots, NEW s, Sound(s), Begin(c, s)
  PROVE  DeskInv'
<1>1. s \in Session
  BY DEF Sound
<1>2. PauseStaged(s)
  BY DEF Sound
<1>3. sess' = [sess EXCEPT ![c] = s] /\ UNCHANGED <<now, tickets, timeline, pauses>>
  BY DEF Begin
<1>4. TypeOK'
  BY <1>1, <1>3 DEF DeskInv, TypeOK
<1>5. PausedHasOpenRow'
  BY <1>3 DEF DeskInv, PausedHasOpenRow, OpenPauses
<1>6. \A d \in Slots : PauseStaged(sess'[d])
  <2> TAKE d \in Slots
  <2>1. sess'[d] = IF d = c THEN s ELSE sess[d]
    BY <1>3 DEF DeskInv, TypeOK
  <2> QED
    BY <2>1, <1>2 DEF DeskInv
<1> QED
  BY <1>4, <1>5, <1>6 DEF DeskInv, PauseStaged, ClockStaged, SameClock, Extended

\* The handlers of one ticket that leave the pause column alone.
LEMMA StagedInv ==
  ASSUME DeskInv, NEW c \in Slots, NEW op \in AllHandlers \ ClockHandlers,
         NEW a \in Agents \cup {None},
         NEW t \in Tickets, NEW row, KeepsPause(tickets[t], row), NEW events \in Seq(Event),
         Begin(c, Staged(op, a, t, row, events))
  PROVE  DeskInv'
<1>1. TypeOK
  BY DEF DeskInv
<1>2. Sound(Staged(op, a, t, row, events))
  BY <1>1, StagedSound
<1> QED
  BY <1>2, BeginInv

\* The events of a status change are events.
LEMMA StatusEventsType ==
  ASSUME TypeOK, NEW r \in Row, NEW target \in Statuses, NEW a \in Agents
  PROVE  StatusEvents(r, target, a) \in Seq(Event)
<1>1. <<Ev("escalated", a, "supervisor")>> \in Seq(Event)
  BY EvType DEF EventTypes, Queues
<1>2. StatusEvent(r, target) \in EventTypes
  BY DEF StatusEvent, EventTypes
<1>3. <<Ev(StatusEvent(r, target), a, target)>> \in Seq(Event)
  BY <1>2, EvType
<1>4. <<>> \in Seq(Event)
  OBVIOUS
<1> QED
  BY <1>1, <1>3, <1>4, ConcatProperties DEF StatusEvents

-----------------------------------------------------------------------------
(* Every step keeps the invariant: the handlers of one ticket.              *)

\* The row of a ticket is a row.
LEMMA TicketRowType ==
  ASSUME TypeOK, NEW t \in Tickets
  PROVE  tickets[t] \in Row /\ timeline[t] \in Seq(Event) /\ pauses[t] \in Seq(PauseRow)
         /\ now \in Nat
  BY DEF TypeOK

\* claim_ticket keeps the invariant.
LEMMA ClaimInv ==
  ASSUME DeskInv, NEW c \in Slots, NEW a \in Agents, NEW t \in Tickets, Claim(c, a, t)
  PROVE  DeskInv'
<1>1. TypeOK
  BY DEF DeskInv
<1>2. KeepsPause(tickets[t], ClaimTicket(tickets[t], a, now))
  BY <1>1, TicketRowType, AssignmentTypes
<1>3. <<Ev("assigned", a, a)>> \in Seq(Event)
  BY <1>1, EvType DEF EventTypes
<1>4. "claim" \in AllHandlers \ ClockHandlers
  BY DEF AllHandlers, ClockHandlers
<1> QED
  BY <1>2, <1>3, <1>4, StagedInv DEF Claim

\* change_status, resolve and close keep the invariant.
LEMMA SetStatusInv ==
  ASSUME DeskInv, NEW c \in Slots, NEW op \in AllHandlers \ ClockHandlers, NEW a \in Agents,
         NEW t \in Tickets, NEW target \in Statuses, SetStatus(c, op, a, t, target)
  PROVE  DeskInv'
<1>1. TypeOK
  BY DEF DeskInv
<1>2. KeepsPause(tickets[t], ChangeTicketStatus(tickets[t], target, now))
  BY <1>1, TicketRowType, ChangeStatusType
<1>3. StatusEvents(tickets[t], target, a) \in Seq(Event)
  BY <1>1, TicketRowType, StatusEventsType
<1> QED
  BY <1>2, <1>3, StagedInv DEF SetStatus

\* transfer keeps the invariant.
LEMMA TransferInv ==
  ASSUME DeskInv, NEW c \in Slots, NEW a \in Agents, NEW t \in Tickets, NEW b \in Agents,
         Transfer(c, a, t, b)
  PROVE  DeskInv'
<1>1. TypeOK
  BY DEF DeskInv
<1>2. KeepsPause(tickets[t], TransferTicket(tickets[t], b))
  BY <1>1, TicketRowType, AssignmentTypes
<1>3. <<Ev("transferred", a, b)>> \in Seq(Event)
  BY <1>1, EvType DEF EventTypes
<1>4. "transfer" \in AllHandlers \ ClockHandlers
  BY DEF AllHandlers, ClockHandlers
<1> QED
  BY <1>2, <1>3, <1>4, StagedInv DEF Transfer

\* reply keeps the invariant.
LEMMA ReplyInv ==
  ASSUME DeskInv, NEW c \in Slots, NEW a \in Agents, NEW t \in Tickets,
         NEW type \in {"reply_external", "reply_internal"}, Reply(c, a, t, type)
  PROVE  DeskInv'
<1>1. TypeOK
  BY DEF DeskInv
<1>2. KeepsPause(tickets[t], [tickets[t] EXCEPT !.version = @ + 1])
  BY <1>1, TicketRowType, SweepAndReplyTypes
<1>3. <<Ev(type, a, None)>> \in Seq(Event)
  BY <1>1, EvType DEF EventTypes
<1>4. "reply" \in AllHandlers \ ClockHandlers
  BY DEF AllHandlers, ClockHandlers
<1> QED
  BY <1>2, <1>3, <1>4, StagedInv DEF Reply

\* update_priority keeps the invariant.
LEMMA UpdatePriorityInv ==
  ASSUME DeskInv, NEW c \in Slots, NEW a \in Agents, NEW t \in Tickets, NEW p \in Priorities,
         UpdatePriority(c, a, t, p)
  PROVE  DeskInv'
<1>1. TypeOK
  BY DEF DeskInv
<1>2. KeepsPause(tickets[t], [tickets[t] EXCEPT !.priority = p, !.version = @ + 1])
  BY <1>1, TicketRowType, SweepAndReplyTypes
<1>3. <<Ev("status_changed", a, None)>> \in Seq(Event)
  BY <1>1, EvType DEF EventTypes
<1>4. "update_priority" \in AllHandlers \ ClockHandlers
  BY DEF AllHandlers, ClockHandlers
<1> QED
  BY <1>2, <1>3, <1>4, StagedInv DEF UpdatePriority

\* escalate keeps the invariant.
LEMMA EscalateInv ==
  ASSUME DeskInv, NEW c \in Slots, NEW a \in Agents, NEW t \in Tickets, Escalate(c, a, t)
  PROVE  DeskInv'
<1>1. TypeOK
  BY DEF DeskInv
<1>2. KeepsPause(tickets[t], EscalateTicket(tickets[t], a))
  BY <1>1, TicketRowType, AssignmentTypes
<1>3. EscalationTarget(a) \in Queues
  BY DEF EscalationTarget, Queues
<1>4. <<Ev("escalated", a, EscalationTarget(a))>> \in Seq(Event)
  BY <1>1, <1>3, EvType DEF EventTypes
<1>5. "escalate" \in AllHandlers \ ClockHandlers
  BY DEF AllHandlers, ClockHandlers
<1> QED
  BY <1>2, <1>4, <1>5, StagedInv DEF Escalate

\* return_ticket to any owner and queue keeps the invariant.
LEMMA ReturnInv ==
  ASSUME DeskInv, NEW c \in Slots, NEW a \in Agents, NEW t \in Tickets,
         NEW owner \in Agents \cup {None}, NEW queue \in Queues, ReturnTo(c, a, t, owner, queue)
  PROVE  DeskInv'
<1>1. TypeOK
  BY DEF DeskInv
<1>2. KeepsPause(tickets[t], ReturnTicket(tickets[t], owner, queue, now))
  BY <1>1, TicketRowType, MoveTypes
<1>3. <<Ev("transferred", a, owner)>> \in Seq(Event)
  BY <1>1, EvType DEF EventTypes
<1>4. "return_ticket" \in AllHandlers \ ClockHandlers
  BY DEF AllHandlers, ClockHandlers
<1> QED
  BY <1>2, <1>3, <1>4, StagedInv DEF ReturnTo

\* Hence each target of return_ticket keeps it.
LEMMA ReturnsInv ==
  ASSUME DeskInv, NEW c \in Slots, NEW a \in Agents, NEW t \in Tickets,
         \/ \E q \in Queues : ReturnToQueue(c, a, t, q)
         \/ ReturnToEscalator(c, a, t)
         \/ \E b \in Agents : ReturnToAgent(c, a, t, b)
  PROVE  DeskInv'
<1>1. "main" \in Queues
  BY DEF Queues
<1>2. ASSUME NEW q \in Queues, ReturnToQueue(c, a, t, q)
      PROVE  DeskInv'
  BY <1>2, ReturnInv DEF ReturnToQueue
<1>3. CASE ReturnToEscalator(c, a, t)
  <2>1. PICK b \in LatestEscalators(t) \ {None} : ReturnTo(c, a, t, b, "main")
    BY <1>3 DEF ReturnToEscalator
  <2>2. timeline[t] \in Seq(Event)
    BY DEF DeskInv, TypeOK
  <2>3. \A i \in DOMAIN timeline[t] : timeline[t][i].actor \in Agents \cup {None}
    <3>1. \A i \in DOMAIN timeline[t] : timeline[t][i] \in Event
      BY <2>2
    <3> QED
      BY <3>1 DEF Event
  <2>4. b \in Agents \cup {None}
    BY <2>1, <2>3 DEF LatestEscalators
  <2> QED
    BY <1>1, <2>1, <2>4, ReturnInv
<1>4. ASSUME NEW b \in Agents, ReturnToAgent(c, a, t, b)
      PROVE  DeskInv'
  BY <1>1, <1>4, ReturnInv DEF ReturnToAgent
<1> QED
  BY <1>2, <1>3, <1>4

\* customer_reply keeps the invariant.
LEMMA CustomerReplyInv ==
  ASSUME DeskInv, NEW c \in Slots, NEW t \in Tickets, CustomerReply(c, t)
  PROVE  DeskInv'
<1>1. TypeOK
  BY DEF DeskInv
<1>2. KeepsPause(tickets[t], CustomerReplyTicket(tickets[t], now))
  BY <1>1, TicketRowType, SweepAndReplyTypes
<1>3. <<Ev("reply_customer", None, None)>> \in Seq(Event)
  BY <1>1, EvType DEF EventTypes
<1>4. "customer_reply" \in AllHandlers \ ClockHandlers /\ None \in Agents \cup {None}
  BY DEF AllHandlers, ClockHandlers
<1> QED
  BY <1>2, <1>3, <1>4, StagedInv DEF CustomerReply

\* A staged pause carries the row it will insert.
LEMMA PauseSound ==
  ASSUME TypeOK, NEW a \in Agents, NEW t \in Tickets, NEW row \in Row,
         NEW events \in Seq(Event), tickets[t].sla_paused_at = None,
         row.sla_paused_at = now, row.sla_deadline = tickets[t].sla_deadline
  PROVE  Sound([Staged("pause_sla", a, t, row, events) EXCEPT !.ins = t])
<1> DEFINE s0 == Staged("pause_sla", a, t, row, events)
           s  == [s0 EXCEPT !.ins = t]
<1>1. "pause_sla" \in AllHandlers
  BY DEF AllHandlers
<1>2. /\ s0 \in Session /\ s0.has = {t} /\ s0.upd = None /\ s0.at = now
      /\ s0.op = "pause_sla" /\ s0.read[t] = tickets[t] /\ s0.new[t] = row
  BY <1>1, StagedType
<1> HIDE DEF s0
<1>3. s \in Session
  BY <1>2, SetField
<1>4. /\ s.has = {t} /\ s.upd = None /\ s.ins = t /\ s.at = now
      /\ s.op = "pause_sla" /\ s.read[t] = tickets[t] /\ s.new[t] = row
  BY <1>2 DEF Session
<1> HIDE DEF s
<1>5. ClockStaged(s)
  BY <1>4 DEF ClockStaged, ClockHandlers
<1>6. Sound(s)
  BY <1>3, <1>4, <1>5 DEF Sound, PauseStaged
<1> QED
  BY <1>6 DEF s, s0

\* pause_sla keeps the invariant.
LEMMA PauseInv ==
  ASSUME DeskInv, NEW c \in Slots, NEW a \in Agents, NEW t \in Tickets, PauseSla(c, a, t)
  PROVE  DeskInv'
<1>1. TypeOK
  BY DEF DeskInv
<1> DEFINE row == PauseTicket(tickets[t], now)
<1>2. /\ row \in Row /\ row.sla_paused_at = now /\ row.sla_deadline = tickets[t].sla_deadline
      /\ tickets[t].sla_paused_at = None
  BY <1>1, TicketRowType, PauseTypes DEF PauseSla
<1>3. <<Ev("sla_paused", a, None)>> \in Seq(Event)
  BY <1>1, EvType DEF EventTypes
<1>4. Sound([Staged("pause_sla", a, t, row, <<Ev("sla_paused", a, None)>>) EXCEPT !.ins = t])
  <2> HIDE DEF row
  <2> QED BY <1>1, <1>2, <1>3, PauseSound
<1> QED
  BY <1>4, BeginInv DEF PauseSla

\* A staged resume ends the pause it has read.
LEMMA ResumeSound ==
  ASSUME TypeOK, NEW a \in Agents, NEW t \in Tickets, NEW row \in Row,
         NEW events \in Seq(Event), row.sla_paused_at = None, tickets[t].sla_paused_at # None,
         now > tickets[t].sla_paused_at, row.sla_deadline = Extended(tickets[t], now)
  PROVE  /\ Sound([Staged("resume_sla", a, t, row, events) EXCEPT !.upd = None])
         /\ \A i \in Nat : Sound([Staged("resume_sla", a, t, row, events) EXCEPT !.upd = <<t, i>>])
<1> DEFINE s == Staged("resume_sla", a, t, row, events)
<1>1. "resume_sla" \in AllHandlers
  BY DEF AllHandlers
<1>2. /\ s \in Session /\ s.has = {t} /\ s.upd = None /\ s.ins = None /\ s.at = now
      /\ s.read[t] = tickets[t] /\ s.new[t] = row
  BY <1>1, StagedType
<1>3. s.op = "resume_sla"
  BY DEF Staged, Opened
<1> HIDE DEF s
<1>4. Sound([s EXCEPT !.upd = None])
  <2> DEFINE s1 == [s EXCEPT !.upd = None]
  <2>1. s1 \in Session
    BY <1>2, SetField
  <2>2. /\ s1.has = {t} /\ s1.upd = None /\ s1.ins = None /\ s1.at = now
        /\ s1.op = "resume_sla" /\ s1.read[t] = tickets[t] /\ s1.new[t] = row
    BY <1>2, <1>3 DEF Session
  <2> HIDE DEF s1
  <2>3. ClockStaged(s1)
    BY <2>2 DEF ClockStaged, ClockHandlers
  <2>4. Sound(s1)
    BY <2>1, <2>2, <2>3 DEF Sound, PauseStaged
  <2> QED
    BY <2>4 DEF s1
<1>5. ASSUME NEW i \in Nat
      PROVE  Sound([s EXCEPT !.upd = <<t, i>>])
  <2> DEFINE s2 == [s EXCEPT !.upd = <<t, i>>]
  <2>1. <<t, i>> \in (Tickets \X Nat) \cup {None}
    OBVIOUS
  <2>2. s2 \in Session
    BY <1>2, <2>1, SetField
  <2>3. /\ s2.has = {t} /\ s2.upd = <<t, i>> /\ s2.op = "resume_sla"
        /\ s2.ins = None /\ s2.at = now
        /\ s2.read[t] = tickets[t] /\ s2.new[t] = row
    BY <1>2, <1>3 DEF Session
  <2> HIDE DEF s2
  <2>4. ClockStaged(s2)
    BY <2>3 DEF ClockStaged, ClockHandlers
  <2>5. Sound(s2)
    BY <2>2, <2>3, <2>4 DEF Sound, PauseStaged
  <2> QED
    BY <2>5 DEF s2
<1> QED
  BY <1>4, <1>5 DEF s

\* resume_sla keeps the invariant.
LEMMA ResumeInv ==
  ASSUME DeskInv, NEW c \in Slots, NEW a \in Agents, NEW t \in Tickets, ResumeSla(c, a, t)
  PROVE  DeskInv'
<1>1. TypeOK
  BY DEF DeskInv
<1> DEFINE row == ResumeTicket(tickets[t], now)
           s   == Staged("resume_sla", a, t, row, <<Ev("sla_resumed", a, None)>>)
<1>2. tickets[t].sla_paused_at # None /\ now > tickets[t].sla_paused_at
  BY DEF ResumeSla
<1>3. row \in Row
  BY <1>1, TicketRowType, PauseTypes DEF ResumeSla
<1>4. row.sla_paused_at = None /\ row.sla_deadline = Extended(tickets[t], now)
  BY <1>1, TicketRowType, PauseTypes
<1>5. <<Ev("sla_resumed", a, None)>> \in Seq(Event)
  BY <1>1, EvType DEF EventTypes
<1>6. \E p \in LatestOpenPause(t) : Begin(c, [s EXCEPT !.upd = p])
  BY DEF ResumeSla
<1>7. \A p \in LatestOpenPause(t) : p = None \/ \E i \in Nat : p = <<t, i>>
  BY <1>1, TicketRowType DEF LatestOpenPause, OpenPauses
<1> HIDE DEF row
<1>8. /\ Sound([s EXCEPT !.upd = None])
      /\ \A i \in Nat : Sound([s EXCEPT !.upd = <<t, i>>])
  BY <1>1, <1>2, <1>3, <1>4, <1>5, ResumeSound
<1> HIDE DEF s
<1> QED
  BY <1>6, <1>7, <1>8, BeginInv

-----------------------------------------------------------------------------
(* The handlers of several tickets.                                         *)

\* The fields of a freshly opened session.
LEMMA OpenedFields ==
  ASSUME NEW op, NEW a, NEW has, NEW read, NEW new, NEW log, NEW todo
  PROVE  /\ Opened(op, a, has, read, new, log, todo).has = has
         /\ Opened(op, a, has, read, new, log, todo).read = read
         /\ Opened(op, a, has, read, new, log, todo).new = new
         /\ Opened(op, a, has, read, new, log, todo).upd = None
         /\ Opened(op, a, has, read, new, log, todo).ins = None
         /\ Opened(op, a, has, read, new, log, todo).op = op
  BY DEF Opened

\* A session opened on rows whose pause column it keeps is sound.
LEMMA OpenedSound ==
  ASSUME TypeOK, NEW op \in AllHandlers \ ClockHandlers, NEW a \in Agents \cup {None},
         NEW has \in SUBSET Tickets, NEW read \in [Tickets -> Row],
         NEW new \in [Tickets -> Row], NEW log \in [Tickets -> Seq(Event)],
         NEW todo \in SUBSET Tickets,
         \A t \in has : SameClock(read[t], new[t])
  PROVE  Sound(Opened(op, a, has, read, new, log, todo))
<1> DEFINE s == Opened(op, a, has, read, new, log, todo)
<1>1. s \in Session
  BY OpenedType
<1>2. /\ s.has = has /\ s.read = read /\ s.new = new /\ s.upd = None
      /\ s.ins = None /\ s.op = op
  BY OpenedFields
<1> HIDE DEF s
<1>3. ClockStaged(s)
  BY <1>2 DEF ClockStaged, ClockHandlers
<1>4. Sound(s)
  BY <1>1, <1>2, <1>3 DEF Sound, PauseStaged, SameClock
<1> QED
  BY <1>4 DEF s

\* The session of a handler that takes several tickets is well typed.
LEMMA ManyType ==
  ASSUME TypeOK, NEW op \in AllHandlers, NEW a \in Agents, NEW S \in SUBSET Tickets
  PROVE  /\ ManySession(op, a, S) \in Session
         /\ ManySession(op, a, S).has = {} /\ ManySession(op, a, S).upd = None
         /\ ManySession(op, a, S).ins = None
  BY IdleType, OpenedType, OpenedFields DEF ManySession

\* A session of several tickets starts with its parameters and nothing read.
LEMMA ManyInv ==
  ASSUME DeskInv, NEW c \in Slots, NEW op \in AllHandlers,
         op \notin ClockHandlers, NEW a \in Agents,
         NEW S \in SUBSET Tickets,
         \/ \E p \in Tickets : Begin(c, [ManySession(op, a, S) EXCEPT !.primary = p])
         \/ \E b \in Agents : Begin(c, [ManySession(op, a, S) EXCEPT !.owner = b])
         \/ \E q \in Queues : Begin(c, [ManySession(op, a, S) EXCEPT !.queue = q])
         \/ \E b \in Agents, q \in Queues :
               Begin(c, [ManySession(op, a, S) EXCEPT !.owner = b, !.queue = q])
  PROVE  DeskInv'
<1> DEFINE s == ManySession(op, a, S)
<1> DEFINE Blank(y) == y.has = {} /\ y.upd = None /\ y.ins = None /\ y.op = op
<1>1. s \in Session /\ Blank(s)
  <2>1. s.op = op
    BY DEF ManySession, Opened
  <2>2. s \in Session /\ s.has = {} /\ s.upd = None /\ s.ins = None
    BY ManyType DEF DeskInv
  <2> QED
    BY <2>1, <2>2
<1>2. \A y \in Session : Blank(y) => Sound(y)
  BY DEF Sound, PauseStaged, ClockStaged, ClockHandlers
<1> HIDE DEF s
<1>3. ASSUME NEW p \in Tickets PROVE Sound([s EXCEPT !.primary = p])
  <2>1. [s EXCEPT !.primary = p] \in Session
    BY <1>1, SetField
  <2>2. Blank([s EXCEPT !.primary = p])
    BY <1>1 DEF Session
  <2> QED BY <1>2, <2>1, <2>2
<1>4. ASSUME NEW b \in Agents PROVE Sound([s EXCEPT !.owner = b])
  <2>1. [s EXCEPT !.owner = b] \in Session
    BY <1>1, SetField
  <2>2. Blank([s EXCEPT !.owner = b])
    BY <1>1 DEF Session
  <2> QED BY <1>2, <2>1, <2>2
<1>5. ASSUME NEW q \in Queues PROVE Sound([s EXCEPT !.queue = q])
  <2>1. [s EXCEPT !.queue = q] \in Session
    BY <1>1, SetField
  <2>2. Blank([s EXCEPT !.queue = q])
    BY <1>1 DEF Session
  <2> QED BY <1>2, <2>1, <2>2
<1>6. ASSUME NEW b \in Agents, NEW q \in Queues
      PROVE  Sound([s EXCEPT !.owner = b, !.queue = q])
  <2>1. [s EXCEPT !.owner = b, !.queue = q] \in Session
    BY <1>1, SetField
  <2>2. Blank([s EXCEPT !.owner = b, !.queue = q])
    BY <1>1 DEF Session
  <2> QED BY <1>2, <2>1, <2>2
<1>7. \/ \E p \in Tickets : Begin(c, [s EXCEPT !.primary = p])
      \/ \E b \in Agents : Begin(c, [s EXCEPT !.owner = b])
      \/ \E q \in Queues : Begin(c, [s EXCEPT !.queue = q])
      \/ \E b \in Agents, q \in Queues : Begin(c, [s EXCEPT !.owner = b, !.queue = q])
  BY DEF s
<1> QED
  BY <1>3, <1>4, <1>5, <1>6, <1>7, BeginInv

\* merge, bulk_reassign, bulk_move_to_queue and bulk_assign_tickets start soundly.
LEMMA StartManyInv ==
  ASSUME DeskInv, NEW c \in Slots, NEW a \in Agents, NEW S \in SUBSET Tickets,
         \/ \E p \in Tickets : Merge(c, a, p, S)
         \/ \E b \in Agents : BulkReassign(c, a, S, b)
         \/ \E q \in Queues : BulkMoveToQueue(c, a, S, q)
         \/ \E b \in Agents : BulkAssign(c, a, S, b)
  PROVE  DeskInv'
<1>1. {"merge", "bulk_reassign", "bulk_move", "bulk_assign"} \subseteq AllHandlers \ ClockHandlers
  BY DEF AllHandlers, ClockHandlers
<1>2. "main" \in Queues
  BY DEF Queues
<1>3. ASSUME NEW p \in Tickets, Merge(c, a, p, S) PROVE DeskInv'
  BY <1>1, <1>3, ManyInv DEF Merge
<1>4. ASSUME NEW b \in Agents, BulkReassign(c, a, S, b) PROVE DeskInv'
  BY <1>1, <1>2, <1>4, ManyInv DEF BulkReassign
<1>5. ASSUME NEW q \in Queues, BulkMoveToQueue(c, a, S, q) PROVE DeskInv'
  BY <1>1, <1>5, ManyInv DEF BulkMoveToQueue
<1>6. ASSUME NEW b \in Agents, BulkAssign(c, a, S, b) PROVE DeskInv'
  BY <1>1, <1>6, ManyInv DEF BulkAssign
<1> QED
  BY <1>3, <1>4, <1>5, <1>6

\* One more ticket is read, and its pause column left alone.
LEMMA ExtendInv ==
  ASSUME DeskInv, NEW c \in Slots, NEW t \in Tickets, sess[c].op \notin ClockHandlers,
         NEW row, KeepsPause(tickets[t], row), NEW events \in [Tickets -> Seq(Event)],
         Extend(c, t, row, events)
  PROVE  DeskInv'
<1>1. row \in Row
  BY DEF KeepsPause
<1>2. SameClock(tickets[t], row)
  BY DEF KeepsPause
<1> DEFINE s    == sess[c]
           has  == s.has \cup {t}
           read == [s.read EXCEPT ![t] = tickets[t]]
           new  == [s.new EXCEPT ![t] = row]
           y    == [s EXCEPT !.has = has, !.read = read, !.new = new, !.log = events,
                             !.todo = @ \ {t}]
<1>3. s \in Session /\ PauseStaged(s)
  BY DEF DeskInv, TypeOK
<1>4. s.upd = None /\ s.ins = None
  BY <1>3 DEF PauseStaged, ClockStaged
<1>5. has \in SUBSET Tickets /\ s.todo \ {t} \in SUBSET Tickets
  BY <1>3, Fields
<1>6. read \in [Tickets -> Row] /\ new \in [Tickets -> Row]
  BY <1>1, <1>3, Fields DEF DeskInv, TypeOK
<1>7. /\ read[t] = tickets[t] /\ new[t] = row
      /\ \A u \in Tickets \ {t} : read[u] = s.read[u] /\ new[u] = s.new[u]
  BY <1>3, Fields
<1>8. Begin(c, y)
  BY DEF Extend
<1>9. \A u \in s.has : SameClock(s.read[u], s.new[u])
  BY <1>3 DEF PauseStaged, ClockStaged
<1> HIDE DEF s, has, read, new
<1>10. y \in Session
  <2>1. \A T \in SUBSET Tickets :
          [s EXCEPT !.has = has, !.read = read, !.new = new, !.log = events, !.todo = T]
            \in Session
    BY <1>3, <1>5, <1>6, SetField
  <2> QED
    BY <1>5, <2>1
<1>11. /\ y.has = has /\ y.read = read /\ y.new = new /\ y.upd = None /\ y.ins = None
       /\ y.op \notin ClockHandlers
  BY <1>3, <1>4 DEF Session, s
<1> HIDE DEF y
<1>12. ASSUME NEW u \in has
       PROVE  SameClock(read[u], new[u])
  <2>1. CASE u = t
    BY <1>2, <1>7, <2>1
  <2>2. CASE u # t
    <3>1. u \in s.has /\ u \in Tickets
      BY <1>5, <2>2 DEF has
    <3> QED
      BY <1>7, <1>9, <2>2, <3>1
  <2> QED
    BY <2>1, <2>2
<1>13. ClockStaged(y)
  BY <1>11, <1>12 DEF ClockStaged, ClockHandlers
<1>14. Sound(y)
  BY <1>10, <1>11, <1>12, <1>13 DEF Sound, PauseStaged, SameClock
<1> QED
  BY <1>8, <1>14, BeginInv

\* Logging events on one ticket keeps a log well typed.
LEMMA LogAppend ==
  ASSUME NEW f \in [Tickets -> Seq(Event)], NEW p, NEW e \in Seq(Event)
  PROVE  Logged(f, p, e) \in [Tickets -> Seq(Event)]
<1>1. ASSUME NEW u \in Tickets PROVE f[u] \o e \in Seq(Event)
  BY ConcatProperties
<1> QED
  BY <1>1 DEF Logged

\* The replies a merge copies are events of the timeline they come from.
LEMMA RepliesType ==
  ASSUME NEW events \in Seq(Event)
  PROVE  PublicReplies(events) \subseteq Seq(Event)
<1> DEFINE X == {i \in DOMAIN events : IsPublicReply(events[i])}
<1>1. Cardinality(X) \in Nat
  <2>1. IsFiniteSet(1..Len(events))
    BY FS_Interval
  <2>2. IsFiniteSet(X)
    BY <2>1, FS_Subset
  <2> QED
    BY <2>2, FS_CardinalityType
<1>2. ASSUME NEW o \in Orders(X)
      PROVE  [i \in DOMAIN o |-> events[o[i]]] \in Seq(Event)
  <2>1. o \in [1..Cardinality(X) -> X]
    BY DEF Orders
  <2>2. \A i \in DOMAIN o : events[o[i]] \in Event
    BY <2>1
  <2> HIDE DEF X
  <2>3. [i \in 1..Cardinality(X) |-> events[o[i]]] \in Seq(Event)
    BY <1>1, <2>1, <2>2, IsASeq
  <2> QED
    BY <2>1, <2>3
<1> QED
  BY <1>2 DEF PublicReplies

\* Each further ticket of a merge or of a bulk handler keeps the invariant.
LEMMA NextTicketInv ==
  ASSUME DeskInv, NEW c \in Slots, NEW t \in Tickets,
         MergeChild(c, t) \/ BulkMoveNext(c, t) \/ BulkAssignNext(c, t)
  PROVE  DeskInv'
<1> DEFINE s == sess[c]
<1>1. TypeOK
  BY DEF DeskInv
<1>2. /\ s \in Session /\ PauseStaged(s)
      /\ s.by \in Agents \cup {None} /\ s.owner \in Agents \cup {None} /\ s.queue \in Queues
      /\ s.primary \in Tickets \cup {None} /\ s.log \in [Tickets -> Seq(Event)]
      /\ s.todo \in SUBSET Tickets
  BY Fields DEF DeskInv, TypeOK
<1>3. /\ KeepsPause(tickets[t], MergeTicket(tickets[t], s.primary))
      /\ KeepsPause(tickets[t], BulkMoveTicket(tickets[t], s.owner, s.queue))
      /\ KeepsPause(tickets[t], BulkAssignTicket(tickets[t], s.owner))
  BY <1>1, <1>2, TicketRowType, MoveTypes
<1>4. CASE MergeChild(c, t)
  <2>1. CASE Begin(c, [s EXCEPT !.todo = @ \ {t}])
    <3> DEFINE y == [s EXCEPT !.todo = @ \ {t}]
    <3>1. y \in Session
      <4>1. s.todo \ {t} \in SUBSET Tickets
        BY <1>2
      <4> QED
        BY <1>2, <4>1, SetField
    <3>2. /\ y.has = s.has /\ y.read = s.read /\ y.new = s.new /\ y.upd = s.upd
          /\ y.ins = s.ins /\ y.op = s.op
      BY <1>2 DEF Session
    <3> HIDE DEF y
    <3>3. ClockStaged(y)
      BY <1>2, <1>4, <3>2 DEF PauseStaged, ClockStaged, ClockHandlers, MergeChild
    <3>4. Sound(y)
      BY <1>2, <3>1, <3>2, <3>3 DEF Sound, PauseStaged
    <3> QED
      BY <2>1, <3>4, BeginInv DEF y
  <2>2. ASSUME NEW replies \in PublicReplies(timeline[t]),
               Extend(c, t, MergeTicket(tickets[t], s.primary),
                      Logged(Logged(s.log, s.primary, replies), t,
                             <<Ev("merged", s.by, None)>>))
        PROVE  DeskInv'
    <3>1. replies \in Seq(Event)
      BY <1>1, TicketRowType, RepliesType
    <3>2. <<Ev("merged", s.by, None)>> \in Seq(Event)
      BY <1>1, <1>2, EvType DEF EventTypes
    <3>3. Logged(s.log, s.primary, replies) \in [Tickets -> Seq(Event)]
      BY <1>2, <3>1, LogAppend
    <3>4. Logged(Logged(s.log, s.primary, replies), t, <<Ev("merged", s.by, None)>>)
            \in [Tickets -> Seq(Event)]
      BY <3>2, <3>3, LogAppend
    <3>5. s.op \notin ClockHandlers
      BY <1>4 DEF MergeChild, ClockHandlers
    <3> QED
      BY <1>3, <2>2, <3>4, <3>5, ExtendInv
  <2> QED
    BY <1>4, <2>1, <2>2 DEF MergeChild
<1>5. CASE BulkMoveNext(c, t)
  <2> DEFINE to == IF s.op = "bulk_move" THEN s.queue ELSE s.owner
  <2>1. to \in Agents \cup Statuses \cup Queues \cup {None}
    BY <1>2
  <2>2. <<Ev("transferred", s.by, to)>> \in Seq(Event)
    <3> HIDE DEF to
    <3> QED BY <1>1, <1>2, <2>1, EvType DEF EventTypes
  <2>3. Logged(s.log, t, <<Ev("transferred", s.by, to)>>) \in [Tickets -> Seq(Event)]
    <3> HIDE DEF to
    <3> QED BY <1>2, <2>2, LogAppend
  <2>4. s.op \notin ClockHandlers
    BY <1>5 DEF BulkMoveNext, ClockHandlers
  <2>5. Extend(c, t, BulkMoveTicket(tickets[t], s.owner, s.queue),
               Logged(s.log, t, <<Ev("transferred", s.by, to)>>))
    BY <1>5 DEF BulkMoveNext
  <2> QED
    BY <1>3, <2>3, <2>4, <2>5, ExtendInv
<1>6. CASE BulkAssignNext(c, t)
  <2>1. s.op \notin ClockHandlers
    BY <1>6 DEF BulkAssignNext, ClockHandlers
  <2>2. Extend(c, t, BulkAssignTicket(tickets[t], s.owner), s.log)
    BY <1>6 DEF BulkAssignNext
  <2> QED
    BY <1>2, <1>3, <2>1, <2>2, ExtendInv
<1> QED
  BY <1>4, <1>5, <1>6

\* auto_balance keeps the invariant.
LEMMA AutoBalanceInv ==
  ASSUME DeskInv, NEW c \in Slots, NEW a \in Agents, AutoBalance(c, a)
  PROVE  DeskInv'
<1> DEFINE idle == {t \in Tickets : tickets[t].assigned_to = None /\ tickets[t].status = "new"}
<1>1. TypeOK
  BY DEF DeskInv
<1>2. /\ IsFiniteSet(idle) /\ Cardinality(idle) \in Nat
      /\ IsFiniteSet(Online) /\ Cardinality(Online) \in Nat
  <2>1. IsFiniteSet(Tickets) /\ IsFiniteSet(Online)
    BY DeskAssumption
  <2>2. IsFiniteSet(idle)
    BY <2>1, FS_Subset
  <2> QED
    BY <2>1, <2>2, FS_CardinalityType
<1>3. Online # {} /\ Online \subseteq Agents
  BY DeskAssumption DEF AutoBalance
<1>4. PICK agents \in Orders(Online), queue \in Orders(idle) :
         LET turn(t)  == (CHOOSE i \in DOMAIN queue : queue[i] = t) - 1
             agent(t) == agents[(turn(t) % Cardinality(Online)) + 1]
             row(t)   == BalanceTicket(tickets[t], agent(t), now)
             event(t) == <<Ev("assigned", a, agent(t))>>
         IN  Begin(c, Opened("auto_balance", a, idle, Rows(idle, Current),
                             Rows(idle, row), Events(idle, event), {}))
  BY DEF AutoBalance
<1> DEFINE turn(t)  == (CHOOSE i \in DOMAIN queue : queue[i] = t) - 1
           agent(t) == agents[(turn(t) % Cardinality(Online)) + 1]
           row(t)   == BalanceTicket(tickets[t], agent(t), now)
           event(t) == <<Ev("assigned", a, agent(t))>>
           read     == [t \in Tickets |-> IF t \in idle THEN tickets[t] ELSE BlankRow]
           new      == [t \in Tickets |-> IF t \in idle THEN row(t) ELSE BlankRow]
           log      == [t \in Tickets |-> IF t \in idle THEN event(t) ELSE <<>>]
<1>5. Begin(c, Opened("auto_balance", a, idle, read, new, log, {}))
  BY <1>4 DEF Rows, Events, Current
<1>6. ASSUME NEW t \in idle PROVE agent(t) \in Agents
  <2>1. agents \in [1..Cardinality(Online) -> Online]
    BY DEF Orders
  <2>2. queue \in [1..Cardinality(idle) -> idle] /\ \E i \in DOMAIN queue : queue[i] = t
    BY DEF Orders
  <2>3. (CHOOSE i \in DOMAIN queue : queue[i] = t) \in 1..Cardinality(idle)
    BY <2>2
  <2>4. turn(t) \in Nat
    BY <1>2, <2>3
  <2>5. Cardinality(Online) > 0
    <3>1. PICK b \in Online : TRUE
      BY <1>3
    <3>2. \E i \in DOMAIN agents : agents[i] = b
      BY DEF Orders
    <3> QED
      BY <1>2, <2>1, <3>2
  <2>6. turn(t) % Cardinality(Online) \in 0..(Cardinality(Online) - 1)
    <3> HIDE DEF turn
    <3> QED BY <1>2, <2>4, <2>5
  <2>7. (turn(t) % Cardinality(Online)) + 1 \in 1..Cardinality(Online)
    <3> HIDE DEF turn
    <3> QED BY <1>2, <2>5, <2>6
  <2> QED
    <3> HIDE DEF turn
    <3> QED BY <1>3, <2>1, <2>7
<1> HIDE DEF agent
<1>7. ASSUME NEW t \in idle
      PROVE  KeepsPause(tickets[t], row(t)) /\ event(t) \in Seq(Event)
  <2>1. agent(t) \in Agents /\ t \in Tickets
    BY <1>6
  <2>2. KeepsPause(tickets[t], row(t))
    BY <1>1, <2>1, TicketRowType, AssignmentTypes
  <2>3. event(t) \in Seq(Event)
    BY <1>1, <2>1, EvType DEF EventTypes
  <2> QED
    BY <2>2, <2>3
<1> HIDE DEF row, event
<1>8. read \in [Tickets -> Row]
  BY <1>1, BlankRowType DEF TypeOK
<1>9. new \in [Tickets -> Row]
  BY <1>7, BlankRowType DEF KeepsPause
<1>10. log \in [Tickets -> Seq(Event)]
  <2>1. <<>> \in Seq(Event)
    OBVIOUS
  <2> QED
    BY <1>7, <2>1
<1>11. \A t \in idle : SameClock(read[t], new[t])
  BY <1>7 DEF KeepsPause
<1>12. idle \in SUBSET Tickets /\ {} \in SUBSET Tickets
  OBVIOUS
<1>13. "auto_balance" \in AllHandlers \ ClockHandlers
  BY DEF AllHandlers, ClockHandlers
<1> HIDE DEF read, new, log, idle
<1>14. Sound(Opened("auto_balance", a, idle, read, new, log, {}))
  BY <1>1, <1>8, <1>9, <1>10, <1>11, <1>12, <1>13, OpenedSound
<1> QED
  BY <1>5, <1>14, BeginInv

-----------------------------------------------------------------------------
(* The Celery tasks.                                                        *)

\* The breach sweep keeps the invariant.
LEMMA BreachInv ==
  ASSUME DeskInv, NEW w \in Slots, CheckSlaBreaches(w)
  PROVE  DeskInv'
<1> DEFINE overdue == {t \in Tickets : IsOverdue(tickets[t], now)}
           read    == [t \in Tickets |-> IF t \in overdue THEN tickets[t] ELSE BlankRow]
           new     == [t \in Tickets |-> IF t \in overdue THEN BreachedRow(t) ELSE BlankRow]
           log     == [t \in Tickets |-> IF t \in overdue THEN BreachEvents(t) ELSE <<>>]
<1>1. TypeOK
  BY DEF DeskInv
<1>2. Begin(w, Opened("check_sla_breaches", None, overdue, read, new, log, {}))
  BY DEF CheckSlaBreaches, Rows, Events, Current
<1>3. ASSUME NEW t \in Tickets
      PROVE  KeepsPause(tickets[t], BreachedRow(t)) /\ BreachEvents(t) \in Seq(Event)
  <2>1. KeepsPause(tickets[t], BreachedRow(t))
    BY <1>1, TicketRowType, SweepAndReplyTypes DEF BreachedRow
  <2>2. <<Ev("sla_breach", None, None)>> \in Seq(Event)
    BY <1>1, EvType DEF EventTypes
  <2>3. <<Ev("escalated", None, "supervisor")>> \in Seq(Event)
    BY <1>1, EvType DEF EventTypes, Queues
  <2>4. <<>> \in Seq(Event)
    OBVIOUS
  <2>5. BreachEvents(t) \in Seq(Event)
    BY <2>2, <2>3, <2>4, ConcatProperties DEF BreachEvents
  <2> QED
    BY <2>1, <2>5
<1>4. read \in [Tickets -> Row]
  BY <1>1, BlankRowType DEF TypeOK
<1>5. new \in [Tickets -> Row]
  BY <1>3, BlankRowType DEF KeepsPause
<1>6. log \in [Tickets -> Seq(Event)]
  <2>1. <<>> \in Seq(Event)
    OBVIOUS
  <2> QED
    BY <1>3, <2>1
<1>7. \A t \in overdue : SameClock(read[t], new[t])
  BY <1>3 DEF KeepsPause
<1>8. overdue \in SUBSET Tickets /\ {} \in SUBSET Tickets /\ None \in Agents \cup {None}
  OBVIOUS
<1>9. "check_sla_breaches" \in AllHandlers \ ClockHandlers
  BY DEF AllHandlers, ClockHandlers
<1> HIDE DEF read, new, log, overdue
<1>10. Sound(Opened("check_sla_breaches", None, overdue, read, new, log, {}))
  BY <1>1, <1>4, <1>5, <1>6, <1>7, <1>8, <1>9, OpenedSound
<1> QED
  BY <1>2, <1>10, BeginInv

\* The first SELECT of the auto-resolve task keeps the invariant.
LEMMA AutoResolveInv ==
  ASSUME DeskInv, NEW w \in Slots, AutoResolve(w)
  PROVE  DeskInv'
<1> DEFINE stuck == {t \in Tickets : IsStuck(tickets[t])}
           read  == [t \in Tickets |-> IF t \in stuck THEN tickets[t] ELSE BlankRow]
<1>1. TypeOK
  BY DEF DeskInv
<1>2. Begin(w, Opened("auto_resolve", None, stuck, read, read, NoEvents, stuck))
  BY DEF AutoResolve, Rows, Current
<1>3. read \in [Tickets -> Row]
  BY <1>1, BlankRowType DEF TypeOK
<1>4. stuck \in SUBSET Tickets /\ None \in Agents \cup {None}
  OBVIOUS
<1>5. "auto_resolve" \in AllHandlers \ ClockHandlers
  BY DEF AllHandlers, ClockHandlers
<1> HIDE DEF read, stuck
<1>6. Sound(Opened("auto_resolve", None, stuck, read, read, NoEvents, stuck))
  BY <1>1, <1>3, <1>4, <1>5, IdleType, OpenedSound DEF SameClock
<1> QED
  BY <1>2, <1>6, BeginInv

\* So does each ticket it then decides on.
LEMMA AutoResolveCheckInv ==
  ASSUME DeskInv, NEW w \in Slots, NEW t \in Tickets, AutoResolveCheck(w, t)
  PROVE  DeskInv'
<1> DEFINE s   == sess[w]
           row == AutoResolveTicket(s.new[t])
           new == [s.new EXCEPT ![t] = row]
           log == [s.log EXCEPT ![t] = <<Ev("resolved", None, "resolved")>>]
           y   == [s EXCEPT !.todo = @ \ {t}]
           z   == [s EXCEPT !.todo = @ \ {t}, !.new = new, !.log = log]
<1>1. TypeOK
  BY DEF DeskInv
<1>2. /\ s \in Session /\ PauseStaged(s) /\ s.op = "auto_resolve"
      /\ s.new \in [Tickets -> Row] /\ s.log \in [Tickets -> Seq(Event)]
      /\ s.todo \ {t} \in SUBSET Tickets
  BY Fields DEF DeskInv, TypeOK, AutoResolveCheck
<1>3. s.upd = None /\ s.ins = None
  BY <1>2 DEF PauseStaged, ClockStaged, ClockHandlers
<1>4. KeepsPause(s.new[t], row)
  <2>1. s.new[t] \in Row
    BY <1>2
  <2> QED
    BY <1>1, <2>1, SweepAndReplyTypes DEF TypeOK
<1>5. new \in [Tickets -> Row] /\ \A u \in Tickets : SameClock(s.new[u], new[u])
  <2> HIDE DEF row
  <2> QED BY <1>2, <1>4 DEF KeepsPause, SameClock
<1>6. log \in [Tickets -> Seq(Event)]
  <2>1. <<Ev("resolved", None, "resolved")>> \in Seq(Event)
    BY <1>1, EvType DEF EventTypes, Statuses
  <2> QED
    BY <1>2, <2>1
<1>7. Begin(w, y) \/ Begin(w, z)
  BY DEF AutoResolveCheck
<1> HIDE DEF s, new, log
<1>8. y \in Session /\ z \in Session
  <2>1. \A T \in SUBSET Tickets :
           /\ [s EXCEPT !.todo = T] \in Session
           /\ [s EXCEPT !.todo = T, !.new = new, !.log = log] \in Session
    BY <1>2, <1>5, <1>6, SetField
  <2> QED
    BY <1>2, <2>1
<1>9. /\ y.has = s.has /\ y.read = s.read /\ y.new = s.new /\ y.upd = None /\ y.ins = None
      /\ z.has = s.has /\ z.read = s.read /\ z.new = new /\ z.upd = None /\ z.ins = None
      /\ y.op = s.op /\ z.op = s.op
  BY <1>2, <1>3 DEF Session
<1>10. s.has \subseteq Tickets
  BY <1>2, Fields
<1> HIDE DEF y, z
<1>11. \A u \in s.has : SameClock(s.read[u], s.new[u]) /\ SameClock(s.read[u], new[u])
  <2>1. \A u \in s.has : SameClock(s.read[u], s.new[u])
    BY <1>2 DEF PauseStaged, ClockStaged, ClockHandlers
  <2> QED
    BY <2>1, <1>5, <1>10 DEF SameClock
<1>12. ClockStaged(y) /\ ClockStaged(z)
  BY <1>2, <1>9, <1>11 DEF ClockStaged
<1>13. Sound(y) /\ Sound(z)
  BY <1>8, <1>9, <1>11, <1>12 DEF Sound, PauseStaged, SameClock
<1> QED
  BY <1>7, <1>13, BeginInv

\* The archive UPDATE keeps the invariant.
LEMMA AutoArchiveInv ==
  ASSUME DeskInv, NEW w \in Slots, AutoArchive(w)
  PROVE  DeskInv'
<1> DEFINE row(t) == [tickets[t] EXCEPT !.status = "archived", !.updated_at = now]
<1>1. \A t \in Tickets : tickets[t] \in Row /\ now \in Nat
  BY DEF DeskInv, TypeOK
<1>2. ASSUME NEW t \in Tickets
      PROVE  row(t) \in Row /\ row(t).sla_paused_at = tickets[t].sla_paused_at
  <2>1. row(t) \in Row
    BY <1>1, SetColumn DEF Statuses
  <2>2. row(t).sla_paused_at = tickets[t].sla_paused_at
    BY <1>1 DEF Row
  <2> QED
    BY <2>1, <2>2
<1>3. PICK old \in SUBSET Tickets :
         /\ tickets' = [t \in Tickets |-> IF t \in old THEN row(t) ELSE tickets[t]]
         /\ UNCHANGED <<now, timeline, pauses, sess>>
  BY DEF AutoArchive
<1> HIDE DEF row
<1>4. \A t \in Tickets : tickets'[t] \in Row /\ tickets'[t].sla_paused_at = tickets[t].sla_paused_at
  BY <1>1, <1>2, <1>3
<1>5. TypeOK'
  BY <1>3, <1>4 DEF DeskInv, TypeOK
<1>6. PausedHasOpenRow'
  BY <1>3, <1>4 DEF DeskInv, PausedHasOpenRow, OpenPauses
<1>7. (\A c \in Slots : PauseStaged(sess[c]))'
  BY <1>3 DEF DeskInv, PauseStaged, ClockStaged, SameClock, Extended
<1> QED
  BY <1>5, <1>6, <1>7 DEF DeskInv

-----------------------------------------------------------------------------
(* The end of a session, the clock, and the theorems.                       *)

\* The sla_pauses rows a commit leaves are pause rows.
LEMMA CommittedPausesType ==
  ASSUME NEW s \in Session, NEW t \in Tickets, pauses[t] \in Seq(PauseRow)
  PROVE  /\ CommittedPauses(s, t) \in Seq(PauseRow)
         /\ s.ins = t => \E i \in DOMAIN CommittedPauses(s, t) :
                            CommittedPauses(s, t)[i].resumed_at = None
         /\ s.ins # t /\ (s.upd # None => s.upd[1] # t) => CommittedPauses(s, t) = pauses[t]
<1> DEFINE k      == s.upd[2]
           row    == [pauses[t][k] EXCEPT !.resumed_at = s.at]
           closed == IF s.upd # None /\ s.upd[1] = t THEN [pauses[t] EXCEPT ![k] = row]
                     ELSE pauses[t]
           opened == [paused_at |-> s.at, resumed_at |-> None]
<1>1. s.at \in Nat
  BY Fields
<1>2. CommittedPauses(s, t) = IF s.ins = t THEN Append(closed, opened) ELSE closed
  BY DEF CommittedPauses
<1>3. closed \in Seq(PauseRow)
  <2>1. ASSUME k \in DOMAIN pauses[t]
        PROVE  [pauses[t] EXCEPT ![k] = row] \in Seq(PauseRow)
    <3>1. pauses[t][k] \in PauseRow
      BY <2>1
    <3>2. row \in PauseRow
      BY <1>1, <3>1 DEF PauseRow, Time
    <3> HIDE DEF row, k
    <3> QED
      BY <2>1, <3>2, ExceptSeq
  <2>2. ASSUME k \notin DOMAIN pauses[t]
        PROVE  [pauses[t] EXCEPT ![k] = row] = pauses[t]
    <3> HIDE DEF row, k
    <3> QED
      BY <2>2
  <2> QED
    BY <2>1, <2>2
<1>4. opened \in PauseRow
  BY <1>1 DEF PauseRow, Time
<1> HIDE DEF closed
<1>5. Append(closed, opened) \in Seq(PauseRow)
  BY <1>3, <1>4, AppendProperties
<1>6. /\ Len(closed) + 1 \in DOMAIN Append(closed, opened)
      /\ Append(closed, opened)[Len(closed) + 1] = opened
  BY <1>3, <1>4, AppendProperties
<1>7. opened.resumed_at = None
  OBVIOUS
<1> HIDE DEF opened
<1>8. s.ins = t => \E i \in DOMAIN CommittedPauses(s, t) :
                      CommittedPauses(s, t)[i].resumed_at = None
  BY <1>2, <1>6, <1>7
<1>9. s.ins # t /\ (s.upd # None => s.upd[1] # t) => CommittedPauses(s, t) = pauses[t]
  BY <1>2 DEF closed
<1> QED
  BY <1>2, <1>3, <1>5, <1>8, <1>9

\* The timeline rows a commit appends are events.
LEMMA FinalLogType ==
  ASSUME NEW s \in Session
  PROVE  FinalLog(s) \in [Tickets -> Seq(Event)]
<1> DEFINE e == [type |-> "merged", actor |-> s.by, to |-> None, at |-> s.at]
<1>1. e \in Event
  BY Fields DEF Event, EventTypes
<1>2. <<e>> \in Seq(Event)
  BY <1>1
<1> HIDE DEF e
<1>3. Logged(s.log, s.primary, <<e>>) \in [Tickets -> Seq(Event)]
  BY <1>2, Fields, LogAppend
<1> QED
  BY <1>3, Fields DEF FinalLog, e

\* A commit keeps the invariant, whatever was committed since the session read.
LEMMA CommitInv ==
  ASSUME DeskInv, NEW c \in Slots, Commit(c)
  PROVE  DeskInv'
<1> DEFINE s      == sess[c]
           row(t) == UpdateRow(s.read[t], s.new[t], tickets[t], s.at)
<1>1. TypeOK /\ PausedHasOpenRow /\ s \in Session /\ PauseStaged(s)
  BY DEF DeskInv, TypeOK
<1>2. /\ s.has \subseteq Tickets /\ s.at \in Nat
      /\ \A t \in Tickets : s.read[t] \in Row /\ s.new[t] \in Row /\ tickets[t] \in Row
  BY <1>1, Fields DEF TypeOK
<1>3. ASSUME NEW t \in Tickets
      PROVE  /\ row(t) \in Row
             /\ row(t).sla_paused_at = Written(s.read[t].sla_paused_at, s.new[t].sla_paused_at,
                                               tickets[t].sla_paused_at)
  BY <1>2, UpdateRowType
<1>4. /\ tickets' = [t \in Tickets |-> IF t \in s.has THEN row(t) ELSE tickets[t]]
      /\ timeline' = [t \in Tickets |-> timeline[t] \o FinalLog(s)[t]]
      /\ pauses' = [t \in Tickets |-> CommittedPauses(s, t)]
      /\ sess' = [sess EXCEPT ![c] = Idle]
      /\ now' = now
  BY DEF Commit
<1> HIDE DEF s, row
<1>5. TypeOK'
  <2>1. tickets' \in [Tickets -> Row]
    BY <1>2, <1>3, <1>4
  <2>2. timeline' \in [Tickets -> Seq(Event)]
    <3>1. \A t \in Tickets : FinalLog(s)[t] \in Seq(Event) /\ timeline[t] \in Seq(Event)
      BY <1>1, FinalLogType DEF TypeOK
    <3>2. \A t \in Tickets : timeline[t] \o FinalLog(s)[t] \in Seq(Event)
      BY <3>1, ConcatProperties
    <3> QED
      BY <1>4, <3>2
  <2>3. pauses' \in [Tickets -> Seq(PauseRow)]
    <3>1. \A t \in Tickets : CommittedPauses(s, t) \in Seq(PauseRow)
      BY <1>1, CommittedPausesType DEF TypeOK
    <3> QED
      BY <1>4, <3>1
  <2>4. sess' \in [Slots -> Session]
    BY <1>1, <1>4, IdleType DEF TypeOK
  <2>5. now' \in Nat
    BY <1>1, <1>4 DEF TypeOK
  <2> QED
    BY <2>1, <2>2, <2>3, <2>4, <2>5 DEF TypeOK
<1>6. ASSUME NEW t \in Tickets, tickets'[t].sla_paused_at # None
      PROVE  \E i \in DOMAIN pauses'[t] : pauses'[t][i].resumed_at = None
  <2>1. pauses'[t] = CommittedPauses(s, t) /\ pauses[t] \in Seq(PauseRow)
    BY <1>1, <1>4 DEF TypeOK
  <2>2. CASE s.ins = t
    BY <1>1, <2>1, <2>2, CommittedPausesType
  <2>3. CASE s.ins # t
    <3>1. /\ tickets[t].sla_paused_at # None
          /\ t \in s.has => s.new[t].sla_paused_at = s.read[t].sla_paused_at
      <4>1. CASE t \in s.has
        <5>1. tickets'[t].sla_paused_at = Written(s.read[t].sla_paused_at,
                  s.new[t].sla_paused_at, tickets[t].sla_paused_at)
          BY <1>3, <1>4, <4>1
        <5>2. s.new[t].sla_paused_at \in {None, s.read[t].sla_paused_at}
          BY <1>1, <2>3, <4>1 DEF PauseStaged
        <5> QED
          BY <1>6, <4>1, <5>1, <5>2 DEF Written
      <4>2. CASE t \notin s.has
        BY <1>4, <1>6, <4>2
      <4> QED
        BY <4>1, <4>2
    <3>2. s.upd # None => s.upd[1] # t
      BY <1>1, <3>1 DEF PauseStaged
    <3>3. pauses'[t] = pauses[t]
      BY <1>1, <2>1, <2>3, <3>2, CommittedPausesType
    <3> QED
      BY <1>1, <3>1, <3>3 DEF PausedHasOpenRow, OpenPauses
  <2> QED
    BY <2>2, <2>3
<1>7. PausedHasOpenRow'
  BY <1>6 DEF PausedHasOpenRow, OpenPauses
<1>8. \A d \in Slots : PauseStaged(sess'[d])
  <2> TAKE d \in Slots
  <2>1. sess'[d] = IF d = c THEN Idle ELSE sess[d]
    BY <1>1, <1>4 DEF TypeOK
  <2> QED
    BY <2>1, IdleSound DEF Sound, DeskInv
<1> QED
  BY <1>5, <1>7, <1>8 DEF DeskInv, PauseStaged, ClockStaged, SameClock, Extended

\* The desk starts in the invariant.
LEMMA InitInv == Init => DeskInv
<1> SUFFICES ASSUME Init PROVE DeskInv
  OBVIOUS
<1>1. \A t \in Tickets : tickets[t] \in Row
  BY CreatedRowsType, DeskAssumption DEF Init
<1>2. tickets \in [Tickets -> Row]
  BY <1>1 DEF Init
<1>3. ASSUME NEW t \in Tickets PROVE <<CreatedEvent(tickets[t])>> \in Seq(Event)
  <2>1. tickets[t].assigned_to \in Agents \cup {None}
    BY <1>1, Columns
  <2>2. CreatedEvent(tickets[t]) \in Event
    BY <2>1 DEF CreatedEvent, Event, EventTypes
  <2> QED
    BY <2>2
<1>4. timeline \in [Tickets -> Seq(Event)]
  BY <1>3 DEF Init
<1>5. pauses \in [Tickets -> Seq(PauseRow)] /\ now \in Nat
  BY DEF Init
<1>6. sess \in [Slots -> Session] /\ \A c \in Slots : PauseStaged(sess[c])
  BY IdleSound DEF Init, Sound
<1>7. \A t \in Tickets : tickets[t].sla_paused_at = None
  <2>1. \A r \in CreatedRows : r.sla_paused_at = None
    BY DEF CreatedRows, PortalRows, EmployeeRequestRow, CallTicketRow, FollowupRows, BlankRow
  <2> QED
    BY <2>1, DeskAssumption DEF Init
<1> QED
  BY <1>2, <1>4, <1>5, <1>6, <1>7 DEF DeskInv, TypeOK, PausedHasOpenRow

\* Every request of an agent keeps the invariant.
LEMMA AgentRequestInv ==
  ASSUME DeskInv, NEW c \in Slots, NEW a \in Agents, AgentRequest(c, a)
  PROVE  DeskInv'
<1>1. {"change_status", "resolve", "close"} \subseteq AllHandlers \ ClockHandlers
      /\ {"resolved", "closed"} \subseteq Statuses
  BY DEF AllHandlers, ClockHandlers, Statuses
<1>2. ASSUME NEW t \in Tickets, NEW s \in Statuses, ChangeStatus(c, a, t, s) PROVE DeskInv'
  BY <1>1, <1>2, SetStatusInv DEF ChangeStatus
<1>3. ASSUME NEW t \in Tickets, Resolve(c, a, t) \/ Close(c, a, t) PROVE DeskInv'
  BY <1>1, <1>3, SetStatusInv DEF Resolve, Close
<1>4. ASSUME NEW t \in Tickets,
             \/ Claim(c, a, t)
             \/ \E b \in Agents : Transfer(c, a, t, b)
             \/ \E type \in {"reply_external", "reply_internal"} : Reply(c, a, t, type)
             \/ \E p \in Priorities : UpdatePriority(c, a, t, p)
             \/ Escalate(c, a, t)
             \/ PauseSla(c, a, t)
             \/ ResumeSla(c, a, t)
      PROVE  DeskInv'
  BY <1>4, ClaimInv, TransferInv, ReplyInv, UpdatePriorityInv, EscalateInv, PauseInv, ResumeInv
<1>5. ASSUME NEW t \in Tickets,
             \/ \E q \in Queues : ReturnToQueue(c, a, t, q)
             \/ ReturnToEscalator(c, a, t)
             \/ \E b \in Agents : ReturnToAgent(c, a, t, b)
      PROVE  DeskInv'
  BY <1>5, ReturnsInv
<1>6. ASSUME NEW S \in SUBSET Tickets,
             \/ \E p \in Tickets : Merge(c, a, p, S)
             \/ \E b \in Agents : BulkReassign(c, a, S, b)
             \/ \E q \in Queues : BulkMoveToQueue(c, a, S, q)
             \/ \E b \in Agents : BulkAssign(c, a, S, b)
      PROVE  DeskInv'
  BY <1>6, StartManyInv
<1> QED
  BY <1>2, <1>3, <1>4, <1>5, <1>6, AutoBalanceInv DEF AgentRequest

\* Every step keeps the invariant.
LEMMA NextInv == DeskInv /\ [Next]_vars => DeskInv'
<1> SUFFICES ASSUME DeskInv, [Next]_vars PROVE DeskInv'
  OBVIOUS
<1>1. Sessions \subseteq Slots /\ Workers \subseteq Slots
  BY DEF Slots
<1>2. ASSUME NEW c \in Sessions, WebStep(c) PROVE DeskInv'
  BY <1>1, <1>2, AgentRequestInv, CustomerReplyInv, NextTicketInv DEF WebStep
<1>3. ASSUME NEW w \in Workers, WorkerStep(w) PROVE DeskInv'
  BY <1>1, <1>3, BreachInv, AutoResolveInv, AutoResolveCheckInv, AutoArchiveInv DEF WorkerStep
<1>4. ASSUME NEW c \in Slots, Rollback(c) PROVE DeskInv'
  BY <1>4, IdleSound, BeginInv DEF Rollback
<1>5. CASE Tick
  BY <1>5 DEF Tick, DeskInv, TypeOK, PausedHasOpenRow, OpenPauses,
                 PauseStaged, ClockStaged, SameClock, Extended
<1>6. CASE UNCHANGED vars
  BY <1>6 DEF vars, DeskInv, TypeOK, PausedHasOpenRow, OpenPauses,
                 PauseStaged, ClockStaged, SameClock, Extended
<1> QED
  BY <1>2, <1>3, <1>4, <1>5, <1>6, CommitInv DEF Next

\* Whatever the requests and the tasks do, in whatever order they commit, the
\* rows, the timeline, the pause rows and the staged work are well typed: a
\* column never holds a value outside its CHECK constraint or its type, and an
\* UPDATE of an sla_pauses row always finds it.
THEOREM TypeCorrect == Spec => []TypeOK
<1>1. DeskInv => TypeOK
  BY DEF DeskInv
<1> QED
  BY <1>1, InitInv, NextInv, PTL DEF Spec

\* A ticket whose clock is paused always has an open sla_pauses row, however
\* many pauses and resumes race: pause_sla writes the column and the row in one
\* transaction, and resume_sla closes a row only with the column it clears.
THEOREM PauseRowsSound == Spec => []PausedHasOpenRow
<1>1. DeskInv => PausedHasOpenRow
  BY DEF DeskInv
<1> QED
  BY <1>1, InitInv, NextInv, PTL DEF Spec
=============================================================================
