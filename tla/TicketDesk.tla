----------------------------- MODULE TicketDesk -----------------------------
(***************************************************************************)
(* The ticket desk: web requests and Celery tasks that read rows of the     *)
(* tickets table, decide on what they read, and commit what they computed.  *)
(*                                                                          *)
(* PostgreSQL runs READ COMMITTED and no handler locks a row or compares    *)
(* the version in its UPDATE, so between the read and the commit of one     *)
(* session any number of others may commit.  A handler is one action that   *)
(* reads the row, evaluates its guards and stages the new row, the timeline *)
(* events and the sla_pauses writes; Commit installs what is staged and     *)
(* Rollback drops it.  Handlers that read several tickets with one SELECT   *)
(* each have one more action for each ticket.                               *)
(***************************************************************************)
EXTENDS TicketRow, FiniteSets

CONSTANTS
    Sessions,        \* concurrent web requests, one database session each
    Workers,         \* concurrent Celery task slots
    Online,          \* the online, active employees auto_balance hands tickets to
    Handlers,        \* the handlers that run
    InitialRows,     \* the rows the desk starts from
    PendingTimeout,  \* ticks a ticket may wait for its customer (48 hours)
    ArchiveAge,      \* ticks after which a closed ticket is archived (30 days)
    RequestLife,     \* bound: ticks a session stays open
    MaxTime,         \* bound: the clock
    MaxEvents        \* bound: a request starts on a timeline shorter than this

VARIABLES
    now,        \* the wall clock
    tickets,    \* the committed rows
    timeline,   \* the committed ticket_timeline rows, in commit order
    pauses,     \* the committed sla_pauses rows
    sess        \* what each session has read and staged

vars == <<now, tickets, timeline, pauses, sess>>

Slots == Sessions \cup Workers

AllHandlers ==
    {"claim", "change_status", "resolve", "close", "transfer", "reply",
     "update_priority", "escalate", "return_ticket", "pause_sla", "resume_sla",
     "customer_reply", "merge", "bulk_reassign", "bulk_move", "auto_balance",
     "bulk_assign", "check_sla_breaches", "auto_resolve", "auto_archive"}

ASSUME DeskAssumption ==
    /\ IsFiniteSet(Tickets) /\ IsFiniteSet(Online)
    /\ Online \subseteq {a \in Agents : RoleOf[a] = "employee"}
    /\ Handlers \subseteq AllHandlers
    /\ InitialRows \subseteq CreatedRows
    /\ None \notin Tickets \X Nat
    /\ PendingTimeout \in Nat /\ ArchiveAge \in Nat /\ RequestLife \in Nat
    /\ MaxTime \in Nat /\ MaxEvents \in Nat

-----------------------------------------------------------------------------
(* Timeline events, pause rows and sessions.                                *)

EventTypes == {"ticket_created", "assigned", "status_changed", "reply_external",
               "reply_internal", "reply_customer", "sla_paused", "sla_resumed",
               "sla_breach", "escalated", "transferred", "merged", "resolved",
               "closed", "reopened"}

\* "to" is what the event's text or metadata names: an owner, a status or a queue.
Event == [type : EventTypes, actor : Agents \cup {None},
          to : Agents \cup Statuses \cup Queues \cup {None}, at : Nat]

Ev(type, actor, to) == [type |-> type, actor |-> actor, to |-> to, at |-> now]

PauseRow == [paused_at : Nat, resumed_at : Time]

NoEvents == [t \in Tickets |-> <<>>]
NoRows   == [t \in Tickets |-> BlankRow]

\* The rows a SELECT returns, and f(t) for each of them.
Rows(S, f(_)) == [t \in Tickets |-> IF t \in S THEN f(t) ELSE BlankRow]
Events(S, f(_)) == [t \in Tickets |-> IF t \in S THEN f(t) ELSE <<>>]
Current(t) == tickets[t]

Session == [op      : AllHandlers \cup {"idle"},
            by      : Agents \cup {None},
            at      : Nat,                            \* datetime.now() of the handler
            has     : SUBSET Tickets,                 \* the tickets it has read
            read    : [Tickets -> Row],               \* their rows as they were read
            new     : [Tickets -> Row],               \* their rows as staged
            log     : [Tickets -> Seq(Event)],        \* staged events
            ins     : Tickets \cup {None},            \* staged sla_pauses INSERT
            upd     : (Tickets \X Nat) \cup {None},   \* staged sla_pauses UPDATE
            todo    : SUBSET Tickets,                 \* tickets still to be read
            owner   : Agents \cup {None},             \* form parameters of the
            queue   : Queues,                         \*   handlers that take
            primary : Tickets \cup {None}]            \*   several tickets

Idle == [op |-> "idle", by |-> None, at |-> 0, has |-> {}, read |-> NoRows,
         new |-> NoRows, log |-> NoEvents, ins |-> None, upd |-> None,
         todo |-> {}, owner |-> None, queue |-> "main", primary |-> None]

TypeOK ==
    /\ now \in Nat
    /\ tickets \in [Tickets -> Row]
    /\ timeline \in [Tickets -> Seq(Event)]
    /\ pauses \in [Tickets -> Seq(PauseRow)]
    /\ sess \in [Slots -> Session]

CreatedEvent(r) == [type |-> "ticket_created", actor |-> r.assigned_to,
                    to |-> r.assigned_to, at |-> 0]

Init ==
    /\ now = 0
    /\ tickets \in [Tickets -> InitialRows]
    /\ timeline = [t \in Tickets |-> <<CreatedEvent(tickets[t])>>]
    /\ pauses = [t \in Tickets |-> <<>>]
    /\ sess = [c \in Slots |-> Idle]

-----------------------------------------------------------------------------
(* A request on one ticket: it reads the row and stages a new one.          *)

CanRun(c, op) == op \in Handlers /\ sess[c].op = "idle"

CanStart(c, op, t) == CanRun(c, op) /\ Len(timeline[t]) < MaxEvents

\* A session that has read the tickets of "has" and is still to read "todo".
Opened(op, a, has, read, new, log, todo) ==
    [op |-> op, by |-> a, at |-> now, has |-> has, read |-> read, new |-> new, log |-> log,
     ins |-> None, upd |-> None, todo |-> todo,
     owner |-> None, queue |-> "main", primary |-> None]

Staged(op, a, t, row, events) ==
    Opened(op, a, {t}, [NoRows EXCEPT ![t] = tickets[t]], [NoRows EXCEPT ![t] = row],
           [NoEvents EXCEPT ![t] = events], {})

Begin(c, s) == sess' = [sess EXCEPT ![c] = s] /\ UNCHANGED <<now, tickets, timeline, pauses>>

Claim(c, a, t) ==
    /\ CanStart(c, "claim", t)
    /\ tickets[t].assigned_to = None
    /\ Begin(c, Staged("claim", a, t, ClaimTicket(tickets[t], a, now),
                       <<Ev("assigned", a, a)>>))

\* Mutant: a reopen is logged as any other status change.
StatusEventNoReopen(r, target) ==
    IF target \in {"resolved", "closed"} THEN target ELSE "status_changed"

StatusEvent(r, target) ==
    IF target \in {"resolved", "closed"} THEN target
    ELSE IF IsReopen(r, target) THEN "reopened" ELSE "status_changed"

\* Mutant: the event names the status the ticket leaves.
StatusEventsOfOld(r, target, a) == <<Ev(StatusEvent(r, target), a, r.status)>>

\* On a reopen the automatic escalation logs its event before the status does.
StatusEvents(r, target, a) ==
    LET reopened  == [r EXCEPT !.reopen_count = @ + 1]
        escalated == IsReopen(r, target) /\ NeedsAutoEscalation(reopened)
    IN  (IF escalated THEN <<Ev("escalated", a, "supervisor")>> ELSE <<>>)
            \o <<Ev(StatusEvent(r, target), a, target)>>

SetStatus(c, op, a, t, target) ==
    /\ CanStart(c, op, t)
    /\ CanAccess(a, tickets[t])
    /\ ValidTransition(tickets[t].status, target)
    /\ Begin(c, Staged(op, a, t, ChangeTicketStatus(tickets[t], target, now),
                       StatusEvents(tickets[t], target, a)))

\* The version a form posts is compared with the version read, never again: a
\* client that posts the current version gets through, which allows most.
ChangeStatus(c, a, t, target) == SetStatus(c, "change_status", a, t, target)
Resolve(c, a, t) == SetStatus(c, "resolve", a, t, "resolved")
Close(c, a, t)   == SetStatus(c, "close", a, t, "closed")

Transfer(c, a, t, b) ==
    /\ CanStart(c, "transfer", t)
    /\ CanAccess(a, tickets[t])
    /\ Begin(c, Staged("transfer", a, t, TransferTicket(tickets[t], b),
                       <<Ev("transferred", a, b)>>))

Reply(c, a, t, type) ==
    /\ CanStart(c, "reply", t)
    /\ CanAccess(a, tickets[t])
    /\ Begin(c, Staged("reply", a, t, [tickets[t] EXCEPT !.version = @ + 1],
                       <<Ev(type, a, None)>>))

UpdatePriority(c, a, t, p) ==
    /\ CanStart(c, "update_priority", t)
    /\ SupervisorPlus(a)
    /\ p # tickets[t].priority
    /\ Begin(c, Staged("update_priority", a, t,
                       [tickets[t] EXCEPT !.priority = p, !.version = @ + 1],
                       <<Ev("status_changed", a, None)>>))

Escalate(c, a, t) ==
    /\ CanStart(c, "escalate", t)
    /\ CanAccess(a, tickets[t])
    /\ RoleOf[a] = "employee" => tickets[t].current_queue # "supervisor"
    /\ Begin(c, Staged("escalate", a, t, EscalateTicket(tickets[t], a),
                       <<Ev("escalated", a, EscalationTarget(a))>>))

ReturnTo(c, a, t, owner, queue) ==
    /\ CanStart(c, "return_ticket", t)
    /\ SupervisorPlus(a)
    /\ Begin(c, Staged("return_ticket", a, t, ReturnTicket(tickets[t], owner, queue, now),
                       <<Ev("transferred", a, owner)>>))

ReturnToQueue(c, a, t, queue) ==
    queue \in {"main", "specialized"} /\ ReturnTo(c, a, t, None, queue)

ReturnToAgent(c, a, t, b) == ReturnTo(c, a, t, b, "main")

\* The actors of the latest "escalated" events; the sweep's have no actor.
LatestEscalators(t) ==
    LET esc == {i \in DOMAIN timeline[t] : timeline[t][i].type = "escalated"}
    IN  {timeline[t][i].actor : i \in {j \in esc :
             \A k \in esc : timeline[t][k].at <= timeline[t][j].at}}

ReturnToEscalator(c, a, t) ==
    \E b \in LatestEscalators(t) \ {None} : ReturnTo(c, a, t, b, "main")

CustomerReply(c, t) ==
    /\ CanStart(c, "customer_reply", t)
    /\ tickets[t].status \notin {"closed", "archived"}
    /\ Begin(c, Staged("customer_reply", None, t, CustomerReplyTicket(tickets[t], now),
                       <<Ev("reply_customer", None, None)>>))

-----------------------------------------------------------------------------
(* The SLA clock and its pause rows.                                        *)

PauseSla(c, a, t) ==
    /\ CanStart(c, "pause_sla", t)
    /\ CanAccess(a, tickets[t])
    /\ tickets[t].sla_paused_at = None
    /\ Begin(c, [Staged("pause_sla", a, t, PauseTicket(tickets[t], now),
                        <<Ev("sla_paused", a, None)>>) EXCEPT !.ins = t])

OpenPauses(t) == {i \in DOMAIN pauses[t] : pauses[t][i].resumed_at = None}

\* The open row with the latest paused_at, None if there is no open row.
LatestOpenPause(t) ==
    IF OpenPauses(t) = {} THEN {None}
    ELSE {<<t, i>> : i \in {i \in OpenPauses(t) : \A j \in OpenPauses(t) :
                               pauses[t][j].paused_at <= pauses[t][i].paused_at}}

\* At least one tick separates a pause from its resume.
ResumeSla(c, a, t) ==
    /\ CanStart(c, "resume_sla", t)
    /\ CanAccess(a, tickets[t])
    /\ tickets[t].sla_paused_at # None /\ now > tickets[t].sla_paused_at
    /\ \E row \in LatestOpenPause(t) :
           Begin(c, [Staged("resume_sla", a, t, ResumeTicket(tickets[t], now),
                            <<Ev("sla_resumed", a, None)>>) EXCEPT !.upd = row])

-----------------------------------------------------------------------------
(* Handlers that take several tickets: one SELECT for each.                 *)

StartMany(c, op, a, S) ==
    /\ CanRun(c, op)
    /\ SupervisorPlus(a)
    /\ S # {} /\ \A t \in S : Len(timeline[t]) < MaxEvents

ManySession(op, a, S) == Opened(op, a, {}, NoRows, NoRows, NoEvents, S)

Merge(c, a, p, S) ==
    /\ StartMany(c, "merge", a, S)
    /\ p \notin S /\ Len(timeline[p]) < MaxEvents
    /\ Begin(c, [ManySession("merge", a, S) EXCEPT !.primary = p])

BulkReassign(c, a, S, b) ==
    /\ StartMany(c, "bulk_reassign", a, S)
    /\ Begin(c, [ManySession("bulk_reassign", a, S) EXCEPT !.owner = b, !.queue = "main"])

BulkMoveToQueue(c, a, S, q) ==
    /\ StartMany(c, "bulk_move", a, S)
    /\ q \in Queues \ {"internal_tickets"}
    /\ Begin(c, [ManySession("bulk_move", a, S) EXCEPT !.queue = q])

\* The supervisor page opens its own transaction with db.begin(), which fails
\* once the permission check has used the session; only the administrator's
\* request, for whom that check runs no query, gets through.
BulkAssign(c, a, S, b) ==
    /\ StartMany(c, "bulk_assign", a, S)
    /\ RoleOf[a] = "admin"
    /\ Begin(c, [ManySession("bulk_assign", a, S) EXCEPT !.owner = b])

\* One more ticket of session c is read and staged.
Extend(c, t, row, events) ==
    LET s == sess[c]
    IN  Begin(c, [s EXCEPT !.has  = @ \cup {t},
                           !.read = [@ EXCEPT ![t] = tickets[t]],
                           !.new  = [@ EXCEPT ![t] = row],
                           !.log  = events,
                           !.todo = @ \ {t}])

Logged(log, t, events) == [log EXCEPT ![t] = @ \o events]

\* Mutant: the customer's own replies are not copied by a merge.
IsAgentReply(e) == e.type = "reply_external"

IsPublicReply(e) == e.type \in {"reply_external", "reply_customer"}

\* The ways to list a finite set, one element after the other.
Orders(S) == {o \in [1..Cardinality(S) -> S] : \A x \in S : \E i \in DOMAIN o : o[i] = x}

\* The public replies of a timeline, ORDER BY created_at.
PublicReplies(events) ==
    {[i \in DOMAIN o |-> events[o[i]]] : o \in
        {o \in Orders({i \in DOMAIN events : IsPublicReply(events[i])}) :
            \A i, j \in DOMAIN o : i < j => events[o[i]].at <= events[o[j]].at}}

\* The child's public replies are copied to the primary, then it is closed.
MergeChild(c, t) ==
    LET s == sess[c]
        p == s.primary
    IN  /\ s.op = "merge" /\ t \in s.todo
        /\ \/ /\ tickets[t].status \in {"closed", "archived"}
              /\ Begin(c, [s EXCEPT !.todo = @ \ {t}])
           \/ /\ tickets[t].status \notin {"closed", "archived"}
              /\ \E replies \in PublicReplies(timeline[t]) :
                    Extend(c, t, MergeTicket(tickets[t], p),
                           Logged(Logged(s.log, p, replies), t, <<Ev("merged", s.by, None)>>))

BulkMoveNext(c, t) ==
    LET s == sess[c]
    IN  /\ s.op \in {"bulk_reassign", "bulk_move"} /\ t \in s.todo
        /\ Extend(c, t, BulkMoveTicket(tickets[t], s.owner, s.queue),
                  Logged(s.log, t, <<Ev("transferred", s.by,
                      IF s.op = "bulk_move" THEN s.queue ELSE s.owner)>>))

BulkAssignNext(c, t) ==
    LET s == sess[c]
    IN  /\ s.op = "bulk_assign" /\ t \in s.todo
        /\ Extend(c, t, BulkAssignTicket(tickets[t], s.owner), s.log)

Workload(b) ==
    Cardinality({t \in Tickets : /\ tickets[t].assigned_to = b
                                 /\ tickets[t].status \in {"new", "open", "pending_customer"}})

\* Round robin over the online employees, the least loaded first.
AutoBalance(c, a) ==
    LET idle == {t \in Tickets : tickets[t].assigned_to = None /\ tickets[t].status = "new"}
    IN  /\ CanRun(c, "auto_balance")
        /\ RoleOf[a] = "admin"
        /\ idle # {} /\ Online # {}
        /\ \E agents \in Orders(Online), queue \in Orders(idle) :
            /\ \A i, j \in DOMAIN agents : i < j => Workload(agents[i]) <= Workload(agents[j])
            /\ LET turn(t)  == (CHOOSE i \in DOMAIN queue : queue[i] = t) - 1
                   agent(t) == agents[(turn(t) % Cardinality(Online)) + 1]
                   row(t)   == BalanceTicket(tickets[t], agent(t), now)
                   event(t) == <<Ev("assigned", a, agent(t))>>
               IN  Begin(c, Opened("auto_balance", a, idle, Rows(idle, Current),
                                   Rows(idle, row), Events(idle, event), {}))

-----------------------------------------------------------------------------
(* The Celery tasks.                                                        *)

BreachEvents(t) ==
    <<Ev("sla_breach", None, None)>> \o
        (IF BreachEscalates(tickets[t]) THEN <<Ev("escalated", None, "supervisor")>> ELSE <<>>)

BreachedRow(t) == BreachTicket(tickets[t])

\* Mutant: the sweep looks at assigned tickets only.
CheckAssignedBreaches(w) ==
    LET overdue == {t \in Tickets : IsOverdue(tickets[t], now) /\ tickets[t].assigned_to # None}
    IN  /\ CanRun(w, "check_sla_breaches")
        /\ overdue # {}
        /\ Begin(w, Opened("check_sla_breaches", None, overdue, Rows(overdue, Current),
                           Rows(overdue, BreachedRow), Events(overdue, BreachEvents), {}))

CheckSlaBreaches(w) ==
    LET overdue == {t \in Tickets : IsOverdue(tickets[t], now)}
    IN  /\ CanRun(w, "check_sla_breaches")
        /\ overdue # {}
        /\ Begin(w, Opened("check_sla_breaches", None, overdue, Rows(overdue, Current),
                           Rows(overdue, BreachedRow), Events(overdue, BreachEvents), {}))

IsStuck(r) == r.status = "pending_customer" /\ r.updated_at + PendingTimeout <= now

AutoResolve(w) ==
    LET stuck == {t \in Tickets : IsStuck(tickets[t])}
    IN  /\ CanRun(w, "auto_resolve")
        /\ stuck # {}
        /\ Begin(w, Opened("auto_resolve", None, stuck, Rows(stuck, Current),
                           Rows(stuck, Current), NoEvents, stuck))

\* Mutant: any customer reply, however old, keeps the ticket waiting.
AutoResolveNeverAnswered(w, t) ==
    LET s       == sess[w]
        replied == \E e \in {timeline[t][i] : i \in DOMAIN timeline[t]} : e.type = "reply_customer"
    IN  /\ s.op = "auto_resolve" /\ t \in s.todo
        /\ Begin(w, [s EXCEPT
               !.todo = @ \ {t},
               !.new = IF replied THEN @ ELSE [s.new EXCEPT ![t] = AutoResolveTicket(s.new[t])],
               !.log = IF replied THEN @
                       ELSE [s.log EXCEPT ![t] = <<Ev("resolved", None, "resolved")>>]])

\* Then the timeline of each ticket is searched for a customer reply.
AutoResolveCheck(w, t) ==
    LET s       == sess[w]
        replied == \E i \in DOMAIN timeline[t] :
                       /\ timeline[t][i].type = "reply_customer"
                       /\ timeline[t][i].at + PendingTimeout > s.at
    IN  /\ s.op = "auto_resolve" /\ t \in s.todo
        /\ IF replied
           THEN Begin(w, [s EXCEPT !.todo = @ \ {t}])
           ELSE Begin(w, [s EXCEPT
                    !.todo = @ \ {t},
                    !.new = [s.new EXCEPT ![t] = AutoResolveTicket(s.new[t])],
                    !.log = [s.log EXCEPT ![t] = <<Ev("resolved", None, "resolved")>>]])

\* One UPDATE ... WHERE, which evaluates its condition on the row it locks.
AutoArchive(w) ==
    LET old == {t \in Tickets : /\ tickets[t].status = "closed"
                                /\ tickets[t].updated_at + ArchiveAge <= now}
    IN  /\ CanRun(w, "auto_archive")
        /\ old # {}
        /\ tickets' = [t \in Tickets |->
                IF t \in old
                THEN [tickets[t] EXCEPT !.status = "archived", !.updated_at = now]
                ELSE tickets[t]]
        /\ UNCHANGED <<now, timeline, pauses, sess>>

-----------------------------------------------------------------------------
(* The end of a session, and time.                                          *)

\* Merge logs on the primary when every child has been handled.
FinalLog(s) ==
    IF s.op = "merge"
    THEN Logged(s.log, s.primary, <<[type |-> "merged", actor |-> s.by,
                                     to |-> None, at |-> s.at]>>)
    ELSE s.log

CommittedPauses(s, t) ==
    LET closed == IF s.upd # None /\ s.upd[1] = t
                  THEN [pauses[t] EXCEPT ![s.upd[2]].resumed_at = s.at] ELSE pauses[t]
    IN  IF s.ins = t THEN Append(closed, [paused_at |-> s.at, resumed_at |-> None])
        ELSE closed

Commit(c) ==
    LET s == sess[c]
    IN  /\ s.op # "idle" /\ s.todo = {}
        /\ tickets' = [t \in Tickets |->
                IF t \in s.has
                THEN UpdateRow(s.read[t], s.new[t], tickets[t], s.at) ELSE tickets[t]]
        /\ timeline' = [t \in Tickets |-> timeline[t] \o FinalLog(s)[t]]
        /\ pauses' = [t \in Tickets |-> CommittedPauses(s, t)]
        /\ sess' = [sess EXCEPT ![c] = Idle]
        /\ UNCHANGED now

\* An exception, a lost connection or a worker that dies: nothing is written.
Rollback(c) == sess[c].op # "idle" /\ Begin(c, Idle)

Tick ==
    /\ now < MaxTime
    /\ \A c \in Slots : sess[c].op = "idle" \/ now < sess[c].at + RequestLife
    /\ now' = now + 1
    /\ UNCHANGED <<tickets, timeline, pauses, sess>>

-----------------------------------------------------------------------------

AgentRequest(c, a) ==
    \/ \E t \in Tickets :
        \/ Claim(c, a, t)
        \/ \E s \in Statuses : ChangeStatus(c, a, t, s)
        \/ Resolve(c, a, t)
        \/ Close(c, a, t)
        \/ \E b \in Agents : Transfer(c, a, t, b)
        \/ \E type \in {"reply_external", "reply_internal"} : Reply(c, a, t, type)
        \/ \E p \in Priorities : UpdatePriority(c, a, t, p)
        \/ Escalate(c, a, t)
        \/ \E q \in Queues : ReturnToQueue(c, a, t, q)
        \/ ReturnToEscalator(c, a, t)
        \/ \E b \in Agents : ReturnToAgent(c, a, t, b)
        \/ PauseSla(c, a, t)
        \/ ResumeSla(c, a, t)
    \/ \E S \in SUBSET Tickets :
        \/ \E p \in Tickets : Merge(c, a, p, S)
        \/ \E b \in Agents : BulkReassign(c, a, S, b)
        \/ \E q \in Queues : BulkMoveToQueue(c, a, S, q)
        \/ \E b \in Agents : BulkAssign(c, a, S, b)
    \/ AutoBalance(c, a)

WebStep(c) ==
    \/ \E a \in Agents : AgentRequest(c, a)
    \/ \E t \in Tickets : \/ CustomerReply(c, t)
                          \/ MergeChild(c, t)
                          \/ BulkMoveNext(c, t)
                          \/ BulkAssignNext(c, t)

WorkerStep(w) ==
    \/ CheckSlaBreaches(w)
    \/ AutoResolve(w)
    \/ \E t \in Tickets : AutoResolveCheck(w, t)
    \/ AutoArchive(w)

Next ==
    \/ \E c \in Sessions : WebStep(c)
    \/ \E w \in Workers : WorkerStep(w)
    \/ \E c \in Slots : Commit(c) \/ Rollback(c)
    \/ Tick

Spec == Init /\ [][Next]_vars

\* Beat queues every sweep again and again and the workers drain the queue, so
\* a sweep that keeps having work is started; a failed one is retried, so a
\* sweep that keeps coming to its commit gets through.  Agents and customers
\* owe nothing.
Fairness ==
    \A w \in Workers :
        /\ SF_vars(CheckSlaBreaches(w))
        /\ SF_vars(AutoResolve(w))
        /\ SF_vars(\E t \in Tickets : AutoResolveCheck(w, t))
        /\ SF_vars(Commit(w))

FairSpec == Spec /\ Fairness
=============================================================================
