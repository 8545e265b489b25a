----------------------------- MODULE TicketRow -----------------------------
(***************************************************************************)
(* One row of the "tickets" table and what each handler computes from the   *)
(* row it has read.  Everything here is a pure function of a row: the       *)
(* sessions that read and write rows are in TicketDesk.                     *)
(*                                                                          *)
(* Columns no property tells apart (names, texts, category, assigned_at,    *)
(* resolved_at, closed_at, the CSAT and lock columns) are left out.         *)
(***************************************************************************)
EXTENDS Naturals, Sequences

CONSTANTS
    Tickets,      \* the ticket ids
    Agents,       \* the users that call the internal API
    Depts,        \* the departments that own a specialized sub-queue
    RoleOf,       \* the role in the caller's token
    DeptsOf,      \* the user_departments rows of each agent
    None,         \* SQL NULL
    SlaBudget,    \* ticks from creation to the deadline of a portal ticket
    ReopenLimit   \* reopens that trigger the automatic escalation (3)

Roles      == {"employee", "supervisor", "manager", "admin"}
Statuses   == {"new", "open", "pending_customer", "pending_3rd",
               "resolved", "closed", "archived"}
Queues     == {"main", "specialized", "supervisor", "manager", "internal_tickets"}
Priorities == {"high", "medium"}

ASSUME NoneAssumption ==
    /\ None \notin Nat
    /\ None \notin Agents
    /\ None \notin Depts
    /\ None \notin Tickets
    /\ None \notin Statuses
ASSUME StaffAssumption ==
    /\ RoleOf \in [Agents -> Roles]
    /\ DeptsOf \in [Agents -> SUBSET Depts]
ASSUME BudgetAssumption == SlaBudget \in Nat /\ ReopenLimit \in Nat

Time == Nat \cup {None}

Row == [status            : Statuses,
        current_queue     : Queues,
        sub_queue_dept_id : Depts \cup {None},
        assigned_to       : Agents \cup {None},
        parent_ticket_id  : Tickets \cup {None},
        priority          : Priorities,
        sla_deadline      : Time,
        sla_paused_at     : Time,
        sla_breached      : BOOLEAN,
        reopen_count      : Nat,
        work_time_seconds : Nat,
        last_opened_at    : Time,
        updated_at        : Nat,
        version           : Nat]

-----------------------------------------------------------------------------
(* Who may touch a row.                                                     *)

SupervisorPlus(a) == RoleOf[a] \in {"supervisor", "manager", "admin"}

CanAccess(a, r) ==
    \/ SupervisorPlus(a)
    \/ r.assigned_to = a
    \/ r.assigned_to = None /\ r.current_queue = "main"
    \/ r.current_queue = "specialized" /\ r.sub_queue_dept_id \in DeptsOf[a]

-----------------------------------------------------------------------------
(* The rows that the creation paths insert.                                 *)

BlankRow == [status |-> "new", current_queue |-> "main",
             sub_queue_dept_id |-> None, assigned_to |-> None,
             parent_ticket_id |-> None, priority |-> "medium",
             sla_deadline |-> None, sla_paused_at |-> None,
             sla_breached |-> FALSE, reopen_count |-> 0,
             work_time_seconds |-> 0, last_opened_at |-> None,
             updated_at |-> 0, version |-> 1]

\* A portal submission: the main queue, or the sub-queue of the department
\* the customer picked.
PortalRows ==
    LET main == [BlankRow EXCEPT !.sla_deadline = SlaBudget]
    IN  {main} \cup
        {[main EXCEPT !.current_queue = "specialized", !.sub_queue_dept_id = d] : d \in Depts}

\* A branch employee's registration request goes to the supervisors.
EmployeeRequestRow == [BlankRow EXCEPT !.current_queue = "supervisor"]

\* A call-log outcome "ticket": an unassigned internal ticket.
CallTicketRow == [BlankRow EXCEPT !.current_queue = "internal_tickets"]

\* A call-log outcome "followup": born open and owned by the agent, with no
\* last_opened_at.
FollowupRows ==
    {[CallTicketRow EXCEPT !.status = "open", !.assigned_to = a] : a \in Agents}

CreatedRows == PortalRows \cup {EmployeeRequestRow, CallTicketRow} \cup FollowupRows

-----------------------------------------------------------------------------
(* The status machine and the automatic time tracking.                      *)

StatusTransitions ==
    [s \in Statuses |->
        CASE s = "new"              -> {"open"}
          [] s = "open"             -> {"pending_customer", "pending_3rd", "resolved"}
          [] s = "pending_customer" -> {"open", "resolved"}
          [] s = "pending_3rd"      -> {"open", "resolved"}
          [] s = "resolved"         -> {"closed", "open"}
          [] s = "closed"           -> {"open"}
          [] s = "archived"         -> {}]

ValidTransition(current, target) == target \in StatusTransitions[current]

\* Mutant: the start of the stretch is not reset.
AccumulateAgain(r, at) ==
    [r EXCEPT !.work_time_seconds =
                  IF r.last_opened_at # None /\ at > r.last_opened_at
                  THEN @ + (at - r.last_opened_at) ELSE @]

AccumulateWorkTime(r, at) ==
    [r EXCEPT !.work_time_seconds =
                  IF r.last_opened_at # None /\ at > r.last_opened_at
                  THEN @ + (at - r.last_opened_at) ELSE @,
              !.last_opened_at = None]

IsReopen(r, target) == target = "open" /\ r.status \in {"resolved", "closed"}

\* Mutant: one reopen too late.
NeedsLateEscalation(r) ==
    /\ r.current_queue \notin {"supervisor", "manager"}
    /\ r.reopen_count > ReopenLimit \/ r.sla_breached

\* Supervisor and manager queues are left alone; every other queue escalates.
NeedsAutoEscalation(r) ==
    /\ r.current_queue \notin {"supervisor", "manager"}
    /\ r.reopen_count >= ReopenLimit \/ r.sla_breached

CheckAutoEscalation(r) ==
    IF NeedsAutoEscalation(r) THEN [r EXCEPT !.current_queue = "supervisor"] ELSE r

ChangeTicketStatus(r, target, at) ==
    LET timed   == IF r.status = "open" THEN AccumulateWorkTime(r, at) ELSE r
        clocked == IF target = "open" THEN [timed EXCEPT !.last_opened_at = at] ELSE timed
        moved   == [clocked EXCEPT !.status = target, !.version = @ + 1]
    IN  IF IsReopen(r, target)
        THEN CheckAutoEscalation([moved EXCEPT !.reopen_count = @ + 1])
        ELSE moved

-----------------------------------------------------------------------------
(* Assignment and queue moves.                                              *)

\* claim_ticket: no version bump, and no guard on the status.
ClaimTicket(r, a, at) ==
    LET owned == [r EXCEPT !.assigned_to = a]
    IN  IF r.status = "new"
        THEN [owned EXCEPT !.status = "open", !.last_opened_at = at] ELSE owned

\* auto_balance hands a "new" ticket to an online employee.
BalanceTicket(r, a, at) ==
    [r EXCEPT !.assigned_to = a, !.status = "open", !.last_opened_at = at]

\* Mutant: whatever the status was.
BulkAssignReopens(r, a) == [r EXCEPT !.assigned_to = a, !.status = "open"]

\* The supervisor page's bulk assign: owner and status only.
BulkAssignTicket(r, a) ==
    [r EXCEPT !.assigned_to = a, !.status = IF @ = "new" THEN "open" ELSE @]

\* Mutant: the new owner is logged and not stored.
TransferNobody(r, a) == [r EXCEPT !.version = @ + 1]

TransferTicket(r, a) == [r EXCEPT !.assigned_to = a, !.version = @ + 1]

\* Mutants: the caller's role as the queue; everybody reaches the managers.
EscalationToRole(a)    == RoleOf[a]
EscalationToManager(a) == "manager"

EscalationTarget(a) == IF RoleOf[a] = "employee" THEN "supervisor" ELSE "manager"

\* Mutant: whoever escalates takes the ticket.
EscalateAndTake(r, a) ==
    [r EXCEPT !.current_queue = EscalationTarget(a), !.assigned_to = a, !.version = @ + 1]

EscalateTicket(r, a) ==
    [r EXCEPT !.current_queue = EscalationTarget(a), !.version = @ + 1]

\* return_ticket: a new owner (None for the two queues) and queue; a waiting
\* ticket goes back to work.
ReturnTicket(r, owner, queue, at) ==
    LET moved == [r EXCEPT !.assigned_to = owner, !.current_queue = queue,
                           !.version = @ + 1]
    IN  IF r.status \in {"pending_customer", "pending_3rd"}
        THEN [moved EXCEPT !.status = "open", !.last_opened_at = at] ELSE moved

\* bulk_reassign and bulk_move_to_queue.
BulkMoveTicket(r, owner, queue) ==
    [r EXCEPT !.assigned_to = owner, !.current_queue = queue, !.version = @ + 1]

\* A secondary ticket of a merge: closed and linked, its clock left as it was.
MergeTicket(r, primary) == [r EXCEPT !.status = "closed", !.parent_ticket_id = primary]

-----------------------------------------------------------------------------
(* Replies, the SLA clock and the periodic sweeps.                          *)

\* Mutant: the reply reopens the ticket and does not start its clock.
CustomerReplyUnclocked(r, at) ==
    IF r.status = "pending_customer" THEN [r EXCEPT !.status = "open"] ELSE r

CustomerReplyTicket(r, at) ==
    IF r.status = "pending_customer"
    THEN [r EXCEPT !.status = "open", !.last_opened_at = at] ELSE r

PauseTicket(r, at) == [r EXCEPT !.sla_paused_at = at]

\* Mutants: the deadline is not extended; the clock stays paused.
ResumeNoExtension(r, at) == [r EXCEPT !.sla_paused_at = None]
ResumeStaysPaused(r, at) ==
    [r EXCEPT !.sla_deadline = IF @ = None THEN None ELSE @ + (at - r.sla_paused_at)]

\* The whole wall-clock length of the pause is added to the deadline.
ResumeTicket(r, at) ==
    [r EXCEPT !.sla_deadline = IF @ = None THEN None ELSE @ + (at - r.sla_paused_at),
              !.sla_paused_at = None]

IsOverdue(r, at) ==
    /\ r.sla_deadline # None /\ r.sla_deadline <= at
    /\ ~r.sla_breached
    /\ r.sla_paused_at = None
    /\ r.status \notin {"resolved", "closed", "archived"}

\* check_sla_breaches_async with check_sla_auto_escalation.
BreachEscalates(r) == r.current_queue \in {"main", "specialized"}
\* Mutant: the ticket is escalated and not flagged.
BreachUnflagged(r) ==
    [r EXCEPT !.current_queue = IF BreachEscalates(r) THEN "supervisor" ELSE @]

BreachTicket(r) ==
    [r EXCEPT !.sla_breached = TRUE,
              !.current_queue = IF BreachEscalates(r) THEN "supervisor" ELSE @]

AutoResolveTicket(r) == [r EXCEPT !.status = "resolved"]

-----------------------------------------------------------------------------
(* What an UPDATE leaves in the table.  The ORM writes the columns whose    *)
(* value differs from the one it read, whatever the row holds by then;      *)
(* updated_at is set by every UPDATE (the handler or its onupdate).         *)

Written(old, new, current) == IF new # old THEN new ELSE current

UpdateRow(read, new, current, at) ==
    [status            |-> Written(read.status, new.status, current.status),
     current_queue     |-> Written(read.current_queue, new.current_queue, current.current_queue),
     sub_queue_dept_id |-> current.sub_queue_dept_id,
     assigned_to       |-> Written(read.assigned_to, new.assigned_to, current.assigned_to),
     parent_ticket_id  |-> Written(read.parent_ticket_id, new.parent_ticket_id,
                                   current.parent_ticket_id),
     priority          |-> Written(read.priority, new.priority, current.priority),
     sla_deadline      |-> Written(read.sla_deadline, new.sla_deadline, current.sla_deadline),
     sla_paused_at     |-> Written(read.sla_paused_at, new.sla_paused_at, current.sla_paused_at),
     sla_breached      |-> Written(read.sla_breached, new.sla_breached, current.sla_breached),
     reopen_count      |-> Written(read.reopen_count, new.reopen_count, current.reopen_count),
     work_time_seconds |-> Written(read.work_time_seconds, new.work_time_seconds,
                                   current.work_time_seconds),
     last_opened_at    |-> Written(read.last_opened_at, new.last_opened_at,
                                   current.last_opened_at),
     updated_at        |-> IF new # read THEN at ELSE current.updated_at,
     version           |-> Written(read.version, new.version, current.version)]
=============================================================================
