--------------------------- MODULE TicketDeskProps ---------------------------
(***************************************************************************)
(* What should hold of TicketDesk: first whatever the sessions do to each   *)
(* other, then when sessions run one after the other, then what the         *)
(* repository says of the desk and interleaved sessions break.              *)
(***************************************************************************)
EXTENDS TicketDesk, Functions

-----------------------------------------------------------------------------
(* Invariants that survive lost updates: they relate columns to rows that   *)
(* the same transaction appended, so no interleaving separates them.        *)

\* A ticket whose clock is paused has an open sla_pauses row, so that a resume
\* always finds one to close (pause_sla and resume_sla, app/services/sla.py).
PausedHasOpenRow ==
    \A t \in Tickets : tickets[t].sla_paused_at # None => OpenPauses(t) # {}

\* The owner in the row was named by an event of the timeline: nobody holds a
\* ticket without a trace of how he got it (claim_ticket, transfer, ...).
OwnerLogged ==
    \A t \in Tickets : tickets[t].assigned_to # None =>
        \E i \in DOMAIN timeline[t] :
            /\ timeline[t][i].type \in {"ticket_created", "assigned", "transferred"}
            /\ timeline[t][i].to = tickets[t].assigned_to

\* A ticket waits, is resolved or is closed only after an event that said so.
StatusLogged ==
    \A t \in Tickets :
        tickets[t].status \in {"pending_customer", "pending_3rd", "resolved", "closed"} =>
            \E i \in DOMAIN timeline[t] :
                \/ timeline[t][i].to = tickets[t].status
                \/ tickets[t].status = "closed" /\ timeline[t][i].type = "merged"

\* The breach flag and the breach event come together, and the flag is never
\* lost again (check_sla_breaches_async).
BreachLogged ==
    \A t \in Tickets : tickets[t].sla_breached <=>
        \E i \in DOMAIN timeline[t] : timeline[t][i].type = "sla_breach"

\* "Employees cannot bypass supervisors": a ticket is in the manager queue only
\* if a supervisor or somebody above put it there.
ManagerQueueEarned ==
    \A t \in Tickets : tickets[t].current_queue = "manager" =>
        \E i \in DOMAIN timeline[t] :
            /\ timeline[t][i].to = "manager" /\ timeline[t][i].actor # None
            /\ SupervisorPlus(timeline[t][i].actor)

\* No reopen is counted twice: the counter that escalates a ticket never
\* exceeds the reopens of the timeline (change_ticket_status).
Reopens(t) == {i \in DOMAIN timeline[t] : timeline[t][i].type = "reopened"}
ReopensLogged == \A t \in Tickets : tickets[t].reopen_count <= Cardinality(Reopens(t))

-----------------------------------------------------------------------------
(* What holds when sessions run one after the other (one slot).             *)

\* Iron Rule 2: the work clock runs exactly while the ticket is open.
ClockFollowsStatus ==
    \A t \in Tickets : tickets[t].status = "open" <=> tickets[t].last_opened_at # None

\* No stretch of time is counted twice: the work time, with the stretch that
\* is running, fits in the time that has passed.
WorkTimeFits ==
    \A t \in Tickets :
        LET r == tickets[t]
        IN  r.work_time_seconds <= IF r.last_opened_at = None THEN now ELSE r.last_opened_at

\* The latest event that names an owner names the owner of the row.
LatestOwnerEvent(t) ==
    LET named == {i \in DOMAIN timeline[t] :
                      timeline[t][i].type \in {"ticket_created", "assigned", "transferred"}}
    IN  timeline[t][CHOOSE i \in named : \A j \in named : j <= i].to
OwnerIsLatest ==
    \A t \in Tickets : tickets[t].assigned_to # None =>
        LatestOwnerEvent(t) = tickets[t].assigned_to

\* The deadline moved by the length of the closed pauses of the ticket and nothing
\* else, and the clock is paused exactly while one pause row is open.  The length is
\* the whole of it, "wall-clock duration" in a comment of resume_sla; its docstring
\* says "excluding non-business time", which no line of it computes (sla.py).
PausedTime(t) ==
    LET length == [i \in DOMAIN pauses[t] \ OpenPauses(t) |->
                       pauses[t][i].resumed_at - pauses[t][i].paused_at]
    IN  FoldFunction(+, 0, length)
DeadlineAccounts ==
    \A t \in Tickets :
        /\ tickets[t].sla_deadline # None =>
               tickets[t].sla_deadline = SlaBudget + PausedTime(t)
        /\ OpenPauses(t) = {} <=> tickets[t].sla_paused_at = None
        /\ \A i \in OpenPauses(t) : pauses[t][i].paused_at = tickets[t].sla_paused_at

\* The desk keeps the promises of TicketLifecycle.
Promised(r) == [status |-> r.status, owner |-> r.assigned_to, queue |-> r.current_queue,
                reopens |-> r.reopen_count, breached |-> r.sla_breached]
Lifecycle == INSTANCE TicketLifecycle WITH desk <- [t \in Tickets |-> Promised(tickets[t])]
KeepsLifecycle == Lifecycle!Spec

-----------------------------------------------------------------------------
(* Properties of single commits.                                            *)

Committing(c, op) == sess[c].op = op /\ Commit(c)

\* "Assign a ticket to the claiming agent atomically" (claim_ticket): a claim
\* that commits takes a ticket nobody owns.
ClaimIsExclusive ==
    [][\A c \in Slots : Committing(c, "claim") =>
          \A t \in sess[c].has : tickets[t].assigned_to = None]_vars

\* A merge copies the "public replies from secondaries ... to the primary
\* timeline" (merge_tickets): when it commits, no public reply of a ticket it
\* closes is missing from the primary.
MergeKeepsReplies ==
    [][\A c \in Slots : Committing(c, "merge") =>
          \A t \in sess[c].has : \A e \in Range(timeline[t]) :
              e.type \in {"reply_external", "reply_customer"} => e \in Range(timeline'[sess[c].primary])]_vars

-----------------------------------------------------------------------------
(* What the sweeps must get done, under FairSpec.                           *)

\* No ticket stays past its deadline unflagged: the sweep flags it, or somebody
\* pauses or finishes it first (check_sla_breaches_async, every 60 seconds).
BreachDetected == \A t \in Tickets : []<>~IsOverdue(tickets[t], now)

\* No ticket waits forever for a customer who does not answer
\* (auto_resolve_pending_customer, every hour).
Unanswered(t) ==
    \A i \in DOMAIN timeline[t] : timeline[t][i].type = "reply_customer" =>
        timeline[t][i].at + PendingTimeout <= now
StuckResolved == \A t \in Tickets : []<>~(IsStuck(tickets[t]) /\ Unanswered(t))
=============================================================================
