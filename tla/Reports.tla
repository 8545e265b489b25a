-------------------------------- MODULE Reports --------------------------------
(***************************************************************************)
(* What the workers of the reports queue do: the scheduled reports, from    *)
(* the beat to the mail, and the employee of the month.                     *)
(***************************************************************************)
EXTENDS PageRequest

CONSTANTS
    ScheduledReports,   \* keys of the rows there may be
    Days,               \* bound: the days of the calendar, 0 .. Days - 1, over and over
    Sundays, Firsts,    \* the Sundays and the firsts of a month among them
    Hours,              \* bound: the hours the clock shows, those at which something happens among them
    MaxDue,             \* bound: tasks of the beat waiting at a time, and tasks of a report when it rings
    Agents, Tickets

VARIABLES
    now,        \* the day and hour, in UTC
    reports,
    due,        \* run_scheduled_due tasks in the queue
    queued,     \* generate_scheduled tasks in the queue, by report
    tickets     \* the tickets of the month before

repVars == <<now, reports, due, queued, tickets>>

\* There are agents, or else nobody is chosen.
ASSUME MonthAssumption == IsFiniteSet(Tickets) /\ Agents # {}

NoReport == [exists |-> FALSE, is_active |-> FALSE, frequency |-> "daily", last_sent_at |-> None]

ReportsInit ==
    /\ now = [day |-> 0, hour |-> 0]
    /\ reports = [r \in ScheduledReports |-> NoReport]
    /\ due = 0 /\ queued = [r \in ScheduledReports |-> 0]
    /\ tickets = [k \in Tickets |-> [assigned_to |-> CHOOSE a \in Agents : TRUE,
                                     resolved |-> FALSE, sla_breached |-> FALSE]]

-----------------------------------------------------------------------------
(* The managers' table of reports.                                          *)

create_scheduled_report(r, frequency) ==
    /\ ~reports[r].exists
    /\ reports' = [reports EXCEPT ![r] = [NoReport EXCEPT !.exists = TRUE, !.is_active = TRUE,
                                                          !.frequency = frequency]]
    /\ Interrupt
    /\ UNCHANGED <<now, due, queued, tickets>>

BeginReport(c, op, r, new) ==
    /\ reports[r].exists
    /\ Begin(c, [op |-> op, pc |-> "commit", report |-> r, stage |-> Only(r, NetChange(reports[r], new))])
    /\ UNCHANGED repVars

update_scheduled_report(c, r, on) == BeginReport(c, "update_scheduled_report", r, [is_active |-> on])
delete_scheduled_report(c, r) == BeginReport(c, "delete_scheduled_report", r, NoReport)

-----------------------------------------------------------------------------
(* The beat and the workers.                                                *)

UtcOffset == 3            \* Asia/Riyadh, the time zone of the beat
BeatHour == 7 - UtcOffset

ASSUME HoursAssumption == {0, BeatHour, 7} \subseteq Hours /\ Hours \subseteq 0 .. 23

Tick ==
    LET later == {h \in Hours : h > now.hour}
        next == IF later = {} THEN [day |-> (now.day + 1) % Days, hour |-> 0]
                ELSE [now EXCEPT !.hour = CHOOSE h \in later : \A g \in later : h <= g]
    IN  /\ next.hour = BeatHour => due < MaxDue /\ \A r \in ScheduledReports : queued[r] < MaxDue
        /\ now' = next
        /\ due' = IF next.hour = BeatHour THEN due + 1 ELSE due
        /\ UNCHANGED <<page, req, reports, queued, tickets>>

\* The worker asks for the hour in UTC.
IsDue(frequency) ==
    /\ now.hour = 7
    /\ frequency = "weekly" => now.day \in Sundays
    /\ frequency = "monthly" => now.day \in Firsts

On(r) == reports[r].exists /\ reports[r].is_active

run_scheduled_reports_due ==
    /\ due > 0 /\ due' = due - 1
    /\ queued' = [r \in ScheduledReports |->
                    IF On(r) /\ IsDue(reports[r].frequency) THEN queued[r] + 1 ELSE queued[r]]
    /\ UNCHANGED <<page, req, now, reports, tickets>>

\* The task carries only the key: the row is read again.
WasQueued(r) == TRUE
StillOn(r) == On(r)

generate_scheduled_report(c, r) ==
    /\ queued[r] > 0 /\ queued' = [queued EXCEPT ![r] = @ - 1]
    /\ IF StillOn(r)
       THEN Begin(c, [op |-> "generate", pc |-> "mail", report |-> r, stage |-> Only(r, [last_sent_at |-> now.day])])
       ELSE UNCHANGED <<page, req>>
    /\ UNCHANGED <<now, reports, due, tickets>>

\* A mail that fails is logged, and the report is stamped all the same.
MailReport(c) ==
    /\ Busy(c) /\ req[c].pc = "mail"
    /\ Goto(c, [pc |-> "commit"])
    /\ UNCHANGED repVars

\* An UPDATE of a report that was deleted meanwhile fails, a second DELETE does not.
CommitReport(c) ==
    /\ Busy(c) /\ req[c].pc = "commit"
    /\ IF reports[req[c].report].exists \/ req[c].op = "delete_scheduled_report"
       THEN reports' = Written(reports, req[c].stage) /\ Finish(c)
       ELSE Rollback(c) /\ UNCHANGED reports
    /\ UNCHANGED <<now, due, queued, tickets>>

ReportsNext ==
    /\ page.area = "reports"
    /\ \/ Tick \/ run_scheduled_reports_due
       \/ \E r \in ScheduledReports :
            \/ \E frequency \in {"daily", "weekly", "monthly"} : create_scheduled_report(r, frequency)
            \/ \E c \in Slots : \/ delete_scheduled_report(c, r) \/ generate_scheduled_report(c, r)
                                \/ \E on \in BOOLEAN : update_scheduled_report(c, r, on)
       \/ \E c \in Slots : MailReport(c) \/ CommitReport(c)

-----------------------------------------------------------------------------
(* The employee of the month: three counts of each agent, one after another,*)
(* while the desk goes on.                                                  *)

Resolved(a) == {k \in Tickets : tickets[k].assigned_to = a /\ tickets[k].resolved}
AnyBreach(a) == Cardinality({k \in Tickets : tickets[k].assigned_to = a /\ tickets[k].sla_breached})
Breaches(a) == Cardinality({k \in Resolved(a) : tickets[k].sla_breached})

\* No ticket has a csat_score: csat_submit reads the survey, so its session
\* refuses the transaction it asks for next.
AvgCsat(a) == 0

Score(resolved, breaches) == resolved * 10 - breaches * 5

compute_employee_of_month(c) ==
    /\ Begin(c, [op |-> "compute_employee_of_month", pc |-> "count", left |-> Agents,
                 agent |-> None, resolved |-> 0, best_score |-> -1, best_agent |-> None])
    /\ UNCHANGED repVars

CountResolved(c, a) ==
    /\ Busy(c) /\ req[c].pc = "count" /\ a \in req[c].left
    /\ Goto(c, [pc |-> "score", agent |-> a, resolved |-> Cardinality(Resolved(a))])
    /\ UNCHANGED repVars

ScoreAgent(c) ==
    LET r == req[c]
        score == Score(r.resolved, Breaches(r.agent)) + AvgCsat(r.agent) * 20
        better == score > r.best_score
    IN  /\ Busy(c) /\ r.pc = "score"
        /\ Goto(c, [pc |-> "count", left |-> r.left \ {r.agent},
                    best_score |-> IF better THEN score ELSE r.best_score,
                    best_agent |-> IF better THEN r.agent ELSE r.best_agent])
        /\ UNCHANGED repVars

AnnounceWinner(c) ==
    /\ Busy(c) /\ req[c].pc = "count" /\ req[c].left = {}
    /\ Rollback(c)
    /\ UNCHANGED repVars

\* The desk: a ticket is resolved, reopened, breached or handed on.
DeskMoves(k) ==
    /\ \E resolved, breached \in BOOLEAN, a \in Agents :
        tickets' = [tickets EXCEPT ![k] = [assigned_to |-> a, resolved |-> resolved, sla_breached |-> breached]]
    /\ Interrupt
    /\ UNCHANGED <<now, reports, due, queued>>

MonthNext ==
    /\ page.area = "month"
    /\ \/ \E k \in Tickets : DeskMoves(k)
       \/ \E c \in Slots : \/ compute_employee_of_month(c) \/ ScoreAgent(c) \/ AnnounceWinner(c)
                           \/ \E a \in Agents : CountResolved(c, a)
=============================================================================
