------------------------------ MODULE IntakeProps ------------------------------
(***************************************************************************)
(* What should hold of Intake.                                              *)
(***************************************************************************)
EXTENDS Intake, Integers

\* "Thread-safe globally incrementing ticket number [...] Uses a single Redis key
\* that never resets" (generate_ticket_number, app/services/ticket.py): no two
\* submissions in flight hold the same CSTS number, and none holds a committed one,
\* whatever becomes of the key.
Holding == {c \in Slots : req[c].row # None /\ req[c].pc # "enqueue"
                          /\ req[c].row.number.series = "CSTS"}
NumbersAreUnique ==
    \A c \in Holding :
        /\ \A other \in Holding \ {c} : req[other].row.number # req[c].row.number
        /\ \A r \in rows : r.number # req[c].row.number

\* "Uses SETNX so only the first caller wins (race-safe)": so it is, also when
\* several seed the counter at once (_seed_counter_if_needed), as long as Redis
\* keeps the counter while a number of it is held and the queries for the seed are
\* answered.
NumbersNeverMeet == mix.fails \cap {"counter", "seed"} = {} => NumbersAreUnique

\* A confirmation names a ticket that is there: it is handed to Celery after the
\* commit, and a submission that failed sends none (submit_ticket).
ConfirmedIsCommitted == \A number \in confirmed : \E r \in rows : r.number = number

\* A committed upload is on disk (submit_ticket writes the file first).
UploadIsOnDisk == \A r \in rows : r.attached => r.number \in files

\* "max 5 ticket submissions per phone per day" (submit_ticket) is more than the code
\* keeps: the window is not a day of the calendar but begins with the first
\* submission it counts, so a stretch as long as a day holds the rest of one window
\* and the whole of the next.  What is kept takes a Redis that holds the key until it
\* expires: a key that is lost lets more through, and one whose request fails between
\* INCR and EXPIRE has no expiry, and its phone is refused from then on.
SubmissionsOf(phone, from) ==
    {r \in rows : r.phone = phone /\ r.number.series = "CSTS"
                  /\ from <= r.created /\ r.created < from + DayLength}
DayIsLimited ==
    mix.fails \cap {"limit", "expiry"} = {} =>
        \A phone \in Phones, from \in Moments :
            Cardinality(SubmissionsOf(phone, from)) <= 2 * SubmitLimit - 1

\* The working time of a stretch, day by day and not by the loop of the code.
Elapsed(time, holidays) ==
    LET today == time - At(Day(time), 0)
    IN  CASE ~IsBusinessDay(Day(time), holidays) \/ today <= WORK_START_H -> 0
          [] IsBusinessDay(Day(time), holidays) /\ today >= WORK_END_H -> WORK_END_H - WORK_START_H
          [] OTHER -> today - WORK_START_H
Worked(from, to, holidays) ==
    LET days == {d \in Day(from) .. Day(to) - 1 : IsBusinessDay(d, holidays)}
    IN  (WORK_END_H - WORK_START_H) * Cardinality(days) + Elapsed(to, holidays)
            - Elapsed(from, holidays)

\* The deadline comes when the SLA has passed in working time, not before, and less
\* than a minute late: of the first day the part of a minute is lost
\* (_add_business_minutes, app/services/sla.py).  It is stated for a deadline in
\* the year whose holidays were loaded.
DeadlineIsWorkedOut ==
    \A r \in {r \in rows : r.sla_deadline # None} :
        Year(Day(r.sla_deadline)) = Year(Day(r.created - UtcOffset)) =>
            /\ Worked(r.created, r.sla_deadline, Holidays) - 2 * SLA_MINUTES["medium"] \in {0, 1}
            /\ Worked(r.sla_deadline - 1, r.sla_deadline, Holidays) = 1

-----------------------------------------------------------------------------
\* "No match -> create new ticket" (app/worker/tasks/email_ingestion.py): a mail
\* that was handled and is not of a loop has become a ticket.
MailBecomesTicket ==
    \A m \in Mails \ (Looped \cup Numbered) :
        inbox[m] = "handled" /\ (\A c \in Slots : req[c].op # "mail") =>
            \E r \in rows : r.phone = None /\ r.number.series = "CSTS"
=============================================================================
