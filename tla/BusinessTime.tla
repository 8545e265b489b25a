----------------------------- MODULE BusinessTime -----------------------------
(***************************************************************************)
(* The business calendar of the SLA: Sunday to Thursday, 8 to 16, without   *)
(* the holidays of the year in which the ticket was created.  Time is a     *)
(* number of half minutes, an odd one standing for any moment within a      *)
(* minute; it runs in Riyadh and starts on day 1.                           *)
(***************************************************************************)
EXTENDS Naturals

CONSTANTS
    Holidays,     \* the days in the holidays table
    YearLength,   \* bound: days of a year, scaled down
    FirstWeekday, \* weekday() of day 0, Monday being 0
    MaxLoops      \* bound: iterations of the deadline loop

ASSUME CalendarAssumption ==
    /\ Holidays \subseteq Nat /\ YearLength \in Nat \ {0}
    /\ FirstWeekday \in 0..6 /\ MaxLoops \in Nat

BUSINESS_WEEKDAYS == {0, 1, 2, 3, 6}
DayTime      == 2880 \* half minutes
UtcOffset    == 360  \* Riyadh is three hours ahead of the created_at of a row
WORK_START_H == 960  \* 08:00
WORK_END_H   == 1920 \* 16:00

SLA_MINUTES == [critical |-> 30, high |-> 120, medium |-> 480, low |-> 1440]

Day(time)   == time \div DayTime
Year(day)   == day \div YearLength
weekday(day) == (FirstWeekday + day) % 7
At(day, time) == day * DayTime + time

HolidaysOfNextYear(year) == {d \in Holidays : Year(d) = year + 1}

\* The holidays of one year.
_get_holiday_set(year) == {d \in Holidays : Year(d) = year}

IsBusinessDay(day, holidays) == weekday(day) \in BUSINESS_WEEKDAYS /\ day \notin holidays

\* One iteration of the loop that spends the SLA on working time.  What is left of
\* the day counts in whole minutes.
SpendDay(s, holidays) ==
    LET day   == Day(s.current)
        start == IF s.current < At(day, WORK_START_H) THEN At(day, WORK_START_H) ELSE s.current
        minutes_today == (At(day, WORK_END_H) - start) \div 2
        next  == At(day + 1, WORK_START_H)
    IN  CASE s.remaining = 0 -> s
          [] s.remaining > 0 /\ (~IsBusinessDay(day, holidays) \/ start >= At(day, WORK_END_H)) ->
                [s EXCEPT !.current = next]
          [] OTHER -> IF s.remaining <= minutes_today
                      THEN [current |-> start + 2 * s.remaining, remaining |-> 0]
                      ELSE [current |-> next, remaining |-> s.remaining - minutes_today]

\* The loop, which the code leaves when nothing remains.
Spent(start, minutes, holidays) ==
    LET loop[n \in 0..MaxLoops] ==
            IF n = 0 THEN [current |-> start, remaining |-> minutes] ELSE SpendDay(loop[n - 1], holidays)
    IN  loop[MaxLoops]

_add_business_minutes(start, minutes, holidays) == Spent(start, minutes, holidays).current

calculate_sla_deadline(priority, created_at) ==
    _add_business_minutes(created_at, SLA_MINUTES[priority],
        _get_holiday_set(Year(Day(created_at - UtcOffset))))
=============================================================================
