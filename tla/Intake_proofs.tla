---------------------------- MODULE Intake_proofs ----------------------------
(***************************************************************************)
(* Proofs about the intake: numbers, confirmations, uploads, rate limits    *)
(* and deadlines, for any number of phones, mails and concurrent requests.  *)
(***************************************************************************)
EXTENDS IntakeProps, Induction

USE CalendarAssumption

-----------------------------------------------------------------------------
(* The deadline loop.                                                       *)

\* The position of the loop.
Clock == [current : Nat, remaining : Nat]
Starting(start, minutes) == [current |-> start, remaining |-> minutes]
Spending(holidays)       == [s \in Clock |-> SpendDay(s, holidays)]

LEMMA SpendDayType ==
  ASSUME NEW s \in Clock, NEW holidays
  PROVE  SpendDay(s, holidays) \in Clock
  BY DEF SpendDay, Clock, Day, At, DayTime, WORK_START_H, WORK_END_H

\* The recursive function that stands for the loop of _add_business_minutes is
\* its iteration from the creation time.
LEMMA DeadlineLoop ==
  ASSUME NEW start \in Nat, NEW minutes \in Nat, NEW holidays
  PROVE  \E loop : /\ IsIteration(loop, Clock, Starting(start, minutes), Spending(holidays),
                                  MaxLoops)
                   /\ Spent(start, minutes, holidays) = loop[MaxLoops]
<1> DEFINE x0   == [current |-> start, remaining |-> minutes]
           F(g) == [n \in 0..MaxLoops |-> IF n = 0 THEN x0 ELSE SpendDay(g[n - 1], holidays)]
           loop == CHOOSE g : g = F(g)
           step == Spending(holidays)
<1>1. Spent(start, minutes, holidays) = loop[MaxLoops]
  BY DEF Spent
<1>2. x0 \in Clock /\ step \in [Clock -> Clock]
  BY SpendDayType DEF Clock, Spending
<1>3. PICK g : IsIteration(g, Clock, x0, step, MaxLoops)
  BY <1>2, Iterates
<1>4. \A h \in [0..MaxLoops -> Clock] :
        F(h) = [n \in 0..MaxLoops |-> IF n = 0 THEN x0 ELSE step[h[n - 1]]]
  <2>1. \A h \in [0..MaxLoops -> Clock], n \in 0..MaxLoops :
          n # 0 => SpendDay(h[n - 1], holidays) = step[h[n - 1]]
    BY DEF Spending
  <2> QED
    BY <2>1
<1>5. g = F(g)
  BY <1>3, <1>4 DEF IsIteration
<1>6. loop = F(loop)
  BY <1>5
<1> HIDE DEF loop, x0
<1>7. \A n \in 0..MaxLoops :
        loop[n] = IF n = 0 THEN x0 ELSE SpendDay(loop[n - 1], holidays)
  BY <1>6
<1>8. \A n \in 0..MaxLoops : loop[n] \in Clock
  <2> DEFINE S == {n \in Nat : n \in 0..MaxLoops => loop[n] \in Clock}
  <2>1. 0 \in S
    BY <1>2, <1>7
  <2>2. ASSUME NEW n \in Nat, n \in S
        PROVE  n + 1 \in S
    <3>1. n + 1 \in 0..MaxLoops => loop[n] \in Clock /\ loop[n + 1] = SpendDay(loop[n], holidays)
      BY <1>7, <2>2
    <3> QED
      BY <3>1, SpendDayType
  <2>3. \A n \in Nat : n \in S
    BY <2>1, <2>2, NaturalsAll
  <2> QED
    BY <2>3
<1>9. loop \in [0..MaxLoops -> Clock]
  BY <1>6, <1>8
<1>10. loop = [n \in 0..MaxLoops |-> IF n = 0 THEN x0 ELSE step[loop[n - 1]]]
  BY <1>4, <1>6, <1>9
<1> QED
  BY <1>1, <1>9, <1>10 DEF IsIteration, Starting, x0

-----------------------------------------------------------------------------
(* The calendar: what an iteration of the loop spends of the working time.   *)

LEMMA FewerCounted ==
  ASSUME NEW T, IsFiniteSet(T), NEW S \in SUBSET T
  PROVE  IsFiniteSet(S) /\ Cardinality(S) \in Nat /\ Cardinality(T) \in Nat
         /\ Cardinality(S) <= Cardinality(T)
  BY FS_Subset, FS_CardinalityType

LEMMA DayType ==
  ASSUME NEW h \in Nat
  PROVE  /\ Day(h) \in Nat /\ 2880 * Day(h) <= h /\ h < 2880 * Day(h) + 2880
         /\ At(Day(h), 0) = 2880 * Day(h)
<1> DEFINE d == h \div 2880
<1>1. d \in Nat /\ 2880 * d <= h /\ h < 2880 * d + 2880
  OBVIOUS
<1>2. Day(h) = d
  BY DEF Day, DayTime
<1> HIDE DEF d
<1>3. At(d, 0) = 2880 * d
  BY <1>1 DEF At, DayTime
<1> QED
  BY <1>1, <1>2, <1>3

LEMMA DayIs ==
  ASSUME NEW h \in Nat, NEW d \in Nat, 2880 * d <= h, h < 2880 * d + 2880
  PROVE  Day(h) = d
<1> DEFINE e == Day(h)
<1>1. e \in Nat /\ 2880 * e <= h /\ h < 2880 * e + 2880
  BY DayType
<1> HIDE DEF e
<1>2. e = d
  BY <1>1
<1> QED
  BY <1>2 DEF e

LEMMA DayGrows ==
  ASSUME NEW g \in Nat, NEW h \in Nat, g <= h
  PROVE  Day(g) <= Day(h)
<1> DEFINE d == Day(g)
           e == Day(h)
<1>1. d \in Nat /\ e \in Nat /\ 2880 * d <= g /\ h < 2880 * e + 2880
  BY DayType
<1> HIDE DEF d, e
<1>2. d <= e
  BY <1>1
<1> QED
  BY <1>2 DEF d, e

LEMMA YearGrows ==
  ASSUME NEW d \in Nat, NEW e \in Nat, d <= e
  PROVE  Year(d) \in Nat /\ Year(e) \in Nat /\ Year(d) <= Year(e)
<1> DEFINE L == YearLength
<1>1. L \in Nat /\ L > 0
  OBVIOUS
<1>2. Year(d) = d \div L /\ Year(e) = e \div L
  BY DEF Year
<1> HIDE DEF L
<1>3. d \div L \in Nat /\ e \div L \in Nat
  BY <1>1
<1>4. (d \div L) * L <= d /\ e < (e \div L) * L + L
  BY <1>1
<1>5. ASSUME NEW x \in Nat, NEW y \in Nat, x * L <= d, e < y * L + L
      PROVE  x <= y
  <2>1. x * L < (y + 1) * L
    BY <1>1, <1>5
  <2>2. CASE x >= y + 1
    <3>1. x * L >= (y + 1) * L
      BY <1>1, <2>2
    <3> QED
      BY <1>1, <2>1, <3>1
  <2> QED
    BY <2>2
<1> QED
  BY <1>2, <1>3, <1>4, <1>5

\* The working days from one day to before another.
WorkDays(d, e, holidays) == {x \in d .. e - 1 : IsBusinessDay(x, holidays)}

LEMMA WorkDaysFinite ==
  ASSUME NEW d \in Nat, NEW e \in Nat, NEW holidays
  PROVE  IsFiniteSet(WorkDays(d, e, holidays)) /\ Cardinality(WorkDays(d, e, holidays)) \in Nat
<1>1. e - 1 \in Int /\ WorkDays(d, e, holidays) \subseteq d .. e - 1
  BY DEF WorkDays
<1>2. IsFiniteSet(d .. e - 1)
  BY <1>1, FS_Interval
<1> QED
  BY <1>1, <1>2, FewerCounted

LEMMA WorkDaysCounted ==
  ASSUME NEW a \in Nat, NEW b \in Nat, NEW holidays
  PROVE  Cardinality(WorkDays(Day(a), Day(b), holidays)) \in Nat
<1>1. Day(a) \in Nat /\ Day(b) \in Nat
  BY DayType
<1> QED
  BY <1>1, WorkDaysFinite

LEMMA WorkDaysNext ==
  ASSUME NEW d \in Nat, NEW e \in Nat, d <= e, NEW holidays
  PROVE  Cardinality(WorkDays(d, e + 1, holidays)) =
            Cardinality(WorkDays(d, e, holidays)) + (IF IsBusinessDay(e, holidays) THEN 1 ELSE 0)
<1> DEFINE S == WorkDays(d, e, holidays)
<1>1. e \notin S /\ IsFiniteSet(S) /\ Cardinality(S) \in Nat
  BY WorkDaysFinite DEF WorkDays
<1>2. WorkDays(d, e + 1, holidays) = IF IsBusinessDay(e, holidays) THEN S \cup {e} ELSE S
  BY DEF WorkDays
<1> HIDE DEF S
<1>3. CASE IsBusinessDay(e, holidays)
  <2>1. Cardinality(S \cup {e}) = Cardinality(S) + 1
    BY <1>1, FS_AddElement
  <2> QED
    BY <1>2, <1>3, <2>1 DEF S
<1>4. CASE ~IsBusinessDay(e, holidays)
  BY <1>1, <1>2, <1>4 DEF S
<1> QED
  BY <1>3, <1>4

LEMMA ElapsedFacts ==
  ASSUME NEW t \in Nat, NEW holidays
  PROVE  LET today == t - 2880 * Day(t)
         IN  /\ Elapsed(t, holidays) \in Nat
             /\ ~IsBusinessDay(Day(t), holidays) => Elapsed(t, holidays) = 0
             /\ today <= 960 => Elapsed(t, holidays) = 0
             /\ IsBusinessDay(Day(t), holidays) /\ today >= 1920 => Elapsed(t, holidays) = 960
             /\ IsBusinessDay(Day(t), holidays) /\ 960 <= today /\ today <= 1920 =>
                    Elapsed(t, holidays) = today - 960
<1> DEFINE today == t - 2880 * Day(t)
<1>1. today \in Nat /\ t - At(Day(t), 0) = today
  <2>1. Day(t) \in Nat /\ 2880 * Day(t) <= t /\ At(Day(t), 0) = 2880 * Day(t)
    BY DayType
  <2> QED
    BY <2>1
<1> HIDE DEF today
<1>2. Elapsed(t, holidays) =
        CASE ~IsBusinessDay(Day(t), holidays) \/ today <= 960 -> 0
          [] IsBusinessDay(Day(t), holidays) /\ today >= 1920 -> 960
          [] OTHER -> today - 960
  BY <1>1 DEF Elapsed, WORK_START_H, WORK_END_H
<1>3. CASE ~IsBusinessDay(Day(t), holidays)
  BY <1>1, <1>2, <1>3 DEF today
<1>4. CASE IsBusinessDay(Day(t), holidays)
  <2>1. CASE today <= 960
    BY <1>1, <1>2, <1>4, <2>1 DEF today
  <2>2. CASE today > 960 /\ today < 1920
    BY <1>1, <1>2, <1>4, <2>2 DEF today
  <2>3. CASE today >= 1920
    BY <1>1, <1>2, <1>4, <2>3 DEF today
  <2> QED
    BY <1>1, <2>1, <2>2, <2>3
<1> QED
  BY <1>3, <1>4

LEMMA ElapsedType ==
  ASSUME NEW t \in Nat, NEW holidays
  PROVE  Elapsed(t, holidays) \in Nat
  BY ElapsedFacts

LEMMA WorkedFacts ==
  ASSUME NEW a \in Nat, NEW b \in Nat, NEW holidays
  PROVE  /\ Worked(a, b, holidays) =
              960 * Cardinality(WorkDays(Day(a), Day(b), holidays))
                + Elapsed(b, holidays) - Elapsed(a, holidays)
         /\ Worked(a, b, holidays) \in Int
<1>1. Cardinality(WorkDays(Day(a), Day(b), holidays)) \in Nat
      /\ Elapsed(a, holidays) \in Nat /\ Elapsed(b, holidays) \in Nat
  BY WorkDaysCounted, ElapsedType
<1>2. WORK_END_H - WORK_START_H = 960
  BY DEF WORK_END_H, WORK_START_H
<1>3. Worked(a, b, holidays) =
        960 * Cardinality(WorkDays(Day(a), Day(b), holidays))
          + Elapsed(b, holidays) - Elapsed(a, holidays)
  BY <1>2 DEF Worked, WorkDays
<1> QED
  BY <1>1, <1>3

\* Later on the same day, and the start of work on the day after.
LEMMA WorkedToday ==
  ASSUME NEW a \in Nat, NEW b \in Nat, NEW c \in Nat, Day(b) = Day(c), NEW holidays
  PROVE  Worked(a, c, holidays) =
            Worked(a, b, holidays) + Elapsed(c, holidays) - Elapsed(b, holidays)
<1> DEFINE n == Cardinality(WorkDays(Day(a), Day(b), holidays))
<1>1. n \in Nat /\ Elapsed(a, holidays) \in Nat /\ Elapsed(b, holidays) \in Nat
      /\ Elapsed(c, holidays) \in Nat
  <2>1. n \in Nat
    BY WorkDaysCounted
  <2> HIDE DEF n
  <2> QED
    BY <2>1, ElapsedType
<1>2. /\ Worked(a, b, holidays) = 960 * n + Elapsed(b, holidays) - Elapsed(a, holidays)
      /\ Worked(a, c, holidays) = 960 * n + Elapsed(c, holidays) - Elapsed(a, holidays)
  BY WorkedFacts
<1> HIDE DEF n
<1> QED
  BY <1>1, <1>2

LEMMA WorkedNextDay ==
  ASSUME NEW a \in Nat, NEW b \in Nat, NEW c \in Nat, a <= b, NEW holidays,
         c = 2880 * Day(b) + 3840
  PROVE  Worked(a, c, holidays) = Worked(a, b, holidays) - Elapsed(b, holidays)
                                    + (IF IsBusinessDay(Day(b), holidays) THEN 960 ELSE 0)
<1> DEFINE n == Cardinality(WorkDays(Day(a), Day(b), holidays))
           m == IF IsBusinessDay(Day(b), holidays) THEN 1 ELSE 0
<1>1. n \in Nat /\ Elapsed(a, holidays) \in Nat /\ Elapsed(b, holidays) \in Nat
  <2>1. n \in Nat
    BY WorkDaysCounted
  <2> HIDE DEF n
  <2> QED
    BY <2>1, ElapsedType
<1>2. Day(a) \in Nat /\ Day(b) \in Nat /\ Day(a) <= Day(b)
  <2>1. Day(a) <= Day(b)
    BY DayGrows
  <2> QED
    BY <2>1, DayType
<1>3. Day(c) = Day(b) + 1
  <2> DEFINE d == Day(b) + 1
  <2>1. d \in Nat /\ 2880 * d <= c /\ c < 2880 * d + 2880
    BY <1>2
  <2> HIDE DEF d
  <2>2. Day(c) = d
    BY <2>1, DayIs
  <2> QED
    BY <2>2 DEF d
<1>4. Elapsed(c, holidays) = 0
  BY <1>2, <1>3, ElapsedFacts
<1>5. Cardinality(WorkDays(Day(a), Day(c), holidays)) = n + m
  BY <1>2, <1>3, WorkDaysNext
<1>6. /\ Worked(a, b, holidays) = 960 * n + Elapsed(b, holidays) - Elapsed(a, holidays)
      /\ Worked(a, c, holidays) = 960 * (n + m) + 0 - Elapsed(a, holidays)
  BY <1>4, <1>5, WorkedFacts
<1> HIDE DEF n
<1> QED
  BY <1>1, <1>6

\* An iteration that spends something goes on in the working time after what was
\* spent, or loses the part of a minute that a day began with.
SpendsInTime(s, t, start, holidays) ==
  LET w == Worked(start, t.current, holidays) - Worked(start, s.current, holidays)
      spent == 2 * (s.remaining - t.remaining)
  IN  /\ s.current <= t.current
      /\ w = spent \/ (w = spent + 1 /\ s.current % 2 = 1 /\ t.remaining > 0)
      /\ t.remaining > 0 => t.current % 2 = 0
      /\ t.remaining = 0 => /\ s.current <= t.current - 1
                            /\ Worked(t.current - 1, t.current, holidays) = 1

LEMMA SpendDayWorks ==
  ASSUME NEW s \in Clock, s.remaining > 0, NEW holidays, NEW start \in Nat, start <= s.current
  PROVE  SpendsInTime(s, SpendDay(s, holidays), start, holidays)
<1> DEFINE cur  == s.current
           rem  == s.remaining
           day  == Day(cur)
           from == IF cur < At(day, WORK_START_H) THEN At(day, WORK_START_H) ELSE cur
           left == At(day, WORK_END_H) - from
           next == At(day + 1, WORK_START_H)
           t    == SpendDay(s, holidays)
           open == IsBusinessDay(day, holidays)
           off  == ~open \/ from >= At(day, WORK_END_H)
           W(x) == Worked(start, x, holidays)
           E(x) == Elapsed(x, holidays)
<1>1. cur \in Nat /\ rem \in Nat /\ rem > 0 /\ day \in Nat
      /\ 2880 * day <= cur /\ cur < 2880 * day + 2880
  BY DayType DEF Clock
<1>2. At(day, WORK_START_H) = 2880 * day + 960 /\ At(day, WORK_END_H) = 2880 * day + 1920
      /\ next = 2880 * day + 3840 /\ next \in Nat
  BY <1>1 DEF At, DayTime, WORK_START_H, WORK_END_H
<1>3. /\ from \in Nat /\ cur <= from /\ 2880 * day + 960 <= from /\ from < 2880 * day + 2880
      /\ from # cur => from = 2880 * day + 960
      /\ left = 2880 * day + 1920 - from
  BY <1>1, <1>2
<1>4. /\ off => t.current = next /\ t.remaining = rem
      /\ ~off /\ rem <= left \div 2 => t.current = from + 2 * rem /\ t.remaining = 0
      /\ ~off /\ ~ (rem <= left \div 2) => t.current = next /\ t.remaining = rem - left \div 2
  <2>1. t = IF off THEN [s EXCEPT !.current = next]
            ELSE IF rem <= left \div 2 THEN [current |-> from + 2 * rem, remaining |-> 0]
            ELSE [current |-> next, remaining |-> rem - left \div 2]
    BY <1>1 DEF SpendDay
  <2> HIDE DEF t, off, next, left, from
  <2> QED
    BY <2>1 DEF Clock
<1>5. off <=> ~open \/ from >= 2880 * day + 1920
  BY <1>2
<1>6. W(cur) \in Int /\ E(cur) \in Nat
  BY <1>1, WorkedFacts, ElapsedType
<1>7. W(next) = W(cur) - E(cur) + (IF open THEN 960 ELSE 0)
  <2> HIDE DEF next
  <2> QED
    BY <1>1, <1>2, WorkedNextDay
<1>8. /\ ~open => E(cur) = 0
      /\ open /\ from >= 2880 * day + 1920 => E(cur) = 960
      /\ open /\ from < 2880 * day + 1920 => E(cur) = from - 2880 * day - 960
  <2> DEFINE today == cur - 2880 * day
  <2>1. /\ ~open => E(cur) = 0
        /\ today <= 960 => E(cur) = 0
        /\ open /\ today >= 1920 => E(cur) = 960
        /\ open /\ 960 <= today /\ today <= 1920 => E(cur) = today - 960
    BY <1>1, ElapsedFacts
  <2> HIDE DEF E, from, open
  <2> QED
    BY <1>1, <1>3, <2>1
<1> HIDE DEF cur, rem, day, from, left, next, t, off, open, W, E
<1>9. CASE off
  <2>1. t.current = next /\ t.remaining = rem /\ cur <= next
    BY <1>1, <1>2, <1>4, <1>9
  <2>2. W(next) = W(cur)
    BY <1>5, <1>6, <1>7, <1>8, <1>9
  <2>3. next % 2 = 0
    BY <1>1, <1>2
  <2>4. W(next) - W(cur) = 2 * (rem - rem)
    BY <1>1, <1>6, <2>2
  <2> QED
    BY <1>1, <2>1, <2>3, <2>4 DEF SpendsInTime, W, cur, rem, t
<1>10. CASE ~off /\ rem <= left \div 2
  <2> DEFINE new == from + 2 * rem
  <2>1. t.current = new /\ t.remaining = 0
    BY <1>4, <1>10
  <2>2. open /\ from < 2880 * day + 1920 /\ new <= 2880 * day + 1920
    BY <1>1, <1>3, <1>5, <1>10
  <2>3. /\ new \in Nat /\ new - 1 \in Nat /\ cur <= new - 1 /\ cur <= new
        /\ 2880 * day + 960 <= new - 1 /\ new < 2880 * day + 2880
    BY <1>1, <1>3, <2>2
  <2> HIDE DEF new
  <2>4. Day(new) = day /\ Day(new - 1) = day
    BY <1>1, <2>2, <2>3, DayIs
  <2>5. E(new) = new - 2880 * day - 960 /\ E(new - 1) = new - 1 - 2880 * day - 960
    <3>1. \A x \in {new, new - 1} :
            /\ x \in Nat /\ Day(x) = day
            /\ 960 <= x - 2880 * day /\ x - 2880 * day <= 1920
      BY <1>1, <2>2, <2>3, <2>4
    <3>2. \A x \in {new, new - 1} : Elapsed(x, holidays) = x - 2880 * day - 960
      BY <2>2, <3>1, ElapsedFacts DEF open
    <3> QED
      BY <3>2 DEF E
  <2>6. W(new) = W(cur) + E(new) - E(cur)
    BY <1>1, <2>3, <2>4, WorkedToday DEF W, E, day
  <2>7. W(new) - W(cur) = 2 * (rem - 0)
    BY <1>1, <1>3, <1>6, <1>8, <2>2, <2>3, <2>5, <2>6 DEF new
  <2>8. Worked(new - 1, new, holidays) = 1
    <3>1. Worked(new - 1, new, holidays) =
            Worked(new - 1, new - 1, holidays) + E(new) - E(new - 1)
      BY <2>3, <2>4, WorkedToday DEF E
    <3>2. Worked(new - 1, new - 1, holidays) = 0
      <4>1. WorkDays(Day(new - 1), Day(new - 1), holidays) = {}
        BY <1>1, <2>4 DEF WorkDays
      <4>2. Cardinality(WorkDays(Day(new - 1), Day(new - 1), holidays)) = 0
        BY <4>1, FS_EmptySet
      <4>3. Worked(new - 1, new - 1, holidays) = 960 * 0 + E(new - 1) - E(new - 1)
        BY <2>3, <4>2, WorkedFacts DEF E
      <4> QED
        BY <1>1, <2>3, <2>5, <4>3
    <3> QED
      BY <1>1, <2>3, <2>5, <3>1, <3>2
  <2> QED
    BY <1>1, <2>1, <2>3, <2>7, <2>8 DEF SpendsInTime, W, cur, rem, t
<1>11. CASE ~off /\ ~ (rem <= left \div 2)
  <2>1. t.current = next /\ t.remaining = rem - left \div 2
    BY <1>4, <1>11
  <2>2. open /\ from < 2880 * day + 1920 /\ left \in Nat /\ cur <= next
    BY <1>1, <1>2, <1>3, <1>5, <1>11
  <2>3. left \div 2 \in Nat /\ rem - left \div 2 > 0
        /\ (left = 2 * (left \div 2) \/ (left = 2 * (left \div 2) + 1 /\ left % 2 = 1))
    BY <1>1, <1>11, <2>2
  <2>4. left % 2 = 1 => cur % 2 = 1
    BY <1>1, <1>3, <2>2
  <2>5. W(next) - W(cur) = left
    BY <1>1, <1>3, <1>6, <1>7, <1>8, <2>2
  <2>6. next % 2 = 0
    BY <1>1, <1>2
  <2>7. 2 * (rem - (rem - left \div 2)) = 2 * (left \div 2)
    BY <1>1, <2>3
  <2> QED
    BY <1>1, <2>1, <2>2, <2>3, <2>4, <2>5, <2>6, <2>7 DEF SpendsInTime, W, cur, rem, t
<1> QED
  BY <1>9, <1>10, <1>11

\* What the loop has spent after any number of iterations: at most one half minute
\* more than it has counted, and after that it is at a whole minute.
LEMMA LoopWorks ==
  ASSUME NEW start \in Nat, NEW minutes \in Nat \ {0}, NEW holidays
  PROVE  LET s == Spent(start, minutes, holidays)
         IN  s.remaining = 0 =>
                /\ s.current \in Nat /\ start <= s.current - 1
                /\ Worked(start, s.current, holidays) - 2 * minutes \in {0, 1}
                /\ Worked(s.current - 1, s.current, holidays) = 1
<1> DEFINE first == Starting(start, minutes)
           over(s) == Worked(start, s.current, holidays) - 2 * (minutes - s.remaining)
           done(s) == /\ start <= s.current
                      /\ over(s) = 0 \/ (over(s) = 1 /\ (s.remaining > 0 => s.current % 2 = 0))
                      /\ s.remaining = 0 =>
                            /\ start <= s.current - 1
                            /\ Worked(s.current - 1, s.current, holidays) = 1
<1>1. PICK loop : /\ IsIteration(loop, Clock, first, Spending(holidays), MaxLoops)
                  /\ Spent(start, minutes, holidays) = loop[MaxLoops]
  BY DeadlineLoop
<1>2. /\ loop[0] = first
      /\ \A n \in 0..MaxLoops : loop[n] \in Clock
      /\ \A n \in 0..MaxLoops : n # 0 => loop[n] = SpendDay(loop[n - 1], holidays)
  <2>1. loop \in [0..MaxLoops -> Clock]
    BY <1>1 DEF IsIteration
  <2>2. \A n \in 0..MaxLoops : loop[n] = IF n = 0 THEN first ELSE Spending(holidays)[loop[n - 1]]
    BY <1>1 DEF IsIteration
  <2>3. \A n \in 0..MaxLoops : n # 0 => loop[n - 1] \in Clock
    BY <2>1
  <2>4. \A s \in Clock : Spending(holidays)[s] = SpendDay(s, holidays)
    BY DEF Spending
  <2>5. 0 \in 0..MaxLoops
    OBVIOUS
  <2> HIDE DEF first
  <2> QED
    BY <2>1, <2>2, <2>3, <2>4, <2>5
<1>3. done(first)
  <2>1. first.current = start /\ first.remaining = minutes
    BY DEF Starting
  <2>2. WorkDays(Day(start), Day(start), holidays) = {}
    BY DayType DEF WorkDays
  <2>3. Cardinality(WorkDays(Day(start), Day(start), holidays)) = 0
    BY <2>2, FS_EmptySet
  <2>4. Worked(start, start, holidays) = 0
    <3>1. Elapsed(start, holidays) \in Nat
      BY ElapsedType
    <3>2. Worked(start, start, holidays)
            = 960 * 0 + Elapsed(start, holidays) - Elapsed(start, holidays)
      BY <2>3, WorkedFacts
    <3> QED
      BY <3>1, <3>2
  <2> HIDE DEF first
  <2>5. over(first) = 0
    BY <2>1, <2>4
  <2> QED
    BY <2>1, <2>5
<1>4. ASSUME NEW s \in Clock, done(s)
      PROVE  done(SpendDay(s, holidays))
  <2> DEFINE t == SpendDay(s, holidays)
  <2>1. t \in Clock
    BY SpendDayType
  <2>2. CASE s.remaining = 0
    <3>1. t = s
      BY <2>2 DEF SpendDay
    <3> QED
      BY <1>4, <3>1
  <2>3. CASE s.remaining > 0
    <3>1. SpendsInTime(s, t, start, holidays)
      BY <1>4, <2>3, SpendDayWorks
    <3> HIDE DEF t
    <3>2. /\ s.current \in Nat /\ t.current \in Nat /\ start <= s.current /\ s.current <= t.current
          /\ s.remaining \in Nat /\ t.remaining \in Nat
      BY <1>4, <2>1, <3>1 DEF SpendsInTime, Clock
    <3>3. /\ Worked(start, s.current, holidays) \in Int
          /\ Worked(start, t.current, holidays) \in Int
      BY <3>2, WorkedFacts
    <3> DEFINE v == Worked(start, s.current, holidays)
               w == Worked(start, t.current, holidays)
    <3>4. over(s) = 0 \/ (over(s) = 1 /\ s.current % 2 = 0)
      BY <1>4, <2>3
    <3>5. \/ w - v = 2 * (s.remaining - t.remaining)
          \/ /\ w - v = 2 * (s.remaining - t.remaining) + 1
             /\ s.current % 2 = 1 /\ t.remaining > 0
      BY <3>1 DEF SpendsInTime
    <3>6. t.remaining > 0 => t.current % 2 = 0
      BY <3>1 DEF SpendsInTime
    <3>7. t.remaining = 0 => /\ start <= t.current - 1
                             /\ Worked(t.current - 1, t.current, holidays) = 1
      BY <3>1, <3>2 DEF SpendsInTime
    <3>8. over(t) = 0 \/ over(t) = 1
      BY <3>2, <3>3, <3>4, <3>5
    <3> QED
      BY <3>2, <3>6, <3>7, <3>8 DEF t
  <2> QED
    BY <2>2, <2>3 DEF Clock
<1> HIDE DEF done
<1>5. \A n \in 0..MaxLoops : done(loop[n])
  <2> DEFINE S == {n \in Nat : n \in 0..MaxLoops => done(loop[n])}
  <2>1. 0 \in S
    BY <1>2, <1>3
  <2>2. ASSUME NEW n \in Nat, n \in S
        PROVE  n + 1 \in S
    <3>1. ASSUME n + 1 \in 0..MaxLoops
          PROVE  done(loop[n + 1])
      <4>1. n \in 0..MaxLoops /\ n + 1 # 0 /\ (n + 1) - 1 = n
        BY <3>1
      <4>2. loop[n] \in Clock /\ done(loop[n]) /\ loop[n + 1] = SpendDay(loop[n], holidays)
        BY <1>2, <2>2, <3>1, <4>1
      <4> QED
        BY <1>4, <4>2
    <3> QED
      BY <3>1
  <2>3. \A n \in Nat : n \in S
    BY <2>1, <2>2, NaturalsAll
  <2> QED
    BY <2>3
<1>6. Spent(start, minutes, holidays) \in Clock /\ done(Spent(start, minutes, holidays))
  BY <1>1, <1>2, <1>5
<1> DEFINE s == Spent(start, minutes, holidays)
<1>7. s.current \in Nat /\ done(s)
  BY <1>6 DEF Clock
<1> HIDE DEF s
<1>8. s.remaining = 0 =>
         /\ start <= s.current - 1
         /\ Worked(start, s.current, holidays) - 2 * minutes \in {0, 1}
         /\ Worked(s.current - 1, s.current, holidays) = 1
  BY <1>7 DEF done
<1> QED
  BY <1>7, <1>8 DEF s

\* Two sets of holidays that agree on the days of a stretch.
LEMMA WorkedSame ==
  ASSUME NEW a \in Nat, NEW b \in Nat, a <= b, NEW G, NEW H,
         \A d \in Day(a) .. Day(b) : d \in G <=> d \in H
  PROVE  Worked(a, b, G) = Worked(a, b, H)
<1>1. Day(a) \in Nat /\ Day(b) \in Nat /\ Day(a) <= Day(b)
  BY DayType, DayGrows
<1>2. \A d \in Day(a) .. Day(b) : IsBusinessDay(d, G) <=> IsBusinessDay(d, H)
  BY DEF IsBusinessDay
<1>3. WorkDays(Day(a), Day(b), G) = WorkDays(Day(a), Day(b), H)
  BY <1>1, <1>2 DEF WorkDays
<1>4. \A t \in {a, b} : IsBusinessDay(Day(t), G) <=> IsBusinessDay(Day(t), H)
  BY <1>1, <1>2
<1>5. \A t \in {a, b} : Elapsed(t, G) = Elapsed(t, H)
  BY <1>4, Zenon DEF Elapsed
<1> QED
  BY <1>3, <1>5, WorkedFacts

-----------------------------------------------------------------------------

USE IntakeAssumption, NoneIsNothing

\* A ticket created at a moment of the clock gets a natural deadline.
LEMMA DeadlineType ==
  ASSUME NEW at \in Moments
  PROVE  calculate_sla_deadline("medium", at) \in Nat
<1> DEFINE holidays == _get_holiday_set(Year(Day(at - UtcOffset)))
<1>1. at \in Nat /\ SLA_MINUTES["medium"] \in Nat
  BY DEF SLA_MINUTES
<1> HIDE DEF holidays
<1>2. PICK loop : /\ IsIteration(loop, Clock, Starting(at, SLA_MINUTES["medium"]),
                                 Spending(holidays), MaxLoops)
                  /\ Spent(at, SLA_MINUTES["medium"], holidays) = loop[MaxLoops]
  BY <1>1, DeadlineLoop
<1>3. loop[MaxLoops] \in Clock
  BY <1>2 DEF IsIteration
<1> QED
  BY <1>2, <1>3 DEF calculate_sla_deadline, _add_business_minutes, Clock, holidays

-----------------------------------------------------------------------------
(* Types, and what each step of a request knows of its own.                 *)

Key0 == _TICKET_SEQ_KEY

IsCsts(number) == number.series = "CSTS"

\* A request is at a step its operation has, and its row is one it has made at
\* this moment.
RequestOK(r, at) ==
  /\ r \in Request
  /\ r.row # None <=> r.pc \in {"commit", "enqueue"} \/ (r.pc = "flush" /\ r.op = "submit")
  /\ IF r.op \in {"submit", "register"} THEN r.phone \in Phones ELSE r.phone = None
  /\ r.pc = "expire" => r.op \in {"submit", "register"}
  /\ r.pc \in {"exists", "max", "setnx"} => KeyOf(r.op) = Key0
  /\ r.pc = "enqueue" => r.op = "submit"
  /\ r.op = "none" => r = Free
  /\ r.row # None => /\ r.row.created = at /\ r.row.phone = r.phone
                     /\ IsCsts(r.row.number) <=> KeyOf(r.op) = Key0
                     /\ r.row.number.n <= MaxNumber

RequestsOK == \A c \in Slots : RequestOK(req[c], now)

\* There are finitely many rows, and their numbers are those a counter reached.
RowsBounded == IsFiniteSet(rows) /\ \A x \in rows : x.number.n <= MaxNumber /\ x.created <= now

LEMMA StepRequest ==
  ASSUME TypeOK, NEW c \in Slots, NEW r, Step(c, r)
  PROVE  /\ req'[c] = r
         /\ \A d \in Slots : d # c => req'[d] = req[d]
         /\ r \in Request => req' \in [Slots -> Request]
  BY DEF TypeOK, Step

\* A request whose next position is sound leaves all of them sound.
LEMMA StepSound ==
  ASSUME TypeOK, RequestsOK, NEW c \in Slots, NEW r, Step(c, r), RequestOK(r, now), now' = now
  PROVE  /\ RequestsOK'
         /\ req' \in [Slots -> Request]
         /\ \A d \in Slots : (req'[d].row # None) <=>
              \/ req'[d].pc \in {"commit", "enqueue"}
              \/ req'[d].pc = "flush" /\ req'[d].op = "submit"
<1>1. /\ req'[c] = r
      /\ \A d \in Slots : d # c => req'[d] = req[d]
      /\ req' \in [Slots -> Request]
  BY StepRequest DEF RequestOK
<1>2. \A d \in Slots : RequestOK(req'[d], now)
  BY <1>1 DEF RequestsOK
<1> QED
  BY <1>1, <1>2 DEF RequestsOK, RequestOK

LEMMA FreeSound == \A at : RequestOK(Free, at)
<1>1. Free \in Request
  BY DEF Free, Request
<1>2. Free.op = "none" /\ Free.pc = "free" /\ Free.phone = None /\ Free.row = None
  BY DEF Free
<1> QED
  BY <1>1, <1>2 DEF RequestOK

\* What a counter gives is a number of its series.
LEMMA NumberFacts ==
  ASSUME NEW key \in SequenceKeys, NEW n \in Nat
  PROVE  /\ NumberFrom(key, n) \in TicketNumber
         /\ NumberFrom(key, n).n = n
         /\ IsCsts(NumberFrom(key, n)) <=> key = Key0
<1>1. /\ Series(key, n) \in {"CSTS", "CS-INT", "CS-INT-0"}
      /\ Series(key, n) = "CSTS" <=> key = Key0
  BY DEF Series, Key0
<1> QED
  BY <1>1 DEF NumberFrom, TicketNumber, IsCsts

LEMMA NewRowFacts ==
  ASSUME TypeOK, NEW op, NEW number \in TicketNumber, NEW phone \in Phones \cup {None}
  PROVE  /\ NewRow(op, number, phone) \in Row
         /\ NewRow(op, number, phone).number = number
         /\ NewRow(op, number, phone).phone = phone
         /\ NewRow(op, number, phone).created = now
         /\ NewRow(op, number, phone).sla_deadline
              \in {None, calculate_sla_deadline("medium", now)}
         /\ ~NewRow(op, number, phone).attached
<1>1. now \in Nat /\ calculate_sla_deadline("medium", now) \in Nat
  BY DeadlineType DEF TypeOK
<1>2. Blank(number, phone) \in Row
  BY <1>1 DEF Blank, Row
<1> QED
  BY <1>1, <1>2 DEF NewRow, create_ticket, Blank, Row

LEMMA MinTwo ==
  ASSUME NEW a \in Nat, NEW b \in Nat
  PROVE  Min({a, b}) = IF a <= b THEN a ELSE b
<1>1. \E x \in {a, b} : \A y \in {a, b} : x <= y
  OBVIOUS
<1>2. Min({a, b}) \in {a, b} /\ \A y \in {a, b} : Min({a, b}) <= y
  BY <1>1 DEF Min
<1> QED
  BY <1>2

LEMMA FirstMoment == Min(Moments) \in Moments
  BY LeastNumber DEF Min

LEMMA LimitFacts == \A op : LimitOf(op) \in Nat \ {0}
  BY DEF LimitOf

LEMMA KeyFacts ==
  /\ Key0 \in SequenceKeys
  /\ \A op : KeyOf(op) \in SequenceKeys
  /\ KeyOf("submit") = Key0 /\ KeyOf("mail") = Key0 /\ KeyOf("split") = Key0
  BY DEF Key0, SequenceKeys, KeyOf

\* A request at another position, with its row, and with a row it has made.
LEMMA MovedSound ==
  ASSUME NEW at, NEW r, RequestOK(r, at), r.op # "none",
         NEW pc \in {"exists", "max", "setnx", "incr", "flush", "commit", "enqueue"},
         NEW seed \in Nat,
         r.row # None <=> pc \in {"commit", "enqueue"} \/ (pc = "flush" /\ r.op = "submit"),
         pc \in {"exists", "max", "setnx"} => KeyOf(r.op) = Key0,
         pc = "enqueue" => r.op = "submit"
  PROVE  /\ RequestOK([r EXCEPT !.pc = pc], at)
         /\ RequestOK([r EXCEPT !.pc = pc, !.seed = seed], at)
<1>1. r \in Request
  BY DEF RequestOK
<1> DEFINE y == [r EXCEPT !.pc = pc]
           z == [r EXCEPT !.pc = pc, !.seed = seed]
<1>2. /\ y \in Request /\ y.op = r.op /\ y.pc = pc /\ y.phone = r.phone /\ y.row = r.row
      /\ z \in Request /\ z.op = r.op /\ z.pc = pc /\ z.phone = r.phone /\ z.row = r.row
  BY <1>1 DEF Request
<1> HIDE DEF y, z
<1>3. RequestOK(y, at) /\ RequestOK(z, at)
  BY <1>2 DEF RequestOK
<1> QED
  BY <1>3 DEF y, z

\* A request that has no row yet.
LEMMA StartedSound ==
  ASSUME NEW at, NEW op \in AllChannels, NEW pc \in {"expire", "exists", "incr", "flush"},
         NEW phone, op \in {"submit", "register"} => phone \in Phones,
         op \notin {"submit", "register"} => phone = None,
         pc = "expire" => op \in {"submit", "register"}, pc = "exists" => KeyOf(op) = Key0,
         pc = "flush" => op # "submit",
         NEW r, r \in Request, r.op = op, r.pc = pc, r.phone = phone, r.row = None
  PROVE  RequestOK(r, at)
<1>1. op # "none"
  BY DEF AllChannels
<1> QED
  BY <1>1 DEF RequestOK

LEMMA FreeFacts == Free \in Request /\ Free.phone = None /\ Free.row = None /\ Free.pc = "free"
  BY FreeSound DEF RequestOK, Free

LEMMA NumberedSound ==
  ASSUME TypeOK, NEW r, RequestOK(r, now), r.pc = "incr", NEW n \in Nat, n <= MaxNumber,
         NEW row, row = NewRow(r.op, NumberFrom(KeyOf(r.op), n), r.phone),
         NEW pc, pc = IF r.op = "submit" THEN "flush" ELSE "commit",
         NEW y, y = [r EXCEPT !.row = row, !.seed = 0, !.pc = pc]
  PROVE  RequestOK(y, now)
<1>1. r \in Request /\ r.op # "none" /\ r.phone \in Phones \cup {None}
  BY DEF RequestOK, Free
<1>2. /\ row \in Row /\ row.created = now /\ row.phone = r.phone
      /\ IsCsts(row.number) <=> KeyOf(r.op) = Key0
      /\ row.number.n <= MaxNumber
  BY <1>1, NumberFacts, NewRowFacts, KeyFacts
<1>3. y \in Request /\ y.op = r.op /\ y.pc = pc /\ y.phone = r.phone /\ y.row = row
  BY <1>1, <1>2 DEF Request
<1>4. row # None
  BY <1>2
<1> QED
  BY <1>1, <1>2, <1>3, <1>4 DEF RequestOK

\* The tables and keys have their types.
TablesOK ==
  /\ mix \in Mixes /\ now \in Moments /\ rows \subseteq Row
  /\ counters \in [SequenceKeys -> Nat \cup {None}]
  /\ limits \in [{"submit", "register"} -> [Phones -> Key]]
  /\ dedup \subseteq Processes \X Texts
  /\ inbox \in [Mails -> {"unseen", "seen", "handled"}]
  /\ confirmed \subseteq TicketNumber /\ files \subseteq TicketNumber

LEMMA TablesTyped == TypeOK => TablesOK
  BY DEF TypeOK, TablesOK

LEMMA StepTyped ==
  ASSUME TypeOK, RequestsOK, NEW c \in Slots, NEW r, Step(c, r), RequestOK(r, now),
         now' = now, TablesOK'
  PROVE  TypeOK' /\ RequestsOK'
  BY StepSound DEF TypeOK, TablesOK

LEMMA RequestFacts ==
  ASSUME TypeOK, RequestsOK, NEW c \in Slots
  PROVE  /\ req[c] \in Request /\ RequestOK(req[c], now)
         /\ req[c].pc # "free" => req[c].op \in AllChannels /\ req[c].op # "none"
<1>1. req[c] \in Request /\ RequestOK(req[c], now)
  BY DEF RequestsOK, RequestOK
<1>2. req[c].op = "none" => req[c].pc = "free"
  BY <1>1 DEF RequestOK, Free
<1> QED
  BY <1>1, <1>2 DEF Request

LEMMA ArriveTyped ==
  ASSUME TypeOK, RequestsOK, NEW c \in Slots, NEW op \in {"submit", "register"},
         NEW phone \in Phones, Arrive(c, op, phone)
  PROVE  TypeOK' /\ RequestsOK'
<1> DEFINE count == limits[op][phone].count + 1
           kept  == Min({count, LimitOf(op) + 1})
           pc    == IF NeedsExpiry(count) THEN "expire" ELSE AfterLimit(op)
           y     == [Free EXCEPT !.op = op, !.phone = phone, !.pc = pc]
           r     == IF count > LimitOf(op) THEN Free ELSE y
<1>1. limits \in [{"submit", "register"} -> [Phones -> Key]] /\ limits[op][phone] \in Key
  BY DEF TypeOK
<1>2. kept \in Nat
  BY <1>1, MinTwo, LimitFacts DEF Key
<1>3. /\ limits' = [limits EXCEPT ![op][phone].count = kept] /\ Step(c, r)
      /\ UNCHANGED <<mix, now, rows, counters, dedup, inbox, confirmed, files>>
  BY DEF Arrive
<1>4. pc \in {"expire", "exists", "incr"} /\ (pc = "exists" => op = "submit")
  BY DEF AfterLimit
<1> HIDE DEF count, kept, pc
<1>5. RequestOK(r, now)
  <2>2. op \in AllChannels
    BY DEF AllChannels
  <2>3. pc \in {"expire", "exists", "incr", "flush"} /\ pc # "flush"
    BY <1>4
  <2>4. pc = "exists" => KeyOf(op) = Key0
    BY <1>4, KeyFacts
  <2>5. y \in Request /\ y.op = op /\ y.pc = pc /\ y.phone = phone /\ y.row = None
    BY <2>2, <2>3, FreeFacts DEF Request
  <2> HIDE DEF y
  <2>6. RequestOK(y, now)
    BY <2>2, <2>3, <2>4, <2>5, StartedSound
  <2> QED
    BY <2>6, FreeSound
<1>6. [limits[op][phone] EXCEPT !.count = kept] \in Key
  BY <1>1, <1>2 DEF Key
<1>7. limits' \in [{"submit", "register"} -> [Phones -> Key]]
  BY <1>1, <1>3, <1>6
<1>8. TablesOK'
  BY <1>3, <1>7, TablesTyped DEF TablesOK
<1> HIDE DEF r
<1> QED
  BY <1>3, <1>5, <1>8, StepTyped

LEMMA ExpireLimitTyped ==
  ASSUME TypeOK, RequestsOK, NEW c \in Slots, ExpireLimit(c)
  PROVE  TypeOK' /\ RequestsOK'
<1> DEFINE old == req[c]
           pc  == AfterLimit(old.op)
           r   == [old EXCEPT !.pc = pc]
<1>1. RequestOK(old, now) /\ old.op \in {"submit", "register"} /\ old.phone \in Phones
      /\ old.row = None /\ old.op # "none"
  BY RequestFacts DEF ExpireLimit, RequestOK
<1>2. pc \in {"exists", "incr"} /\ (pc = "exists" => old.op = "submit")
  BY DEF AfterLimit
<1>3. /\ limits' = [limits EXCEPT ![old.op][old.phone] = Expiring(@, now + DayLength)]
      /\ Step(c, r) /\ UNCHANGED <<mix, now, rows, counters, dedup, inbox, confirmed, files>>
  BY DEF ExpireLimit, Goto
<1> HIDE DEF pc, old
<1>4. RequestOK(r, now)
  BY <1>1, <1>2, MovedSound, KeyFacts
<1>5. now + DayLength \in Nat /\ limits \in [{"submit", "register"} -> [Phones -> Key]]
  BY DEF TypeOK
<1>6. Expiring(limits[old.op][old.phone], now + DayLength) \in Key
  <2>1. limits[old.op][old.phone] \in Key
    BY <1>1, <1>5
  <2> QED
    BY <1>5, <2>1 DEF Key, Expiring
<1>7. limits' \in [{"submit", "register"} -> [Phones -> Key]]
  BY <1>1, <1>3, <1>5, <1>6
<1>8. TablesOK'
  BY <1>3, <1>7, TablesTyped DEF TablesOK
<1> HIDE DEF r
<1> QED
  BY <1>3, <1>4, <1>8, StepTyped

\* A request starts with nothing but its operation.
LEMMA OpenTyped ==
  ASSUME TypeOK, RequestsOK, NEW c \in Slots, NEW r \in Request, Step(c, r),
         NEW op \in {"call", "split", "mail"}, NEW pc \in {"exists", "incr", "flush"},
         pc = "exists" => op # "call",
         r.op = op, r.pc = pc, r.phone = None, r.row = None, now' = now, TablesOK'
  PROVE  TypeOK' /\ RequestsOK'
<1>1. op \in AllChannels
  BY DEF AllChannels
<1>2. pc = "exists" => KeyOf(op) = Key0
  BY KeyFacts
<1>3. RequestOK(r, now)
  BY <1>1, <1>2, StartedSound
<1> QED
  BY <1>3, StepTyped

LEMMA CallTyped ==
  ASSUME TypeOK, RequestsOK, NEW c \in Slots, Call(c) \/ split_ticket(c)
  PROVE  TypeOK' /\ RequestsOK'
<1>1. TablesOK' /\ now' = now
  BY TablesTyped DEF TablesOK, Call, split_ticket
<1>2. CASE Call(c)
  <2> DEFINE r == [Free EXCEPT !.op = "call", !.pc = "incr"]
  <2>1. r \in Request /\ r.op = "call" /\ r.pc = "incr" /\ r.phone = None /\ r.row = None
    BY FreeFacts DEF Request, AllChannels
  <2>2. Step(c, r)
    BY <1>2 DEF Call
  <2> HIDE DEF r
  <2> QED
    BY <1>1, <2>1, <2>2, OpenTyped
<1>3. CASE split_ticket(c)
  <2> DEFINE r == [Free EXCEPT !.op = "split", !.pc = "exists"]
  <2>1. r \in Request /\ r.op = "split" /\ r.pc = "exists" /\ r.phone = None /\ r.row = None
    BY FreeFacts DEF Request, AllChannels
  <2>2. Step(c, r)
    BY <1>3 DEF split_ticket
  <2> HIDE DEF r
  <2> QED
    BY <1>1, <2>1, <2>2, OpenTyped
<1> QED
  BY <1>2, <1>3

\* A request goes to another position and holds the row it held, or none.
LEMMA GotoTyped ==
  ASSUME TypeOK, RequestsOK, NEW c \in Slots, TablesOK', now' = now,
         NEW pc \in {"exists", "max", "setnx", "incr", "flush", "commit", "enqueue"},
         NEW seed \in Nat, req[c].pc # "free",
         req[c].row # None <=> pc \in {"commit", "enqueue"} \/ (pc = "flush" /\ req[c].op = "submit"),
         pc \in {"exists", "max", "setnx"} => KeyOf(req[c].op) = Key0,
         pc = "enqueue" => req[c].op = "submit",
         Goto(c, pc) \/ Step(c, [req[c] EXCEPT !.pc = pc, !.seed = seed])
  PROVE  TypeOK' /\ RequestsOK'
<1> DEFINE y == [req[c] EXCEPT !.pc = pc]
           z == [req[c] EXCEPT !.pc = pc, !.seed = seed]
<1>1. RequestOK(y, now) /\ RequestOK(z, now)
  BY RequestFacts, MovedSound
<1>2. Step(c, y) \/ Step(c, z)
  BY DEF Goto
<1> HIDE DEF y, z
<1> QED
  BY <1>1, <1>2, StepTyped

\* A request reads its seed, whatever its queries return.
Seeds(c) == \E highestRead, countRead \in BOOLEAN : SeedMax(c, highestRead, countRead)

\* The highest number of the rows, how many there are, or nothing.
LEMMA SeedFacts ==
  ASSUME TypeOK, RowsBounded, NEW csts, csts = {r \in rows : r.number.series = "CSTS"},
         NEW highestRead \in BOOLEAN, NEW countRead \in BOOLEAN, NEW seed,
         seed = IF highestRead /\ csts # {} THEN Max({r.number.n : r \in csts})
                ELSE IF countRead THEN Cardinality(rows) ELSE 0
  PROVE  /\ seed \in Nat
         /\ highestRead /\ countRead => \A x \in rows : IsCsts(x.number) => x.number.n <= seed
<1>1. CASE csts = {} \/ ~highestRead
  <2>1. Cardinality(rows) \in Nat
    BY FS_CardinalityType DEF RowsBounded
  <2>2. highestRead => \A x \in rows : ~IsCsts(x.number)
    BY <1>1 DEF IsCsts
  <2> QED
    BY <1>1, <2>1, <2>2
<1>2. CASE csts # {} /\ highestRead
  <2> DEFINE T == {r.number.n : r \in csts}
  <2>1. T \in SUBSET Nat /\ T # {}
    <3>1. \A x \in rows : x.number \in TicketNumber
      BY DEF TypeOK, Row
    <3>2. \A x \in rows : x.number.n \in Nat
      BY <3>1 DEF TicketNumber
    <3> QED
      BY <1>2, <3>2
  <2>2. \A n \in T : n <= MaxNumber
    BY DEF RowsBounded
  <2>3. \A x \in rows : IsCsts(x.number) => x.number.n \in T
    BY DEF IsCsts
  <2>4. seed = Max(T)
    BY <1>2
  <2> HIDE DEF T
  <2>5. \E m \in T : \A n \in T : m >= n
    BY <2>1, <2>2, GreatestNumber
  <2>6. Max(T) \in T /\ \A n \in T : Max(T) >= n
    BY <2>5 DEF Max
  <2> QED
    BY <2>1, <2>3, <2>4, <2>6
<1> QED
  BY <1>1, <1>2

LEMMA SeedTyped ==
  ASSUME TypeOK, RequestsOK, RowsBounded, NEW c \in Slots,
         SeedExists(c) \/ Seeds(c) \/ SeedSetNx(c)
  PROVE  TypeOK' /\ RequestsOK'
<1>1. RequestOK(req[c], now) /\ req[c] \in Request
  BY RequestFacts
<1>2. CASE SeedExists(c)
  <2> DEFINE pc == IF counters[_TICKET_SEQ_KEY] = None THEN "max" ELSE "incr"
  <2>1. Goto(c, pc) /\ req[c].pc = "exists" /\ pc \in {"max", "incr"}
    BY <1>2 DEF SeedExists
  <2>2. TablesOK' /\ now' = now
    BY <1>2, TablesTyped DEF TablesOK, SeedExists
  <2> HIDE DEF pc
  <2>3. req[c].row = None /\ KeyOf(req[c].op) = Key0
    BY <1>1, <2>1 DEF RequestOK
  <2> QED
    BY <2>1, <2>2, <2>3, GotoTyped
<1>3. ASSUME NEW highestRead \in BOOLEAN, NEW countRead \in BOOLEAN,
             SeedMax(c, highestRead, countRead)
      PROVE  TypeOK' /\ RequestsOK'
  <2> DEFINE csts == {r \in rows : r.number.series = "CSTS"}
             seed == IF highestRead /\ csts # {} THEN Max({r.number.n : r \in csts})
                     ELSE IF countRead THEN Cardinality(rows) ELSE 0
  <2>1. req[c].pc = "max" /\ Step(c, [req[c] EXCEPT !.pc = "setnx", !.seed = seed])
    BY <1>3 DEF SeedMax
  <2>2. TablesOK' /\ now' = now
    BY <1>3, TablesTyped DEF TablesOK, SeedMax
  <2>3. seed \in Nat
    BY SeedFacts
  <2> HIDE DEF seed
  <2>4. req[c].row = None /\ KeyOf(req[c].op) = Key0
    BY <1>1, <2>1 DEF RequestOK
  <2> QED
    BY <2>1, <2>2, <2>3, <2>4, GotoTyped
<1>4. CASE SeedSetNx(c)
  <2>1. Goto(c, "incr") /\ req[c].pc = "setnx"
        /\ counters' = [counters EXCEPT ![_TICKET_SEQ_KEY] = SetNx(@, req[c].seed)]
    BY <1>4 DEF SeedSetNx
  <2>2. SetNx(counters[_TICKET_SEQ_KEY], req[c].seed) \in Nat \cup {None}
    BY <1>1, KeyFacts DEF SetNx, Request, TypeOK, Key0
  <2>3. counters' \in [SequenceKeys -> Nat \cup {None}]
    BY <2>1, <2>2 DEF TypeOK
  <2>4. TablesOK' /\ now' = now
    BY <1>4, <2>3, TablesTyped DEF TablesOK, SeedSetNx
  <2>5. req[c].row = None
    BY <1>1, <2>1 DEF RequestOK
  <2> QED
    BY <2>1, <2>4, <2>5, GotoTyped
<1> QED
  BY <1>2, <1>3, <1>4 DEF Seeds

\* What Incr makes of the request.
IncrN(r)   == IF counters[KeyOf(r.op)] = None THEN 1 ELSE counters[KeyOf(r.op)] + 1
IncrRow(r) == NewRow(r.op, NumberFrom(KeyOf(r.op), IncrN(r)), r.phone)
Numbered2(r) == [r EXCEPT !.row = IncrRow(r), !.seed = 0,
                         !.pc = IF r.op = "submit" THEN "flush" ELSE "commit"]

LEMMA IncrFacts ==
  ASSUME TypeOK, RequestsOK, NEW c \in Slots, Incr(c)
  PROVE  LET r == req[c]
             n == IncrN(r)
             y == Numbered2(r)
         IN  /\ RequestOK(r, now) /\ r.pc = "incr" /\ r.op # "none" /\ n \in Nat \ {0} /\ n <= MaxNumber
             /\ counters' = [counters EXCEPT ![KeyOf(r.op)] = n] /\ Step(c, y) /\ RequestOK(y, now)
             /\ y.op = r.op /\ y.phone = r.phone /\ y.row = IncrRow(r) /\ IncrRow(r) \in Row
             /\ y.pc = IF r.op = "submit" THEN "flush" ELSE "commit"
             /\ y.row.number = NumberFrom(KeyOf(r.op), n)
             /\ ~y.row.attached /\ y.row.created = now
             /\ y.row.sla_deadline \in {None, calculate_sla_deadline("medium", now)}
             /\ UNCHANGED <<mix, now, rows, limits, dedup, inbox, confirmed, files>>
<1> DEFINE r  == req[c]
           n  == IncrN(r)
           pc == IF r.op = "submit" THEN "flush" ELSE "commit"
           row == IncrRow(r)
           y == Numbered2(r)
<1>1. RequestOK(r, now) /\ r \in Request
  BY RequestFacts
<1>2. /\ r.pc = "incr" /\ n <= MaxNumber /\ counters' = [counters EXCEPT ![KeyOf(r.op)] = n]
      /\ Step(c, y) /\ UNCHANGED <<mix, now, rows, limits, dedup, inbox, confirmed, files>>
  BY DEF Incr, IncrN, IncrRow, Numbered2
<1>3. n \in Nat \ {0} /\ counters \in [SequenceKeys -> Nat \cup {None}]
  BY KeyFacts DEF IncrN, TypeOK
<1>4. r.op # "none" /\ r.phone \in Phones \cup {None}
  BY <1>1, <1>2, FreeFacts DEF RequestOK
<1> HIDE DEF r, n
<1>5. /\ row \in Row /\ row.number = NumberFrom(KeyOf(r.op), n) /\ ~row.attached
      /\ row.created = now
      /\ row.sla_deadline \in {None, calculate_sla_deadline("medium", now)}
  BY <1>3, <1>4, NumberFacts, NewRowFacts, KeyFacts DEF IncrRow, n
<1>6. row = NewRow(r.op, NumberFrom(KeyOf(r.op), n), r.phone)
      /\ y = [r EXCEPT !.row = row, !.seed = 0, !.pc = pc]
  BY DEF IncrRow, n, Numbered2
<1>7. y.op = r.op /\ y.phone = r.phone /\ y.row = row /\ y.pc = pc
  BY <1>1, <1>6 DEF Request
<1> HIDE DEF row, pc, y
<1>8. RequestOK(y, now)
  BY <1>1, <1>2, <1>3, <1>6, NumberedSound DEF pc
<1> QED
  BY <1>1, <1>2, <1>3, <1>4, <1>5, <1>7, <1>8 DEF r, n, row, pc, y

LEMMA IncrTyped ==
  ASSUME TypeOK, RequestsOK, NEW c \in Slots, Incr(c)
  PROVE  TypeOK' /\ RequestsOK'
<1> DEFINE y == Numbered2(req[c])
           n == IncrN(req[c])
<1>1. /\ n \in Nat /\ counters' = [counters EXCEPT ![KeyOf(req[c].op)] = n]
      /\ Step(c, y) /\ RequestOK(y, now)
      /\ UNCHANGED <<mix, now, rows, limits, dedup, inbox, confirmed, files>>
  BY IncrFacts
<1> HIDE DEF y, n
<1>2. counters' \in [SequenceKeys -> Nat \cup {None}]
  BY <1>1 DEF TypeOK
<1>3. TablesOK'
  BY <1>1, <1>2, TablesTyped DEF TablesOK
<1> QED
  BY <1>1, <1>3, StepTyped

LEMMA CompleteFacts ==
  ASSUME TypeOK, RequestsOK, NEW c \in Slots, NEW upload \in BOOLEAN, NEW written \in BOOLEAN,
         CompleteTicket(c, upload, written)
  PROVE  \E y : /\ RequestOK(req[c], now) /\ req[c].pc = "flush" /\ req[c].op = "submit"
                /\ req[c].row \in Row
                /\ Step(c, y) /\ RequestOK(y, now) /\ y.op = req[c].op /\ y.phone = req[c].phone
                /\ y.pc = "commit" /\ y.row \in Row
                /\ y.row.number = req[c].row.number /\ y.row.created = req[c].row.created
                /\ y.row.sla_deadline = req[c].row.sla_deadline
                /\ y.row.attached => upload /\ written
                /\ files' = IF upload /\ written THEN files \cup {req[c].row.number} ELSE files
                /\ UNCHANGED <<mix, now, rows, counters, limits, dedup, inbox, confirmed>>
<1> DEFINE r == req[c]
           a == upload /\ written
           row == [r.row EXCEPT !.attached = a]
           y == [r EXCEPT !.pc = "commit", !.row = row]
<1>1. RequestOK(r, now) /\ r \in Request
  BY RequestFacts
<1>2. /\ r.pc = "flush" /\ r.op = "submit" /\ Step(c, y)
      /\ files' = IF a THEN files \cup {r.row.number} ELSE files
      /\ UNCHANGED <<mix, now, rows, counters, limits, dedup, inbox, confirmed>>
  BY DEF CompleteTicket
<1>3. r.row \in Row /\ a \in BOOLEAN
  BY <1>1, <1>2 DEF RequestOK, Request
<1>a. y = [r EXCEPT !.pc = "commit", !.row.attached = upload /\ written]
  OBVIOUS
<1> HIDE DEF a, r
<1>4. /\ row \in Row /\ row.number = r.row.number /\ row.created = r.row.created
      /\ row.phone = r.row.phone /\ row.sla_deadline = r.row.sla_deadline
  BY <1>3 DEF Row
<1>5. row.attached <=> a
  BY <1>3 DEF Row
<1> HIDE DEF row
<1>6. y \in Request /\ y.op = r.op /\ y.phone = r.phone /\ y.pc = "commit" /\ y.row = row
  BY <1>1, <1>4 DEF Request
<1> HIDE DEF y
<1>7. RequestOK(y, now)
  BY <1>1, <1>2, <1>3, <1>4, <1>6 DEF RequestOK
<1> QED
  BY <1>1, <1>2, <1>3, <1>4, <1>5, <1>6, <1>7, <1>a DEF r, a

LEMMA CompleteTyped ==
  ASSUME TypeOK, RequestsOK, NEW c \in Slots, NEW upload \in BOOLEAN, NEW written \in BOOLEAN,
         CompleteTicket(c, upload, written)
  PROVE  TypeOK' /\ RequestsOK'
<1>1. PICK y : /\ req[c].row \in Row /\ Step(c, y) /\ RequestOK(y, now)
               /\ files' = IF upload /\ written THEN files \cup {req[c].row.number} ELSE files
               /\ UNCHANGED <<mix, now, rows, counters, limits, dedup, inbox, confirmed>>
  BY CompleteFacts
<1>2. files' \subseteq TicketNumber
  BY <1>1 DEF TypeOK, Row
<1>3. TablesOK'
  BY <1>1, <1>2, TablesTyped DEF TablesOK
<1> QED
  BY <1>1, <1>3, StepTyped

\* A request that ends, and a poll that goes on to the next mail.
LEMMA EndTyped ==
  ASSUME TypeOK, RequestsOK, NEW c \in Slots, Step(c, Free), TablesOK', now' = now
  PROVE  TypeOK' /\ RequestsOK'
  BY FreeSound, StepTyped

LEMMA LeaveFacts ==
  ASSUME TypeOK, RequestsOK, NEW c \in Slots, Leave(c)
  PROVE  \E r : /\ Step(c, r) /\ RequestOK(r, now) /\ r.row = None /\ r.pc \in {"free", "flush"}
                /\ r.op \in {"none", "mail"}
<1> DEFINE y == [Free EXCEPT !.op = "mail", !.pc = "flush", !.mails = req[c].mails,
                             !.broken = req[c].broken]
<1>1. Step(c, IF req[c].op = "mail" THEN y ELSE Free)
  BY DEF Leave
<1>2. req[c].mails \in SUBSET Mails /\ req[c].broken \in BOOLEAN
  BY RequestFacts DEF Request
<1>3. y \in Request /\ y.op = "mail" /\ y.pc = "flush" /\ y.phone = None /\ y.row = None
  BY <1>2, FreeFacts DEF Request, AllChannels
<1> HIDE DEF y
<1>4. "mail" \in AllChannels
  BY DEF AllChannels
<1>5. RequestOK(y, now)
  BY <1>3, <1>4, StartedSound
<1>6. Free.op = "none" /\ Free.row = None /\ Free.pc = "free"
  BY DEF Free
<1>7. CASE req[c].op = "mail"
  BY <1>1, <1>3, <1>5, <1>7
<1>8. CASE req[c].op # "mail"
  BY <1>1, <1>6, <1>8, FreeSound
<1> QED
  BY <1>7, <1>8

LEMMA RollbackTyped ==
  ASSUME TypeOK, RequestsOK, NEW c \in Slots, Rollback(c)
  PROVE  TypeOK' /\ RequestsOK'
<1>1. Leave(c) /\ TablesOK' /\ now' = now
  BY TablesTyped DEF Rollback, TablesOK
<1> QED
  BY <1>1, LeaveFacts, StepTyped

\* What a commit of c needs and does.
LEMMA CommitFacts ==
  ASSUME TypeOK, RequestsOK, NEW c \in Slots, Commit(c)
  PROVE  LET r == req[c]
             y == IF r.op = "submit" THEN [r EXCEPT !.pc = "enqueue"] ELSE Free
         IN  /\ RequestOK(r, now) /\ r.pc = "commit" /\ r.op \notin {"mail", "none"} /\ r.row \in Row
             /\ \A x \in rows : x.number # r.row.number
             /\ rows' = rows \cup {r.row} /\ Step(c, y) /\ RequestOK(y, now)
             /\ UNCHANGED <<mix, now, counters, limits, dedup, inbox, confirmed, files>>
<1> DEFINE r == req[c]
           e == [r EXCEPT !.pc = "enqueue"]
           y == IF r.op = "submit" THEN e ELSE Free
<1>1. RequestOK(r, now) /\ r \in Request
  BY RequestFacts
<1>2. /\ r.pc = "commit" /\ r.op # "mail" /\ \A x \in rows : x.number # r.row.number
      /\ rows' = rows \cup {r.row} /\ Step(c, y)
      /\ UNCHANGED <<mix, now, counters, limits, dedup, inbox, confirmed, files>>
  BY DEF Commit, Goto, Taken
<1> HIDE DEF r
<1>3. r.row \in Row /\ r.row # None /\ r.op # "none"
  BY <1>1, <1>2, FreeFacts DEF RequestOK, Request
<1>4. r.op = "submit" => RequestOK(e, now)
  BY <1>1, <1>2, <1>3, MovedSound, 0 \in Nat
<1> HIDE DEF e
<1>5. (y = e /\ r.op = "submit") \/ y = Free
  OBVIOUS
<1> HIDE DEF y
<1>6. RequestOK(y, now)
  BY <1>4, <1>5, FreeSound
<1> QED
  BY <1>1, <1>2, <1>3, <1>6 DEF r, e, y

LEMMA CommitTyped ==
  ASSUME TypeOK, RequestsOK, NEW c \in Slots, Commit(c)
  PROVE  TypeOK' /\ RequestsOK'
<1> DEFINE r == req[c]
           y == IF r.op = "submit" THEN [r EXCEPT !.pc = "enqueue"] ELSE Free
<1>1. /\ r.row \in Row /\ rows' = rows \cup {r.row} /\ Step(c, y) /\ RequestOK(y, now)
      /\ UNCHANGED <<mix, now, counters, limits, dedup, inbox, confirmed, files>>
  BY CommitFacts
<1> HIDE DEF y, r
<1>2. TablesOK'
  BY <1>1, TablesTyped DEF TablesOK
<1> QED
  BY <1>1, <1>2, StepTyped

LEMMA EnqueueTyped ==
  ASSUME TypeOK, RequestsOK, NEW c \in Slots, _enqueue_confirmation(c)
  PROVE  TypeOK' /\ RequestsOK'
<1>1. req[c].row \in Row
  BY RequestFacts DEF RequestOK, Request, _enqueue_confirmation
<1>2. req[c].row.number \in TicketNumber
  BY <1>1 DEF Row
<1>3. TablesOK' /\ Step(c, Free) /\ now' = now
  BY <1>2, TablesTyped DEF TablesOK, _enqueue_confirmation
<1> QED
  BY <1>3, EndTyped

LEMMA TakeMailFacts ==
  ASSUME TypeOK, RequestsOK, NEW c \in Slots, NEW m \in Mails, TakeMail(c, m)
  PROVE  \E y : /\ Step(c, y) /\ RequestOK(y, now) /\ y.op = "mail"
                /\ y.row = None /\ y.pc \in {"flush", "exists"}
<1> DEFINE r == req[c]
           rest == r.mails \ {m}
           refused == r.broken \/ m \in Numbered
           y == CASE m \in Looped -> [r EXCEPT !.mails = rest]
                  [] m \notin Looped /\ refused -> [r EXCEPT !.mails = rest, !.broken = TRUE]
                  [] OTHER -> [r EXCEPT !.mails = rest, !.pc = "exists"]
<1>1. r.pc = "flush" /\ r.op = "mail" /\ r.row = None /\ Step(c, y)
  BY DEF TakeMail
<1>3. r \in Request /\ RequestOK(r, now)
  BY RequestFacts
<1>4. rest \in SUBSET Mails /\ r.phone = None
  BY <1>1, <1>3 DEF Request, RequestOK
<1>5. \A z \in {[r EXCEPT !.mails = rest], [r EXCEPT !.mails = rest, !.broken = TRUE],
                [r EXCEPT !.mails = rest, !.pc = "exists"]} :
        z \in Request /\ z.op = "mail" /\ z.pc \in {"flush", "exists"} /\ z.phone = None /\ z.row = None
  <2> HIDE DEF r, rest
  <2>1. \A z : z = [r EXCEPT !.mails = rest] =>
          z \in Request /\ z.op = "mail" /\ z.pc = "flush" /\ z.phone = None /\ z.row = None
    BY <1>1, <1>3, <1>4 DEF Request
  <2>2. \A z : z = [r EXCEPT !.mails = rest, !.broken = TRUE] =>
          z \in Request /\ z.op = "mail" /\ z.pc = "flush" /\ z.phone = None /\ z.row = None
    BY <1>1, <1>3, <1>4 DEF Request
  <2>3. \A z : z = [r EXCEPT !.mails = rest, !.pc = "exists"] =>
          z \in Request /\ z.op = "mail" /\ z.pc = "exists" /\ z.phone = None /\ z.row = None
    BY <1>1, <1>3, <1>4 DEF Request
  <2> QED
    BY <2>1, <2>2, <2>3
<1>6. y \in {[r EXCEPT !.mails = rest], [r EXCEPT !.mails = rest, !.broken = TRUE],
             [r EXCEPT !.mails = rest, !.pc = "exists"]}
  <2>1. CASE m \in Looped
    BY <2>1
  <2>2. CASE m \notin Looped /\ refused
    BY <2>2
  <2>3. CASE m \notin Looped /\ ~refused
    BY <2>3
  <2> QED
    BY <2>1, <2>2, <2>3
<1> HIDE DEF y, r
<1>7. "mail" \in AllChannels /\ KeyOf("mail") = Key0
  BY KeyFacts DEF AllChannels
<1>8. RequestOK(y, now)
  BY <1>5, <1>6, <1>7, StartedSound
<1> QED
  BY <1>1, <1>5, <1>6, <1>8

LEMMA MailTyped ==
  ASSUME TypeOK, RequestsOK, NEW c \in Slots,
         poll_imap_inbox(c) \/ EndPoll(c) \/ \E m \in Mails : TakeMail(c, m)
  PROVE  TypeOK' /\ RequestsOK'
<1>1. "mail" \in AllChannels /\ KeyOf("mail") = Key0
  BY KeyFacts DEF AllChannels
<1>2. CASE EndPoll(c)
  <2>1. TablesOK' /\ Step(c, Free) /\ now' = now
    BY <1>2, TablesTyped DEF TablesOK, EndPoll
  <2> QED
    BY <2>1, EndTyped
<1>3. CASE poll_imap_inbox(c)
  <2> DEFINE unseen == {m \in Mails : inbox[m] = "unseen"}
             y == [Free EXCEPT !.op = "mail", !.pc = "flush", !.mails = unseen]
  <2>1. Step(c, y) /\ now' = now
    BY <1>3 DEF poll_imap_inbox
  <2>2. TablesOK'
    BY <1>3, TablesTyped DEF TablesOK, poll_imap_inbox
  <2>3. unseen \in SUBSET Mails
    OBVIOUS
  <2> HIDE DEF unseen
  <2>4. y \in Request /\ y.op = "mail" /\ y.pc = "flush" /\ y.phone = None /\ y.row = None
    BY <2>3, FreeFacts DEF Request, AllChannels
  <2> HIDE DEF y
  <2> QED
    BY <2>1, <2>2, <2>4, OpenTyped
<1>4. ASSUME NEW m \in Mails, TakeMail(c, m)
      PROVE  TypeOK' /\ RequestsOK'
  <2>1. TablesOK' /\ now' = now
    BY <1>4, TablesTyped DEF TablesOK, TakeMail
  <2> QED
    BY <1>4, <2>1, TakeMailFacts, StepTyped
<1> QED
  BY <1>2, <1>3, <1>4

\* The steps that move no request and no number.
Apart ==
  \/ \E op \in {"submit", "register"}, phone \in Phones : EvictLimit(op, phone)
  \/ \E process \in Processes, text \in Texts :
        route_inbound_whatsapp(process, text) \/ Forget(process, text)

LEMMA ApartFacts ==
  ASSUME Apart
  PROVE  /\ req' = req /\ now' = now /\ rows' = rows /\ counters' = counters
         /\ files' = files /\ confirmed' = confirmed /\ mix' = mix /\ inbox' = inbox
  BY DEF Apart, EvictLimit, route_inbound_whatsapp, Forget

LEMMA ApartTyped ==
  ASSUME TypeOK, RequestsOK, Apart \/ \E key \in SequenceKeys : Evict(key)
  PROVE  TypeOK' /\ RequestsOK' /\ req' = req /\ now' = now /\ rows' = rows
<1>1. req' = req /\ now' = now /\ rows' = rows
  BY ApartFacts DEF Evict
<1>2. TablesOK'
  <2>1. CASE \E key \in SequenceKeys : Evict(key)
    BY <2>1, TablesTyped DEF Evict, TablesOK
  <2>2. ASSUME NEW process \in Processes, NEW text \in Texts,
               route_inbound_whatsapp(process, text) \/ Forget(process, text)
        PROVE  TablesOK'
    BY <2>2, TablesTyped DEF route_inbound_whatsapp, Forget, TablesOK
  <2>3. ASSUME NEW op \in {"submit", "register"}, NEW phone \in Phones, EvictLimit(op, phone)
        PROVE  TablesOK'
    <3>1. limits' = [limits EXCEPT ![op][phone] = NoKey] /\ NoKey \in Key
      BY <2>3 DEF EvictLimit, NoKey, Key
    <3>2. limits' \in [{"submit", "register"} -> [Phones -> Key]]
      BY <3>1 DEF TypeOK
    <3> QED
      BY <2>3, <3>2, TablesTyped DEF EvictLimit, TablesOK
  <2> QED
    BY <2>1, <2>2, <2>3 DEF Apart
<1> QED
  BY <1>1, <1>2 DEF TypeOK, TablesOK, RequestsOK

LEMMA TickTyped ==
  ASSUME TypeOK, RequestsOK, Tick
  PROVE  TypeOK' /\ RequestsOK'
<1>1. PICK later \in Moments :
        /\ later > now /\ now' = later
        /\ limits' = [op \in DOMAIN limits |-> [p \in Phones |->
                        IF Expired(limits[op][p], later) THEN NoKey ELSE limits[op][p]]]
        /\ UNCHANGED <<mix, rows, counters, dedup, inbox, confirmed, files, req>>
  BY DEF Tick
<1>2. limits \in [{"submit", "register"} -> [Phones -> Key]] /\ NoKey \in Key
  BY DEF TypeOK, NoKey, Key
<1>3. limits' \in [{"submit", "register"} -> [Phones -> Key]]
  BY <1>1, <1>2
<1>4. TablesOK'
  BY <1>1, <1>3, TablesTyped DEF TablesOK
<1>5. \A c \in Slots : req'[c] = Free
  BY <1>1 DEF Tick
<1> QED
  BY <1>1, <1>4, <1>5, FreeSound DEF TypeOK, TablesOK, RequestsOK

\* One request takes the step.
RequestStep(c) ==
  \/ \E op \in {"submit", "register"}, phone \in Phones : Arrive(c, op, phone)
  \/ ExpireLimit(c) \/ Call(c) \/ split_ticket(c)
  \/ SeedExists(c) \/ Seeds(c) \/ SeedSetNx(c) \/ Incr(c)
  \/ \E upload, written \in BOOLEAN : CompleteTicket(c, upload, written)
  \/ Commit(c) \/ Rollback(c) \/ _enqueue_confirmation(c)
  \/ poll_imap_inbox(c) \/ EndPoll(c) \/ \E m \in Mails : TakeMail(c, m)

LEMMA NextCases ==
  Next <=> \/ Tick
           \/ \E key \in SequenceKeys : Evict(key)
           \/ Apart
           \/ \E c \in Slots : RequestStep(c)
  BY DEF Next, RequestStep, Seeds, Apart

LEMMA TypedNext ==
  ASSUME TypeOK, RequestsOK, RowsBounded, [Next]_vars
  PROVE  TypeOK' /\ RequestsOK'
<1>1. CASE Tick
  BY <1>1, TickTyped
<1>2. CASE Apart \/ \E key \in SequenceKeys : Evict(key)
  BY <1>2, ApartTyped
<1>3. ASSUME NEW c \in Slots, RequestStep(c)
      PROVE  TypeOK' /\ RequestsOK'
  BY <1>3, ArriveTyped, ExpireLimitTyped, CallTyped, SeedTyped, IncrTyped, CompleteTyped,
     CommitTyped, RollbackTyped, EnqueueTyped, MailTyped DEF RequestStep
<1>4. CASE UNCHANGED vars
  BY <1>4 DEF vars, TypeOK, RequestsOK
<1> QED
  BY <1>1, <1>2, <1>3, <1>4, NextCases

\* Only a commit adds a row.
LEMMA RowsNext ==
  ASSUME TypeOK, RequestsOK, [Next]_vars
  PROVE  \/ rows' = rows
         \/ \E c \in Slots : Commit(c)
  BY NextCases, ApartFacts DEF vars, RequestStep, Tick, Evict, Arrive, ExpireLimit,
     Call, split_ticket, SeedExists, Seeds, SeedMax, SeedSetNx, Incr, CompleteTicket, Rollback,
     _enqueue_confirmation, poll_imap_inbox, EndPoll, TakeMail

LEMMA BoundedNext ==
  ASSUME TypeOK, RequestsOK, RowsBounded, [Next]_vars
  PROVE  RowsBounded'
<1>1. now \in Nat /\ now' \in Nat /\ now' >= now
  <2>1. CASE Tick
    BY <2>1 DEF Tick, TypeOK
  <2>2. CASE ~Tick
    <3>1. now' = now
      BY <2>2, NextCases, ApartFacts DEF vars, RequestStep, Evict, Arrive,
         ExpireLimit, Call, split_ticket, SeedExists, Seeds, SeedMax, SeedSetNx, Incr, CompleteTicket,
         Rollback, Commit, _enqueue_confirmation, poll_imap_inbox, EndPoll, TakeMail
    <3> QED
      BY <3>1 DEF TypeOK
  <2> QED
    BY <2>1, <2>2
<1>2. \A x \in rows : x.created \in Nat
  BY DEF TypeOK, Row
<1>3. CASE rows' = rows
  BY <1>1, <1>2, <1>3 DEF RowsBounded
<1>4. ASSUME NEW c \in Slots, Commit(c)
      PROVE  RowsBounded'
  <2>1. /\ RequestOK(req[c], now) /\ req[c].row \in Row
        /\ rows' = rows \cup {req[c].row} /\ now' = now
    BY <1>4, CommitFacts
  <2>2. req[c].row.created = now /\ req[c].row.number.n <= MaxNumber
    BY <2>1 DEF RequestOK
  <2> QED
    BY <1>1, <2>1, <2>2, FS_AddElement DEF RowsBounded
<1> QED
  BY <1>3, <1>4, RowsNext

\* What may fail stays what it was.
LEMMA MixNext == [Next]_vars => mix' = mix
  BY NextCases, ApartFacts DEF vars, RequestStep, Tick, Evict, Arrive, ExpireLimit, Call,
     split_ticket, SeedExists, Seeds, SeedMax, SeedSetNx, Incr, CompleteTicket, Commit, Rollback,
     _enqueue_confirmation, poll_imap_inbox, EndPoll, TakeMail

LEMMA TypedInit ==
  ASSUME Init
  PROVE  TypeOK /\ RequestsOK /\ RowsBounded
<1>1. \A c \in Slots : req[c] = Free
  BY DEF Init
<1>2. NoKey \in Key /\ Free \in Request /\ Free.row = None /\ Free.pc = "free"
  BY FreeFacts DEF NoKey, Key
<1>3. req \in [Slots -> Request]
  BY <1>2 DEF Init
<1>4. TypeOK
  <2>1. mix \in Mixes /\ now \in Moments /\ rows \subseteq Row /\ dedup \subseteq Processes \X Texts
        /\ confirmed \subseteq TicketNumber /\ files \subseteq TicketNumber
    BY FirstMoment DEF Init
  <2>2. counters \in [SequenceKeys -> Nat \cup {None}]
        /\ inbox \in [Mails -> {"unseen", "seen", "handled"}]
    BY DEF Init
  <2>3. limits \in [{"submit", "register"} -> [Phones -> Key]]
    BY <1>2 DEF Init
  <2> QED
    BY <1>1, <1>2, <1>3, <2>1, <2>2, <2>3 DEF TypeOK
<1> QED
  BY <1>1, <1>4, FreeSound, FS_EmptySet DEF RequestsOK, RowsBounded, Init

\* The counters, keys, rows and requests are well typed in every reachable state,
\* for any clock, calendar and number of requests: what is taken as the deadline
\* of a new ticket (calculate_sla_deadline) and as the seed of a counter
\* (_seed_counter_if_needed) are numbers.
THEOREM IntakeTyped == Spec => []TypeOK
<1> DEFINE Inv == TypeOK /\ RequestsOK /\ RowsBounded
<1>1. Init => Inv
  BY TypedInit
<1>2. Inv /\ [Next]_vars => Inv'
  BY TypedNext, BoundedNext
<1> QED
  BY <1>1, <1>2, PTL DEF Spec

-----------------------------------------------------------------------------
(* Numbers.                                                                 *)

Holds(r) == r.row # None /\ r.pc # "enqueue" /\ IsCsts(r.row.number)

Reaches(n, R) == \A x \in R : IsCsts(x.number) => x.number.n <= n

\* What a request may rely on: the counter k has reached the number it holds,
\* which no row of R has; the seed it brings is not behind the rows unless the
\* counter is there; and the counter is there when it increments it.
NumberOK(r, k, R) ==
  /\ Holds(r) => k # None /\ r.row.number.n <= k /\ \A x \in R : x.number # r.row.number
  /\ r.pc = "setnx" /\ k = None => Reaches(r.seed, R)
  /\ r.pc = "incr" /\ KeyOf(r.op) = Key0 => k # None

\* The inductive invariant of the numbers, relative to the types.
NumberInv ==
  /\ counters[Key0] # None => Reaches(counters[Key0], rows)
  /\ \A c \in Slots : NumberOK(req[c], counters[Key0], rows)
  /\ \A c, d \in Slots :
        c # d /\ Holds(req[c]) /\ Holds(req[d]) => req[c].row.number # req[d].row.number

\* Redis keeps the counter of a number that is held, and the seed is read.
Counted0 == mix.fails \cap {"counter", "seed"} = {}

\* A step of c that makes no row and no number.
Quiet(c, r) ==
  /\ Step(c, r) /\ r.pc # "enqueue"
  /\ r.row # None => /\ req[c].row # None /\ r.row.number = req[c].row.number
                     /\ r.row.created = req[c].row.created
                     /\ r.row.sla_deadline = req[c].row.sla_deadline
                     /\ req[c].pc # "enqueue" /\ r.op = req[c].op
                     /\ r.row.attached => r.row.number \in files'
  /\ Counted0 /\ r.pc = "setnx" => Reaches(r.seed, rows)
  /\ r.pc = "incr" /\ KeyOf(r.op) = Key0 => counters[Key0] # None
  /\ rows' = rows /\ counters' = counters

LEMMA QuietNumbers ==
  ASSUME TypeOK, Counted0, NumberInv, NEW c \in Slots, NEW r, Quiet(c, r)
  PROVE  NumberInv'
<1>1. /\ req'[c] = r
      /\ \A d \in Slots : d # c => req'[d] = req[d]
      /\ rows' = rows /\ counters' = counters
  BY StepRequest DEF Quiet
<1>2. Holds(r) => Holds(req[c]) /\ r.row.number = req[c].row.number
  BY DEF Quiet, Holds
<1>3. NumberOK(r, counters[Key0], rows)
  BY <1>2 DEF Quiet, NumberOK, NumberInv
<1>4. \A d \in Slots : NumberOK(req'[d], counters[Key0], rows)
  BY <1>1, <1>3 DEF NumberInv
<1>5. \A d, e \in Slots :
        d # e /\ Holds(req'[d]) /\ Holds(req'[e]) => req'[d].row.number # req'[e].row.number
  BY <1>1, <1>2 DEF NumberInv
<1> QED
  BY <1>1, <1>4, <1>5 DEF NumberInv, Holds

\* Requests that go on without a row.
LEMMA QuietMove ==
  ASSUME TypeOK, RequestsOK, NEW c \in Slots, req[c].row = None,
         NEW pc \in {"exists", "max", "incr"}, Goto(c, pc), rows' = rows, counters' = counters,
         pc = "incr" /\ KeyOf(req[c].op) = Key0 => counters[Key0] # None
  PROVE  Quiet(c, [req[c] EXCEPT !.pc = pc])
<1> DEFINE r == [req[c] EXCEPT !.pc = pc]
<1>1. r.row = None /\ r.pc = pc /\ r.op = req[c].op
  BY RequestFacts DEF Request
<1>2. Step(c, r)
  BY DEF Goto
<1> HIDE DEF r
<1>3. Quiet(c, r)
  BY <1>1, <1>2 DEF Quiet
<1> QED
  BY <1>3 DEF r

LEMMA OtherKeys == KeyOf("call") # Key0 /\ KeyOf("register") # Key0
  BY DEF KeyOf, Key0, _TICKET_SEQ_KEY, _INT_TICKET_SEQ_KEY, RegisterKey

LEMMA ArriveQuiet ==
  ASSUME TypeOK, RequestsOK, NEW c \in Slots, NEW op \in {"submit", "register"},
         NEW phone \in Phones, Arrive(c, op, phone)
  PROVE  \E r : Quiet(c, r)
<1> DEFINE count == limits[op][phone].count + 1
           pc    == IF NeedsExpiry(count) THEN "expire" ELSE AfterLimit(op)
           y     == [Free EXCEPT !.op = op, !.phone = phone, !.pc = pc]
           r     == IF count > LimitOf(op) THEN Free ELSE y
<1>1. Step(c, r) /\ rows' = rows /\ counters' = counters
  BY DEF Arrive
<1>2. pc \in {"expire", "exists", "incr"} /\ (pc = "incr" => op = "register")
  BY DEF AfterLimit
<1> HIDE DEF count, pc
<1>3. y.row = None /\ y.pc = pc /\ y.op = op
  BY FreeFacts DEF Request
<1> HIDE DEF y
<1>4. r = Free \/ r = y
  OBVIOUS
<1> HIDE DEF r
<1>5. Quiet(c, r)
  BY <1>1, <1>2, <1>3, <1>4, FreeFacts, OtherKeys DEF Quiet
<1> QED
  BY <1>5

LEMMA ExpireLimitQuiet ==
  ASSUME TypeOK, RequestsOK, NEW c \in Slots, ExpireLimit(c)
  PROVE  \E r : Quiet(c, r)
<1>1. req[c].op \in {"submit", "register"} /\ req[c].row = None
  BY RequestFacts DEF ExpireLimit, RequestOK
<1>2. Goto(c, AfterLimit(req[c].op)) /\ rows' = rows /\ counters' = counters
  BY DEF ExpireLimit
<1>3. /\ AfterLimit(req[c].op) \in {"exists", "incr"}
      /\ AfterLimit(req[c].op) = "incr" => req[c].op = "register"
  BY <1>1 DEF AfterLimit
<1> QED
  BY <1>1, <1>2, <1>3, OtherKeys, QuietMove

LEMMA OpenQuiet ==
  ASSUME TypeOK, RequestsOK, NEW c \in Slots, Call(c) \/ split_ticket(c)
  PROVE  \E r : Quiet(c, r)
<1>1. rows' = rows /\ counters' = counters
  BY DEF Call, split_ticket
<1>2. CASE Call(c)
  <2> DEFINE r == [Free EXCEPT !.op = "call", !.pc = "incr"]
  <2>1. Step(c, r)
    BY <1>2 DEF Call
  <2>2. r.row = None /\ r.pc = "incr" /\ r.op = "call"
    BY FreeFacts DEF Request
  <2> HIDE DEF r
  <2>3. Quiet(c, r)
    BY <1>1, <2>1, <2>2, OtherKeys DEF Quiet
  <2> QED
    BY <2>3
<1>3. CASE split_ticket(c)
  <2> DEFINE r == [Free EXCEPT !.op = "split", !.pc = "exists"]
  <2>1. Step(c, r)
    BY <1>3 DEF split_ticket
  <2>2. r.row = None /\ r.pc = "exists"
    BY FreeFacts DEF Request
  <2> HIDE DEF r
  <2>3. Quiet(c, r)
    BY <1>1, <2>1, <2>2 DEF Quiet
  <2> QED
    BY <2>3
<1> QED
  BY <1>2, <1>3

LEMMA SeedQuiet ==
  ASSUME TypeOK, RequestsOK, RowsBounded, NEW c \in Slots, SeedExists(c) \/ Seeds(c)
  PROVE  \E r : Quiet(c, r)
<1>1. req[c].row = None /\ rows' = rows /\ counters' = counters
  BY RequestFacts DEF SeedExists, Seeds, SeedMax, RequestOK
<1>2. CASE SeedExists(c)
  <2> DEFINE pc == IF counters[_TICKET_SEQ_KEY] = None THEN "max" ELSE "incr"
  <2>1. Goto(c, pc)
    BY <1>2 DEF SeedExists
  <2>2. pc \in {"max", "incr"} /\ (pc = "incr" => counters[Key0] # None)
    BY DEF Key0
  <2> HIDE DEF pc
  <2> QED
    BY <1>1, <2>1, <2>2, QuietMove
<1>3. ASSUME NEW highestRead \in BOOLEAN, NEW countRead \in BOOLEAN,
             SeedMax(c, highestRead, countRead)
      PROVE  \E r : Quiet(c, r)
  <2> DEFINE csts == {r \in rows : r.number.series = "CSTS"}
             seed == IF highestRead /\ csts # {} THEN Max({r.number.n : r \in csts})
                     ELSE IF countRead THEN Cardinality(rows) ELSE 0
             r == [req[c] EXCEPT !.pc = "setnx", !.seed = seed]
  <2>1. Step(c, r)
    BY <1>3 DEF SeedMax
  <2>2. Counted0 => Reaches(seed, rows)
    BY <1>3, SeedFacts DEF Reaches, Counted0, SeedMax
  <2> HIDE DEF seed
  <2>3. r.row = None /\ r.pc = "setnx" /\ r.seed = seed
    BY <1>1, RequestFacts DEF Request
  <2> HIDE DEF r
  <2>4. Quiet(c, r)
    BY <1>1, <2>1, <2>2, <2>3 DEF Quiet
  <2> QED
    BY <2>4
<1> QED
  BY <1>2, <1>3 DEF Seeds

LEMMA CompleteQuiet ==
  ASSUME TypeOK, RequestsOK, NEW c \in Slots, NEW upload \in BOOLEAN, NEW written \in BOOLEAN,
         CompleteTicket(c, upload, written)
  PROVE  \E r : Quiet(c, r)
<1>1. PICK y : /\ req[c].pc = "flush" /\ req[c].op = "submit" /\ req[c].row \in Row
               /\ Step(c, y) /\ y.op = req[c].op /\ y.pc = "commit"
               /\ y.row.number = req[c].row.number
               /\ y.row.created = req[c].row.created
               /\ y.row.sla_deadline = req[c].row.sla_deadline
               /\ y.row.attached => upload /\ written
               /\ files' = IF upload /\ written THEN files \cup {req[c].row.number} ELSE files
               /\ UNCHANGED <<mix, now, rows, counters, limits, dedup, inbox, confirmed>>
  BY CompleteFacts
<1>2. y.row.attached => y.row.number \in files'
  BY <1>1
<1>3. req[c].row # None
  BY <1>1
<1>4. Quiet(c, y)
  BY <1>1, <1>2, <1>3 DEF Quiet
<1> QED
  BY <1>4

LEMMA EndQuiet ==
  ASSUME TypeOK, RequestsOK, NEW c \in Slots,
         \/ Rollback(c) \/ _enqueue_confirmation(c)
         \/ poll_imap_inbox(c) \/ EndPoll(c) \/ \E m \in Mails : TakeMail(c, m)
  PROVE  \E r : Quiet(c, r)
<1>1. rows' = rows /\ counters' = counters
  BY DEF Rollback, _enqueue_confirmation, poll_imap_inbox, EndPoll, TakeMail
<1>2. ASSUME NEW r, Step(c, r), r.row = None, r.pc \in {"free", "flush", "exists"}
      PROVE  Quiet(c, r)
  BY <1>1, <1>2 DEF Quiet
<1>3. CASE Rollback(c)
  BY <1>2, <1>3, LeaveFacts DEF Rollback
<1>4. CASE _enqueue_confirmation(c) \/ EndPoll(c)
  <2>1. Step(c, Free)
    BY <1>4 DEF _enqueue_confirmation, EndPoll
  <2> QED
    BY <1>2, <2>1, FreeFacts
<1>5. CASE poll_imap_inbox(c)
  <2> DEFINE unseen == {m \in Mails : inbox[m] = "unseen"}
             y == [Free EXCEPT !.op = "mail", !.pc = "flush", !.mails = unseen]
  <2>1. Step(c, y)
    BY <1>5 DEF poll_imap_inbox
  <2> HIDE DEF unseen
  <2>2. y.pc = "flush" /\ y.row = None
    BY FreeFacts DEF Request
  <2> HIDE DEF y
  <2> QED
    BY <1>2, <2>1, <2>2
<1>6. ASSUME NEW m \in Mails, TakeMail(c, m)
      PROVE  \E r : Quiet(c, r)
  <2>1. \E y : /\ Step(c, y) /\ y.row = None /\ y.pc \in {"flush", "exists"}
    BY <1>6, TakeMailFacts
  <2> QED
    BY <1>2, <2>1
<1> QED
  BY <1>3, <1>4, <1>5, <1>6

\* SETNX: the first seed that arrives is the one that stays.
LEMMA SetNxNumbers ==
  ASSUME TypeOK, RequestsOK, NumberInv, NEW c \in Slots, SeedSetNx(c)
  PROVE  NumberInv'
<1> DEFINE r == [req[c] EXCEPT !.pc = "incr"]
           k == counters[Key0]
           v == SetNx(k, req[c].seed)
<1>1. /\ req[c].pc = "setnx" /\ Step(c, r) /\ rows' = rows
      /\ counters' = [counters EXCEPT ![Key0] = v]
  BY DEF SeedSetNx, Goto, Key0
<1>2. req[c] \in Request /\ RequestOK(req[c], now)
  BY RequestFacts
<1>3. k \in Nat \cup {None} /\ counters'[Key0] = v
  BY <1>1, KeyFacts DEF TypeOK
<1>4. v \in Nat /\ (k # None => v = k) /\ Reaches(v, rows)
  <2>1. CASE k = None
    <3>1. v = req[c].seed
      BY <2>1 DEF SetNx
    <3>2. Reaches(req[c].seed, rows)
      BY <1>1, <2>1 DEF NumberInv, NumberOK
    <3> QED
      BY <1>2, <2>1, <3>1, <3>2 DEF Request
  <2>2. CASE k # None
    BY <1>3, <2>2 DEF SetNx, NumberInv
  <2> QED
    BY <2>1, <2>2
<1>5. r.row = None /\ r.pc = "incr"
  BY <1>1, <1>2 DEF Request, RequestOK
<1> HIDE DEF r, v
<1>6. /\ req'[c] = r
      /\ \A d \in Slots : d # c => req'[d] = req[d]
  BY <1>1, StepRequest
<1>7. \A d \in Slots : Holds(req'[d]) => Holds(req[d]) /\ req'[d] = req[d]
  BY <1>5, <1>6 DEF Holds
<1>8. \A d \in Slots : NumberOK(req'[d], v, rows)
  <2> TAKE d \in Slots
  <2>1. CASE d = c
    BY <1>4, <1>5, <1>6, <2>1 DEF NumberOK, Holds
  <2>2. CASE d # c
    <3>1. NumberOK(req[d], k, rows) /\ req'[d] = req[d]
      BY <1>6, <2>2 DEF NumberInv
    <3> QED
      BY <1>4, <3>1 DEF NumberOK
  <2> QED
    BY <2>1, <2>2
<1> QED
  BY <1>1, <1>3, <1>4, <1>7, <1>8 DEF NumberInv

\* INCR gives a number that is above every row and every request's.
LEMMA IncrNumbers ==
  ASSUME TypeOK, RequestsOK, NumberInv, NEW c \in Slots, Incr(c)
  PROVE  NumberInv'
<1> DEFINE n == IncrN(req[c])
           y == Numbered2(req[c])
           key == KeyOf(req[c].op)
           k == counters[Key0]
<1>1. /\ req[c].pc = "incr" /\ n \in Nat /\ Step(c, y) /\ RequestOK(y, now)
      /\ y.op = req[c].op /\ y.row \in Row
      /\ y.row.number = NumberFrom(key, n)
      /\ counters' = [counters EXCEPT ![key] = n] /\ rows' = rows
  BY IncrFacts
<1>2. y.pc \in {"flush", "commit"}
  BY IncrFacts
<1>3. k \in Nat \cup {None} /\ key \in SequenceKeys
  BY KeyFacts DEF TypeOK
<1>4. key = Key0 => k # None /\ n = k + 1 /\ k \in Nat
  BY <1>1, <1>3 DEF NumberInv, NumberOK, IncrN
<1>5. y.row.number.n = n /\ (Holds(y) <=> key = Key0)
  BY <1>1, <1>2, <1>3, NumberFacts DEF Holds
<1>6. counters'[Key0] = IF key = Key0 THEN n ELSE k
  BY <1>1, <1>3, KeyFacts DEF TypeOK
<1> HIDE DEF n, y, key
<1>7. /\ req'[c] = y
      /\ \A d \in Slots : d # c => req'[d] = req[d]
  BY <1>1, StepRequest
<1>8. CASE key # Key0
  <2>1. counters'[Key0] = k /\ ~Holds(y) /\ y.pc \notin {"setnx", "incr"}
    BY <1>2, <1>5, <1>6, <1>8
  <2>2. \A d \in Slots : NumberOK(req'[d], k, rows)
    BY <1>7, <2>1 DEF NumberInv, NumberOK
  <2>3. \A d \in Slots : Holds(req'[d]) => Holds(req[d]) /\ req'[d] = req[d]
    BY <1>7, <2>1
  <2> QED
    BY <1>1, <2>1, <2>2, <2>3 DEF NumberInv
<1>9. CASE key = Key0
  <2>1. counters'[Key0] = n /\ n = k + 1 /\ k \in Nat /\ k # None /\ n # None
    BY <1>1, <1>4, <1>6, <1>9
  <2>2. Reaches(k, rows) /\ \A x \in rows : x.number \in TicketNumber
    BY <2>1 DEF NumberInv, TypeOK, Row
  <2>3. Reaches(n, rows)
    BY <2>1, <2>2 DEF Reaches, TicketNumber
  <2>4. \A x \in rows : x.number # y.row.number
    <3>1. IsCsts(y.row.number)
      BY <1>5, <1>9 DEF Holds
    <3>2. \A x \in rows : IsCsts(x.number) => x.number.n <= k /\ x.number.n \in Nat
      BY <2>2 DEF Reaches, TicketNumber
    <3> QED
      BY <1>5, <2>1, <3>1, <3>2
  <2>5. \A d \in Slots : d # c /\ Holds(req[d]) =>
          req[d].row.number.n \in Nat /\ req[d].row.number.n <= k
    <3>1. \A d \in Slots : Holds(req[d]) => req[d].row \in Row /\ NumberOK(req[d], k, rows)
      BY RequestFacts DEF Holds, Request, NumberInv
    <3> QED
      BY <2>1, <3>1 DEF NumberOK, Row, TicketNumber
  <2>6. \A d \in Slots : NumberOK(req'[d], n, rows)
    <3> TAKE d \in Slots
    <3>1. CASE d = c
      BY <1>2, <1>5, <1>7, <2>1, <2>4, <3>1 DEF NumberOK
    <3>2. CASE d # c
      <4>1. NumberOK(req[d], k, rows) /\ req'[d] = req[d]
        BY <1>7, <3>2 DEF NumberInv
      <4> QED
        BY <2>1, <2>5, <3>2, <4>1 DEF NumberOK
    <3> QED
      BY <3>1, <3>2
  <2>7. \A d, e \in Slots :
          d # e /\ Holds(req'[d]) /\ Holds(req'[e]) => req'[d].row.number # req'[e].row.number
    <3>1. \A d \in Slots : d # c /\ Holds(req[d]) => req[d].row.number # y.row.number
      BY <1>5, <2>1, <2>5
    <3> QED
      BY <1>7, <3>1 DEF NumberInv
  <2> QED
    BY <1>1, <2>1, <2>3, <2>6, <2>7 DEF NumberInv
<1> QED
  BY <1>8, <1>9

\* A commit turns the number of a request into that of a row.
LEMMA CommitNumbers ==
  ASSUME TypeOK, RequestsOK, NumberInv, NEW c \in Slots, Commit(c)
  PROVE  NumberInv'
<1> DEFINE r == req[c]
           y == IF r.op = "submit" THEN [r EXCEPT !.pc = "enqueue"] ELSE Free
           k == counters[Key0]
<1>1. /\ r.pc = "commit" /\ r.op \notin {"mail", "none"} /\ r.row \in Row
      /\ rows' = rows \cup {r.row} /\ Step(c, y) /\ RequestOK(y, now)
      /\ counters' = counters
  BY CommitFacts
<1>2. y.pc \in {"enqueue", "free"}
  BY RequestFacts, FreeFacts DEF Request
<1>3. ~Holds(y)
  BY <1>1, <1>2 DEF RequestOK, Holds
<1> HIDE DEF y
<1>4. /\ req'[c] = y
      /\ \A d \in Slots : d # c => req'[d] = req[d]
  BY <1>1, StepRequest
<1>5. r.row # None /\ (Holds(r) <=> IsCsts(r.row.number))
  BY <1>1 DEF Holds
<1>6. IsCsts(r.row.number) => k # None /\ r.row.number.n <= k
  BY <1>5 DEF NumberInv, NumberOK
<1>7. k # None => Reaches(k, rows')
  BY <1>1, <1>6 DEF NumberInv, Reaches
<1>8. \A d \in Slots : NumberOK(req'[d], k, rows')
  <2> TAKE d \in Slots
  <2>1. CASE d = c
    BY <1>2, <1>3, <1>4, <2>1 DEF NumberOK
  <2>2. CASE d # c
    <3>1. NumberOK(req[d], k, rows) /\ req'[d] = req[d]
      BY <1>4, <2>2 DEF NumberInv
    <3>2. Holds(req[d]) => r.row.number # req[d].row.number
      <4>1. CASE Holds(r)
        BY <2>2, <4>1 DEF NumberInv
      <4>2. CASE ~Holds(r)
        BY <1>5, <4>2 DEF Holds
      <4> QED
        BY <4>1, <4>2
    <3>3. k = None => (Reaches(req[d].seed, rows) => Reaches(req[d].seed, rows'))
      BY <1>1, <1>6 DEF Reaches
    <3> QED
      BY <1>1, <3>1, <3>2, <3>3 DEF NumberOK
  <2> QED
    BY <2>1, <2>2
<1>9. \A d \in Slots : Holds(req'[d]) => Holds(req[d]) /\ req'[d] = req[d]
  BY <1>3, <1>4
<1> QED
  BY <1>1, <1>7, <1>8, <1>9 DEF NumberInv

\* A counter is lost when no request holds one of its numbers or is about to.
LEMMA EvictNumbers ==
  ASSUME TypeOK, RequestsOK, Counted0, NumberInv, NEW key \in SequenceKeys, Evict(key)
  PROVE  NumberInv'
<1>1. /\ \A c \in Slots : ~Holds(req[c]) /\ req[c].pc \notin {"setnx", "incr"}
      /\ counters' = [counters EXCEPT ![key] = None] /\ rows' = rows /\ req' = req
  BY DEF Evict, Undecided, Counted0, Holds
<1>2. counters'[Key0] = counters[Key0] \/ counters'[Key0] = None
  BY <1>1, KeyFacts DEF TypeOK
<1>3. \A c \in Slots : NumberOK(req[c], counters'[Key0], rows)
  BY <1>1 DEF NumberOK
<1> QED
  BY <1>1, <1>2, <1>3 DEF NumberInv

\* Every step is quiet, one of the four above, or leaves rows, counters and
\* requests alone.
LEMMA StepKinds ==
  ASSUME TypeOK, RequestsOK, RowsBounded, [Next]_vars
  PROVE  \/ \E c \in Slots : \E r : Quiet(c, r)
         \/ \E c \in Slots : SeedSetNx(c) \/ Incr(c) \/ Commit(c)
         \/ \E key \in SequenceKeys : Evict(key)
         \/ rows' = rows /\ counters' = counters /\ req' = req
<1>1. CASE Tick \/ UNCHANGED vars \/ Apart
  BY <1>1, ApartFacts DEF Tick, vars
<1>2. ASSUME NEW c \in Slots, RequestStep(c)
      PROVE  (\E r : Quiet(c, r)) \/ SeedSetNx(c) \/ Incr(c) \/ Commit(c)
  BY <1>2, ArriveQuiet, ExpireLimitQuiet, OpenQuiet, SeedQuiet, CompleteQuiet, EndQuiet
     DEF RequestStep
<1> QED
  BY <1>1, <1>2, NextCases

LEMMA NumberNext ==
  ASSUME TypeOK, RequestsOK, RowsBounded, Counted0, NumberInv, [Next]_vars
  PROVE  NumberInv'
<1>1. CASE \E c \in Slots : \E r : Quiet(c, r)
  BY <1>1, QuietNumbers
<1>2. CASE \E c \in Slots : SeedSetNx(c) \/ Incr(c) \/ Commit(c)
  BY <1>2, SetNxNumbers, IncrNumbers, CommitNumbers
<1>3. CASE \E key \in SequenceKeys : Evict(key)
  BY <1>3, EvictNumbers
<1>4. CASE rows' = rows /\ counters' = counters /\ req' = req
  BY <1>4 DEF NumberInv
<1> QED
  BY <1>1, <1>2, <1>3, <1>4, StepKinds

LEMMA NumberInit ==
  ASSUME Init
  PROVE  NumberInv
<1>1. \A c \in Slots : req[c].row = None /\ req[c].pc = "free"
  BY FreeFacts DEF Init
<1>2. counters[Key0] = None
  BY KeyFacts DEF Init
<1> QED
  BY <1>1, <1>2 DEF NumberInv, NumberOK, Holds

\* However submissions, splits and mails interleave and fail, no two requests hold
\* the same CSTS number and none holds a committed one, as long as no counter is
\* lost while a number of it is held or asked for, and the queries for the seed are
\* answered (_seed_counter_if_needed, generate_ticket_number).
THEOREM NumbersAreFresh == Spec => []NumbersNeverMeet
<1> DEFINE Inv == /\ TypeOK /\ RequestsOK /\ RowsBounded
                  /\ Counted0 => NumberInv
<1>1. Init => Inv
  BY TypedInit, NumberInit
<1>2. Inv /\ [Next]_vars => Inv'
  <2>1. [Next]_vars => (Counted0' <=> Counted0)
    BY MixNext DEF Counted0
  <2> QED
    BY <2>1, TypedNext, BoundedNext, NumberNext
<1>3. Inv => NumbersNeverMeet
  BY DEF Counted0, NumberInv, NumberOK, NumbersNeverMeet, NumbersAreUnique, Holding, Holds, IsCsts
<1> QED
  BY <1>1, <1>2, <1>3, PTL DEF Spec

-----------------------------------------------------------------------------
(* Confirmations, uploads and the expiry of rate limits.                    *)

PublishOK(r, R, F) ==
  /\ r.pc = "enqueue" => \E x \in R : x.number = r.row.number
  /\ r.row # None /\ r.row.attached => r.row.number \in F

\* A confirmation on its way is of a committed row; a row that says it has its
\* upload has it, also before it is committed.
PublishInv ==
  /\ ConfirmedIsCommitted /\ UploadIsOnDisk
  /\ \A c \in Slots : PublishOK(req[c], rows, files)

LEMMA OnlyGrow ==
  ASSUME TypeOK, RequestsOK, [Next]_vars
  PROVE  /\ files \subseteq files'
         /\ rows \subseteq rows'
         /\ confirmed' = confirmed \/ \E c \in Slots : _enqueue_confirmation(c)
<1>1. /\ files' = files \/ \E c \in Slots : \E upload, written \in BOOLEAN :
                             CompleteTicket(c, upload, written)
      /\ confirmed' = confirmed \/ \E c \in Slots : _enqueue_confirmation(c)
  BY NextCases, ApartFacts DEF vars, RequestStep, Tick, Evict, Arrive, ExpireLimit,
     Call, split_ticket, SeedExists, Seeds, SeedMax, SeedSetNx, Incr, CompleteTicket, Commit, Rollback,
     _enqueue_confirmation, poll_imap_inbox, EndPoll, TakeMail
<1>2. files \subseteq files'
  BY <1>1 DEF CompleteTicket
<1>3. rows \subseteq rows'
  BY RowsNext, CommitFacts
<1> QED
  BY <1>1, <1>2, <1>3

LEMMA PublishNext ==
  ASSUME TypeOK, RequestsOK, RowsBounded, PublishInv, [Next]_vars
  PROVE  PublishInv'
<1>1. files \subseteq files' /\ rows \subseteq rows'
  BY OnlyGrow
<1>2. \A c \in Slots : PublishOK(req[c], rows', files')
  BY <1>1 DEF PublishInv, PublishOK
<1>3. ConfirmedIsCommitted'
  <2>1. CASE confirmed' = confirmed
    BY <1>1, <2>1 DEF PublishInv, ConfirmedIsCommitted
  <2>2. ASSUME NEW c \in Slots, _enqueue_confirmation(c)
        PROVE  ConfirmedIsCommitted'
    <3>1. req[c].pc = "enqueue" /\ confirmed' = confirmed \cup {req[c].row.number}
      BY <2>2 DEF _enqueue_confirmation
    <3>2. \E x \in rows' : x.number = req[c].row.number
      BY <1>2, <3>1 DEF PublishOK
    <3> QED
      BY <1>1, <3>1, <3>2 DEF PublishInv, ConfirmedIsCommitted
  <2> QED
    BY <2>1, <2>2, OnlyGrow
<1>4. UploadIsOnDisk'
  <2>1. CASE rows' = rows
    BY <1>1, <2>1 DEF PublishInv, UploadIsOnDisk
  <2>2. ASSUME NEW c \in Slots, Commit(c)
        PROVE  UploadIsOnDisk'
    <3>1. req[c].row \in Row /\ rows' = rows \cup {req[c].row}
      BY <2>2, CommitFacts
    <3>2. req[c].row # None
      BY <3>1
    <3>3. req[c].row.attached => req[c].row.number \in files'
      BY <1>2, <3>2 DEF PublishOK
    <3> QED
      BY <1>1, <3>1, <3>3 DEF PublishInv, UploadIsOnDisk
  <2> QED
    BY <2>1, <2>2, RowsNext
<1>5. ASSUME NEW c \in Slots, NEW r, Step(c, r), PublishOK(r, rows', files')
      PROVE  \A d \in Slots : PublishOK(req'[d], rows', files')
  BY <1>2, <1>5, StepRequest
<1>6. \A c \in Slots : PublishOK(req'[c], rows', files')
  <2>1. ASSUME NEW c \in Slots, NEW r, Quiet(c, r)
        PROVE  PublishOK(r, rows', files') /\ Step(c, r)
    BY <2>1 DEF Quiet, PublishOK
  <2>2. ASSUME NEW c \in Slots, SeedSetNx(c)
        PROVE  \E r : PublishOK(r, rows', files') /\ Step(c, r)
    <3> DEFINE r == [req[c] EXCEPT !.pc = "incr"]
    <3>1. Step(c, r) /\ req[c].row = None
      BY <2>2, RequestFacts DEF SeedSetNx, Goto, RequestOK
    <3>2. r.row = None /\ r.pc = "incr"
      BY <3>1, RequestFacts DEF Request
    <3> HIDE DEF r
    <3> QED
      BY <3>1, <3>2 DEF PublishOK
  <2>3. ASSUME NEW c \in Slots, Incr(c)
        PROVE  \E r : PublishOK(r, rows', files') /\ Step(c, r)
    <3> DEFINE y == Numbered2(req[c])
    <3>1. Step(c, y) /\ ~y.row.attached
      BY <2>3, IncrFacts
    <3>2. y.pc \in {"flush", "commit"}
      BY <2>3, IncrFacts
    <3> HIDE DEF y
    <3> QED
      BY <3>1, <3>2 DEF PublishOK
  <2>4. ASSUME NEW c \in Slots, Commit(c)
        PROVE  \E r : PublishOK(r, rows', files') /\ Step(c, r)
    <3> DEFINE e == [req[c] EXCEPT !.pc = "enqueue"]
               y == IF req[c].op = "submit" THEN e ELSE Free
    <3>1. /\ req[c].pc = "commit" /\ req[c].row \in Row
          /\ rows' = rows \cup {req[c].row} /\ Step(c, y)
      BY <2>4, CommitFacts
    <3>2. e.row = req[c].row
      BY RequestFacts DEF Request
    <3> HIDE DEF e
    <3>3. y = e \/ y = Free
      OBVIOUS
    <3>4. PublishOK(e, rows', files')
      BY <1>2, <3>1, <3>2 DEF PublishOK
    <3>5. PublishOK(Free, rows', files')
      BY FreeFacts DEF PublishOK
    <3> HIDE DEF y
    <3>6. PublishOK(y, rows', files')
      BY <3>3, <3>4, <3>5
    <3> QED
      BY <3>1, <3>6
  <2>5. CASE req' = req
    BY <1>2, <2>5
  <2>6. CASE \E key \in SequenceKeys : Evict(key)
    BY <2>5, <2>6 DEF Evict
  <2> QED
    BY <1>5, <2>1, <2>2, <2>3, <2>4, <2>5, <2>6, StepKinds
<1> QED
  BY <1>3, <1>4, <1>6 DEF PublishInv

LEMMA PublishInit ==
  ASSUME Init
  PROVE  PublishInv
<1>1. \A c \in Slots : req[c].row = None /\ req[c].pc = "free"
  BY FreeFacts DEF Init
<1>2. rows = {} /\ confirmed = {}
  BY DEF Init
<1> QED
  BY <1>1, <1>2 DEF PublishInv, PublishOK, ConfirmedIsCommitted, UploadIsOnDisk

LEMMA PublishAlways == Spec => []PublishInv
<1> DEFINE Inv == TypeOK /\ RequestsOK /\ RowsBounded /\ PublishInv
<1>1. Init => Inv
  BY TypedInit, PublishInit
<1>2. Inv /\ [Next]_vars => Inv'
  BY TypedNext, BoundedNext, PublishNext
<1> QED
  BY <1>1, <1>2, PTL DEF Spec

\* No confirmation goes out for a ticket that was rolled back, whatever fails
\* between the number and the commit (submit_ticket).
THEOREM ConfirmationsAreTrue == Spec => []ConfirmedIsCommitted
<1>1. PublishInv => ConfirmedIsCommitted
  BY DEF PublishInv
<1> QED
  BY <1>1, PublishAlways, PTL

\* A committed attachment has its file (submit_ticket writes before it commits
\* and drops what cannot be written).
THEOREM UploadsAreKept == Spec => []UploadIsOnDisk
<1>1. PublishInv => UploadIsOnDisk
  BY DEF PublishInv
<1> QED
  BY <1>1, PublishAlways, PTL

\* A step of a request that neither arrives nor sets an expiry: a submission goes
\* on as the one it was.
Calm(c, r) ==
  /\ Step(c, r) /\ req[c].pc # "expire" /\ r.pc # "expire"
  /\ r.op = "submit" => /\ req[c].op = "submit" /\ r.phone = req[c].phone
                        /\ req[c].pc # "enqueue"

LEMMA CalmMove ==
  ASSUME TypeOK, RequestsOK, NEW c \in Slots, req[c].pc \notin {"expire", "enqueue"},
         NEW pc, pc # "expire", NEW seed,
         Goto(c, pc) \/ Step(c, [req[c] EXCEPT !.pc = pc, !.seed = seed])
  PROVE  \E r : Calm(c, r)
<1> DEFINE y == [req[c] EXCEPT !.pc = pc]
           z == [req[c] EXCEPT !.pc = pc, !.seed = seed]
<1>1. /\ y.pc = pc /\ y.op = req[c].op /\ y.phone = req[c].phone
      /\ z.pc = pc /\ z.op = req[c].op /\ z.phone = req[c].phone
  BY RequestFacts DEF Request
<1>2. Step(c, y) \/ Step(c, z)
  BY DEF Goto
<1> HIDE DEF y, z
<1> QED
  BY <1>1, <1>2 DEF Calm

\* Redis keeps a rate limit key until it expires, and requests reach EXPIRE.
Limited == mix.fails \cap {"limit", "expiry"} = {}

LEMMA CalmStep ==
  ASSUME TypeOK, RequestsOK, Limited, NEW c \in Slots, RequestStep(c), ~ExpireLimit(c),
         ~ \E op \in {"submit", "register"}, phone \in Phones : Arrive(c, op, phone)
  PROVE  (\E r : Calm(c, r)) /\ limits' = limits /\ now' = now
<1>1. limits' = limits /\ now' = now
  BY DEF RequestStep, Call, split_ticket, SeedExists, Seeds, SeedMax, SeedSetNx, Incr, CompleteTicket,
     Commit, Rollback, _enqueue_confirmation, poll_imap_inbox, EndPoll, TakeMail
<1>2. ASSUME NEW r, Step(c, r), r.pc # "expire", r.op # "submit", req[c].pc # "expire"
      PROVE  Calm(c, r)
  BY <1>2 DEF Calm
<1>3. Free.pc = "free" /\ Free.op = "none"
  BY DEF Free
<1>4. CASE Call(c)
  <2> DEFINE r == [Free EXCEPT !.op = "call", !.pc = "incr"]
  <2>1. Step(c, r) /\ req[c] = Free
    BY <1>4 DEF Call
  <2>2. r.pc = "incr" /\ r.op = "call"
    BY FreeFacts DEF Request
  <2> HIDE DEF r
  <2> QED
    BY <1>1, <1>2, <1>3, <2>1, <2>2
<1>5. CASE split_ticket(c)
  <2> DEFINE r == [Free EXCEPT !.op = "split", !.pc = "exists"]
  <2>1. Step(c, r) /\ req[c] = Free
    BY <1>5 DEF split_ticket
  <2>2. r.pc = "exists" /\ r.op = "split"
    BY FreeFacts DEF Request
  <2> HIDE DEF r
  <2> QED
    BY <1>1, <1>2, <1>3, <2>1, <2>2
<1>6. CASE poll_imap_inbox(c)
  <2> DEFINE unseen == {m \in Mails : inbox[m] = "unseen"}
             r == [Free EXCEPT !.op = "mail", !.pc = "flush", !.mails = unseen]
  <2>1. Step(c, r) /\ req[c] = Free
    BY <1>6 DEF poll_imap_inbox
  <2> HIDE DEF unseen
  <2>2. r.pc = "flush" /\ r.op = "mail"
    BY FreeFacts DEF Request
  <2> HIDE DEF r
  <2> QED
    BY <1>1, <1>2, <1>3, <2>1, <2>2
<1>7. CASE SeedExists(c) \/ Seeds(c) \/ SeedSetNx(c)
  <2>1. req[c].pc \in {"exists", "max", "setnx"}
    BY <1>7 DEF SeedExists, Seeds, SeedMax, SeedSetNx
  <2>2. \E pc, seed : pc # "expire" /\ (Goto(c, pc) \/ Step(c, [req[c] EXCEPT !.pc = pc, !.seed = seed]))
    <3>1. CASE SeedExists(c)
      <4>1. Goto(c, "max") \/ Goto(c, "incr")
        BY <3>1 DEF SeedExists
      <4> QED
        BY <4>1
    <3>2. CASE Seeds(c)
      BY <3>2 DEF Seeds, SeedMax
    <3>3. CASE SeedSetNx(c)
      BY <3>3 DEF SeedSetNx
    <3> QED
      BY <1>7, <3>1, <3>2, <3>3
  <2> QED
    BY <1>1, <2>1, <2>2, CalmMove
<1>8. CASE Incr(c)
  <2> DEFINE y == Numbered2(req[c])
  <2>1. Step(c, y) /\ y.op = req[c].op /\ y.phone = req[c].phone /\ req[c].pc = "incr"
    BY <1>8, IncrFacts
  <2>2. y.pc \in {"flush", "commit"}
    BY <1>8, IncrFacts
  <2> HIDE DEF y
  <2>3. Calm(c, y)
    BY <2>1, <2>2 DEF Calm
  <2> QED
    BY <1>1, <2>3
<1>9. CASE \E upload, written \in BOOLEAN : CompleteTicket(c, upload, written)
  <2>1. PICK y : /\ req[c].pc = "flush" /\ Step(c, y) /\ y.op = req[c].op
                 /\ y.phone = req[c].phone /\ y.pc = "commit"
    BY <1>9, CompleteFacts
  <2>2. Calm(c, y)
    BY <2>1 DEF Calm
  <2> QED
    BY <1>1, <2>2
<1>10. CASE Commit(c)
  <2>1. req[c].pc = "commit"
    BY <1>10 DEF Commit
  <2>2. CASE req[c].op = "submit"
    <3>1. Goto(c, "enqueue")
      BY <1>10, <2>2 DEF Commit
    <3> QED
      BY <1>1, <2>1, <3>1, CalmMove
  <2>3. CASE req[c].op # "submit"
    <3>1. Step(c, Free)
      BY <1>10, <2>3 DEF Commit
    <3> QED
      BY <1>1, <1>2, <1>3, <2>1, <3>1
  <2> QED
    BY <2>2, <2>3
<1>11. CASE Rollback(c)
  <2>1. req[c].pc # "expire" /\ Leave(c)
    BY <1>11 DEF Rollback, Limited
  <2> QED
    BY <1>1, <1>2, <2>1, LeaveFacts
<1>12. CASE _enqueue_confirmation(c) \/ EndPoll(c)
  <2>1. Step(c, Free) /\ req[c].pc # "expire"
    BY <1>12 DEF _enqueue_confirmation, EndPoll
  <2> QED
    BY <1>1, <1>2, <1>3, <2>1
<1>13. ASSUME NEW m \in Mails, TakeMail(c, m)
       PROVE  \E r : Calm(c, r)
  <2>1. req[c].pc # "expire"
    BY <1>13 DEF TakeMail
  <2> QED
    BY <1>2, <1>13, <2>1, TakeMailFacts
<1> QED
  BY <1>1, <1>4, <1>5, <1>6, <1>7, <1>8, <1>9, <1>10, <1>11, <1>12, <1>13 DEF RequestStep

\* What a rate limit key and the requests at its expiry know of each other.
LimitOK(op, phone, key) ==
  /\ key.expires # None => /\ key.count > 0 /\ now < key.expires
                           /\ key.expires <= now + DayLength
  /\ \A c \in Slots : req[c].pc = "expire" /\ req[c].op = op /\ req[c].phone = phone =>
        key.count > 0 /\ key.expires \in {None, now + DayLength}

\* A key without an expiry is about to get one.
LimitsExpire ==
  \A op \in DOMAIN limits, phone \in Phones :
      limits[op][phone].count > 0 /\ limits[op][phone].expires = None =>
          \E c \in Slots : req[c].pc = "expire" /\ req[c].op = op /\ req[c].phone = phone

LimitInv ==
  /\ LimitsExpire
  /\ \A op \in {"submit", "register"}, phone \in Phones : LimitOK(op, phone, limits[op][phone])

LEMMA LimitQuiet ==
  ASSUME TypeOK, LimitInv, limits' = limits, now' = now,
         \A c \in Slots : req[c].pc = "expire" \/ req'[c].pc = "expire" => req'[c] = req[c]
  PROVE  LimitInv'
<1>1. LimitsExpire'
  BY DEF LimitInv, LimitsExpire
<1>2. ASSUME NEW op \in {"submit", "register"}, NEW phone \in Phones
      PROVE  LimitOK(op, phone, limits[op][phone])'
  <2>1. LimitOK(op, phone, limits[op][phone])
    BY DEF LimitInv
  <2> QED
    BY <2>1 DEF LimitOK
<1> QED
  BY <1>1, <1>2 DEF LimitInv

\* One key is written, and the request that writes it is the only one that comes
\* to its expiry or leaves it.
LEMMA LimitMoved ==
  ASSUME TypeOK, LimitInv, limits' \in [{"submit", "register"} -> [Phones -> Key]], now' = now,
         NEW c \in Slots, NEW op \in {"submit", "register"}, NEW phone \in Phones,
         NEW key, limits'[op][phone] = key,
         \A o \in {"submit", "register"}, p \in Phones :
            o # op \/ p # phone => limits'[o][p] = limits[o][p],
         \A d \in Slots : d # c => req'[d] = req[d],
         req[c].pc = "expire" => req[c].op = op /\ req[c].phone = phone,
         req'[c].pc = "expire" => req'[c].op = op /\ req'[c].phone = phone,
         key.expires # None => key.count > 0 /\ now < key.expires /\ key.expires <= now + DayLength,
         \A d \in Slots : req'[d].pc = "expire" /\ req'[d].op = op /\ req'[d].phone = phone =>
            key.count > 0 /\ key.expires \in {None, now + DayLength},
         key.count > 0 /\ key.expires = None =>
            \E d \in Slots : req'[d].pc = "expire" /\ req'[d].op = op /\ req'[d].phone = phone
  PROVE  LimitInv'
<1>1. DOMAIN limits = {"submit", "register"} /\ DOMAIN limits' = {"submit", "register"}
  BY DEF TypeOK
<1>2. ASSUME NEW o \in {"submit", "register"}, NEW p \in Phones, o # op \/ p # phone
      PROVE  /\ limits'[o][p] = limits[o][p]
             /\ \A d \in Slots : (req'[d].pc = "expire" /\ req'[d].op = o /\ req'[d].phone = p)
                  <=> (req[d].pc = "expire" /\ req[d].op = o /\ req[d].phone = p)
  BY <1>2
<1>3. LimitsExpire'
  <2>1. ASSUME NEW o \in {"submit", "register"}, NEW p \in Phones,
               limits'[o][p].count > 0, limits'[o][p].expires = None
        PROVE  \E d \in Slots : req'[d].pc = "expire" /\ req'[d].op = o /\ req'[d].phone = p
    <3>1. CASE o = op /\ p = phone
      BY <2>1, <3>1
    <3>2. CASE o # op \/ p # phone
      BY <1>1, <1>2, <2>1, <3>2 DEF LimitInv, LimitsExpire
    <3> QED
      BY <3>1, <3>2
  <2> QED
    BY <1>1, <2>1 DEF LimitsExpire
<1>4. ASSUME NEW o \in {"submit", "register"}, NEW p \in Phones
      PROVE  LimitOK(o, p, limits[o][p])'
  <2>1. CASE o = op /\ p = phone
    BY <2>1 DEF LimitOK
  <2>2. CASE o # op \/ p # phone
    <3>1. LimitOK(o, p, limits[o][p])
      BY DEF LimitInv
    <3> QED
      BY <1>2, <2>2, <3>1 DEF LimitOK
  <2> QED
    BY <2>1, <2>2
<1> QED
  BY <1>3, <1>4 DEF LimitInv

\* What an arrival does to its key and to its request.
LEMMA ArriveFacts ==
  ASSUME TypeOK, RequestsOK, NEW c \in Slots, NEW op \in {"submit", "register"},
         NEW phone \in Phones, Arrive(c, op, phone)
  PROVE  \E key, r :
    LET old == limits[op][phone]
    IN  /\ old \in Key /\ key \in Key
        /\ key.expires = old.expires
        /\ key.count = old.count + 1 \/ (old.count > LimitOf(op) /\ key.count = LimitOf(op) + 1)
        /\ limits'[op][phone] = key
        /\ \A o \in {"submit", "register"}, p \in Phones :
              o # op \/ p # phone => limits'[o][p] = limits[o][p]
        /\ Step(c, r) /\ req[c] = Free /\ now' = now /\ rows' = rows
        /\ old.count >= LimitOf(op) => r = Free
        /\ old.count < LimitOf(op) => r.op = op /\ r.phone = phone /\ r.pc # "enqueue"
        /\ r.pc = "expire" <=> old.count = 0
<1> DEFINE old   == limits[op][phone]
           count == old.count + 1
           kept  == Min({count, LimitOf(op) + 1})
           key   == [old EXCEPT !.count = kept]
           pc    == IF NeedsExpiry(count) THEN "expire" ELSE AfterLimit(op)
           y     == [Free EXCEPT !.op = op, !.phone = phone, !.pc = pc]
           r     == IF count > LimitOf(op) THEN Free ELSE y
<1>1. limits \in [{"submit", "register"} -> [Phones -> Key]] /\ old \in Key
  BY DEF TypeOK
<1>2. old.count \in Nat /\ count \in Nat /\ LimitOf(op) \in Nat \ {0}
  BY <1>1, LimitFacts DEF Key
<1>3. kept = count \/ (old.count > LimitOf(op) /\ kept = LimitOf(op) + 1)
  BY <1>2, MinTwo
<1>4. /\ limits' = [limits EXCEPT ![op][phone].count = kept] /\ Step(c, r)
      /\ req[c] = Free /\ now' = now /\ rows' = rows
  BY DEF Arrive
<1>5. pc = "expire" <=> old.count = 0
  BY <1>2 DEF NeedsExpiry, AfterLimit
<1>6. pc \in {"expire", "exists", "incr"}
  BY DEF AfterLimit
<1> HIDE DEF pc
<1>7. y.op = op /\ y.phone = phone /\ y.pc = pc
  BY FreeFacts DEF Request
<1> HIDE DEF y
<1>8. /\ old.count >= LimitOf(op) => r = Free
      /\ old.count < LimitOf(op) => r = y
  BY <1>2
<1> HIDE DEF r
<1>9. /\ old.count >= LimitOf(op) => r.pc # "expire" /\ old.count # 0
      /\ old.count < LimitOf(op) => r.op = op /\ r.phone = phone /\ r.pc = pc
  BY <1>2, <1>7, <1>8, FreeFacts
<1>10. r.pc = "expire" <=> old.count = 0
  BY <1>2, <1>5, <1>9
<1> HIDE DEF kept
<1>11. kept \in Nat
  BY <1>2, <1>3
<1>12. key \in Key /\ key.expires = old.expires /\ key.count = kept
  BY <1>1, <1>11 DEF Key
<1>13. /\ limits'[op][phone] = key
       /\ \A o \in {"submit", "register"}, p \in Phones :
             o # op \/ p # phone => limits'[o][p] = limits[o][p]
  BY <1>1, <1>4
<1> HIDE DEF key, old
<1> QED
  BY <1>1, <1>3, <1>4, <1>6, <1>8, <1>9, <1>10, <1>12, <1>13 DEF old

LEMMA ExpireLimitFacts ==
  ASSUME TypeOK, RequestsOK, LimitInv, NEW c \in Slots, ExpireLimit(c)
  PROVE  \E key, r :
    LET old == limits[req[c].op][req[c].phone]
    IN  /\ req[c].op \in {"submit", "register"} /\ req[c].phone \in Phones /\ req[c].pc = "expire"
        /\ old \in Key /\ key \in Key /\ key.count = old.count /\ key.expires = now + DayLength
        /\ limits'[req[c].op][req[c].phone] = key
        /\ \A o \in {"submit", "register"}, p \in Phones :
              o # req[c].op \/ p # req[c].phone => limits'[o][p] = limits[o][p]
        /\ Step(c, r) /\ now' = now /\ rows' = rows
        /\ r.op = req[c].op /\ r.phone = req[c].phone /\ r.pc \in {"exists", "incr"}
<1> DEFINE op  == req[c].op
           phone == req[c].phone
           old == limits[op][phone]
           key == [old EXCEPT !.expires = now + DayLength]
           pc  == AfterLimit(op)
           r   == [req[c] EXCEPT !.pc = pc]
<1>1. op \in {"submit", "register"} /\ phone \in Phones /\ req[c].pc = "expire"
      /\ req[c] \in Request
  BY RequestFacts DEF ExpireLimit, RequestOK
<1>2. limits \in [{"submit", "register"} -> [Phones -> Key]] /\ old \in Key
      /\ now + DayLength \in Nat
  BY <1>1 DEF TypeOK
<1>3. /\ limits' = [limits EXCEPT ![op][phone] = Expiring(@, now + DayLength)]
      /\ Step(c, r) /\ now' = now /\ rows' = rows
  BY DEF ExpireLimit, Goto
<1>4. pc \in {"exists", "incr"}
  BY DEF AfterLimit
<1> HIDE DEF pc
<1>5. r.op = op /\ r.phone = phone /\ r.pc = pc
  BY <1>1 DEF Request
<1> HIDE DEF r, op, phone
<1>6. key \in Key /\ key.count = old.count /\ key.expires = now + DayLength
  BY <1>2 DEF Key
<1>7. Expiring(old, now + DayLength) = key
  <2>1. LimitOK(op, phone, old)
    BY <1>1 DEF LimitInv
  <2>2. old.count > 0
    BY <1>1, <2>1 DEF LimitOK, op, phone
  <2>3. old # NoKey
    BY <2>2 DEF NoKey
  <2> QED
    BY <2>3 DEF Expiring
<1>8. /\ limits'[op][phone] = Expiring(old, now + DayLength)
      /\ \A o \in {"submit", "register"}, p \in Phones :
            o # op \/ p # phone => limits'[o][p] = limits[o][p]
  BY <1>1, <1>2, <1>3
<1> HIDE DEF key
<1> QED
  BY <1>1, <1>2, <1>3, <1>4, <1>5, <1>6, <1>7, <1>8 DEF op, phone

LEMMA ArriveLimits ==
  ASSUME TypeOK, RequestsOK, TypeOK', LimitInv, NEW c \in Slots,
         NEW op \in {"submit", "register"}, NEW phone \in Phones, Arrive(c, op, phone)
  PROVE  LimitInv'
<1> DEFINE old == limits[op][phone]
<1>1. PICK key, r :
        /\ old \in Key /\ key \in Key /\ key.expires = old.expires
        /\ key.count = old.count + 1 \/ (old.count > LimitOf(op) /\ key.count = LimitOf(op) + 1)
        /\ limits'[op][phone] = key
        /\ \A o \in {"submit", "register"}, p \in Phones :
              o # op \/ p # phone => limits'[o][p] = limits[o][p]
        /\ Step(c, r) /\ req[c] = Free /\ now' = now
        /\ old.count >= LimitOf(op) => r = Free
        /\ old.count < LimitOf(op) => r.op = op /\ r.phone = phone
        /\ r.pc = "expire" <=> old.count = 0
  BY ArriveFacts
<1>2. LimitOK(op, phone, old)
  BY DEF LimitInv
<1> HIDE DEF old
<1>3. old.count \in Nat /\ LimitOf(op) \in Nat \ {0} /\ key.count \in Nat /\ key.count > 0
  BY <1>1, LimitFacts DEF Key
<1>4. req'[c] = r /\ \A d \in Slots : d # c => req'[d] = req[d]
  BY <1>1, StepRequest
<1>5. r.pc = "expire" => r.op = op /\ r.phone = phone
  BY <1>1, <1>3
<1>6. req[c].pc # "expire" /\ now \in Nat
  BY <1>1, FreeFacts DEF TypeOK
<1>7. key.expires # None => key.count > 0 /\ now < key.expires /\ key.expires <= now + DayLength
  BY <1>1, <1>2, <1>3 DEF LimitOK
<1>8. ASSUME NEW d \in Slots, req'[d].pc = "expire", req'[d].op = op, req'[d].phone = phone
      PROVE  key.count > 0 /\ key.expires \in {None, now + DayLength}
  <2>1. CASE d = c
    <3>1. old.count = 0
      BY <1>1, <1>4, <1>8, <2>1
    <3> QED
      BY <1>1, <1>2, <1>3, <3>1 DEF LimitOK
  <2>2. CASE d # c
    BY <1>1, <1>2, <1>3, <1>4, <1>8, <2>2 DEF LimitOK
  <2> QED
    BY <2>1, <2>2
<1>9. ASSUME key.count > 0, key.expires = None
      PROVE  \E d \in Slots : req'[d].pc = "expire" /\ req'[d].op = op /\ req'[d].phone = phone
  <2>1. CASE old.count = 0
    BY <1>1, <1>4, <1>5, <2>1
  <2>2. CASE old.count > 0
    <3>1. DOMAIN limits = {"submit", "register"}
      BY DEF TypeOK
    <3>2. PICK d \in Slots : req[d].pc = "expire" /\ req[d].op = op /\ req[d].phone = phone
      <4>1. old.count > 0 /\ old.expires = None
        BY <1>1, <1>9, <2>2
      <4>2. limits[op][phone].count > 0 /\ limits[op][phone].expires = None
        BY <4>1 DEF old
      <4> QED
        BY <3>1, <4>2 DEF LimitInv, LimitsExpire
    <3>3. d # c
      BY <1>6, <3>2
    <3> QED
      BY <1>4, <3>2, <3>3
  <2> QED
    BY <1>3, <2>1, <2>2
<1>10. limits' \in [{"submit", "register"} -> [Phones -> Key]]
  BY DEF TypeOK
<1> QED
  BY <1>1, <1>4, <1>5, <1>6, <1>7, <1>8, <1>9, <1>10, LimitMoved

LEMMA ExpireLimitLimits ==
  ASSUME TypeOK, RequestsOK, TypeOK', LimitInv, NEW c \in Slots, ExpireLimit(c)
  PROVE  LimitInv'
<1> DEFINE op == req[c].op
           phone == req[c].phone
           old == limits[op][phone]
<1>1. PICK key, r :
        /\ op \in {"submit", "register"} /\ phone \in Phones /\ req[c].pc = "expire"
        /\ old \in Key /\ key \in Key /\ key.count = old.count /\ key.expires = now + DayLength
        /\ limits'[op][phone] = key
        /\ \A o \in {"submit", "register"}, p \in Phones :
              o # op \/ p # phone => limits'[o][p] = limits[o][p]
        /\ Step(c, r) /\ now' = now /\ r.pc \in {"exists", "incr"}
  BY ExpireLimitFacts
<1>2. old.count > 0
  BY <1>1 DEF LimitInv, LimitOK
<1>3. req'[c] = r /\ \A d \in Slots : d # c => req'[d] = req[d]
  BY <1>1, StepRequest
<1>4. now \in Nat /\ limits' \in [{"submit", "register"} -> [Phones -> Key]] /\ key.expires # None
  BY <1>1 DEF TypeOK
<1>5. now < key.expires /\ key.expires <= now + DayLength
  BY <1>1, <1>4
<1>6. req'[c].pc # "expire"
  BY <1>1, <1>3
<1>7. key.count > 0 /\ key.expires \in {None, now + DayLength}
  BY <1>1, <1>2
<1>8. req[c].op = op /\ req[c].phone = phone
  OBVIOUS
<1> HIDE DEF op, phone, old
<1> QED
  BY <1>1, <1>3, <1>4, <1>5, <1>6, <1>7, <1>8, LimitMoved

LEMMA TickLimits ==
  ASSUME TypeOK, LimitInv, Tick
  PROVE  LimitInv'
<1>1. PICK later \in Moments :
        /\ later > now /\ now' = later /\ req' = req
        /\ limits' = [op \in DOMAIN limits |-> [p \in Phones |->
                        IF Expired(limits[op][p], later) THEN NoKey ELSE limits[op][p]]]
  BY DEF Tick
<1>2. now \in Nat /\ later \in Nat /\ DOMAIN limits = {"submit", "register"}
      /\ \A o \in {"submit", "register"}, p \in Phones : limits[o][p] \in Key
  BY <1>1 DEF TypeOK
<1>3. \A c \in Slots : req'[c].pc # "expire"
  BY <1>1, FreeFacts DEF Tick
<1>4. NoKey.count = 0 /\ NoKey.expires = None
  BY DEF NoKey
<1>5. ASSUME NEW o \in {"submit", "register"}, NEW p \in Phones
      PROVE  /\ limits'[o][p].count > 0 => limits'[o][p].expires # None
             /\ limits'[o][p].expires # None =>
                  /\ limits'[o][p].count > 0 /\ later < limits'[o][p].expires
                  /\ limits'[o][p].expires <= later + DayLength
  <2>1. /\ Expired(limits[o][p], later) => limits'[o][p] = NoKey
        /\ ~Expired(limits[o][p], later) => limits'[o][p] = limits[o][p]
    BY <1>1, <1>2
  <2>2. CASE Expired(limits[o][p], later)
    BY <1>4, <2>1, <2>2
  <2>3. CASE ~Expired(limits[o][p], later)
    <3>1. limits[o][p].count > 0 => limits[o][p].expires # None
      BY <1>1, <1>2, <1>3 DEF LimitInv, LimitsExpire
    <3>2. LimitOK(o, p, limits[o][p])
      BY DEF LimitInv
    <3>3. limits[o][p].expires \in Nat \cup {None}
      BY <1>2 DEF Key
    <3> QED
      BY <1>1, <1>2, <2>1, <2>3, <3>1, <3>2, <3>3 DEF LimitOK, Expired
  <2> QED
    BY <2>2, <2>3
<1>6. LimitsExpire'
  <2>1. DOMAIN limits' = {"submit", "register"}
    BY <1>1, <1>2
  <2> QED
    BY <1>5, <2>1 DEF LimitsExpire
<1>7. ASSUME NEW o \in {"submit", "register"}, NEW p \in Phones
      PROVE  LimitOK(o, p, limits[o][p])'
  BY <1>1, <1>3, <1>5 DEF LimitOK
<1> QED
  BY <1>6, <1>7 DEF LimitInv

LEMMA LimitNext ==
  ASSUME TypeOK, RequestsOK, RowsBounded, Limited, LimitInv, [Next]_vars
  PROVE  LimitInv'
<1>1. TypeOK'
  BY TypedNext
<1>2. CASE Tick
  BY <1>2, TickLimits
<1>3. CASE UNCHANGED vars \/ Apart \/ \E key \in SequenceKeys : Evict(key)
  <2>1. limits' = limits /\ now' = now /\ req' = req
    BY <1>3 DEF vars, Evict, Apart, EvictLimit, Limited, route_inbound_whatsapp, Forget
  <2> QED
    BY <2>1, LimitQuiet
<1>4. ASSUME NEW c \in Slots, RequestStep(c)
      PROVE  LimitInv'
  <2>1. CASE \E op \in {"submit", "register"}, phone \in Phones : Arrive(c, op, phone)
    BY <1>1, <2>1, ArriveLimits
  <2>2. CASE ExpireLimit(c)
    BY <1>1, <2>2, ExpireLimitLimits
  <2>3. CASE /\ ~ExpireLimit(c)
             /\ ~ \E op \in {"submit", "register"}, phone \in Phones : Arrive(c, op, phone)
    <3>1. PICK r : Calm(c, r)
      BY <1>4, <2>3, CalmStep
    <3>2. limits' = limits /\ now' = now
      BY <1>4, <2>3, CalmStep
    <3>3. req'[c] = r /\ \A d \in Slots : d # c => req'[d] = req[d]
      BY <3>1, StepRequest DEF Calm
    <3>4. req[c].pc # "expire" /\ req'[c].pc # "expire"
      BY <3>1, <3>3 DEF Calm
    <3>5. \A d \in Slots : req[d].pc = "expire" \/ req'[d].pc = "expire" => req'[d] = req[d]
      BY <3>3, <3>4
    <3> QED
      BY <3>2, <3>5, LimitQuiet
  <2> QED
    BY <2>1, <2>2, <2>3
<1> QED
  BY <1>2, <1>3, <1>4, NextCases

LEMMA LimitInit ==
  ASSUME Init
  PROVE  LimitInv
<1>1. \A c \in Slots : req[c].pc # "expire"
  BY FreeFacts DEF Init
<1>2. DOMAIN limits = {"submit", "register"}
      /\ \A op \in {"submit", "register"}, phone \in Phones : limits[op][phone] = NoKey
  BY DEF Init
<1>3. NoKey.count = 0 /\ NoKey.expires = None
  BY DEF NoKey
<1> QED
  BY <1>1, <1>2, <1>3 DEF LimitInv, LimitsExpire, LimitOK

-----------------------------------------------------------------------------
(* The submissions of a day.                                                *)

\* The CSTS tickets of a phone from a moment on, and between two moments.
Since(p, R, a) == {x \in R : x.phone = p /\ IsCsts(x.number) /\ a <= x.created}
Between(p, R, a, b) ==
  {x \in R : x.phone = p /\ IsCsts(x.number) /\ a <= x.created /\ x.created < b}

\* The submissions of a phone that were counted and have no committed row yet.
InFlight(p) == {c \in Slots : req[c].op = "submit" /\ req[c].phone = p /\ req[c].pc # "enqueue"}

\* The moment of the first submission a key counts.
StartOf(key, at) == IF key.expires = None THEN at ELSE key.expires - DayLength

\* Rows of a window and submissions in flight are counted by the key; those after
\* its first moment, when that is over, without the first; and the window before
\* it has room for one less in the day that ends with the new window's start.
WindowOK(p, R, F, key, at) ==
  LET s == StartOf(key, at)
  IN  /\ Cardinality(Since(p, R, s)) + Cardinality(F) <= key.count
      /\ Cardinality(Since(p, R, s)) + Cardinality(F) <= SubmitLimit
      /\ at > s => /\ Cardinality(Since(p, R, s + 1)) + Cardinality(F) <= key.count - 1
                   /\ Cardinality(Since(p, R, s + 1)) + Cardinality(F) <= SubmitLimit - 1
      /\ \A from \in Int : from + DayLength > s =>
            Cardinality(Between(p, R, from, s)) <= SubmitLimit - 1

DayOK(p, R) ==
  \A from \in Int : Cardinality(Between(p, R, from, from + DayLength)) <= 2 * SubmitLimit - 1

DayInv ==
  \A p \in Phones : /\ WindowOK(p, rows, InFlight(p), limits["submit"][p], now)
                    /\ DayOK(p, rows)

\* The counts are of finite sets.
LEMMA Counted ==
  ASSUME NEW p, NEW R, IsFiniteSet(R)
  PROVE  /\ \A a : IsFiniteSet(Since(p, R, a)) /\ Cardinality(Since(p, R, a)) \in Nat
         /\ \A a, b : IsFiniteSet(Between(p, R, a, b)) /\ Cardinality(Between(p, R, a, b)) \in Nat
<1>1. (\A a : Since(p, R, a) \subseteq R) /\ (\A a, b : Between(p, R, a, b) \subseteq R)
  BY DEF Since, Between
<1>2. ASSUME NEW S \in SUBSET R
      PROVE  IsFiniteSet(S) /\ Cardinality(S) \in Nat
  BY <1>2, FS_Subset, FS_CardinalityType
<1> QED
  BY <1>1, <1>2

LEMMA OneMore ==
  ASSUME NEW S, IsFiniteSet(S), NEW x
  PROVE  /\ IsFiniteSet(S \cup {x}) /\ Cardinality(S) \in Nat /\ Cardinality(S \cup {x}) \in Nat
         /\ Cardinality(S \cup {x}) <= Cardinality(S) + 1
<1>1. IsFiniteSet(S \cup {x}) /\ Cardinality(S) \in Nat /\ Cardinality(S \cup {x}) \in Nat
  BY FS_AddElement, FS_CardinalityType
<1>2. CASE x \in S
  <2>1. S \cup {x} = S
    BY <1>2
  <2>2. Cardinality(S \cup {x}) = Cardinality(S)
    BY <2>1
  <2> QED
    BY <1>1, <2>2
<1>3. CASE x \notin S
  <2>1. Cardinality(S \cup {x}) = Cardinality(S) + 1
    BY <1>3, FS_AddElement
  <2> QED
    BY <1>1, <2>1
<1> QED
  BY <1>2, <1>3

LEMMA StartFacts ==
  ASSUME NEW key \in Key, NEW at \in Nat
  PROVE  /\ StartOf(key, at) \in Int
         /\ key.expires = None => StartOf(key, at) = at
         /\ key.expires # None => StartOf(key, at) = key.expires - DayLength
  BY DEF StartOf, Key

\* A step that leaves the rows and the key's window alone and adds nothing in
\* flight.
LEMMA WindowQuiet ==
  ASSUME NEW p, NEW R, IsFiniteSet(R), NEW F, IsFiniteSet(F), NEW G \in SUBSET F,
         NEW key \in Key, NEW new \in Key, NEW at \in Nat, WindowOK(p, R, F, key, at),
         new.count = key.count, StartOf(new, at) = StartOf(key, at)
  PROVE  WindowOK(p, R, G, new, at)
<1> DEFINE s == StartOf(key, at)
<1>1. Cardinality(G) \in Nat /\ Cardinality(F) \in Nat /\ Cardinality(G) <= Cardinality(F)
  BY FewerCounted
<1>2. s \in Int /\ key.count \in Nat
      /\ Cardinality(Since(p, R, s)) \in Nat /\ Cardinality(Since(p, R, s + 1)) \in Nat
  BY Counted, StartFacts DEF Key
<1>3. /\ Cardinality(Since(p, R, s)) + Cardinality(G) <= key.count
      /\ Cardinality(Since(p, R, s)) + Cardinality(G) <= SubmitLimit
      /\ at > s => /\ Cardinality(Since(p, R, s + 1)) + Cardinality(G) <= key.count - 1
                   /\ Cardinality(Since(p, R, s + 1)) + Cardinality(G) <= SubmitLimit - 1
      /\ \A from \in Int : from + DayLength > s =>
            Cardinality(Between(p, R, from, s)) <= SubmitLimit - 1
  BY <1>1, <1>2 DEF WindowOK
<1>4. StartOf(new, at) = s
  OBVIOUS
<1> HIDE DEF s
<1> QED
  BY <1>3, <1>4 DEF WindowOK

\* A submission that is counted within the limit.
LEMMA WindowArrive ==
  ASSUME NEW p, NEW R, IsFiniteSet(R), NEW F, IsFiniteSet(F), NEW c, NEW G \in SUBSET (F \cup {c}),
         NEW key \in Key, NEW new \in Key, NEW at \in Nat, WindowOK(p, R, F, key, at),
         new.expires = key.expires, new.count = key.count + 1, key.count < SubmitLimit
  PROVE  WindowOK(p, R, G, new, at)
<1> DEFINE s == StartOf(key, at)
<1>1. Cardinality(G) \in Nat /\ Cardinality(F) \in Nat /\ Cardinality(G) <= Cardinality(F) + 1
  <2>1. IsFiniteSet(F \cup {c}) /\ Cardinality(F \cup {c}) <= Cardinality(F) + 1
        /\ Cardinality(F) \in Nat
    BY OneMore
  <2> QED
    BY <2>1, FewerCounted
<1>2. s \in Int /\ key.count \in Nat
      /\ Cardinality(Since(p, R, s)) \in Nat /\ Cardinality(Since(p, R, s + 1)) \in Nat
  BY Counted, StartFacts DEF Key
<1>3. /\ Cardinality(Since(p, R, s)) + Cardinality(F) <= key.count
      /\ at > s => Cardinality(Since(p, R, s + 1)) + Cardinality(F) <= key.count - 1
      /\ \A from \in Int : from + DayLength > s =>
            Cardinality(Between(p, R, from, s)) <= SubmitLimit - 1
  BY DEF WindowOK
<1>4. StartOf(new, at) = s
  BY DEF StartOf
<1> HIDE DEF s
<1>5. /\ Cardinality(Since(p, R, s)) + Cardinality(G) <= new.count
      /\ Cardinality(Since(p, R, s)) + Cardinality(G) <= SubmitLimit
      /\ at > s => /\ Cardinality(Since(p, R, s + 1)) + Cardinality(G) <= new.count - 1
                   /\ Cardinality(Since(p, R, s + 1)) + Cardinality(G) <= SubmitLimit - 1
  BY <1>1, <1>2, <1>3
<1> QED
  BY <1>3, <1>4, <1>5 DEF WindowOK

\* A submission over the limit is counted and refused.
LEMMA WindowRefused ==
  ASSUME NEW p, NEW R, IsFiniteSet(R), NEW F, IsFiniteSet(F), NEW G \in SUBSET F,
         NEW key \in Key, NEW new \in Key, NEW at \in Nat, WindowOK(p, R, F, key, at),
         new.expires = key.expires, new.count >= SubmitLimit
  PROVE  WindowOK(p, R, G, new, at)
<1> DEFINE s == StartOf(key, at)
<1>1. Cardinality(G) \in Nat /\ Cardinality(F) \in Nat /\ Cardinality(G) <= Cardinality(F)
  BY FewerCounted
<1>2. s \in Int /\ new.count \in Nat
      /\ Cardinality(Since(p, R, s)) \in Nat /\ Cardinality(Since(p, R, s + 1)) \in Nat
  BY Counted, StartFacts DEF Key
<1>3. /\ Cardinality(Since(p, R, s)) + Cardinality(F) <= SubmitLimit
      /\ at > s => Cardinality(Since(p, R, s + 1)) + Cardinality(F) <= SubmitLimit - 1
      /\ \A from \in Int : from + DayLength > s =>
            Cardinality(Between(p, R, from, s)) <= SubmitLimit - 1
  BY DEF WindowOK
<1>4. StartOf(new, at) = s
  BY DEF StartOf
<1> HIDE DEF s
<1>5. /\ Cardinality(Since(p, R, s)) + Cardinality(G) <= new.count
      /\ Cardinality(Since(p, R, s)) + Cardinality(G) <= SubmitLimit
      /\ at > s => /\ Cardinality(Since(p, R, s + 1)) + Cardinality(G) <= new.count - 1
                   /\ Cardinality(Since(p, R, s + 1)) + Cardinality(G) <= SubmitLimit - 1
  BY <1>1, <1>2, <1>3
<1> QED
  BY <1>3, <1>4, <1>5 DEF WindowOK

\* A submission in flight becomes a row of the open window.
LEMMA WindowCommit ==
  ASSUME NEW p, NEW R, IsFiniteSet(R), NEW F, IsFiniteSet(F), NEW c \in F, NEW G \in SUBSET (F \ {c}),
         NEW key \in Key, NEW at \in Nat, WindowOK(p, R, F, key, at), StartOf(key, at) <= at,
         NEW x, x.phone = p, IsCsts(x.number), x.created = at
  PROVE  WindowOK(p, R \cup {x}, G, key, at)
<1> DEFINE s == StartOf(key, at)
<1>1. Cardinality(G) \in Nat /\ Cardinality(F) \in Nat /\ Cardinality(G) <= Cardinality(F) - 1
  <2>1. IsFiniteSet(F \ {c}) /\ Cardinality(F \ {c}) = Cardinality(F) - 1 /\ Cardinality(F) \in Nat
    BY FS_RemoveElement, FS_CardinalityType
  <2> QED
    BY <2>1, FewerCounted
<1>2. s \in Int /\ key.count \in Nat
  BY StartFacts DEF Key
<1>3. /\ Since(p, R \cup {x}, s) = Since(p, R, s) \cup {x}
      /\ at > s => Since(p, R \cup {x}, s + 1) = Since(p, R, s + 1) \cup {x}
      /\ \A from : Between(p, R \cup {x}, from, s) = Between(p, R, from, s)
  <2>1. s <= at /\ (at > s => s + 1 <= at)
    BY <1>2
  <2>2. ~ (at < s)
    BY <1>2
  <2> HIDE DEF s
  <2> QED
    BY <2>1, <2>2 DEF Since, Between
<1>4. /\ Cardinality(Since(p, R, s)) \in Nat /\ Cardinality(Since(p, R, s + 1)) \in Nat
      /\ Cardinality(Since(p, R \cup {x}, s)) \in Nat
      /\ Cardinality(Since(p, R \cup {x}, s)) <= Cardinality(Since(p, R, s)) + 1
      /\ at > s => /\ Cardinality(Since(p, R \cup {x}, s + 1)) \in Nat
                   /\ Cardinality(Since(p, R \cup {x}, s + 1)) <= Cardinality(Since(p, R, s + 1)) + 1
  <2>1. \A a : IsFiniteSet(Since(p, R, a)) /\ Cardinality(Since(p, R, a)) \in Nat
    BY Counted
  <2> HIDE DEF s
  <2> QED
    BY <1>3, <2>1, OneMore
<1>5. /\ Cardinality(Since(p, R, s)) + Cardinality(F) <= key.count
      /\ Cardinality(Since(p, R, s)) + Cardinality(F) <= SubmitLimit
      /\ at > s => /\ Cardinality(Since(p, R, s + 1)) + Cardinality(F) <= key.count - 1
                   /\ Cardinality(Since(p, R, s + 1)) + Cardinality(F) <= SubmitLimit - 1
      /\ \A from \in Int : from + DayLength > s =>
            Cardinality(Between(p, R, from, s)) <= SubmitLimit - 1
  BY DEF WindowOK
<1>6. StartOf(key, at) = s
  OBVIOUS
<1> HIDE DEF s
<1>7. /\ Cardinality(Since(p, R \cup {x}, s)) + Cardinality(G) <= key.count
      /\ Cardinality(Since(p, R \cup {x}, s)) + Cardinality(G) <= SubmitLimit
      /\ at > s => /\ Cardinality(Since(p, R \cup {x}, s + 1)) + Cardinality(G) <= key.count - 1
                   /\ Cardinality(Since(p, R \cup {x}, s + 1)) + Cardinality(G) <= SubmitLimit - 1
  BY <1>1, <1>2, <1>4, <1>5
<1> QED
  BY <1>3, <1>5, <1>6, <1>7 DEF WindowOK

\* The day that holds a committed submission: what was committed of it before the
\* window began, and the window.
LEMMA DayCommit ==
  ASSUME NEW p, NEW R, IsFiniteSet(R), DayOK(p, R), NEW x, x.created \in Nat,
         \A y \in R : y.created \in Nat,
         NEW F, IsFiniteSet(F), NEW key \in Key, WindowOK(p, R \cup {x}, F, key, x.created),
         StartOf(key, x.created) <= x.created
  PROVE  DayOK(p, R \cup {x})
<1> DEFINE s == StartOf(key, x.created)
           Q == R \cup {x}
<1>1. s \in Int /\ s <= x.created /\ IsFiniteSet(Q) /\ Cardinality(F) \in Nat
      /\ \A y \in Q : y.created \in Nat
  BY StartFacts, FS_AddElement, FS_CardinalityType
<1>2. /\ Cardinality(Since(p, Q, s)) + Cardinality(F) <= SubmitLimit
      /\ \A from \in Int : from + DayLength > s =>
            Cardinality(Between(p, Q, from, s)) <= SubmitLimit - 1
  BY DEF WindowOK
<1>3. Q = R \cup {x}
  OBVIOUS
<1> HIDE DEF s, Q
<1>4. ASSUME NEW from \in Int
      PROVE  Cardinality(Between(p, Q, from, from + DayLength)) <= 2 * SubmitLimit - 1
  <2> DEFINE to == from + DayLength
             S  == Between(p, Q, from, to)
             A  == Since(p, Q, s)
             B  == Between(p, Q, from, s)
  <2>1. IsFiniteSet(A) /\ IsFiniteSet(B)
        /\ Cardinality(A) \in Nat /\ Cardinality(B) \in Nat /\ Cardinality(S) \in Nat
    BY <1>1, Counted
  <2>2. to \in Int
    OBVIOUS
  <2>3. CASE ~ (from <= x.created /\ x.created < to)
    <3>1. S = Between(p, R, from, to)
      BY <1>3, <2>3 DEF Between
    <3> QED
      BY <3>1 DEF DayOK
  <2>4. CASE from <= x.created /\ x.created < to /\ from >= s
    <3>1. S \subseteq A
      BY <1>1, <2>4 DEF Between, Since
    <3> QED
      BY <1>1, <1>2, <2>1, <3>1, FewerCounted
  <2>5. CASE from <= x.created /\ x.created < to /\ from < s
    <3>1. S \subseteq A \cup B
      BY <1>1 DEF Between, Since
    <3>2. /\ IsFiniteSet(A \cup B)
          /\ Cardinality(A \cup B) = Cardinality(A) + Cardinality(B) - Cardinality(A \cap B)
      BY <2>1, FS_Union
    <3>3. Cardinality(A \cap B) \in Nat
      BY <2>1, FS_Intersection, FS_CardinalityType
    <3>4. Cardinality(S) <= Cardinality(A) + Cardinality(B)
      BY <2>1, <3>1, <3>2, <3>3, FewerCounted
    <3>5. Cardinality(A) <= SubmitLimit /\ Cardinality(B) <= SubmitLimit - 1
      BY <1>1, <1>2, <2>1, <2>5
    <3> QED
      BY <2>1, <3>4, <3>5
  <2> QED
    BY <1>1, <2>2, <2>3, <2>4, <2>5
<1> QED
  BY <1>3, <1>4 DEF DayOK

\* A row that is not of the phone or of the series.
LEMMA OtherRow ==
  ASSUME NEW p, NEW R, NEW x, x.phone # p \/ ~IsCsts(x.number), NEW Q, Q = R \cup {x}
  PROVE  /\ \A F, key, at : WindowOK(p, R, F, key, at) => WindowOK(p, Q, F, key, at)
         /\ DayOK(p, R) => DayOK(p, Q)
<1>1. /\ \A a : Since(p, Q, a) = Since(p, R, a)
      /\ \A a, b : Between(p, Q, a, b) = Between(p, R, a, b)
  BY DEF Since, Between
<1>2. ASSUME NEW F, NEW key, NEW at, WindowOK(p, R, F, key, at)
      PROVE  WindowOK(p, Q, F, key, at)
  <2> DEFINE s == StartOf(key, at)
  <2>1. Since(p, Q, s) = Since(p, R, s) /\ Since(p, Q, s + 1) = Since(p, R, s + 1)
        /\ \A from : Between(p, Q, from, s) = Between(p, R, from, s)
    BY <1>1
  <2> QED
    BY <1>2, <2>1, Zenon DEF WindowOK
<1>3. DayOK(p, R) => DayOK(p, Q)
  BY <1>1, Zenon DEF DayOK
<1> QED
  BY <1>2, <1>3

\* Time passes: the window goes on, or a day after its start it is over.
LEMMA WindowTick ==
  ASSUME NEW p, NEW R, IsFiniteSet(R), NEW key \in Key, NEW at \in Nat, NEW later \in Nat,
         later > at, \A x \in R : x.created \in Nat /\ x.created <= at,
         WindowOK(p, R, {}, key, at),
         key.count > 0 => key.expires # None,
         key.expires # None => key.count > 0 /\ key.expires <= at + DayLength,
         NEW new, Expired(key, later) => new = NoKey, ~Expired(key, later) => new = key
  PROVE  WindowOK(p, R, {}, new, later)
<1> DEFINE s == StartOf(key, at)
<1>1. /\ s \in Int /\ key.count \in Nat /\ Cardinality({}) = 0
      /\ key.expires = None => s = at
      /\ key.expires # None => s = key.expires - DayLength /\ key.expires \in Nat
  BY StartFacts, FS_EmptySet DEF Key
<1>2. s <= at
  BY <1>1
<1>3. /\ Cardinality(Since(p, R, s)) <= key.count
      /\ Cardinality(Since(p, R, s)) <= SubmitLimit
      /\ at > s => /\ Cardinality(Since(p, R, s + 1)) <= key.count - 1
                   /\ Cardinality(Since(p, R, s + 1)) <= SubmitLimit - 1
      /\ \A from \in Int : from + DayLength > s =>
            Cardinality(Between(p, R, from, s)) <= SubmitLimit - 1
  <2>1. (\A a : Cardinality(Since(p, R, a)) \in Nat)
    BY Counted
  <2>2. \A a : Cardinality(Since(p, R, a)) + Cardinality({}) = Cardinality(Since(p, R, a))
    BY <1>1, <2>1
  <2> QED
    BY <2>2 DEF WindowOK
<1>4. \A a \in Int : a > at => Since(p, R, a) = {}
  BY DEF Since
<1>5. StartOf(key, at) = s
  OBVIOUS
<1> HIDE DEF s
<1>10. Cardinality(Since(p, R, s + 1)) <= SubmitLimit - 1
       /\ (key.count > 0 => Cardinality(Since(p, R, s + 1)) <= key.count - 1)
  <2>1. CASE at > s
    BY <1>3, <2>1
  <2>2. CASE ~ (at > s)
    <3>1. s + 1 \in Int /\ s + 1 > at
      BY <1>1, <2>2
    <3>2. Since(p, R, s + 1) = {}
      BY <1>4, <3>1
    <3>3. 0 <= SubmitLimit - 1 /\ (key.count > 0 => 0 <= key.count - 1)
      BY <1>1
    <3> QED
      BY <1>1, <3>2, <3>3
  <2> QED
    BY <2>1, <2>2
<1>6. CASE key.expires # None /\ ~Expired(key, later)
  <2>1. new = key /\ StartOf(new, later) = s
    BY <1>1, <1>6 DEF StartOf
  <2>2. /\ Cardinality(Since(p, R, s + 1)) <= key.count - 1
        /\ Cardinality(Since(p, R, s + 1)) <= SubmitLimit - 1
    BY <1>6, <1>10
  <2>3. \A a : Cardinality(Since(p, R, a)) + Cardinality({}) = Cardinality(Since(p, R, a))
    BY <1>1, Counted
  <2> QED
    BY <1>3, <2>1, <2>2, <2>3 DEF WindowOK
<1>7. ASSUME new.count \in Nat, StartOf(new, later) = later,
             \A from \in Int : from + DayLength > later =>
                Cardinality(Between(p, R, from, later)) <= SubmitLimit - 1
      PROVE  WindowOK(p, R, {}, new, later)
  <2>1. Since(p, R, later) = {}
    BY <1>4
  <2> QED
    BY <1>1, <1>7, <2>1 DEF WindowOK
<1>8. CASE key.expires # None /\ Expired(key, later)
  <2>1. new.count = 0 /\ StartOf(new, later) = later
    BY <1>8 DEF NoKey, StartOf
  <2>2. Cardinality(Since(p, R, s + 1)) <= SubmitLimit - 1
    BY <1>10
  <2>3. ASSUME NEW from \in Int, from + DayLength > later
        PROVE  Cardinality(Between(p, R, from, later)) <= SubmitLimit - 1
    <3>1. from >= s + 1
      BY <1>1, <1>8, <2>3 DEF Expired
    <3>2. Between(p, R, from, later) \subseteq Since(p, R, s + 1)
      BY <1>1, <3>1 DEF Between, Since
    <3> QED
      BY <2>2, <3>2, Counted, FewerCounted
  <2> QED
    BY <1>7, <2>1, <2>3
<1>9. CASE key.expires = None
  <2>1. key.count = 0 /\ s = at /\ new = key /\ StartOf(new, later) = later
    BY <1>1, <1>9 DEF Expired, StartOf
  <2>2. Cardinality(Since(p, R, at)) = 0
    BY <1>3, <2>1, Counted
  <2>3. ASSUME NEW from \in Int, from + DayLength > later
        PROVE  Cardinality(Between(p, R, from, later)) <= SubmitLimit - 1
    <3>1. Cardinality(Between(p, R, from, at)) <= SubmitLimit - 1
      BY <1>3, <2>1, <2>3
    <3>2. Between(p, R, from, later) \subseteq Between(p, R, from, at)
      <4>1. Since(p, R, at) = {}
        BY <2>2, Counted, FS_EmptySet
      <4> QED
        BY <4>1 DEF Between, Since
    <3> QED
      BY <3>1, <3>2, Counted, FewerCounted
  <2> QED
    BY <1>1, <1>7, <2>1, <2>3
<1> QED
  BY <1>6, <1>8, <1>9

LEMMA InFlightFinite ==
  \A p : IsFiniteSet(InFlight(p)) /\ IsFiniteSet(InFlight(p)')
  BY FS_Subset DEF InFlight

\* A step of the day that leaves rows, clock and windows alone.
LEMMA DayQuiet ==
  ASSUME TypeOK, TypeOK', RowsBounded, DayInv, rows' = rows, now' = now,
         \A p \in Phones : /\ InFlight(p)' \subseteq InFlight(p)
                           /\ limits'["submit"][p].count = limits["submit"][p].count
                           /\ StartOf(limits'["submit"][p], now) = StartOf(limits["submit"][p], now)
  PROVE  DayInv'
<1>1. ASSUME NEW p \in Phones
      PROVE  WindowOK(p, rows, InFlight(p)', limits'["submit"][p], now)
  <2>1. limits["submit"][p] \in Key /\ limits'["submit"][p] \in Key /\ now \in Nat
    BY DEF TypeOK
  <2>2. WindowOK(p, rows, InFlight(p), limits["submit"][p], now) /\ IsFiniteSet(rows)
    BY DEF DayInv, RowsBounded
  <2> QED
    BY <2>1, <2>2, InFlightFinite, WindowQuiet
<1> QED
  BY <1>1 DEF DayInv

LEMMA ArriveDay ==
  ASSUME TypeOK, TypeOK', RequestsOK, RowsBounded, DayInv, NEW c \in Slots,
         NEW op \in {"submit", "register"}, NEW phone \in Phones, Arrive(c, op, phone)
  PROVE  DayInv'
<1> DEFINE old == limits[op][phone]
<1>1. PICK key, r :
        /\ old \in Key /\ key \in Key /\ key.expires = old.expires
        /\ key.count = old.count + 1 \/ (old.count > LimitOf(op) /\ key.count = LimitOf(op) + 1)
        /\ limits'[op][phone] = key
        /\ \A o \in {"submit", "register"}, p \in Phones :
              o # op \/ p # phone => limits'[o][p] = limits[o][p]
        /\ Step(c, r) /\ req[c] = Free /\ now' = now /\ rows' = rows
        /\ old.count >= LimitOf(op) => r = Free
        /\ old.count < LimitOf(op) => r.op = op /\ r.phone = phone
  BY ArriveFacts
<1>2. req'[c] = r /\ \A d \in Slots : d # c => req'[d] = req[d]
  BY <1>1, StepRequest
<1>3. old.count \in Nat /\ key.count \in Nat /\ LimitOf("submit") = SubmitLimit
  BY <1>1 DEF Key, LimitOf
<1>4. Free.op = "none"
  BY DEF Free
<1>5. LimitOf(op) \in Nat
  BY LimitFacts
<1>6. ASSUME NEW p \in Phones
      PROVE  WindowOK(p, rows, InFlight(p)', limits'["submit"][p], now)
  <2>1. limits["submit"][p] \in Key /\ limits'["submit"][p] \in Key /\ now \in Nat
    BY DEF TypeOK
  <2>2. WindowOK(p, rows, InFlight(p), limits["submit"][p], now) /\ IsFiniteSet(rows)
    BY DEF DayInv, RowsBounded
  <2>3. CASE op # "submit" \/ p # phone
    <3>1. limits'["submit"][p] = limits["submit"][p]
      BY <1>1, <2>3
    <3>2. r.op # "submit" \/ r.phone # p
      BY <1>1, <1>3, <1>4, <1>5, <2>3
    <3>3. InFlight(p)' \subseteq InFlight(p)
      BY <1>2, <3>2 DEF InFlight
    <3> QED
      BY <2>1, <2>2, <3>1, <3>3, InFlightFinite, WindowQuiet
  <2>4. CASE op = "submit" /\ p = phone /\ old.count < SubmitLimit
    <3>1. InFlight(p)' \subseteq InFlight(p) \cup {c}
      BY <1>2 DEF InFlight
    <3>2. key.count = old.count + 1
      BY <1>1, <1>3, <2>4
    <3> QED
      BY <1>1, <2>1, <2>2, <2>4, <3>1, <3>2, InFlightFinite, WindowArrive
  <2>5. CASE op = "submit" /\ p = phone /\ old.count >= SubmitLimit
    <3>1. InFlight(p)' \subseteq InFlight(p)
      BY <1>1, <1>2, <1>3, <1>4, <2>5 DEF InFlight
    <3>2. key.count >= SubmitLimit
      BY <1>1, <1>3, <2>5
    <3> QED
      BY <1>1, <2>1, <2>2, <2>5, <3>1, <3>2, InFlightFinite, WindowRefused
  <2> QED
    BY <1>3, <2>3, <2>4, <2>5
<1> QED
  BY <1>1, <1>6 DEF DayInv

LEMMA ExpireLimitDay ==
  ASSUME TypeOK, TypeOK', RequestsOK, RowsBounded, LimitInv, DayInv, NEW c \in Slots,
         ExpireLimit(c)
  PROVE  DayInv'
<1> DEFINE op == req[c].op
           phone == req[c].phone
           old == limits[op][phone]
<1>1. PICK key, r :
        /\ op \in {"submit", "register"} /\ phone \in Phones /\ req[c].pc = "expire"
        /\ old \in Key /\ key \in Key /\ key.count = old.count /\ key.expires = now + DayLength
        /\ limits'[op][phone] = key
        /\ \A o \in {"submit", "register"}, p \in Phones :
              o # op \/ p # phone => limits'[o][p] = limits[o][p]
        /\ Step(c, r) /\ now' = now /\ rows' = rows /\ r.op = op /\ r.phone = phone
  BY ExpireLimitFacts
<1>2. req'[c] = r /\ \A d \in Slots : d # c => req'[d] = req[d]
  BY <1>1, StepRequest
<1>3. old.expires \in {None, now + DayLength} /\ now \in Nat
  BY <1>1 DEF LimitInv, LimitOK, TypeOK
<1>4. StartOf(key, now) = now /\ StartOf(old, now) = now
  BY <1>1, <1>3 DEF StartOf
<1>5. ASSUME NEW p \in Phones
      PROVE  /\ InFlight(p)' \subseteq InFlight(p)
             /\ limits'["submit"][p].count = limits["submit"][p].count
             /\ StartOf(limits'["submit"][p], now) = StartOf(limits["submit"][p], now)
  <2>1. InFlight(p)' \subseteq InFlight(p)
    BY <1>1, <1>2 DEF InFlight
  <2>2. CASE op = "submit" /\ p = phone
    BY <1>1, <1>4, <2>1, <2>2
  <2>3. CASE op # "submit" \/ p # phone
    BY <1>1, <2>1, <2>3
  <2> QED
    BY <2>2, <2>3
<1> QED
  BY <1>1, <1>5, DayQuiet

LEMMA TickDay ==
  ASSUME TypeOK, RowsBounded, LimitInv, DayInv, Tick
  PROVE  DayInv'
<1>1. PICK later \in Moments :
        /\ later > now /\ now' = later /\ req' = req /\ rows' = rows
        /\ limits' = [op \in DOMAIN limits |-> [p \in Phones |->
                        IF Expired(limits[op][p], later) THEN NoKey ELSE limits[op][p]]]
  BY DEF Tick
<1>2. \A c \in Slots : req[c].pc = "free" /\ req[c].op = "none"
  BY FreeFacts DEF Tick, Free
<1>3. /\ now \in Nat /\ later \in Nat /\ IsFiniteSet(rows)
      /\ \A x \in rows : x.created \in Nat /\ x.created <= now
  BY <1>1 DEF TypeOK, RowsBounded, Row
<1>4. ASSUME NEW p \in Phones
      PROVE  WindowOK(p, rows, InFlight(p)', limits'["submit"][p], later)
  <2> DEFINE key == limits["submit"][p]
             new == limits'["submit"][p]
  <2>1. InFlight(p) = {} /\ InFlight(p)' = {}
    BY <1>1, <1>2 DEF InFlight
  <2>2. key \in Key /\ (Expired(key, later) => new = NoKey) /\ (~Expired(key, later) => new = key)
    BY <1>1 DEF TypeOK
  <2>3. key.count > 0 => key.expires # None
    <3>1. DOMAIN limits = {"submit", "register"}
      BY DEF TypeOK
    <3> QED
      BY <1>2, <3>1 DEF LimitInv, LimitsExpire
  <2>4. key.expires # None => key.count > 0 /\ key.expires <= now + DayLength
    BY DEF LimitInv, LimitOK
  <2>5. WindowOK(p, rows, {}, key, now)
    BY <2>1 DEF DayInv
  <2> HIDE DEF key, new
  <2>6. WindowOK(p, rows, {}, new, later)
    BY <1>1, <1>3, <2>2, <2>3, <2>4, <2>5, WindowTick
  <2> QED
    BY <2>1, <2>6 DEF new
<1> QED
  BY <1>1, <1>4 DEF DayInv

LEMMA CalmInFlight ==
  ASSUME TypeOK, NEW c \in Slots, NEW r, Calm(c, r), NEW p
  PROVE  InFlight(p)' \subseteq InFlight(p)
<1>1. req'[c] = r /\ \A d \in Slots : d # c => req'[d] = req[d]
  BY StepRequest DEF Calm
<1> QED
  BY <1>1 DEF InFlight, Calm

LEMMA CommitDay ==
  ASSUME TypeOK, TypeOK', RequestsOK, RowsBounded, RowsBounded', LimitInv, DayInv,
         NEW c \in Slots, Commit(c)
  PROVE  DayInv'
<1> DEFINE r == req[c]
           y == IF r.op = "submit" THEN [r EXCEPT !.pc = "enqueue"] ELSE Free
           x == r.row
<1>1. /\ RequestOK(r, now) /\ r.pc = "commit" /\ r.op \notin {"mail", "none"} /\ x \in Row
      /\ rows' = rows \cup {x} /\ Step(c, y) /\ RequestOK(y, now)
      /\ now' = now /\ limits' = limits
  BY CommitFacts
<1>2. /\ req'[c] = y /\ \A d \in Slots : d # c => req'[d] = req[d]
  BY <1>1, StepRequest
<1>3. /\ r \in Request /\ x # None /\ x.created = now /\ x.phone = r.phone /\ now \in Nat
      /\ IsCsts(x.number) <=> KeyOf(r.op) = Key0
  BY <1>1 DEF RequestOK, TypeOK
<1>4. y.op = "submit" => y.pc = "enqueue"
  BY <1>3 DEF Free, Request
<1> HIDE DEF y
<1>5. ASSUME NEW p \in Phones
      PROVE  /\ WindowOK(p, rows', InFlight(p)', limits["submit"][p], now)
             /\ DayOK(p, rows')
  <2> DEFINE key == limits["submit"][p]
             F   == InFlight(p)
             G   == InFlight(p)'
  <2>1. G \in SUBSET (F \ {c})
    BY <1>2, <1>4 DEF InFlight
  <2>2. WindowOK(p, rows, F, key, now) /\ DayOK(p, rows) /\ IsFiniteSet(rows) /\ key \in Key
        /\ IsFiniteSet(F) /\ IsFiniteSet(G)
    BY InFlightFinite DEF DayInv, RowsBounded, TypeOK
  <2>3. StartOf(key, now) <= now
    <3>1. key.expires # None => key.expires <= now + DayLength /\ key.expires \in Nat
      BY <2>2 DEF LimitInv, LimitOK, Key
    <3> HIDE DEF key, F, G, r, x
    <3> QED
      BY <1>3, <2>2, <3>1, StartFacts
  <2>4. CASE r.op = "submit" /\ r.phone = p
    <3>1. c \in F
      BY <1>1, <2>4 DEF InFlight
    <3>2. IsCsts(x.number)
      BY <1>3, <2>4, KeyFacts
    <3> HIDE DEF r, x, key, F, G
    <3>3. WindowOK(p, rows \cup {x}, G, key, now)
      BY <1>3, <2>1, <2>2, <2>3, <2>4, <3>1, <3>2, WindowCommit
    <3>4. \A z \in rows : z.created \in Nat
      BY DEF TypeOK, Row
    <3>5. DayOK(p, rows \cup {x})
      BY <1>3, <2>2, <2>3, <3>3, <3>4, DayCommit
    <3> QED
      BY <1>1, <3>3, <3>5 DEF key, G
  <2>5. CASE ~(r.op = "submit" /\ r.phone = p)
    <3>1. x.phone # p \/ ~IsCsts(x.number)
      <4>1. CASE r.op = "submit"
        BY <1>3, <2>5, <4>1
      <4>2. CASE r.op = "register"
        BY <1>3, <4>2, OtherKeys
      <4>3. CASE r.op \notin {"submit", "register"}
        BY <1>1, <1>3, <4>3 DEF RequestOK
      <4> QED
        BY <4>1, <4>2, <4>3
    <3> HIDE DEF r, x, key, F, G
    <3>2. G \in SUBSET F
      BY <2>1
    <3>3. WindowOK(p, rows, G, key, now)
      BY <1>3, <2>2, <3>2, WindowQuiet
    <3>4. WindowOK(p, rows \cup {x}, G, key, now) /\ DayOK(p, rows \cup {x})
      BY <2>2, <3>1, <3>3, OtherRow
    <3> QED
      BY <1>1, <3>4 DEF key, G
  <2> QED
    BY <2>4, <2>5
<1> QED
  BY <1>1, <1>5 DEF DayInv

LEMMA DayNext ==
  ASSUME TypeOK, RequestsOK, RowsBounded, Limited, LimitInv, DayInv, [Next]_vars
  PROVE  DayInv'
<1>1. TypeOK' /\ RowsBounded'
  BY TypedNext, BoundedNext
<1>2. CASE Tick
  BY <1>2, TickDay
<1>3. CASE UNCHANGED vars \/ Apart \/ \E key \in SequenceKeys : Evict(key)
  <2>1. limits' = limits /\ now' = now /\ req' = req /\ rows' = rows
    BY <1>3 DEF vars, Evict, Apart, EvictLimit, Limited, route_inbound_whatsapp, Forget
  <2> QED
    BY <1>1, <2>1, DayQuiet DEF InFlight
<1>4. ASSUME NEW c \in Slots, RequestStep(c)
      PROVE  DayInv'
  <2>1. CASE \E op \in {"submit", "register"}, phone \in Phones : Arrive(c, op, phone)
    BY <1>1, <2>1, ArriveDay
  <2>2. CASE ExpireLimit(c)
    BY <1>1, <2>2, ExpireLimitDay
  <2>3. CASE Commit(c)
    BY <1>1, <2>3, CommitDay
  <2>4. CASE /\ ~ExpireLimit(c) /\ ~Commit(c)
             /\ ~ \E op \in {"submit", "register"}, phone \in Phones : Arrive(c, op, phone)
    <3>1. PICK r : Calm(c, r)
      BY <1>4, <2>4, CalmStep
    <3>2. limits' = limits /\ now' = now
      BY <1>4, <2>4, CalmStep
    <3>3. rows' = rows
      BY <1>4, <2>4 DEF RequestStep, Call, split_ticket, SeedExists, Seeds, SeedMax, SeedSetNx, Incr,
         CompleteTicket, Rollback, _enqueue_confirmation, poll_imap_inbox, EndPoll, TakeMail
    <3> QED
      BY <1>1, <3>1, <3>2, <3>3, CalmInFlight, DayQuiet
  <2> QED
    BY <2>1, <2>2, <2>3, <2>4
<1> QED
  BY <1>2, <1>3, <1>4, NextCases

LEMMA DayInit ==
  ASSUME Init
  PROVE  DayInv
<1>1. \A p : InFlight(p) = {}
  BY DEF Init, InFlight, Free
<1>2. /\ \A p, a : Since(p, rows, a) = {}
      /\ \A p, a, b : Between(p, rows, a, b) = {}
  BY DEF Init, Since, Between
<1>3. \A p \in Phones : limits["submit"][p].count = 0 /\ StartOf(limits["submit"][p], now) = now
  BY DEF Init, NoKey, StartOf
<1>4. now \in Nat /\ Cardinality({}) = 0
  BY FirstMoment, FS_EmptySet DEF Init
<1>5. \A p : DayOK(p, rows)
  <2>1. 0 <= 2 * SubmitLimit - 1
    OBVIOUS
  <2>2. \A p : \A from \in Int :
          Cardinality(Between(p, rows, from, from + DayLength)) = 0
    BY <1>2, <1>4
  <2> QED
    BY <2>1, <2>2, Zenon DEF DayOK
<1>6. ASSUME NEW p \in Phones
      PROVE  WindowOK(p, rows, {}, limits["submit"][p], now)
  <2> DEFINE key == limits["submit"][p]
  <2>1. key.count = 0 /\ StartOf(key, now) = now
    BY <1>3
  <2> HIDE DEF key
  <2>2. 0 <= SubmitLimit - 1 /\ 0 + 0 <= 0 /\ 0 + 0 <= SubmitLimit /\ ~ (now > now)
    BY <1>4
  <2>3. WindowOK(p, rows, {}, key, now)
    BY <1>2, <1>4, <2>1, <2>2 DEF WindowOK
  <2> QED
    BY <2>3 DEF key
<1> QED
  BY <1>1, <1>5, <1>6 DEF DayInv

\* What "max 5 ticket submissions per phone per day" comes to: a window opens with
\* its first submission and is over a day later, so that no stretch as long as a
\* day holds more than the whole of one window and what the window before it left
\* (submit_ticket), for any limit, and however many submissions of the phone are
\* under way at once, as long as Redis keeps the keys until they expire and no
\* request fails between INCR and EXPIRE.
THEOREM DaysAreLimited == Spec => []DayIsLimited
<1> DEFINE Inv == /\ TypeOK /\ RequestsOK /\ RowsBounded
                  /\ Limited => LimitInv /\ DayInv
<1>1. Init => Inv
  BY TypedInit, LimitInit, DayInit
<1>2. Inv /\ [Next]_vars => Inv'
  <2>1. [Next]_vars => (Limited' <=> Limited)
    BY MixNext DEF Limited
  <2> QED
    BY <2>1, TypedNext, BoundedNext, LimitNext, DayNext
<1>3. Inv => DayIsLimited
  <2>1. \A p, from : SubmissionsOf(p, from) = Between(p, rows, from, from + DayLength)
    BY DEF SubmissionsOf, Between, IsCsts
  <2> QED
    BY <2>1 DEF DayInv, DayOK, DayIsLimited, Limited
<1> QED
  BY <1>1, <1>2, <1>3, PTL DEF Spec

-----------------------------------------------------------------------------
(* The deadline in working time.                                            *)

\* The deadline of a ticket made at a moment of the clock, when it falls in the
\* year whose holidays were loaded.
LEMMA DeadlineWorks ==
  ASSUME NEW at \in Moments, NEW deadline, deadline = calculate_sla_deadline("medium", at),
         Year(Day(deadline)) = Year(Day(at - UtcOffset))
  PROVE  /\ Worked(at, deadline, Holidays) - 2 * SLA_MINUTES["medium"] \in {0, 1}
         /\ Worked(deadline - 1, deadline, Holidays) = 1
<1> DEFINE year == Year(Day(at - UtcOffset))
           holidays == _get_holiday_set(year)
           s == Spent(at, SLA_MINUTES["medium"], holidays)
<1>1. SLA_MINUTES["medium"] \in Nat \ {0} /\ at \in Nat
  <2>1. SLA_MINUTES["medium"] = 480
    BY DEF SLA_MINUTES
  <2> QED
    BY <2>1
<1>2. deadline = s.current /\ s.remaining = 0
  BY LoopsSuffice DEF calculate_sla_deadline, _add_business_minutes
<1>3. /\ deadline \in Nat /\ at <= deadline - 1
      /\ Worked(at, deadline, holidays) - 2 * SLA_MINUTES["medium"] \in {0, 1}
      /\ Worked(deadline - 1, deadline, holidays) = 1
  <2> HIDE DEF holidays
  <2> QED
    BY <1>1, <1>2, LoopWorks
<1>4. at - UtcOffset \in Nat
  <2>1. Day(at) > 0 /\ 2880 * Day(at) <= at /\ Day(at) \in Nat
    BY <1>1, DayType
  <2> QED
    BY <1>1, <2>1 DEF UtcOffset
<1>5. deadline - 1 \in Nat /\ at <= deadline /\ deadline - 1 <= deadline
  BY <1>1, <1>3
<1>6. /\ Day(at - UtcOffset) <= Day(at) /\ Day(at) <= Day(deadline - 1)
      /\ Day(at - UtcOffset) \in Nat /\ Day(at) \in Nat /\ Day(deadline) \in Nat
      /\ Day(deadline - 1) \in Nat
  BY <1>1, <1>3, <1>4, <1>5, DayGrows, DayType DEF UtcOffset
<1>7. ASSUME NEW d \in Day(at) .. Day(deadline)
      PROVE  d \in holidays <=> d \in Holidays
  <2>1. /\ year \in Nat /\ Year(d) \in Nat
        /\ year <= Year(d) /\ Year(d) <= Year(Day(deadline))
    BY <1>6, <1>7, YearGrows
  <2>2. Year(d) = year
    BY <2>1
  <2> QED
    BY <2>2 DEF _get_holiday_set
<1> HIDE DEF holidays
<1>8. Worked(at, deadline, holidays) = Worked(at, deadline, Holidays)
  BY <1>1, <1>3, <1>5, <1>7, WorkedSame
<1>9. Worked(deadline - 1, deadline, holidays) = Worked(deadline - 1, deadline, Holidays)
  <2>1. \A d \in Day(deadline - 1) .. Day(deadline) : d \in Day(at) .. Day(deadline)
    BY <1>6
  <2> QED
    BY <1>3, <1>5, <1>7, <2>1, WorkedSame
<1> QED
  BY <1>3, <1>8, <1>9

\* A row made at a moment of the clock with the deadline of that moment, or none.
Made(x) ==
  /\ x.created \in Moments
  /\ x.sla_deadline \in {None, calculate_sla_deadline("medium", x.created)}

MadeInv ==
  /\ \A x \in rows : Made(x)
  /\ \A c \in Slots : req[c].row # None => Made(req[c].row)

LEMMA MadeNext ==
  ASSUME TypeOK, RequestsOK, RowsBounded, MadeInv, [Next]_vars
  PROVE  MadeInv'
<1>1. \A x \in rows' : Made(x)
  <2>1. CASE rows' = rows
    BY <2>1 DEF MadeInv
  <2>2. ASSUME NEW c \in Slots, Commit(c)
        PROVE  \A x \in rows' : Made(x)
    <3>1. req[c].row \in Row /\ rows' = rows \cup {req[c].row}
      BY <2>2, CommitFacts
    <3>2. req[c].row # None
      BY <3>1
    <3> QED
      BY <3>1, <3>2 DEF MadeInv
  <2> QED
    BY <2>1, <2>2, RowsNext
<1>2. ASSUME NEW c \in Slots, NEW r, Step(c, r), r.row # None => Made(r.row)
      PROVE  \A d \in Slots : req'[d].row # None => Made(req'[d].row)
  BY <1>2, StepRequest DEF MadeInv
<1>3. \A d \in Slots : req'[d].row # None => Made(req'[d].row)
  <2>1. ASSUME NEW c \in Slots, NEW r, Quiet(c, r)
        PROVE  Step(c, r) /\ (r.row # None => Made(r.row))
    <3>1. r.row # None => /\ req[c].row # None /\ r.row.created = req[c].row.created
                          /\ r.row.sla_deadline = req[c].row.sla_deadline
      BY <2>1 DEF Quiet
    <3>2. r.row # None => Made(r.row)
      BY <3>1 DEF MadeInv, Made
    <3> QED
      BY <2>1, <3>2 DEF Quiet
  <2>2. ASSUME NEW c \in Slots, SeedSetNx(c)
        PROVE  \E r : Step(c, r) /\ r.row = None
    <3> DEFINE r == [req[c] EXCEPT !.pc = "incr"]
    <3>1. Step(c, r) /\ req[c].row = None
      BY <2>2, RequestFacts DEF SeedSetNx, Goto, RequestOK
    <3>2. r.row = None
      BY <3>1, RequestFacts DEF Request
    <3> HIDE DEF r
    <3> QED
      BY <3>1, <3>2
  <2>3. ASSUME NEW c \in Slots, Incr(c)
        PROVE  \E r : Step(c, r) /\ Made(r.row)
    <3> DEFINE y == Numbered2(req[c])
    <3>1. Step(c, y) /\ y.row.created = now
          /\ y.row.sla_deadline \in {None, calculate_sla_deadline("medium", now)}
      BY <2>3, IncrFacts
    <3>2. now \in Moments
      BY DEF TypeOK
    <3> HIDE DEF y
    <3>3. Made(y.row)
      BY <3>1, <3>2 DEF Made
    <3> QED
      BY <3>1, <3>3
  <2>4. ASSUME NEW c \in Slots, Commit(c)
        PROVE  \E r : Step(c, r) /\ (r.row # None => Made(r.row))
    <3> DEFINE e == [req[c] EXCEPT !.pc = "enqueue"]
               y == IF req[c].op = "submit" THEN e ELSE Free
    <3>1. req[c].row \in Row /\ Step(c, y)
      BY <2>4, CommitFacts
    <3>2. e.row = req[c].row
      BY RequestFacts DEF Request
    <3> HIDE DEF e
    <3>3. y = e \/ y = Free
      OBVIOUS
    <3> HIDE DEF y
    <3>4. y.row # None => Made(y.row)
      BY <3>1, <3>2, <3>3, FreeFacts DEF MadeInv
    <3> QED
      BY <3>1, <3>4
  <2>5. CASE req' = req
    BY <2>5 DEF MadeInv
  <2>6. CASE \E key \in SequenceKeys : Evict(key)
    BY <2>5, <2>6 DEF Evict
  <2> QED
    BY <1>2, <2>1, <2>2, <2>3, <2>4, <2>5, <2>6, StepKinds
<1> QED
  BY <1>1, <1>3 DEF MadeInv, Made

\* The deadline of every ticket comes when its SLA has passed in working time, and
\* less than a minute later, for any calendar whose loop ends, as long as it falls
\* in the year whose holidays were loaded (calculate_sla_deadline).
THEOREM DeadlinesAreWorkedOut == Spec => []DeadlineIsWorkedOut
<1> DEFINE Inv == TypeOK /\ RequestsOK /\ RowsBounded /\ MadeInv
<1>1. Init => Inv
  <2>1. Init => MadeInv
    BY FreeFacts DEF Init, MadeInv
  <2> QED
    BY <2>1, TypedInit
<1>2. Inv /\ [Next]_vars => Inv'
  BY TypedNext, BoundedNext, MadeNext
<1>3. Inv => DeadlineIsWorkedOut
  <2>1. ASSUME MadeInv, NEW r \in rows, r.sla_deadline # None,
               Year(Day(r.sla_deadline)) = Year(Day(r.created - UtcOffset))
        PROVE  /\ Worked(r.created, r.sla_deadline, Holidays) - 2 * SLA_MINUTES["medium"] \in {0, 1}
               /\ Worked(r.sla_deadline - 1, r.sla_deadline, Holidays) = 1
    BY <2>1, DeadlineWorks DEF MadeInv, Made
  <2> QED
    BY <2>1 DEF DeadlineIsWorkedOut
<1> QED
  BY <1>1, <1>2, <1>3, PTL DEF Spec
=============================================================================
