------------------------ MODULE TicketSerial_proofs ------------------------
(***************************************************************************)
(* What the desk keeps when its sessions run one after the other: proofs    *)
(* that it implements TicketLifecycle, that its work clock is exact, that   *)
(* the timeline names the owner last and that a merge loses no reply.       *)
(***************************************************************************)
EXTENDS TicketTrace_proofs

\* One slot: a request or a task ends before the next one starts.
OneAtATime == \A c, d \in Slots : c = d

\* The two handlers that set a status and leave the work clock, and the rows
\* born open with no clock, are out.
ClocksKept == Handlers \cap {"merge", "bulk_assign"} = {} /\ InitialRows \cap FollowupRows = {}

\* The lifecycle lets the promised columns go from those of r to those of y.
Follows(r, y) == Promised(y) = Promised(r) \/ Lifecycle!Step(Promised(r), Promised(y))

\* The work time of a row fits in the time that has passed at "at", and the
\* stretch that is running started before.
Fits(r, at) ==
  IF r.last_opened_at = None THEN r.work_time_seconds <= at
  ELSE r.work_time_seconds <= r.last_opened_at /\ r.last_opened_at <= at

Clocked(r) == r.status = "open" <=> r.last_opened_at # None

NamesOwner(e) == e.type \in {"ticket_created", "assigned", "transferred"}
NoOwner(E)    == \A e \in E : ~NamesOwner(e)

\* The last event of the sequence that names an owner names o.
LastOwner(q, o) ==
  \E i \in DOMAIN q : /\ NamesOwner(q[i]) /\ q[i].to = o
                      /\ \A j \in DOMAIN q : NamesOwner(q[j]) => j <= i

\* The staged events leave the owner of y the latest one named.
OwnerKept(r, y, events) ==
  \/ y.assigned_to = None
  \/ LastOwner(events, y.assigned_to)
  \/ y.assigned_to = r.assigned_to /\ NoOwner(Range(events))

\* Handler op may replace the row r by y and log the events.
Replaces(op, r, y, events, at) ==
  /\ Follows(r, y)
  /\ Fits(r, at) => Fits(y, at)
  /\ op \notin {"merge", "bulk_assign"} => (Clocked(r) => Clocked(y))
  /\ op # "bulk_assign" => OwnerKept(r, y, events)

\* What the commit of s needs of the rows and timelines it will find.
SerialStaged(s, rows, lines, at) ==
  /\ s.op = "idle" => s.has = {}
  /\ \A t \in s.has :
        s.read[t] = rows[t] /\ Replaces(s.op, rows[t], s.new[t], s.log[t], at)
  /\ \A t \in Tickets \ s.has : NoOwner(Range(s.log[t]))
  /\ s.op = "auto_resolve" => \A t \in s.has :
        rows[t].status = "pending_customer" /\ s.new[t] \in {rows[t], AutoResolveTicket(rows[t])}
  /\ s.op \in {"bulk_reassign", "bulk_move"} => s.queue # "internal_tickets"
  /\ s.op = "claim" => \A t \in s.has : rows[t].assigned_to = None
  /\ s.op = "merge" =>
        /\ s.primary \in Tickets
        /\ \A t \in s.has : \A e \in Range(lines[t]) :
              IsPublicReply(e) => e \in Range(s.log[s.primary])

\* What holds of each row and its timeline between the sessions.
SerialTables(rows, lines, at) ==
  /\ \A t \in Tickets : Fits(rows[t], at)
  /\ ClocksKept => \A t \in Tickets : Clocked(rows[t])
  /\ "bulk_assign" \in Handlers \/ \A t \in Tickets :
        rows[t].assigned_to # None => LastOwner(lines[t], rows[t].assigned_to)

\* The inductive invariant, relative to DeskInv and TraceInv.
SerialInv ==
  /\ \A c \in Slots : SerialStaged(sess[c], tickets, timeline, now)
  /\ SerialTables(tickets, timeline, now)

-----------------------------------------------------------------------------
(* The work clock of a row.                                                 *)

\* y may replace r at the time "at" without harm to the work clock.
ClockSafe(r, y, at) == (Fits(r, at) => Fits(y, at)) /\ (Clocked(r) => Clocked(y))

\* A row whose clock is left alone, and one whose clock starts.
LEMMA KeptClock ==
  ASSUME NEW r \in Row, NEW y, NEW at \in Nat,
         y.work_time_seconds = r.work_time_seconds
  PROVE  /\ y.last_opened_at = r.last_opened_at => (Fits(r, at) => Fits(y, at))
         /\ y.last_opened_at = r.last_opened_at /\ (y.status = "open" <=> r.status = "open") =>
               ClockSafe(r, y, at)
         /\ y.last_opened_at = at /\ y.status = "open" => ClockSafe(r, y, at)
<1>1. /\ r.last_opened_at \in Nat \cup {None} /\ r.work_time_seconds \in Nat /\ at # None
  BY Columns, NoneAssumption DEF Time
<1> QED
  BY <1>1 DEF ClockSafe, Fits, Clocked

\* A status change stops the clock of an open ticket and starts that of a
\* ticket it opens (change_ticket_status).
LEMMA StatusClock ==
  ASSUME NEW r \in Row, NEW target \in Statuses, NEW at \in Nat
  PROVE  ClockSafe(r, ChangeTicketStatus(r, target, at), at)
<1> DEFINE y       == ChangeTicketStatus(r, target, at)
           worked  == IF r.last_opened_at # None /\ at > r.last_opened_at
                      THEN r.work_time_seconds + (at - r.last_opened_at)
                      ELSE r.work_time_seconds
           timed   == IF r.status = "open" THEN AccumulateWorkTime(r, at) ELSE r
           clocked == IF target = "open" THEN [timed EXCEPT !.last_opened_at = at] ELSE timed
           moved   == [clocked EXCEPT !.status = target, !.version = @ + 1]
           counted == [moved EXCEPT !.reopen_count = @ + 1]
           stopped == IF r.status = "open" THEN None ELSE r.last_opened_at
           total   == IF r.status = "open" THEN worked ELSE r.work_time_seconds
<1>1. timed \in Row
  BY AccumulateType DEF KeepsPause
<1>2. timed.last_opened_at = stopped /\ timed.work_time_seconds = total
  BY DEF AccumulateWorkTime, Row
<1> HIDE DEF timed
<1>3. /\ clocked \in Row
      /\ clocked.last_opened_at = IF target = "open" THEN at ELSE stopped
      /\ clocked.work_time_seconds = total
  <2>1. [timed EXCEPT !.last_opened_at = at] \in Row
    BY <1>1, SetColumn DEF Time
  <2> QED
    BY <1>1, <1>2, <2>1 DEF Row
<1> HIDE DEF clocked
<1>4. /\ moved.last_opened_at = clocked.last_opened_at
      /\ moved.work_time_seconds = clocked.work_time_seconds
      /\ moved.status = target
  BY <1>3 DEF Row
<1>5. moved \in Row
  <2>1. \A v \in Nat : [clocked EXCEPT !.status = target, !.version = v] \in Row
    BY <1>3, SetColumn
  <2>2. clocked.version + 1 \in Nat
    BY <1>3, Columns
  <2> QED
    BY <2>1, <2>2
<1> HIDE DEF moved
<1>6. /\ CheckAutoEscalation(counted).last_opened_at = moved.last_opened_at
      /\ CheckAutoEscalation(counted).work_time_seconds = moved.work_time_seconds
      /\ CheckAutoEscalation(counted).status = moved.status
  BY <1>5 DEF CheckAutoEscalation, Row
<1>7. y = IF IsReopen(r, target) THEN CheckAutoEscalation(counted) ELSE moved
  BY DEF ChangeTicketStatus, counted, moved, clocked, timed
<1> HIDE DEF counted, y
<1>8. /\ y.last_opened_at = IF target = "open" THEN at ELSE stopped
      /\ y.work_time_seconds = total /\ y.status = target
  BY <1>3, <1>4, <1>6, <1>7
<1>9. r.last_opened_at \in Nat \cup {None} /\ r.work_time_seconds \in Nat /\ at # None
  BY Columns, NoneAssumption DEF Time
<1>10. ASSUME Fits(r, at) PROVE Fits(y, at)
  <2>1. total <= at
    BY <1>9, <1>10 DEF Fits
  <2>2. CASE target = "open" \/ r.status = "open"
    BY <1>8, <1>9, <2>1, <2>2 DEF Fits
  <2>3. CASE target # "open" /\ r.status # "open"
    BY <1>8, <1>10, <2>3 DEF Fits
  <2> QED
    BY <2>2, <2>3
<1>11. ASSUME Clocked(r) PROVE Clocked(y)
  BY <1>8, <1>9, <1>11 DEF Clocked
<1> QED
  BY <1>10, <1>11 DEF ClockSafe, y

\* The other handlers of one ticket keep the clock or start it with the ticket.
LEMMA RowClocks ==
  ASSUME NEW r \in Row, NEW a, NEW owner, NEW queue, NEW p, NEW at \in Nat
  PROVE  /\ ClockSafe(r, ClaimTicket(r, a, at), at)
         /\ ClockSafe(r, BalanceTicket(r, a, at), at)
         /\ ClockSafe(r, TransferTicket(r, a), at)
         /\ ClockSafe(r, EscalateTicket(r, a), at)
         /\ ClockSafe(r, ReturnTicket(r, owner, queue, at), at)
         /\ ClockSafe(r, BulkMoveTicket(r, owner, queue), at)
         /\ ClockSafe(r, CustomerReplyTicket(r, at), at)
         /\ ClockSafe(r, PauseTicket(r, at), at)
         /\ ClockSafe(r, ResumeTicket(r, at), at)
         /\ ClockSafe(r, BreachTicket(r), at)
         /\ ClockSafe(r, [r EXCEPT !.version = @ + 1], at)
         /\ ClockSafe(r, [r EXCEPT !.priority = p, !.version = @ + 1], at)
<1>1. ClockSafe(r, ClaimTicket(r, a, at), at)
  <2>1. CASE r.status = "new"
    <3>1. /\ ClaimTicket(r, a, at).status = "open" /\ ClaimTicket(r, a, at).last_opened_at = at
          /\ ClaimTicket(r, a, at).work_time_seconds = r.work_time_seconds
      BY <2>1 DEF ClaimTicket, Row
    <3> QED BY <3>1, KeptClock
  <2>2. CASE r.status # "new"
    <3>1. /\ ClaimTicket(r, a, at).status = r.status
          /\ ClaimTicket(r, a, at).last_opened_at = r.last_opened_at
          /\ ClaimTicket(r, a, at).work_time_seconds = r.work_time_seconds
      BY <2>2 DEF ClaimTicket, Row
    <3> QED BY <3>1, KeptClock
  <2> QED BY <2>1, <2>2
<1>2. ClockSafe(r, BalanceTicket(r, a, at), at)
  <2>1. /\ BalanceTicket(r, a, at).status = "open" /\ BalanceTicket(r, a, at).last_opened_at = at
        /\ BalanceTicket(r, a, at).work_time_seconds = r.work_time_seconds
    BY DEF BalanceTicket, Row
  <2> QED BY <2>1, KeptClock
<1>3. ClockSafe(r, ReturnTicket(r, owner, queue, at), at)
  <2>1. CASE r.status \in {"pending_customer", "pending_3rd"}
    <3>1. /\ ReturnTicket(r, owner, queue, at).status = "open"
          /\ ReturnTicket(r, owner, queue, at).last_opened_at = at
          /\ ReturnTicket(r, owner, queue, at).work_time_seconds = r.work_time_seconds
      BY <2>1 DEF ReturnTicket, Row
    <3> QED BY <3>1, KeptClock
  <2>2. CASE r.status \notin {"pending_customer", "pending_3rd"}
    <3>1. /\ ReturnTicket(r, owner, queue, at).status = r.status
          /\ ReturnTicket(r, owner, queue, at).last_opened_at = r.last_opened_at
          /\ ReturnTicket(r, owner, queue, at).work_time_seconds = r.work_time_seconds
      BY <2>2 DEF ReturnTicket, Row
    <3> QED BY <3>1, KeptClock
  <2> QED BY <2>1, <2>2
<1>4. ClockSafe(r, CustomerReplyTicket(r, at), at)
  <2>1. CASE r.status = "pending_customer"
    <3>1. /\ CustomerReplyTicket(r, at).status = "open"
          /\ CustomerReplyTicket(r, at).last_opened_at = at
          /\ CustomerReplyTicket(r, at).work_time_seconds = r.work_time_seconds
      BY <2>1 DEF CustomerReplyTicket, Row
    <3> QED BY <3>1, KeptClock
  <2>2. CASE r.status # "pending_customer"
    BY <2>2, KeptClock DEF CustomerReplyTicket
  <2> QED BY <2>1, <2>2
<1>5. \A y : /\ y.status = r.status /\ y.last_opened_at = r.last_opened_at
             /\ y.work_time_seconds = r.work_time_seconds
             => ClockSafe(r, y, at)
  BY KeptClock
<1>6. ClockSafe(r, TransferTicket(r, a), at)
  BY <1>5 DEF TransferTicket, Row
<1>7. ClockSafe(r, EscalateTicket(r, a), at)
  BY <1>5 DEF EscalateTicket, Row
<1>8. ClockSafe(r, BulkMoveTicket(r, owner, queue), at)
  BY <1>5 DEF BulkMoveTicket, Row
<1>9. ClockSafe(r, PauseTicket(r, at), at)
  BY <1>5 DEF PauseTicket, Row
<1>10. ClockSafe(r, ResumeTicket(r, at), at)
  BY <1>5 DEF ResumeTicket, Row
<1>11. ClockSafe(r, BreachTicket(r), at)
  BY <1>5 DEF BreachTicket, Row
<1>12. ClockSafe(r, [r EXCEPT !.version = @ + 1], at)
  BY <1>5 DEF Row
<1>13. ClockSafe(r, [r EXCEPT !.priority = p, !.version = @ + 1], at)
  BY <1>5 DEF Row
<1> QED
  BY <1>1, <1>2, <1>3, <1>4, <1>6, <1>7, <1>8, <1>9, <1>10, <1>11, <1>12, <1>13

\* Merge, bulk assign, auto-resolve and archive leave the clock as it was.
LEMMA UntouchedClocks ==
  ASSUME NEW r \in Row, NEW a, NEW p, NEW at \in Nat, NEW when
  PROVE  /\ Fits(r, at) => /\ Fits(MergeTicket(r, p), at)
                           /\ Fits(BulkAssignTicket(r, a), at)
                           /\ Fits(AutoResolveTicket(r), at)
                           /\ Fits([r EXCEPT !.status = "archived", !.updated_at = when], at)
         /\ r.status # "open" /\ Clocked(r) =>
               /\ Clocked(AutoResolveTicket(r))
               /\ Clocked([r EXCEPT !.status = "archived", !.updated_at = when])
<1>1. \A y : /\ y.last_opened_at = r.last_opened_at
             /\ y.work_time_seconds = r.work_time_seconds
             => (Fits(r, at) => Fits(y, at))
  BY KeptClock
<1>2. Fits(r, at) => Fits(MergeTicket(r, p), at)
  BY <1>1 DEF MergeTicket, Row
<1>3. Fits(r, at) => Fits(BulkAssignTicket(r, a), at)
  BY <1>1 DEF BulkAssignTicket, Row
<1>4. Fits(r, at) => Fits(AutoResolveTicket(r), at)
  BY <1>1 DEF AutoResolveTicket, Row
<1>5. Fits(r, at) => Fits([r EXCEPT !.status = "archived", !.updated_at = when], at)
  BY <1>1 DEF Row
<1>6. r.status # "open" /\ Clocked(r) =>
               /\ Clocked(AutoResolveTicket(r))
               /\ Clocked([r EXCEPT !.status = "archived", !.updated_at = when])
  BY DEF Clocked, AutoResolveTicket, Row
<1> QED
  BY <1>2, <1>3, <1>4, <1>5, <1>6

-----------------------------------------------------------------------------
(* The steps of the lifecycle.                                              *)

Waiting == {"pending_customer", "pending_3rd"}

\* Promises that differ in several columns.
Counted(u, x, n, q) == [u EXCEPT !.status = x, !.reopens = n, !.queue = q]
Handed(u, o, q, x)  == [u EXCEPT !.owner = o, !.queue = q, !.status = x]
Flagged(u, b, q)    == [u EXCEPT !.breached = b, !.queue = q]

LEMMA PromiseUpdates ==
  ASSUME NEW status, NEW owner, NEW queue, NEW reopens, NEW breached, NEW u,
         u = Promise(status, owner, queue, reopens, breached),
         NEW x, NEW o, NEW q, NEW n, NEW b
  PROVE  /\ Counted(u, x, n, q) = Promise(x, owner, q, n, breached)
         /\ Handed(u, o, q, x) = Promise(x, o, q, reopens, breached)
         /\ Flagged(u, b, q) = Promise(status, owner, q, reopens, b)
<1>1. Counted(u, x, n, q) = Promise(x, owner, q, n, breached)
  <2> DEFINE u1 == [u EXCEPT !.status = x]
             u2 == [u1 EXCEPT !.reopens = n]
  <2>1. u1 = Promise(x, owner, queue, reopens, breached)
    BY DEF Promise
  <2> HIDE DEF u1
  <2>2. u2 = Promise(x, owner, queue, n, breached)
    BY <2>1 DEF Promise
  <2> HIDE DEF u2
  <2>3. [u2 EXCEPT !.queue = q] = Promise(x, owner, q, n, breached)
    BY <2>2 DEF Promise
  <2> QED
    BY <2>3 DEF u1, u2, Counted
<1>2. Handed(u, o, q, x) = Promise(x, o, q, reopens, breached)
  <2> DEFINE u1 == [u EXCEPT !.owner = o]
             u2 == [u1 EXCEPT !.queue = q]
  <2>1. u1 = Promise(status, o, queue, reopens, breached)
    BY DEF Promise
  <2> HIDE DEF u1
  <2>2. u2 = Promise(status, o, q, reopens, breached)
    BY <2>1 DEF Promise
  <2> HIDE DEF u2
  <2>3. [u2 EXCEPT !.status = x] = Promise(x, o, q, reopens, breached)
    BY <2>2 DEF Promise
  <2> QED
    BY <2>3 DEF u1, u2, Handed
<1>3. Flagged(u, b, q) = Promise(status, owner, q, reopens, b)
  <2> DEFINE u1 == [u EXCEPT !.breached = b]
  <2>1. u1 = Promise(status, owner, queue, reopens, b)
    BY DEF Promise
  <2> HIDE DEF u1
  <2>2. [u1 EXCEPT !.queue = q] = Promise(status, owner, q, reopens, b)
    BY <2>1 DEF Promise
  <2> QED
    BY <2>2 DEF u1, Flagged
<1> QED
  BY <1>1, <1>2, <1>3

\* Work on a ticket.
LEMMA WorkStep ==
  ASSUME NEW r \in Row, NEW y, NEW target,
         \/ r.status = "new" /\ target = "open"
         \/ r.status = "open" /\ target \in {"pending_customer", "pending_3rd", "resolved"}
         \/ r.status \in Waiting /\ target \in {"open", "resolved"}
         \/ r.status = "resolved" /\ target = "closed",
         Promised(y) = Promise(target, r.assigned_to, r.current_queue, r.reopen_count,
                               r.sla_breached)
  PROVE  Follows(r, y)
<1> DEFINE u == Promised(r)
           v == Promised(y)
<1>1. u.status = r.status
  BY DEF Promised
<1>2. v = [u EXCEPT !.status = target]
  <2>1. u = Promise(r.status, r.assigned_to, r.current_queue, r.reopen_count, r.sla_breached)
    BY DEF Promised, Promise
  <2>2. v = Promise(target, r.assigned_to, r.current_queue, r.reopen_count, r.sla_breached)
    OBVIOUS
  <2> HIDE DEF u, v
  <2> QED
    BY <2>1, <2>2 DEF Promise
<1> HIDE DEF u, v
<1>3. Lifecycle!Work(u, v)
  BY <1>1, <1>2 DEF Lifecycle!Work, Waiting
<1> QED
  BY <1>3 DEF Follows, Lifecycle!Step, u, v

\* A reopen.
LEMMA ReopenStep ==
  ASSUME NEW r \in Row, NEW y, NEW q,
         r.status \in {"resolved", "closed"},
         q = IF NeedsAutoEscalation([r EXCEPT !.reopen_count = @ + 1]) THEN "supervisor"
             ELSE r.current_queue,
         Promised(y) = Promise("open", r.assigned_to, q, r.reopen_count + 1, r.sla_breached)
  PROVE  Follows(r, y)
<1> DEFINE u == Promised(r)
           v == Promised(y)
<1>1. /\ u.status = r.status /\ u.queue = r.current_queue
      /\ v.queue = q /\ v.reopens = r.reopen_count + 1 /\ v.breached = r.sla_breached
  BY DEF Promised, Promise
<1>2. v = [u EXCEPT !.status = "open", !.reopens = @ + 1, !.queue = q]
  <2>1. u = Promise(r.status, r.assigned_to, r.current_queue, r.reopen_count, r.sla_breached)
    BY DEF Promised, Promise
  <2>2. v = Promise("open", r.assigned_to, q, r.reopen_count + 1, r.sla_breached)
    OBVIOUS
  <2> HIDE DEF u, v
  <2>3. Counted(u, "open", r.reopen_count + 1, q) = v
    BY <2>1, <2>2, PromiseUpdates
  <2>4. u.reopens = r.reopen_count
    BY <2>1 DEF Promise
  <2> QED
    BY <2>3, <2>4 DEF Counted
<1>3. NeedsAutoEscalation([r EXCEPT !.reopen_count = @ + 1]) <=>
         /\ r.current_queue \notin {"supervisor", "manager"}
         /\ r.reopen_count + 1 >= ReopenLimit \/ r.sla_breached
  BY DEF NeedsAutoEscalation, Row
<1> HIDE DEF u, v
<1>4. q \in {u.queue, "supervisor"}
  BY <1>1
<1>5. v.reopens >= ReopenLimit \/ v.breached => v.queue \in Lifecycle!Upper
  BY <1>1, <1>3 DEF Lifecycle!Upper
<1>6. v.queue # u.queue => v.reopens >= ReopenLimit \/ v.breached
  BY <1>1, <1>3
<1>7. Lifecycle!Reopen(u, v)
  BY <1>1, <1>2, <1>4, <1>5, <1>6 DEF Lifecycle!Reopen
<1> QED
  BY <1>7 DEF Follows, Lifecycle!Step, u, v

\* A new owner or queue.
LEMMA HandOverStep ==
  ASSUME NEW r \in Row, NEW y, NEW status, NEW o \in Agents \cup {None}, NEW q,
         q \in {"main", "specialized", "supervisor", "manager", r.current_queue},
         \/ status = r.status
         \/ status = "open" /\ r.status \in {"new", "pending_customer", "pending_3rd"},
         Promised(y) = Promise(status, o, q, r.reopen_count, r.sla_breached)
  PROVE  Follows(r, y)
<1> DEFINE u == Promised(r)
           v == Promised(y)
<1>1. u.status = r.status /\ u.queue = r.current_queue /\ v.status = status
  BY DEF Promised, Promise
<1>2. v = [u EXCEPT !.owner = o, !.queue = q, !.status = status]
  <2>1. u = Promise(r.status, r.assigned_to, r.current_queue, r.reopen_count, r.sla_breached)
    BY DEF Promised, Promise
  <2>2. v = Promise(status, o, q, r.reopen_count, r.sla_breached)
    OBVIOUS
  <2> HIDE DEF u, v
  <2>3. Handed(u, o, q, status) = v
    BY <2>1, <2>2, PromiseUpdates
  <2> QED
    BY <2>3 DEF Handed
<1> HIDE DEF u, v
<1>3. q \in Lifecycle!Upper \cup {"main", "specialized", u.queue} /\ status \in {u.status, "open"}
  BY <1>1 DEF Lifecycle!Upper
<1>4. v.status # u.status => u.status \in {"new", "pending_customer", "pending_3rd"}
  BY <1>1
<1>5. Lifecycle!HandOver(u, v)
  BY <1>2, <1>3, <1>4 DEF Lifecycle!HandOver
<1> QED
  BY <1>5 DEF Follows, Lifecycle!Step, u, v

\* A breach, a merge and an archive.
LEMMA OtherSteps ==
  ASSUME NEW r \in Row
  PROVE  /\ ~r.sla_breached /\ r.status \in {"new", "open", "pending_customer", "pending_3rd"} =>
               Follows(r, BreachTicket(r))
         /\ \A p : r.status \notin {"closed", "archived"} => Follows(r, MergeTicket(r, p))
         /\ \A at : r.status = "closed" =>
               Follows(r, [r EXCEPT !.status = "archived", !.updated_at = at])
<1> DEFINE u == Promised(r)
<1>1. /\ u.status = r.status /\ u.queue = r.current_queue /\ u.breached = r.sla_breached
      /\ u = Promise(r.status, r.assigned_to, r.current_queue, r.reopen_count, r.sla_breached)
  BY DEF Promised, Promise
<1>2. ASSUME ~r.sla_breached, r.status \in {"new", "open", "pending_customer", "pending_3rd"}
      PROVE  Follows(r, BreachTicket(r))
  <2>1. Promised(BreachTicket(r)) =
          Promise(r.status, r.assigned_to,
                  IF BreachEscalates(r) THEN "supervisor" ELSE r.current_queue,
                  r.reopen_count, TRUE)
    BY SweepEffects
  <2> HIDE DEF u
  <2>2. Promised(BreachTicket(r)) =
          [u EXCEPT !.breached = TRUE,
                    !.queue = IF @ \in {"main", "specialized"} THEN "supervisor" ELSE @]
    <3> DEFINE q == IF r.current_queue \in {"main", "specialized"} THEN "supervisor"
                    ELSE r.current_queue
           yes == TRUE
    <3>1. Promised(BreachTicket(r)) = Promise(r.status, r.assigned_to, q, r.reopen_count, yes)
      BY <2>1 DEF BreachEscalates
    <3> DEFINE u1 == [u EXCEPT !.breached = TRUE]
    <3>2. u1.queue = u.queue
      BY <1>1 DEF Promise
    <3> HIDE DEF u1
    <3>4. q = IF u1.queue \in {"main", "specialized"} THEN "supervisor" ELSE u1.queue
      BY <1>1, <3>2
    <3> HIDE DEF q, yes
    <3>3. Flagged(u, yes, q) = Promised(BreachTicket(r))
      BY <1>1, <3>1, PromiseUpdates
    <3> QED
      BY <3>3, <3>4 DEF Flagged, u1, yes
  <2>3. Lifecycle!Breach(u, Promised(BreachTicket(r)))
    BY <1>1, <1>2, <2>2 DEF Lifecycle!Breach
  <2> QED
    BY <2>3 DEF Follows, Lifecycle!Step, u
<1>3. ASSUME NEW p, r.status \notin {"closed", "archived"} PROVE Follows(r, MergeTicket(r, p))
  <2> HIDE DEF u
  <2>1. Promised(MergeTicket(r, p)) = [u EXCEPT !.status = "closed"]
    BY <1>1, MoveEffects DEF Promise
  <2>2. Lifecycle!Merged(u, Promised(MergeTicket(r, p)))
    BY <1>1, <1>3, <2>1 DEF Lifecycle!Merged
  <2> QED
    BY <2>2 DEF Follows, Lifecycle!Step, u
<1>4. ASSUME NEW at, r.status = "closed"
      PROVE  Follows(r, [r EXCEPT !.status = "archived", !.updated_at = at])
  <2> DEFINE y0 == [r EXCEPT !.status = "archived", !.updated_at = at]
  <2>1. Promised(y0) = [u EXCEPT !.status = "archived"]
    BY DEF Promised, Row
  <2> HIDE DEF u, y0
  <2>2. Lifecycle!Archive(u, Promised(y0))
    BY <1>1, <1>4, <2>1 DEF Lifecycle!Archive
  <2> QED
    BY <2>2 DEF Follows, Lifecycle!Step, u, y0
<1> QED
  BY <1>2, <1>3, <1>4

\* The transitions change_ticket_status allows are work or a reopen.
LEMMA StatusStep ==
  ASSUME NEW r \in Row, NEW target \in Statuses, NEW at \in Nat,
         ValidTransition(r.status, target)
  PROVE  Follows(r, ChangeTicketStatus(r, target, at))
<1>1. r.status \in Statuses
  BY Columns
<1>2. \/ r.status = "new" /\ target = "open"
      \/ r.status = "open" /\ target \in {"pending_customer", "pending_3rd", "resolved"}
      \/ r.status \in Waiting /\ target \in {"open", "resolved"}
      \/ r.status = "resolved" /\ target = "closed"
      \/ r.status \in {"resolved", "closed"} /\ target = "open"
  BY <1>1 DEF ValidTransition, StatusTransitions, Statuses, Waiting
<1>3. CASE r.status \in {"resolved", "closed"} /\ target = "open"
  <2>1. IsReopen(r, target)
    BY <1>3 DEF IsReopen
  <2> DEFINE q == IF NeedsAutoEscalation([r EXCEPT !.reopen_count = @ + 1]) THEN "supervisor"
                  ELSE r.current_queue
  <2>2. Promised(ChangeTicketStatus(r, target, at)) =
          Promise("open", r.assigned_to, q, r.reopen_count + 1, r.sla_breached)
    BY <1>3, <2>1, StatusEffect
  <2> HIDE DEF q
  <2> QED
    BY <1>3, <2>2, ReopenStep DEF q
<1>4. CASE ~(r.status \in {"resolved", "closed"} /\ target = "open")
  <2>1. ~IsReopen(r, target)
    BY <1>4 DEF IsReopen
  <2>2. Promised(ChangeTicketStatus(r, target, at)) =
          Promise(target, r.assigned_to, r.current_queue, r.reopen_count, r.sla_breached)
    BY <2>1, StatusEffect
  <2> QED
    BY <1>2, <1>4, <2>2, WorkStep
<1> QED
  BY <1>3, <1>4

\* An agent's claim, balance, transfer and escalation.
LEMMA AgentSteps ==
  ASSUME NEW r \in Row, NEW a \in Agents, NEW at
  PROVE  /\ Follows(r, ClaimTicket(r, a, at))
         /\ r.status = "new" => Follows(r, BalanceTicket(r, a, at))
         /\ Follows(r, TransferTicket(r, a))
         /\ Follows(r, EscalateTicket(r, a))
<1> DEFINE u       == Promised(r)
           started == IF r.status = "new" THEN "open" ELSE r.status
<1>a. /\ \A y : \A o \in Agents \cup {None} :
            Promised(y) = Promise(started, o, r.current_queue, r.reopen_count, r.sla_breached)
               => Follows(r, y)
      /\ \A y : \A o \in Agents \cup {None} :
            Promised(y) = Promise(r.status, o, r.current_queue, r.reopen_count, r.sla_breached)
               => Follows(r, y)
  BY HandOverStep
<1> HIDE DEF started
<1>c. a \in Agents \cup {None}
  OBVIOUS
<1>1. Follows(r, ClaimTicket(r, a, at))
  <2>1. Promised(ClaimTicket(r, a, at)) =
          Promise(started, a, r.current_queue, r.reopen_count, r.sla_breached)
    BY AssignmentEffects DEF started
  <2> QED BY <1>a, <1>c, <2>1
<1>2. r.status = "new" => Follows(r, BalanceTicket(r, a, at))
  <2>1. Promised(BalanceTicket(r, a, at)) =
          Promise("open", a, r.current_queue, r.reopen_count, r.sla_breached)
    BY AssignmentEffects
  <2> QED BY <1>a, <1>c, <2>1 DEF started
<1>3. Follows(r, TransferTicket(r, a))
  <2>1. Promised(TransferTicket(r, a)) =
          Promise(r.status, a, r.current_queue, r.reopen_count, r.sla_breached)
    BY AssignmentEffects
  <2> QED BY <1>a, <1>c, <2>1
<1>4. u = Promise(r.status, r.assigned_to, r.current_queue, r.reopen_count, r.sla_breached)
  BY DEF Promised, Promise
<1>5. Follows(r, EscalateTicket(r, a))
  <2> HIDE DEF u
  <2>1. Promised(EscalateTicket(r, a)) = [u EXCEPT !.queue = EscalationTarget(a)]
    BY <1>4, MoveEffects DEF Promise
  <2>2. EscalationTarget(a) \in Lifecycle!Upper
    BY DEF EscalationTarget, Lifecycle!Upper
  <2>3. Lifecycle!Escalate(u, Promised(EscalateTicket(r, a)))
    BY <2>1, <2>2 DEF Lifecycle!Escalate
  <2> QED
    BY <2>3 DEF Follows, Lifecycle!Step, u
<1> QED
  BY <1>1, <1>2, <1>3, <1>5

\* The other handlers hand the ticket over, keep what is promised, or work on it.
LEMMA RowSteps ==
  ASSUME NEW r \in Row, NEW owner \in Agents \cup {None}, NEW at, NEW p
  PROVE  /\ Follows(r, BulkAssignTicket(r, owner))
         /\ \A q \in {"main", "specialized"} : Follows(r, ReturnTicket(r, owner, q, at))
         /\ \A q \in Queues \ {"internal_tickets"} : Follows(r, BulkMoveTicket(r, owner, q))
         /\ Follows(r, CustomerReplyTicket(r, at))
         /\ r.status = "pending_customer" => Follows(r, AutoResolveTicket(r))
         /\ Follows(r, PauseTicket(r, at))
         /\ Follows(r, ResumeTicket(r, at))
         /\ Follows(r, [r EXCEPT !.version = @ + 1])
         /\ Follows(r, [r EXCEPT !.priority = p, !.version = @ + 1])
<1> DEFINE started == IF r.status = "new" THEN "open" ELSE r.status
           resumed == IF r.status \in {"pending_customer", "pending_3rd"} THEN "open" ELSE r.status
<1>a. \A y : \A o \in Agents \cup {None} :
            Promised(y) = Promise(started, o, r.current_queue, r.reopen_count, r.sla_breached)
               => Follows(r, y)
  BY HandOverStep
<1>b. \A y : \A o \in Agents \cup {None}, q \in {"main", "specialized"} :
         Promised(y) = Promise(resumed, o, q, r.reopen_count, r.sla_breached) => Follows(r, y)
  BY HandOverStep
<1> HIDE DEF started, resumed
<1>4. Follows(r, BulkAssignTicket(r, owner))
  <2>1. Promised(BulkAssignTicket(r, owner)) =
          Promise(started, owner, r.current_queue, r.reopen_count, r.sla_breached)
    BY AssignmentEffects DEF started
  <2> QED BY <1>a, <2>1
<1>5. ASSUME NEW q \in {"main", "specialized"} PROVE Follows(r, ReturnTicket(r, owner, q, at))
  <2>1. Promised(ReturnTicket(r, owner, q, at)) =
          Promise(resumed, owner, q, r.reopen_count, r.sla_breached)
    BY MoveEffects DEF resumed
  <2> QED BY <1>b, <2>1
<1>6. ASSUME NEW q \in Queues \ {"internal_tickets"} PROVE Follows(r, BulkMoveTicket(r, owner, q))
  <2>1. q \in {"main", "specialized", "supervisor", "manager", r.current_queue}
    BY DEF Queues
  <2>2. Promised(BulkMoveTicket(r, owner, q)) =
          Promise(r.status, owner, q, r.reopen_count, r.sla_breached)
    BY MoveEffects
  <2> QED
    BY <2>1, <2>2, HandOverStep
<1>7. Follows(r, CustomerReplyTicket(r, at))
  <2>1. CASE r.status = "pending_customer"
    <3>1. Promised(CustomerReplyTicket(r, at)) =
            Promise("open", r.assigned_to, r.current_queue, r.reopen_count, r.sla_breached)
      BY <2>1, SweepEffects
    <3> QED
      BY <2>1, <3>1, WorkStep DEF Waiting
  <2>2. CASE r.status # "pending_customer"
    BY <2>2 DEF CustomerReplyTicket, Follows
  <2> QED
    BY <2>1, <2>2
<1>8. r.status = "pending_customer" => Follows(r, AutoResolveTicket(r))
  <2>1. Promised(AutoResolveTicket(r)) =
          Promise("resolved", r.assigned_to, r.current_queue, r.reopen_count, r.sla_breached)
    BY SweepEffects
  <2> QED
    BY <2>1, WorkStep DEF Waiting
<1>9. /\ Follows(r, PauseTicket(r, at)) /\ Follows(r, ResumeTicket(r, at))
      /\ Follows(r, [r EXCEPT !.version = @ + 1])
      /\ Follows(r, [r EXCEPT !.priority = p, !.version = @ + 1])
  BY SweepEffects DEF Follows
<1> QED
  BY <1>4, <1>5, <1>6, <1>7, <1>8, <1>9

-----------------------------------------------------------------------------
(* The owner a sequence of events names last.                               *)

\* A single event that names an owner names him last.
LEMMA OneNamed ==
  ASSUME NEW e, NamesOwner(e)
  PROVE  LastOwner(<<e>>, e.to)
  BY DEF LastOwner

\* Events that follow decide, and events that name no owner change nothing.
LEMMA OwnerAppended ==
  ASSUME NEW q \in Seq(Event), NEW l \in Seq(Event), NEW o
  PROVE  /\ LastOwner(l, o) => LastOwner(q \o l, o)
         /\ LastOwner(q, o) /\ NoOwner(Range(l)) => LastOwner(q \o l, o)
         /\ NoOwner(Range(q)) /\ NoOwner(Range(l)) => NoOwner(Range(q \o l))
<1> DEFINE w == q \o l
<1>1. /\ Len(q) \in Nat /\ Len(l) \in Nat
      /\ DOMAIN q = 1..Len(q) /\ DOMAIN l = 1..Len(l) /\ DOMAIN w = 1..(Len(q) + Len(l))
  OBVIOUS
<1>2. /\ \A i \in 1..Len(q) : w[i] = q[i]
      /\ \A i \in 1..Len(l) : w[Len(q) + i] = l[i]
  OBVIOUS
<1>3. \A i \in DOMAIN w : i \in DOMAIN q \/ (i - Len(q) \in DOMAIN l /\ i = Len(q) + (i - Len(q)))
  BY <1>1
<1> HIDE DEF w
<1>4. ASSUME LastOwner(l, o) PROVE LastOwner(w, o)
  <2>1. PICK i \in DOMAIN l : /\ NamesOwner(l[i]) /\ l[i].to = o
                              /\ \A j \in DOMAIN l : NamesOwner(l[j]) => j <= i
    BY <1>4 DEF LastOwner
  <2>2. Len(q) + i \in DOMAIN w /\ w[Len(q) + i] = l[i]
    BY <1>1, <1>2, <2>1
  <2>3. ASSUME NEW j \in DOMAIN w, NamesOwner(w[j]) PROVE j <= Len(q) + i
    <3>1. CASE j \in DOMAIN q
      BY <1>1, <2>1, <3>1
    <3>2. CASE j \notin DOMAIN q
      <4>1. j - Len(q) \in DOMAIN l /\ j = Len(q) + (j - Len(q))
        BY <1>3, <2>3, <3>2
      <4>2. w[j] = l[j - Len(q)]
        BY <1>1, <1>2, <4>1
      <4>3. j - Len(q) <= i
        BY <2>1, <2>3, <4>1, <4>2
      <4> QED
        BY <1>1, <2>1, <4>1, <4>3
    <3> QED
      BY <3>1, <3>2
  <2> QED
    BY <2>1, <2>2, <2>3 DEF LastOwner
<1>5. ASSUME NoOwner(Range(l)), NEW j \in DOMAIN w, NamesOwner(w[j])
      PROVE  j \in DOMAIN q /\ w[j] = q[j]
  <2>1. CASE j \in DOMAIN q
    BY <1>1, <1>2, <2>1
  <2>2. CASE j \notin DOMAIN q
    <3>1. j - Len(q) \in DOMAIN l /\ j = Len(q) + (j - Len(q))
      BY <1>3, <1>5, <2>2
    <3>2. w[j] = l[j - Len(q)]
      BY <1>1, <1>2, <3>1
    <3> QED
      BY <1>5, <3>1, <3>2 DEF NoOwner, Range
  <2> QED
    BY <2>1, <2>2
<1>6. ASSUME LastOwner(q, o), NoOwner(Range(l)) PROVE LastOwner(w, o)
  <2>1. PICK i \in DOMAIN q : /\ NamesOwner(q[i]) /\ q[i].to = o
                              /\ \A j \in DOMAIN q : NamesOwner(q[j]) => j <= i
    BY <1>6 DEF LastOwner
  <2>2. i \in DOMAIN w /\ w[i] = q[i]
    BY <1>1, <1>2, <2>1
  <2>3. \A j \in DOMAIN w : NamesOwner(w[j]) => j <= i
    BY <1>5, <1>6, <2>1
  <2> QED
    BY <2>1, <2>2, <2>3 DEF LastOwner
<1>7. Range(w) = Range(q) \cup Range(l)
  BY RangeFacts DEF w
<1>8. NoOwner(Range(q)) /\ NoOwner(Range(l)) => NoOwner(Range(w))
  BY <1>7 DEF NoOwner
<1> QED
  BY <1>4, <1>6, <1>8 DEF w

\* The owner an event sequence names last is the one OwnerIsLatest looks for.
LEMMA LatestIsLast ==
  ASSUME NEW t \in Tickets, timeline[t] \in Seq(Event), NEW o, LastOwner(timeline[t], o)
  PROVE  LatestOwnerEvent(t) = o
<1> DEFINE named == {i \in DOMAIN timeline[t] :
                        timeline[t][i].type \in {"ticket_created", "assigned", "transferred"}}
           k     == CHOOSE i \in named : \A j \in named : j <= i
<1>1. PICK i \in DOMAIN timeline[t] :
         /\ NamesOwner(timeline[t][i]) /\ timeline[t][i].to = o
         /\ \A j \in DOMAIN timeline[t] : NamesOwner(timeline[t][j]) => j <= i
  BY DEF LastOwner
<1>2. i \in named /\ \A j \in named : j <= i
  BY <1>1 DEF NamesOwner
<1>3. named \subseteq Nat
  OBVIOUS
<1>4. LatestOwnerEvent(t) = timeline[t][k].to
  BY DEF LatestOwnerEvent
<1> HIDE DEF named
<1>5. k \in named /\ \A j \in named : j <= k
  BY <1>2
<1> HIDE DEF k
<1>6. k = i
  BY <1>2, <1>3, <1>5
<1> QED
  BY <1>1, <1>4, <1>6

\* Staged events that name no owner keep what was staged before them.
LEMMA OwnerKeptMore ==
  ASSUME NEW r, NEW y, NEW q \in Seq(Event), NEW l \in Seq(Event),
         OwnerKept(r, y, q), NoOwner(Range(l))
  PROVE  OwnerKept(r, y, q \o l)
<1>1. LastOwner(q, y.assigned_to) => LastOwner(q \o l, y.assigned_to)
  BY OwnerAppended
<1>2. NoOwner(Range(q)) => NoOwner(Range(q \o l))
  BY OwnerAppended
<1> QED
  BY <1>1, <1>2 DEF OwnerKept

\* The owner of a row is the owner it promises.
LEMMA PromisedOwner ==
  ASSUME NEW y, NEW status, NEW owner, NEW queue, NEW reopens, NEW breached,
         Promised(y) = Promise(status, owner, queue, reopens, breached)
  PROVE  y.assigned_to = owner
<1>1. Promised(y).owner = y.assigned_to
  BY DEF Promised
<1>2. Promise(status, owner, queue, reopens, breached).owner = owner
  BY DEF Promise
<1> QED
  BY <1>1, <1>2

\* A handler that logs the new owner, and one that keeps the owner.
LEMMA OwnerStaged ==
  ASSUME NEW r, NEW y, NEW e
  PROVE  /\ NamesOwner(e) /\ y.assigned_to = e.to => OwnerKept(r, y, <<e>>)
         /\ ~NamesOwner(e) /\ y.assigned_to = r.assigned_to => OwnerKept(r, y, <<e>>)
<1>1. NamesOwner(e) => LastOwner(<<e>>, e.to)
  BY OneNamed
<1>2. Range(<<e>>) = {e}
  BY RangeFacts
<1>3. ~NamesOwner(e) => NoOwner(Range(<<e>>))
  BY <1>2 DEF NoOwner
<1> QED
  BY <1>1, <1>3 DEF OwnerKept

-----------------------------------------------------------------------------
(* Sessions.                                                                *)

\* A row that follows, whose clock is safe and whose owner is kept.
LEMMA SafeReplaces ==
  ASSUME NEW op, NEW r, NEW y, NEW events, NEW at,
         Follows(r, y), ClockSafe(r, y, at), OwnerKept(r, y, events)
  PROVE  Replaces(op, r, y, events, at)
  BY DEF Replaces, ClockSafe

\* A session that has read nothing, with parameters that are in order.
LEMMA EmptySerial ==
  ASSUME NEW s, NEW rows, NEW lines, NEW at, s.has = {}, s.log = NoEvents,
         s.op \in {"bulk_reassign", "bulk_move"} => s.queue # "internal_tickets",
         s.op = "merge" => s.primary \in Tickets
  PROVE  SerialStaged(s, rows, lines, at)
<1>1. \A t \in Tickets : NoOwner(Range(s.log[t]))
  BY RangeFacts DEF NoEvents, NoOwner
<1> QED
  BY <1>1 DEF SerialStaged

LEMMA IdleSerial ==
  \A rows, lines, at : SerialStaged(Idle, rows, lines, at)
<1>1. Idle.has = {} /\ Idle.log = NoEvents /\ Idle.op = "idle"
  BY DEF Idle
<1> HIDE DEF Idle
<1> QED
  BY <1>1, EmptySerial

\* The only session is replaced by one that is in order.
LEMMA BeginSerial ==
  ASSUME DeskInv, OneAtATime, SerialInv, NEW c \in Slots, NEW s,
         SerialStaged(s, tickets, timeline, now), Begin(c, s)
  PROVE  SerialInv'
<1>1. /\ sess' = [sess EXCEPT ![c] = s]
      /\ tickets' = tickets /\ timeline' = timeline /\ now' = now
  BY DEF Begin
<1>2. \A d \in Slots : sess'[d] = s
  BY <1>1 DEF DeskInv, TypeOK, OneAtATime
<1> QED
  BY <1>1, <1>2 DEF SerialInv

\* A session that has staged one ticket.
SingleHandlers == AllHandlers \ {"merge", "bulk_reassign", "bulk_move", "bulk_assign", "auto_resolve"}

LEMMA OneSerial ==
  ASSUME NEW s, NEW op \in SingleHandlers, NEW t \in Tickets, NEW row, NEW events,
         s.op = op, s.has = {t}, s.read[t] = tickets[t], s.new[t] = row,
         s.log = [NoEvents EXCEPT ![t] = events],
         Replaces(op, tickets[t], row, events, now),
         op = "claim" => tickets[t].assigned_to = None
  PROVE  SerialStaged(s, tickets, timeline, now)
<1>1. /\ s.log[t] = events
      /\ \A u \in Tickets \ {t} : s.log[u] = <<>>
  BY DEF NoEvents
<1>2. NoOwner(Range(<<>>))
  BY RangeFacts DEF NoOwner
<1> QED
  BY <1>1, <1>2 DEF SerialStaged, SingleHandlers, AllHandlers

\* The handlers of one ticket.
LEMMA StagedSerial ==
  ASSUME DeskInv, OneAtATime, SerialInv, NEW c \in Slots, NEW op \in SingleHandlers,
         NEW a, NEW t \in Tickets, NEW row, NEW events,
         Replaces(op, tickets[t], row, events, now),
         op = "claim" => tickets[t].assigned_to = None,
         \/ Begin(c, Staged(op, a, t, row, events))
         \/ \E i : Begin(c, [Staged(op, a, t, row, events) EXCEPT !.ins = i])
         \/ \E u : Begin(c, [Staged(op, a, t, row, events) EXCEPT !.upd = u])
  PROVE  SerialInv'
<1> DEFINE s0 == Staged(op, a, t, row, events)
<1>1. [NoRows EXCEPT ![t] = tickets[t]][t] = tickets[t] /\ [NoRows EXCEPT ![t] = row][t] = row
  BY DEF NoRows
<1>2. /\ s0.op = op /\ s0.has = {t} /\ s0.read[t] = tickets[t] /\ s0.new[t] = row
      /\ s0.log = [NoEvents EXCEPT ![t] = events]
  BY <1>1 DEF Staged, Opened
<1>3. ASSUME Begin(c, s0) PROVE SerialInv'
  <2> HIDE DEF s0
  <2>1. SerialStaged(s0, tickets, timeline, now)
    BY <1>2, OneSerial
  <2> QED
    BY <1>3, <2>1, BeginSerial
<1>4. ASSUME NEW i, Begin(c, [s0 EXCEPT !.ins = i]) PROVE SerialInv'
  <2> DEFINE s == [s0 EXCEPT !.ins = i]
  <2>1. /\ s.op = s0.op /\ s.has = s0.has /\ s.read = s0.read /\ s.new = s0.new
        /\ s.log = s0.log
    BY DEF Staged, Opened
  <2>2. Begin(c, s)
    BY <1>4
  <2> HIDE DEF s0, s
  <2>3. SerialStaged(s, tickets, timeline, now)
    BY <1>2, <2>1, OneSerial
  <2> QED
    BY <2>2, <2>3, BeginSerial
<1>5. ASSUME NEW u, Begin(c, [s0 EXCEPT !.upd = u]) PROVE SerialInv'
  <2> DEFINE s == [s0 EXCEPT !.upd = u]
  <2>1. /\ s.op = s0.op /\ s.has = s0.has /\ s.read = s0.read /\ s.new = s0.new
        /\ s.log = s0.log
    BY DEF Staged, Opened
  <2>2. Begin(c, s)
    BY <1>5
  <2> HIDE DEF s0, s
  <2>3. SerialStaged(s, tickets, timeline, now)
    BY <1>2, <2>1, OneSerial
  <2> QED
    BY <2>2, <2>3, BeginSerial
<1> QED
  BY <1>3, <1>4, <1>5

-----------------------------------------------------------------------------
(* The handlers of one ticket.                                              *)

\* claim_ticket.
LEMMA ClaimSerial ==
  ASSUME DeskInv, OneAtATime, SerialInv, NEW c \in Slots, NEW a \in Agents, NEW t \in Tickets,
         Claim(c, a, t)
  PROVE  SerialInv'
<1> DEFINE r == tickets[t]
           y == ClaimTicket(r, a, now)
           e == Ev("assigned", a, a)
<1>1. r \in Row /\ now \in Nat
  BY TicketRowType DEF DeskInv
<1>2. NamesOwner(e) /\ e.to = a
  BY DEF NamesOwner, Ev
<1>3. y.assigned_to = a
  BY <1>1, AssignmentEffects, PromisedOwner
<1>4. Follows(r, y) /\ ClockSafe(r, y, now)
  BY <1>1, AgentSteps, RowClocks
<1> HIDE DEF r, y, e
<1>5. Replaces("claim", r, y, <<e>>, now)
  BY <1>2, <1>3, <1>4, OwnerStaged, SafeReplaces
<1>6. "claim" \in SingleHandlers
  BY DEF SingleHandlers, AllHandlers
<1> QED
  BY <1>5, <1>6, StagedSerial DEF Claim, r, y, e

\* change_status, resolve and close.
LEMMA SetStatusSerial ==
  ASSUME DeskInv, OneAtATime, SerialInv, NEW c \in Slots, NEW a \in Agents, NEW t \in Tickets,
         NEW op \in {"change_status", "resolve", "close"}, NEW target \in Statuses,
         SetStatus(c, op, a, t, target)
  PROVE  SerialInv'
<1> DEFINE r == tickets[t]
           y == ChangeTicketStatus(r, target, now)
           l == StatusEvents(r, target, a)
<1>1. r \in Row /\ now \in Nat /\ TypeOK
  BY TicketRowType DEF DeskInv
<1>2. y.assigned_to = r.assigned_to
  <2> DEFINE queue   == IF IsReopen(r, target)
                           /\ NeedsAutoEscalation([r EXCEPT !.reopen_count = @ + 1])
                        THEN "supervisor" ELSE r.current_queue
             reopens == IF IsReopen(r, target) THEN r.reopen_count + 1 ELSE r.reopen_count
  <2>1. Promised(y) = Promise(target, r.assigned_to, queue, reopens, r.sla_breached)
    BY <1>1, StatusEffect
  <2> HIDE DEF y, queue, reopens
  <2> QED
    BY <2>1, PromisedOwner
<1>3. Follows(r, y)
  BY <1>1, StatusStep DEF SetStatus
<1>4. ClockSafe(r, y, now)
  BY <1>1, StatusClock
<1>5. NoOwner(Range(l))
  <2> DEFINE e   == Ev(StatusEvent(r, target), a, target)
             esc == IF IsReopen(r, target) /\ NeedsAutoEscalation([r EXCEPT !.reopen_count = @ + 1])
                    THEN <<Ev("escalated", a, "supervisor")>> ELSE <<>>
  <2>1. e.type \in {"resolved", "closed", "reopened", "status_changed"}
    BY DEF Ev, StatusEvent
  <2>2. Ev("escalated", a, "supervisor").type = "escalated"
    BY DEF Ev
  <2>3. <<e>> \in Seq(Event)
    BY <1>1, EvType DEF StatusEvent, EventTypes
  <2>4. <<Ev("escalated", a, "supervisor")>> \in Seq(Event) /\ <<>> \in Seq(Event)
    BY <1>1, EvType DEF EventTypes, Queues
  <2>5. NoOwner(Range(<<e>>))
    BY <2>1, RangeFacts DEF NoOwner, NamesOwner
  <2>6. NoOwner(Range(<<Ev("escalated", a, "supervisor")>>)) /\ NoOwner(Range(<<>>))
    BY <2>2, RangeFacts DEF NoOwner, NamesOwner
  <2>7. l = esc \o <<e>>
    BY DEF StatusEvents
  <2>8. esc \in Seq(Event) /\ NoOwner(Range(esc))
    BY <2>4, <2>6
  <2> HIDE DEF e, esc, l
  <2> QED
    BY <2>3, <2>5, <2>7, <2>8, OwnerAppended
<1> HIDE DEF r, y, l
<1>6. OwnerKept(r, y, l)
  BY <1>2, <1>5 DEF OwnerKept
<1>7. Replaces(op, r, y, l, now)
  BY <1>3, <1>4, <1>6, SafeReplaces
<1>8. op \in SingleHandlers /\ op # "claim"
  BY DEF SingleHandlers, AllHandlers
<1> QED
  BY <1>7, <1>8, StagedSerial DEF SetStatus, r, y, l

\* transfer, escalate and return_ticket.
LEMMA HandOverSerial ==
  ASSUME DeskInv, OneAtATime, SerialInv, NEW c \in Slots, NEW a \in Agents, NEW t \in Tickets,
         \/ \E b \in Agents : Transfer(c, a, t, b)
         \/ Escalate(c, a, t)
         \/ \E owner \in Agents \cup {None}, queue \in {"main", "specialized"} :
               ReturnTo(c, a, t, owner, queue)
  PROVE  SerialInv'
<1> DEFINE r == tickets[t]
<1>1. r \in Row /\ now \in Nat
  BY TicketRowType DEF DeskInv
<1>2. ASSUME NEW b \in Agents, Transfer(c, a, t, b) PROVE SerialInv'
  <2> DEFINE y == TransferTicket(r, b)
             e == Ev("transferred", a, b)
  <2>1. NamesOwner(e) /\ e.to = b
    BY DEF NamesOwner, Ev
  <2>2. y.assigned_to = b
    BY <1>1, AssignmentEffects, PromisedOwner
  <2>3. Follows(r, y) /\ ClockSafe(r, y, now)
    BY <1>1, AgentSteps, RowClocks
  <2> HIDE DEF r, y, e
  <2>4. Replaces("transfer", r, y, <<e>>, now)
    BY <2>1, <2>2, <2>3, OwnerStaged, SafeReplaces
  <2>5. "transfer" \in SingleHandlers /\ "transfer" # "claim"
    BY DEF SingleHandlers, AllHandlers
  <2> QED
    BY <1>2, <2>4, <2>5, StagedSerial DEF Transfer, r, y, e
<1>3. ASSUME Escalate(c, a, t) PROVE SerialInv'
  <2> DEFINE y == EscalateTicket(r, a)
             e == Ev("escalated", a, EscalationTarget(a))
  <2>1. ~NamesOwner(e)
    BY DEF NamesOwner, Ev
  <2>2. y.assigned_to = r.assigned_to
    BY <1>1, MoveEffects, PromisedOwner
  <2>3. Follows(r, y) /\ ClockSafe(r, y, now)
    BY <1>1, AgentSteps, RowClocks
  <2> HIDE DEF r, y, e
  <2>4. Replaces("escalate", r, y, <<e>>, now)
    BY <2>1, <2>2, <2>3, OwnerStaged, SafeReplaces
  <2>5. "escalate" \in SingleHandlers /\ "escalate" # "claim"
    BY DEF SingleHandlers, AllHandlers
  <2> QED
    BY <1>3, <2>4, <2>5, StagedSerial DEF Escalate, r, y, e
<1>4. ASSUME NEW owner \in Agents \cup {None}, NEW queue \in {"main", "specialized"},
             ReturnTo(c, a, t, owner, queue)
      PROVE  SerialInv'
  <2> DEFINE y == ReturnTicket(r, owner, queue, now)
             e == Ev("transferred", a, owner)
  <2>1. NamesOwner(e) /\ e.to = owner
    BY DEF NamesOwner, Ev
  <2>2. y.assigned_to = owner
    <3> DEFINE resumed == IF r.status \in {"pending_customer", "pending_3rd"} THEN "open"
                          ELSE r.status
    <3>1. Promised(y) = Promise(resumed, owner, queue, r.reopen_count, r.sla_breached)
      BY <1>1, MoveEffects
    <3> HIDE DEF y, resumed
    <3> QED
      BY <3>1, PromisedOwner
  <2>3. Follows(r, y) /\ ClockSafe(r, y, now)
    BY <1>1, RowSteps, RowClocks
  <2> HIDE DEF r, y, e
  <2>4. Replaces("return_ticket", r, y, <<e>>, now)
    BY <2>1, <2>2, <2>3, OwnerStaged, SafeReplaces
  <2>5. "return_ticket" \in SingleHandlers /\ "return_ticket" # "claim"
    BY DEF SingleHandlers, AllHandlers
  <2> QED
    BY <1>4, <2>4, <2>5, StagedSerial DEF ReturnTo, r, y, e
<1> QED
  BY <1>2, <1>3, <1>4

\* The handlers that keep the promised columns, and the customer's reply.
LEMMA KeptSerial ==
  ASSUME DeskInv, OneAtATime, SerialInv, NEW c \in Slots, NEW t \in Tickets,
         \/ \E a \in Agents : \/ \E type \in {"reply_external", "reply_internal"} :
                                    Reply(c, a, t, type)
                              \/ \E p \in Priorities : UpdatePriority(c, a, t, p)
                              \/ PauseSla(c, a, t)
                              \/ ResumeSla(c, a, t)
         \/ CustomerReply(c, t)
  PROVE  SerialInv'
<1> DEFINE r == tickets[t]
<1>1. r \in Row /\ now \in Nat /\ None \in Agents \cup {None}
  BY TicketRowType DEF DeskInv
<1>2. ASSUME NEW op \in SingleHandlers, NEW a, NEW y, NEW e, op # "claim",
             ~NamesOwner(e), y.assigned_to = r.assigned_to, Follows(r, y),
             ClockSafe(r, y, now),
             \/ Begin(c, Staged(op, a, t, y, <<e>>))
             \/ \E i : Begin(c, [Staged(op, a, t, y, <<e>>) EXCEPT !.ins = i])
             \/ \E u : Begin(c, [Staged(op, a, t, y, <<e>>) EXCEPT !.upd = u])
      PROVE  SerialInv'
  <2>1. OwnerKept(r, y, <<e>>)
    BY <1>2, OwnerStaged
  <2>2. Replaces(op, tickets[t], y, <<e>>, now)
    BY <1>2, <2>1, SafeReplaces
  <2> QED
    BY <1>2, <2>2, StagedSerial
<1>3. {"reply", "update_priority", "pause_sla", "resume_sla", "customer_reply"} \subseteq SingleHandlers
  BY DEF SingleHandlers, AllHandlers
<1>4. ASSUME NEW a \in Agents, NEW type \in {"reply_external", "reply_internal"},
             Reply(c, a, t, type)
      PROVE  SerialInv'
  <2> DEFINE y == [r EXCEPT !.version = @ + 1]
             e == Ev(type, a, None)
  <2>1. ~NamesOwner(e)
    BY DEF NamesOwner, Ev
  <2>2. y.assigned_to = r.assigned_to
    BY <1>1 DEF Row
  <2>3. Follows(r, y) /\ ClockSafe(r, y, now)
    BY <1>1, RowSteps, RowClocks
  <2>4. Begin(c, Staged("reply", a, t, y, <<e>>))
    BY <1>4 DEF Reply
  <2> HIDE DEF r, y, e
  <2> QED
    BY <1>2, <1>3, <2>1, <2>2, <2>3, <2>4
<1>5. ASSUME NEW a \in Agents, NEW p \in Priorities, UpdatePriority(c, a, t, p) PROVE SerialInv'
  <2> DEFINE y == [r EXCEPT !.priority = p, !.version = @ + 1]
             e == Ev("status_changed", a, None)
  <2>1. ~NamesOwner(e)
    BY DEF NamesOwner, Ev
  <2>2. y.assigned_to = r.assigned_to
    BY <1>1 DEF Row
  <2>3. Follows(r, y) /\ ClockSafe(r, y, now)
    BY <1>1, RowSteps, RowClocks
  <2>4. Begin(c, Staged("update_priority", a, t, y, <<e>>))
    BY <1>5 DEF UpdatePriority
  <2> HIDE DEF r, y, e
  <2> QED
    BY <1>2, <1>3, <2>1, <2>2, <2>3, <2>4
<1>6. ASSUME NEW a \in Agents, PauseSla(c, a, t) PROVE SerialInv'
  <2> DEFINE y == PauseTicket(r, now)
             e == Ev("sla_paused", a, None)
  <2>1. ~NamesOwner(e)
    BY DEF NamesOwner, Ev
  <2>2. y.assigned_to = r.assigned_to
    BY <1>1 DEF Row, PauseTicket
  <2>3. Follows(r, y) /\ ClockSafe(r, y, now)
    BY <1>1, RowSteps, RowClocks
  <2>4. \E i : Begin(c, [Staged("pause_sla", a, t, y, <<e>>) EXCEPT !.ins = i])
    BY <1>6 DEF PauseSla
  <2> HIDE DEF r, y, e
  <2> QED
    BY <1>2, <1>3, <2>1, <2>2, <2>3, <2>4
<1>7. ASSUME NEW a \in Agents, ResumeSla(c, a, t) PROVE SerialInv'
  <2> DEFINE y == ResumeTicket(r, now)
             e == Ev("sla_resumed", a, None)
  <2>1. ~NamesOwner(e)
    BY DEF NamesOwner, Ev
  <2>2. y.assigned_to = r.assigned_to
    BY <1>1 DEF Row, ResumeTicket
  <2>3. Follows(r, y) /\ ClockSafe(r, y, now)
    BY <1>1, RowSteps, RowClocks
  <2>4. \E u : Begin(c, [Staged("resume_sla", a, t, y, <<e>>) EXCEPT !.upd = u])
    BY <1>7 DEF ResumeSla
  <2> HIDE DEF r, y, e
  <2> QED
    BY <1>2, <1>3, <2>1, <2>2, <2>3, <2>4
<1>8. ASSUME CustomerReply(c, t) PROVE SerialInv'
  <2> DEFINE y == CustomerReplyTicket(r, now)
             e == Ev("reply_customer", None, None)
  <2>1. ~NamesOwner(e)
    BY DEF NamesOwner, Ev
  <2>2. y.assigned_to = r.assigned_to
    BY <1>1 DEF Row, CustomerReplyTicket
  <2>3. Follows(r, y) /\ ClockSafe(r, y, now)
    BY <1>1, RowSteps, RowClocks
  <2>4. Begin(c, Staged("customer_reply", None, t, y, <<e>>))
    BY <1>8 DEF CustomerReply
  <2> HIDE DEF r, y, e
  <2> QED
    BY <1>2, <1>3, <2>1, <2>2, <2>3, <2>4
<1> QED
  BY <1>4, <1>5, <1>6, <1>7, <1>8

-----------------------------------------------------------------------------
(* The handlers that read all their tickets in one SELECT.                  *)

\* Such a session is in order if what it stages of each ticket is.
LEMMA OpenedSerial ==
  ASSUME DeskInv, OneAtATime, SerialInv, NEW c \in Slots,
         NEW op \in {"auto_balance", "check_sla_breaches", "auto_resolve"}, NEW a,
         NEW S \in SUBSET Tickets, NEW read, NEW new, NEW log, NEW todo,
         \A t \in S : read[t] = tickets[t] /\ Replaces(op, tickets[t], new[t], log[t], now),
         \A t \in Tickets \ S : log[t] = <<>>,
         op = "auto_resolve" => \A t \in S : tickets[t].status = "pending_customer"
                                             /\ new[t] = tickets[t],
         Begin(c, Opened(op, a, S, read, new, log, todo))
  PROVE  SerialInv'
<1> DEFINE s == Opened(op, a, S, read, new, log, todo)
<1>1. s.op = op /\ s.has = S /\ s.read = read /\ s.new = new /\ s.log = log
  BY DEF Opened
<1> HIDE DEF s
<1>2. NoOwner(Range(<<>>))
  BY RangeFacts DEF NoOwner
<1>3. SerialStaged(s, tickets, timeline, now)
  BY <1>1, <1>2 DEF SerialStaged
<1> QED
  BY <1>3, BeginSerial DEF s

\* auto_balance names each new owner and starts the tickets.
LEMMA AutoBalanceSerial ==
  ASSUME DeskInv, OneAtATime, SerialInv, NEW c \in Slots, NEW a \in Agents, AutoBalance(c, a)
  PROVE  SerialInv'
<1> DEFINE idle == {t \in Tickets : tickets[t].assigned_to = None /\ tickets[t].status = "new"}
<1>1. now \in Nat /\ \A t \in Tickets : tickets[t] \in Row
  BY TicketRowType DEF DeskInv, TypeOK
<1>2. PICK agents \in Orders(Online), queue \in Orders(idle) :
         LET turn(t)  == (CHOOSE i \in DOMAIN queue : queue[i] = t) - 1
             agent(t) == agents[(turn(t) % Cardinality(Online)) + 1]
             row(t)   == BalanceTicket(tickets[t], agent(t), now)
             event(t) == <<Ev("assigned", a, agent(t))>>
         IN  Begin(c, Opened("auto_balance", a, idle, Rows(idle, Current),
                             Rows(idle, row), Events(idle, event), {}))
  BY DEF AutoBalance
<1> DEFINE turn(t)  == (CHOOSE i \in DOMAIN queue : queue[i] = t) - 1
           agent(t) == agents[(turn(t) % Cardinality(Online)) + 1]
           read     == [t \in Tickets |-> IF t \in idle THEN tickets[t] ELSE BlankRow]
           new      == [t \in Tickets |-> IF t \in idle
                            THEN BalanceTicket(tickets[t], agent(t), now) ELSE BlankRow]
           log      == [t \in Tickets |-> IF t \in idle
                            THEN <<Ev("assigned", a, agent(t))>> ELSE <<>>]
<1>3. Begin(c, Opened("auto_balance", a, idle, read, new, log, {}))
  BY <1>2 DEF Rows, Events, Current
<1>4. ASSUME NEW t \in idle PROVE agent(t) \in Agents
  <2>1. queue \in [1..Cardinality(idle) -> idle] /\ \E i \in DOMAIN queue : queue[i] = t
    BY DEF Orders
  <2>2. turn(t) \in Nat
    <3>1. (CHOOSE i \in DOMAIN queue : queue[i] = t) \in 1..Cardinality(idle)
      BY <2>1
    <3>2. IsFiniteSet(idle) /\ Cardinality(idle) \in Nat
      BY DeskAssumption, FS_Subset, FS_CardinalityType
    <3> QED
      BY <3>1, <3>2
  <2>3. Cardinality(Online) \in Nat /\ Cardinality(Online) # 0
    BY DeskAssumption, FS_CardinalityType, FS_EmptySet DEF AutoBalance
  <2> HIDE DEF turn
  <2>4. (turn(t) % Cardinality(Online)) + 1 \in 1..Cardinality(Online)
    BY <2>2, <2>3
  <2>5. agents \in [1..Cardinality(Online) -> Online]
    BY DEF Orders
  <2>6. agent(t) \in Online
    BY <2>4, <2>5
  <2> QED
    BY <2>6, DeskAssumption
<1> HIDE DEF agent
<1>5. /\ idle \in SUBSET Tickets
      /\ \A t \in idle : tickets[t].status = "new"
      /\ \A t \in idle : /\ read[t] = tickets[t]
                         /\ new[t] = BalanceTicket(tickets[t], agent(t), now)
                         /\ log[t] = <<Ev("assigned", a, agent(t))>>
      /\ \A t \in Tickets \ idle : log[t] = <<>>
  OBVIOUS
<1> HIDE DEF read, new, log, idle
<1>6. ASSUME NEW t \in idle
      PROVE  Replaces("auto_balance", tickets[t], new[t], log[t], now)
  <2> DEFINE r == tickets[t]
             b == agent(t)
             y == BalanceTicket(r, b, now)
             e == Ev("assigned", a, b)
  <2>1. r \in Row /\ b \in Agents /\ r.status = "new"
    BY <1>1, <1>4, <1>5
  <2>2. NamesOwner(e) /\ e.to = b
    BY DEF NamesOwner, Ev
  <2> HIDE DEF r, b, e
  <2>3. y.assigned_to = b
    BY <2>1, AssignmentEffects, PromisedOwner
  <2>4. Follows(r, y) /\ ClockSafe(r, y, now)
    BY <1>1, <2>1, AgentSteps, RowClocks
  <2> HIDE DEF y
  <2>5. Replaces("auto_balance", r, y, <<e>>, now)
    BY <2>2, <2>3, <2>4, OwnerStaged, SafeReplaces
  <2>6. new[t] = y /\ log[t] = <<e>>
    BY <1>5 DEF r, b, y, e
  <2> QED
    BY <2>5, <2>6 DEF r
<1> QED
  BY <1>3, <1>5, <1>6, OpenedSerial

\* The breach sweep flags the tickets that may be flagged.
LEMMA BreachSerial ==
  ASSUME DeskInv, OneAtATime, SerialInv, NEW w \in Slots, CheckSlaBreaches(w)
  PROVE  SerialInv'
<1> DEFINE overdue == {t \in Tickets : IsOverdue(tickets[t], now)}
           read    == [t \in Tickets |-> IF t \in overdue THEN tickets[t] ELSE BlankRow]
           new     == [t \in Tickets |-> IF t \in overdue THEN BreachedRow(t) ELSE BlankRow]
           log     == [t \in Tickets |-> IF t \in overdue THEN BreachEvents(t) ELSE <<>>]
<1>1. TypeOK /\ now \in Nat /\ \A t \in Tickets : tickets[t] \in Row
  BY TicketRowType DEF DeskInv, TypeOK
<1>2. Begin(w, Opened("check_sla_breaches", None, overdue, read, new, log, {}))
  BY DEF CheckSlaBreaches, Rows, Events, Current
<1>3. /\ overdue \in SUBSET Tickets
      /\ \A t \in overdue : read[t] = tickets[t] /\ new[t] = BreachedRow(t)
                            /\ log[t] = BreachEvents(t) /\ ~tickets[t].sla_breached
                            /\ tickets[t].status \notin {"resolved", "closed", "archived"}
      /\ \A t \in Tickets \ overdue : log[t] = <<>>
  BY DEF IsOverdue
<1> HIDE DEF read, new, log, overdue
<1>4. ASSUME NEW t \in overdue
      PROVE  Replaces("check_sla_breaches", tickets[t], new[t], log[t], now)
  <2> DEFINE r   == tickets[t]
             y   == BreachTicket(r)
             e   == Ev("sla_breach", None, None)
             esc == IF BreachEscalates(r)
                    THEN <<Ev("escalated", None, "supervisor")>> ELSE <<>>
  <2>1. r \in Row /\ ~r.sla_breached /\ r.status \in {"new", "open", "pending_customer", "pending_3rd"}
    BY <1>1, <1>3, Columns DEF Statuses
  <2>2. <<e>> \in Seq(Event) /\ <<>> \in Seq(Event)
        /\ <<Ev("escalated", None, "supervisor")>> \in Seq(Event)
    BY <1>1, EvType DEF EventTypes, Queues
  <2>3. NoOwner(Range(<<e>>)) /\ NoOwner(Range(<<>>))
        /\ NoOwner(Range(<<Ev("escalated", None, "supervisor")>>))
    BY RangeFacts DEF NoOwner, NamesOwner, Ev
  <2>4. esc \in Seq(Event) /\ NoOwner(Range(esc))
    BY <2>2, <2>3
  <2>5. new[t] = y /\ log[t] = <<e>> \o esc
    BY <1>3 DEF BreachedRow, BreachEvents
  <2> HIDE DEF e, esc, r
  <2>6. NoOwner(Range(log[t]))
    BY <2>2, <2>3, <2>4, <2>5, OwnerAppended
  <2>7. y.assigned_to = r.assigned_to
    BY <2>1 DEF BreachTicket, Row
  <2>8. Follows(r, y) /\ ClockSafe(r, y, now)
    BY <1>1, <2>1, OtherSteps, RowClocks
  <2> HIDE DEF y
  <2>9. OwnerKept(r, y, log[t])
    BY <2>6, <2>7 DEF OwnerKept
  <2> QED
    BY <2>5, <2>8, <2>9, SafeReplaces DEF r
<1> QED
  BY <1>2, <1>3, <1>4, OpenedSerial

\* The auto-resolve task starts with the rows as it has read them.
LEMMA AutoResolveSerial ==
  ASSUME DeskInv, OneAtATime, SerialInv, NEW w \in Slots, AutoResolve(w)
  PROVE  SerialInv'
<1> DEFINE stuck == {t \in Tickets : IsStuck(tickets[t])}
           read  == [t \in Tickets |-> IF t \in stuck THEN tickets[t] ELSE BlankRow]
<1>1. Begin(w, Opened("auto_resolve", None, stuck, read, read, NoEvents, stuck))
  BY DEF AutoResolve, Rows, Current
<1>2. /\ stuck \in SUBSET Tickets
      /\ \A t \in stuck : read[t] = tickets[t] /\ tickets[t].status = "pending_customer"
  BY DEF IsStuck
<1>3. \A t \in Tickets : NoEvents[t] = <<>>
  BY DEF NoEvents
<1> HIDE DEF read, stuck
<1>4. \A r : Replaces("auto_resolve", r, r, <<>>, now)
  <2>1. NoOwner(Range(<<>>))
    BY RangeFacts DEF NoOwner
  <2> QED
    BY <2>1 DEF Replaces, Follows, OwnerKept
<1> QED
  BY <1>1, <1>2, <1>3, <1>4, OpenedSerial

\* Each ticket the task decides on is still waiting: it is resolved.
LEMMA AutoResolveCheckSerial ==
  ASSUME DeskInv, OneAtATime, SerialInv, NEW w \in Slots, NEW t \in Tickets,
         AutoResolveCheck(w, t)
  PROVE  SerialInv'
<1> DEFINE s   == sess[w]
           e   == Ev("resolved", None, "resolved")
           new == [s.new EXCEPT ![t] = AutoResolveTicket(s.new[t])]
           log == [s.log EXCEPT ![t] = <<e>>]
           y   == [s EXCEPT !.todo = @ \ {t}]
           z   == [s EXCEPT !.todo = @ \ {t}, !.new = new, !.log = log]
           r   == tickets[t]
<1>1. /\ s \in Session /\ s.op = "auto_resolve" /\ r \in Row /\ now \in Nat
      /\ SerialStaged(s, tickets, timeline, now)
  BY TicketRowType DEF DeskInv, TypeOK, SerialInv, AutoResolveCheck
<1>2. /\ s.new \in [Tickets -> Row] /\ s.log \in [Tickets -> Seq(Event)]
      /\ s.has \subseteq Tickets
  BY <1>1, Fields
<1>3. Begin(w, y) \/ Begin(w, z)
  BY DEF AutoResolveCheck
<1>4. ~NamesOwner(e) /\ Range(<<e>>) = {e}
  BY RangeFacts DEF NamesOwner, Ev
<1> HIDE DEF s, e, r
<1>5. /\ new[t] = AutoResolveTicket(s.new[t]) /\ log[t] = <<e>>
      /\ \A u \in Tickets \ {t} : new[u] = s.new[u] /\ log[u] = s.log[u]
  BY <1>2
<1>6. /\ y.has = s.has /\ y.read = s.read /\ y.new = s.new /\ y.log = s.log /\ y.op = s.op
      /\ y.primary = s.primary
      /\ z.has = s.has /\ z.read = s.read /\ z.new = new /\ z.log = log /\ z.op = s.op
  <2> HIDE DEF new, log
  <2> QED BY <1>1 DEF Session
<1> HIDE DEF new, log, y, z
<1>7. SerialStaged(y, tickets, timeline, now)
  BY <1>1, <1>6 DEF SerialStaged
<1>8. ASSUME t \in s.has
      PROVE  /\ new[t] = AutoResolveTicket(r) /\ r.status = "pending_customer"
             /\ Replaces("auto_resolve", r, new[t], log[t], now)
  <2>1. r.status = "pending_customer" /\ s.new[t] \in {r, AutoResolveTicket(r)}
    BY <1>1, <1>8 DEF SerialStaged, r
  <2>2. AutoResolveTicket(AutoResolveTicket(r)) = AutoResolveTicket(r)
    BY <1>1 DEF AutoResolveTicket, Row
  <2>3. new[t] = AutoResolveTicket(r)
    BY <1>5, <2>1, <2>2
  <2>4. Follows(r, AutoResolveTicket(r))
    <3>1. \A o \in Agents \cup {None} : Follows(r, AutoResolveTicket(r))
      BY <1>1, <2>1, RowSteps
    <3> QED
      BY <3>1
  <2>5. ClockSafe(r, AutoResolveTicket(r), now)
    BY <1>1, <2>1, UntouchedClocks DEF ClockSafe
  <2>6. AutoResolveTicket(r).assigned_to = r.assigned_to
    BY <1>1 DEF AutoResolveTicket, Row
  <2>7. OwnerKept(r, AutoResolveTicket(r), <<e>>)
    BY <1>4, <2>6, OwnerStaged
  <2> QED
    BY <1>5, <2>1, <2>3, <2>4, <2>5, <2>7, SafeReplaces
<1>9. SerialStaged(z, tickets, timeline, now)
  <2>1. ASSUME NEW u \in z.has
        PROVE  /\ z.read[u] = tickets[u]
               /\ Replaces(z.op, tickets[u], z.new[u], z.log[u], now)
               /\ tickets[u].status = "pending_customer"
               /\ z.new[u] \in {tickets[u], AutoResolveTicket(tickets[u])}
    <3>1. CASE u = t
      BY <1>1, <1>6, <1>8, <2>1, <3>1 DEF SerialStaged, r
    <3>2. CASE u # t
      BY <1>1, <1>2, <1>5, <1>6, <2>1, <3>2 DEF SerialStaged
    <3> QED
      BY <3>1, <3>2
  <2>2. \A u \in Tickets \ z.has : NoOwner(Range(z.log[u]))
    <3>1. NoOwner(Range(<<e>>))
      BY <1>4 DEF NoOwner
    <3> QED
      BY <1>1, <1>5, <1>6, <3>1 DEF SerialStaged
  <2> QED
    BY <1>1, <1>6, <2>1, <2>2 DEF SerialStaged
<1> QED
  BY <1>3, <1>7, <1>9, BeginSerial

-----------------------------------------------------------------------------
(* The handlers that read their tickets one after the other.                *)

\* The log g of a session contains f, and what it adds names no owner, except
\* for the ticket t.
LogGrows(f, g, t) ==
  \A u \in Tickets :
     /\ Range(f[u]) \subseteq Range(g[u])
     /\ u # t => /\ NoOwner(Range(f[u])) => NoOwner(Range(g[u]))
                 /\ \A o : LastOwner(f[u], o) => LastOwner(g[u], o)

LEMMA LoggedGrows ==
  ASSUME NEW f \in [Tickets -> Seq(Event)], NEW p, NEW l \in Seq(Event), NEW t,
         p = t \/ NoOwner(Range(l))
  PROVE  LogGrows(f, Logged(f, p, l), t)
<1> SUFFICES ASSUME NEW u \in Tickets
             PROVE  /\ Range(f[u]) \subseteq Range(Logged(f, p, l)[u])
                    /\ u # t => /\ NoOwner(Range(f[u])) => NoOwner(Range(Logged(f, p, l)[u]))
                                /\ \A o : LastOwner(f[u], o) => LastOwner(Logged(f, p, l)[u], o)
  BY DEF LogGrows
<1>1. CASE u = p
  <2>1. Logged(f, p, l)[u] = f[u] \o l
    BY <1>1 DEF Logged
  <2>2. Range(f[u] \o l) = Range(f[u]) \cup Range(l)
    BY RangeFacts
  <2>3. NoOwner(Range(l)) => /\ NoOwner(Range(f[u])) => NoOwner(Range(f[u] \o l))
                             /\ \A o : LastOwner(f[u], o) => LastOwner(f[u] \o l, o)
    BY OwnerAppended
  <2> QED
    BY <1>1, <2>1, <2>2, <2>3
<1>2. CASE u # p
  <2>1. Logged(f, p, l)[u] = f[u]
    BY <1>2 DEF Logged
  <2> QED
    BY <2>1
<1> QED
  BY <1>1, <1>2

\* merge, bulk_reassign, bulk_move_to_queue and bulk_assign_tickets start with
\* nothing read.
LEMMA StartManySerial ==
  ASSUME DeskInv, OneAtATime, SerialInv, NEW c \in Slots, NEW a \in Agents,
         NEW S \in SUBSET Tickets,
         \/ \E p \in Tickets : Merge(c, a, p, S)
         \/ \E b \in Agents : BulkReassign(c, a, S, b)
         \/ \E q \in Queues : BulkMoveToQueue(c, a, S, q)
         \/ \E b \in Agents : BulkAssign(c, a, S, b)
  PROVE  SerialInv'
<1>1. ASSUME NEW s, s.has = {}, s.log = NoEvents, Begin(c, s),
             s.op \in {"bulk_reassign", "bulk_move"} => s.queue # "internal_tickets",
             s.op = "merge" => s.primary \in Tickets
      PROVE  SerialInv'
  <2>1. SerialStaged(s, tickets, timeline, now)
    BY <1>1, EmptySerial
  <2> QED
    BY <1>1, <2>1, BeginSerial
<1>2. ASSUME NEW p \in Tickets, Merge(c, a, p, S) PROVE SerialInv'
  <2> DEFINE s == [ManySession("merge", a, S) EXCEPT !.primary = p]
  <2>1. s.has = {} /\ s.log = NoEvents /\ s.op = "merge" /\ s.primary = p
    BY DEF ManySession, Opened
  <2>2. Begin(c, s)
    BY <1>2 DEF Merge
  <2> HIDE DEF s
  <2> QED
    BY <1>1, <2>1, <2>2
<1>3. ASSUME NEW b \in Agents, BulkReassign(c, a, S, b) PROVE SerialInv'
  <2> DEFINE s == [ManySession("bulk_reassign", a, S) EXCEPT !.owner = b, !.queue = "main"]
  <2>1. s.has = {} /\ s.log = NoEvents /\ s.op = "bulk_reassign" /\ s.queue = "main"
    BY DEF ManySession, Opened
  <2>2. Begin(c, s)
    BY <1>3 DEF BulkReassign
  <2> HIDE DEF s
  <2> QED
    BY <1>1, <2>1, <2>2
<1>4. ASSUME NEW q \in Queues, BulkMoveToQueue(c, a, S, q) PROVE SerialInv'
  <2> DEFINE s == [ManySession("bulk_move", a, S) EXCEPT !.queue = q]
  <2>1. s.has = {} /\ s.log = NoEvents /\ s.op = "bulk_move" /\ s.queue = q
    BY DEF ManySession, Opened
  <2>2. Begin(c, s) /\ q # "internal_tickets"
    BY <1>4 DEF BulkMoveToQueue
  <2> HIDE DEF s
  <2> QED
    BY <1>1, <2>1, <2>2
<1>5. ASSUME NEW b \in Agents, BulkAssign(c, a, S, b) PROVE SerialInv'
  <2> DEFINE s == [ManySession("bulk_assign", a, S) EXCEPT !.owner = b]
  <2>1. s.has = {} /\ s.log = NoEvents /\ s.op = "bulk_assign"
    BY DEF ManySession, Opened
  <2>2. Begin(c, s)
    BY <1>5 DEF BulkAssign
  <2> HIDE DEF s
  <2> QED
    BY <1>1, <2>1, <2>2
<1> QED
  BY <1>2, <1>3, <1>4, <1>5

\* One more ticket is read and staged, in order with its events; the other
\* tickets are told of nothing that names an owner.
LEMMA ExtendSerial ==
  ASSUME DeskInv, OneAtATime, SerialInv, NEW c \in Slots, NEW t \in Tickets, NEW row, NEW events,
         Extend(c, t, row, events), sess[c].op \in ManyHandlers,
         Replaces(sess[c].op, tickets[t], row, events[t], now),
         LogGrows(sess[c].log, events, t),
         sess[c].op = "merge" => \A e \in Range(timeline[t]) :
             IsPublicReply(e) => e \in Range(events[sess[c].primary])
  PROVE  SerialInv'
<1> DEFINE s == sess[c]
           y == [s EXCEPT !.has  = @ \cup {t},
                          !.read = [@ EXCEPT ![t] = tickets[t]],
                          !.new  = [@ EXCEPT ![t] = row],
                          !.log  = events,
                          !.todo = @ \ {t}]
<1>1. s \in Session /\ SerialStaged(s, tickets, timeline, now)
  BY DEF DeskInv, TypeOK, SerialInv
<1>2. Begin(c, y)
  BY DEF Extend
<1>3. /\ s.read \in [Tickets -> Row] /\ s.new \in [Tickets -> Row] /\ s.has \subseteq Tickets
  BY <1>1, Fields
<1>4. /\ y.has = s.has \cup {t} /\ y.log = events
      /\ y.op = s.op /\ y.queue = s.queue /\ y.primary = s.primary
      /\ y.read = [s.read EXCEPT ![t] = tickets[t]] /\ y.new = [s.new EXCEPT ![t] = row]
  BY <1>1 DEF Session
<1>5. s.op \in ManyHandlers
  OBVIOUS
<1>6. LogGrows(s.log, events, t)
  OBVIOUS
<1>7. Replaces(s.op, tickets[t], row, events[t], now)
  OBVIOUS
<1>8. s.op = "merge" => \A e \in Range(timeline[t]) :
         IsPublicReply(e) => e \in Range(events[s.primary])
  OBVIOUS
<1> HIDE DEF s, y
<1>9. /\ y.read[t] = tickets[t] /\ y.new[t] = row
      /\ \A u \in Tickets \ {t} : y.read[u] = s.read[u] /\ y.new[u] = s.new[u]
  BY <1>3, <1>4
<1>10. ASSUME NEW u \in y.has
       PROVE  y.read[u] = tickets[u] /\ Replaces(y.op, tickets[u], y.new[u], y.log[u], now)
  <2>1. CASE u = t
    BY <1>4, <1>7, <1>9, <2>1
  <2>2. CASE u # t
    <3>1. u \in s.has /\ u \in Tickets /\ y.read[u] = s.read[u] /\ y.new[u] = s.new[u]
      BY <1>3, <1>4, <1>9, <1>10, <2>2
    <3>2. s.read[u] = tickets[u] /\ Replaces(s.op, tickets[u], s.new[u], s.log[u], now)
      BY <1>1, <3>1 DEF SerialStaged
    <3>3. /\ NoOwner(Range(s.log[u])) => NoOwner(Range(events[u]))
          /\ \A o : LastOwner(s.log[u], o) => LastOwner(events[u], o)
      BY <1>6, <2>2, <3>1 DEF LogGrows
    <3>4. OwnerKept(tickets[u], s.new[u], s.log[u]) => OwnerKept(tickets[u], s.new[u], events[u])
      BY <3>3 DEF OwnerKept
    <3> QED
      BY <1>4, <3>1, <3>2, <3>4 DEF Replaces
  <2> QED
    BY <2>1, <2>2
<1>11. \A u \in Tickets \ y.has : NoOwner(Range(y.log[u]))
  BY <1>1, <1>4, <1>6 DEF SerialStaged, LogGrows
<1>12. ASSUME y.op = "merge"
       PROVE  /\ y.primary \in Tickets
              /\ \A u \in y.has : \A e \in Range(timeline[u]) :
                    IsPublicReply(e) => e \in Range(y.log[y.primary])
  <2>1. s.primary \in Tickets /\ \A u \in s.has : \A e \in Range(timeline[u]) :
           IsPublicReply(e) => e \in Range(s.log[s.primary])
    BY <1>1, <1>4, <1>12 DEF SerialStaged
  <2>2. Range(s.log[s.primary]) \subseteq Range(events[s.primary])
    BY <1>6, <2>1 DEF LogGrows
  <2> QED
    BY <1>4, <1>8, <1>12, <2>1, <2>2
<1>13. y.op \notin {"idle", "auto_resolve", "claim"}
  BY <1>4, <1>5 DEF ManyHandlers
<1>14. y.op \in {"bulk_reassign", "bulk_move"} => y.queue # "internal_tickets"
  BY <1>1, <1>4 DEF SerialStaged
<1>15. SerialStaged(y, tickets, timeline, now)
  BY <1>10, <1>11, <1>12, <1>13, <1>14 DEF SerialStaged
<1> QED
  BY <1>2, <1>15, BeginSerial

\* A child of a merge: its public replies are copied before it is closed.
LEMMA MergeChildSerial ==
  ASSUME DeskInv, TraceInv, OneAtATime, SerialInv, NEW c \in Slots, NEW t \in Tickets,
         MergeChild(c, t)
  PROVE  SerialInv'
<1> DEFINE s == sess[c]
           e == Ev("merged", s.by, None)
           r == tickets[t]
<1>1. /\ TypeOK /\ s \in Session /\ TraceStaged(s) /\ SerialStaged(s, tickets, timeline, now)
      /\ r \in Row /\ timeline[t] \in Seq(Event) /\ now \in Nat
  BY TicketRowType DEF DeskInv, TypeOK, TraceInv, SerialInv
<1>2. s.log \in [Tickets -> Seq(Event)] /\ s.by \in Agents \cup {None}
  BY <1>1, Fields
<1>3. s.op = "merge" /\ s.op \in ManyHandlers /\ t \notin s.has /\ s.primary \in Tickets
  BY <1>1 DEF MergeChild, ManyHandlers, TraceStaged, SerialStaged
<1>4. CASE Begin(c, [s EXCEPT !.todo = @ \ {t}])
  <2> DEFINE y == [s EXCEPT !.todo = @ \ {t}]
  <2>1. /\ y.has = s.has /\ y.read = s.read /\ y.new = s.new /\ y.log = s.log
        /\ y.op = s.op /\ y.queue = s.queue /\ y.primary = s.primary
    BY <1>1 DEF Session
  <2> HIDE DEF y, s
  <2>2. SerialStaged(y, tickets, timeline, now)
    BY <1>1, <2>1 DEF SerialStaged
  <2> QED
    BY <1>4, <2>2, BeginSerial DEF y
<1>5. ASSUME NEW replies \in PublicReplies(timeline[t]),
             r.status \notin {"closed", "archived"},
             Extend(c, t, MergeTicket(r, s.primary),
                    Logged(Logged(s.log, s.primary, replies), t, <<e>>))
      PROVE  SerialInv'
  <2> DEFINE told   == Logged(s.log, s.primary, replies)
             events == Logged(told, t, <<e>>)
             y      == MergeTicket(r, s.primary)
  <2>1. /\ replies \in Seq(Event)
        /\ \A x \in Range(replies) : IsPublicReply(x)
        /\ \A x \in Range(timeline[t]) : IsPublicReply(x) => x \in Range(replies)
        /\ ~SaysBreach(Range(replies))
    BY <1>1, RepliesType, RepliesRange
  <2>2. NoOwner(Range(replies))
    BY <2>1 DEF NoOwner, NamesOwner, IsPublicReply
  <2>3. <<e>> \in Seq(Event) /\ Range(<<e>>) = {e} /\ e.type = "merged"
    BY <1>1, <1>2, EvType, RangeFacts DEF EventTypes, Ev
  <2>4. NoOwner(Range(<<e>>))
    BY <2>3 DEF NoOwner, NamesOwner
  <2> HIDE DEF e
  <2>5. told \in [Tickets -> Seq(Event)] /\ \A u \in Tickets : LogGrows(s.log, told, u)
    BY <1>2, <2>1, <2>2, LogAppend, LoggedGrows
  <2>6. Range(replies) \subseteq Range(told[s.primary])
    <3>1. told[s.primary] = s.log[s.primary] \o replies
      BY <1>2, <1>3 DEF told, Logged
    <3>2. s.log[s.primary] \in Seq(Event)
      BY <1>2, <1>3
    <3> HIDE DEF told, s
    <3> QED
      BY <2>1, <3>1, <3>2, RangeFacts
  <2> HIDE DEF told
  <2>7. \A u \in Tickets : LogGrows(told, events, u)
    BY <2>3, <2>4, <2>5, LoggedGrows
  <2> HIDE DEF events
  <2>8. \A u \in Tickets : LogGrows(s.log, events, u)
    BY <2>5, <2>7 DEF LogGrows
  <2>9. NoOwner(Range(events[t]))
    <3>1. NoOwner(Range(s.log[t]))
      BY <1>1, <1>3 DEF SerialStaged
    <3>2. NoOwner(Range(told[t]))
      <4>1. CASE t = s.primary
        <5>1. told[t] = s.log[t] \o replies
          BY <1>2, <4>1 DEF told, Logged
        <5> QED
          BY <1>2, <2>1, <2>2, <3>1, <5>1, OwnerAppended
      <4>2. CASE t # s.primary
        <5>1. told[t] = s.log[t]
          BY <1>2, <4>2 DEF told, Logged
        <5> QED
          BY <3>1, <5>1
      <4> QED
        BY <4>1, <4>2
    <3>3. events[t] = told[t] \o <<e>>
      BY <2>5 DEF events, Logged
    <3> QED
      BY <2>3, <2>4, <2>5, <3>2, <3>3, OwnerAppended
  <2>10. y.assigned_to = r.assigned_to
    BY <1>1 DEF MergeTicket, Row
  <2>11. OwnerKept(r, y, events[t])
    BY <2>9, <2>10 DEF OwnerKept
  <2>12. Follows(r, y) /\ (Fits(r, now) => Fits(y, now))
    BY <1>1, <1>5, OtherSteps, UntouchedClocks
  <2>13. Replaces(s.op, r, y, events[t], now)
    BY <1>3, <2>11, <2>12 DEF Replaces
  <2>14. \A x \in Range(timeline[t]) : IsPublicReply(x) => x \in Range(events[s.primary])
    <3>1. Range(told[s.primary]) \subseteq Range(events[s.primary])
      BY <1>3, <2>7 DEF LogGrows
    <3> QED
      BY <2>1, <2>6, <3>1
  <2> QED
    BY <1>3, <1>5, <2>8, <2>13, <2>14, ExtendSerial DEF events, told, y, r, s
<1> QED
  BY <1>4, <1>5 DEF MergeChild, e

\* A ticket of a bulk move: the new owner is named, or there is none.
LEMMA BulkMoveSerial ==
  ASSUME DeskInv, TraceInv, OneAtATime, SerialInv, NEW c \in Slots, NEW t \in Tickets,
         BulkMoveNext(c, t)
  PROVE  SerialInv'
<1> DEFINE s      == sess[c]
           to     == IF s.op = "bulk_move" THEN s.queue ELSE s.owner
           e      == Ev("transferred", s.by, to)
           events == Logged(s.log, t, <<e>>)
           r      == tickets[t]
           y      == BulkMoveTicket(r, s.owner, s.queue)
<1>1. /\ TypeOK /\ s \in Session /\ TraceStaged(s) /\ SerialStaged(s, tickets, timeline, now)
      /\ r \in Row /\ now \in Nat
  BY TicketRowType DEF DeskInv, TypeOK, TraceInv, SerialInv
<1>2. /\ s.log \in [Tickets -> Seq(Event)] /\ s.by \in Agents \cup {None}
      /\ to \in Agents \cup Statuses \cup Queues \cup {None}
      /\ s.owner \in Agents \cup {None} /\ s.queue \in Queues
  BY <1>1, Fields
<1>3. s.op \in {"bulk_reassign", "bulk_move"} /\ t \in s.todo
  BY DEF BulkMoveNext
<1>4. /\ s.op \in ManyHandlers /\ s.queue # "internal_tickets"
      /\ s.op = "bulk_move" => s.owner = None
  BY <1>1, <1>3 DEF ManyHandlers, TraceStaged, SerialStaged
<1>5. Extend(c, t, y, events)
  BY DEF BulkMoveNext
<1>6. NamesOwner(e) /\ e.to = to
  BY DEF NamesOwner, Ev
<1>7. <<e>> \in Seq(Event)
  <2> HIDE DEF to
  <2> QED BY <1>1, <1>2, EvType DEF EventTypes
<1>8. LogGrows(s.log, events, t)
  <2> HIDE DEF e
  <2> QED BY <1>2, <1>7, LoggedGrows
<1>9. events[t] = s.log[t] \o <<e>>
  BY <1>2 DEF Logged
<1>10. y.assigned_to = s.owner
  BY <1>1 DEF BulkMoveTicket, Row
<1>11. s.op # "bulk_move" => to = s.owner
  OBVIOUS
<1>12. Follows(r, y) /\ ClockSafe(r, y, now)
  BY <1>1, <1>2, <1>4, RowSteps, RowClocks
<1> HIDE DEF e, to, events, y
<1>13. OwnerKept(r, y, events[t])
  <2>1. LastOwner(<<e>>, to)
    BY <1>6, OneNamed
  <2>2. LastOwner(events[t], to)
    <3>1. s.log[t] \in Seq(Event)
      BY <1>2
    <3> HIDE DEF s
    <3>2. LastOwner(s.log[t] \o <<e>>, to)
      BY <1>7, <2>1, <3>1, OwnerAppended
    <3> QED
      BY <1>9, <3>2
  <2> QED
    BY <1>4, <1>10, <1>11, <2>2 DEF OwnerKept
<1>14. Replaces(s.op, r, y, events[t], now)
  BY <1>12, <1>13, SafeReplaces
<1>15. s.op # "merge"
  BY <1>3
<1> QED
  BY <1>4, <1>5, <1>8, <1>14, <1>15, ExtendSerial DEF r, s

\* A ticket of the supervisor page's bulk assign.
LEMMA BulkAssignSerial ==
  ASSUME DeskInv, OneAtATime, SerialInv, NEW c \in Slots, NEW t \in Tickets,
         BulkAssignNext(c, t)
  PROVE  SerialInv'
<1> DEFINE s == sess[c]
           r == tickets[t]
           y == BulkAssignTicket(r, s.owner)
<1>1. /\ s \in Session /\ r \in Row /\ now \in Nat
  BY TicketRowType DEF DeskInv, TypeOK
<1>2. s.owner \in Agents \cup {None}
  BY <1>1, Fields
<1>3. s.op = "bulk_assign" /\ s.op \in ManyHandlers /\ Extend(c, t, y, s.log)
  BY DEF BulkAssignNext, ManyHandlers
<1>4. Follows(r, y) /\ (Fits(r, now) => Fits(y, now))
  BY <1>1, <1>2, RowSteps, UntouchedClocks
<1>5. Replaces(s.op, r, y, s.log[t], now)
  BY <1>3, <1>4 DEF Replaces
<1>6. LogGrows(s.log, s.log, t)
  BY DEF LogGrows
<1>7. s.op # "merge"
  BY <1>3
<1> QED
  BY <1>3, <1>5, <1>6, <1>7, ExtendSerial

\* The archive task needs the slot, so no session holds a row it archives.
LEMMA AutoArchiveSerial ==
  ASSUME DeskInv, OneAtATime, SerialInv, NEW w \in Slots, AutoArchive(w)
  PROVE  SerialInv' /\ (\A t \in Tickets : Follows(tickets[t], tickets'[t]))
<1> DEFINE row(t) == [tickets[t] EXCEPT !.status = "archived", !.updated_at = now]
           old == {t \in Tickets : /\ tickets[t].status = "closed"
                                   /\ tickets[t].updated_at + ArchiveAge <= now}
<1>1. now \in Nat /\ \A t \in Tickets : tickets[t] \in Row
  BY TicketRowType DEF DeskInv, TypeOK
<1>2. /\ tickets' = [t \in Tickets |-> IF t \in old THEN row(t) ELSE tickets[t]]
      /\ UNCHANGED <<now, timeline, pauses, sess>>
  BY DEF AutoArchive
<1>3. \A t \in old : t \in Tickets /\ tickets[t].status = "closed"
  OBVIOUS
<1> HIDE DEF old
<1>4. ASSUME NEW t \in old
      PROVE  /\ Follows(tickets[t], row(t))
             /\ Fits(tickets[t], now) => Fits(row(t), now)
             /\ Clocked(tickets[t]) => Clocked(row(t))
             /\ row(t).assigned_to = tickets[t].assigned_to
  <2>1. tickets[t] \in Row /\ tickets[t].status = "closed"
    BY <1>1, <1>3
  <2>2. row(t).assigned_to = tickets[t].assigned_to
    BY <2>1 DEF Row
  <2>3. Follows(tickets[t], row(t))
    BY <2>1, OtherSteps
  <2>4. Fits(tickets[t], now) => Fits(row(t), now)
    BY <1>1, <2>1, UntouchedClocks
  <2>5. Clocked(tickets[t]) => Clocked(row(t))
    BY <1>1, <2>1, UntouchedClocks
  <2> QED
    BY <2>2, <2>3, <2>4, <2>5
<1> HIDE DEF row
<1>5. ASSUME NEW t \in Tickets
      PROVE  /\ Follows(tickets[t], tickets'[t])
             /\ Fits(tickets[t], now) => Fits(tickets'[t], now)
             /\ Clocked(tickets[t]) => Clocked(tickets'[t])
             /\ tickets'[t].assigned_to = tickets[t].assigned_to
  <2>1. CASE t \in old
    <3>1. tickets'[t] = row(t)
      BY <1>2, <2>1
    <3> QED
      BY <1>4, <2>1, <3>1
  <2>2. CASE t \notin old
    <3>1. tickets'[t] = tickets[t]
      BY <1>2, <2>2
    <3> QED
      BY <3>1 DEF Follows
  <2> QED
    BY <2>1, <2>2
<1>6. SerialTables(tickets, timeline, now)' 
  BY <1>2, <1>5 DEF SerialInv, SerialTables
<1>7. \A c \in Slots : SerialStaged(sess'[c], tickets', timeline', now')
  <2> TAKE c \in Slots
  <2>1. sess'[c] = sess[c] /\ sess[c].op = "idle"
    BY <1>2 DEF AutoArchive, CanRun, OneAtATime
  <2>2. SerialStaged(sess[c], tickets, timeline, now)
    BY DEF SerialInv
  <2>3. sess[c].has = {} /\ \A t \in Tickets : NoOwner(Range(sess[c].log[t]))
    BY <2>1, <2>2 DEF SerialStaged
  <2> QED
    BY <2>1, <2>3 DEF SerialStaged
<1> QED
  BY <1>5, <1>6, <1>7 DEF SerialInv

-----------------------------------------------------------------------------
(* The end of a session, and time.                                          *)

\* A column that was read as it is now is written.
LEMMA WrittenAsStaged ==
  ASSUME NEW read, NEW new, NEW at, NEW row, row = UpdateRow(read, new, read, at)
  PROVE  /\ Promised(row) = Promised(new)
         /\ row.status = new.status /\ row.assigned_to = new.assigned_to
         /\ row.work_time_seconds = new.work_time_seconds
         /\ row.last_opened_at = new.last_opened_at
  BY DEF UpdateRow, Written, Promised

\* What is staged for a row holds of the row that is written.
LEMMA ReplacedAsStaged ==
  ASSUME NEW op, NEW r, NEW y, NEW row, NEW events, NEW at,
         Replaces(op, r, y, events, at), Promised(row) = Promised(y),
         row.status = y.status, row.assigned_to = y.assigned_to,
         row.work_time_seconds = y.work_time_seconds,
         row.last_opened_at = y.last_opened_at
  PROVE  Replaces(op, r, row, events, at)
<1>1. Follows(r, row) /\ (Fits(r, at) => Fits(row, at))
  BY DEF Replaces, Follows, Fits
<1>2. op \notin {"merge", "bulk_assign"} => (Clocked(r) => Clocked(row))
  BY DEF Replaces, Clocked
<1>3. op # "bulk_assign" => OwnerKept(r, row, events)
  BY DEF Replaces, OwnerKept
<1> QED
  BY <1>1, <1>2, <1>3 DEF Replaces

\* The last event of a merge names no owner.
LEMMA FinalLogOwner ==
  ASSUME NEW s \in Session, NEW t \in Tickets, NEW r, NEW y
  PROVE  /\ NoOwner(Range(s.log[t])) => NoOwner(Range(FinalLog(s)[t]))
         /\ OwnerKept(r, y, s.log[t]) => OwnerKept(r, y, FinalLog(s)[t])
<1> DEFINE e == [type |-> "merged", actor |-> s.by, to |-> None, at |-> s.at]
<1>1. e \in Event /\ e.type = "merged"
  BY Fields DEF Event, EventTypes
<1>2. <<e>> \in Seq(Event) /\ Range(<<e>>) = {e} /\ ~NamesOwner(e)
  BY <1>1, RangeFacts DEF NamesOwner
<1>3. NoOwner(Range(<<e>>))
  BY <1>2 DEF NoOwner
<1>4. s.log \in [Tickets -> Seq(Event)] /\ s.log[t] \in Seq(Event)
  BY Fields
<1> HIDE DEF e
<1>5. FinalLog(s) = IF s.op = "merge" THEN Logged(s.log, s.primary, <<e>>) ELSE s.log
  BY DEF FinalLog, e
<1>6. FinalLog(s)[t] \in {s.log[t], s.log[t] \o <<e>>}
  BY <1>4, <1>5 DEF Logged
<1> DEFINE q == s.log[t]
<1>7. NoOwner(Range(q)) => NoOwner(Range(q \o <<e>>))
  BY <1>2, <1>3, <1>4, OwnerAppended
<1>8. OwnerKept(r, y, q) => OwnerKept(r, y, q \o <<e>>)
  BY <1>2, <1>3, <1>4, OwnerKeptMore
<1> QED
  BY <1>6, <1>7, <1>8

\* A commit writes what is staged, on the rows it was staged for.
LEMMA CommitSerial ==
  ASSUME DeskInv, TraceInv, OneAtATime, SerialInv, NEW c \in Slots, Commit(c)
  PROVE  SerialInv' /\ (\A t \in Tickets : Follows(tickets[t], tickets'[t]))
<1> DEFINE s    == sess[c]
           l(t) == FinalLog(s)[t]
           row(t) == UpdateRow(s.read[t], s.new[t], tickets[t], s.at)
<1>1. /\ TypeOK /\ s \in Session /\ TraceStaged(s) /\ SerialStaged(s, tickets, timeline, now)
  BY DEF DeskInv, TypeOK, TraceInv, SerialInv
<1>2. /\ \A t \in Tickets : timeline[t] \in Seq(Event)
      /\ \A t \in Tickets : l(t) \in Seq(Event)
      /\ s.has \subseteq Tickets
  BY <1>1, Fields, FinalLogType DEF TypeOK
<1>3. /\ tickets' = [t \in Tickets |-> IF t \in s.has THEN row(t) ELSE tickets[t]]
      /\ timeline' = [t \in Tickets |-> timeline[t] \o l(t)]
      /\ sess' = [sess EXCEPT ![c] = Idle]
      /\ now' = now /\ s.op # "idle"
  BY DEF Commit
<1>4. \A t \in Tickets : timeline'[t] = timeline[t] \o l(t)
  BY <1>3
<1>5. ASSUME NEW t \in s.has PROVE Replaces(s.op, tickets[t], tickets'[t], l(t), now)
  <2> DEFINE r == tickets[t]
             y == s.new[t]
             z == tickets'[t]
  <2>1. t \in Tickets /\ s.read[t] = r /\ Replaces(s.op, r, y, s.log[t], now)
    BY <1>1, <1>2 DEF SerialStaged
  <2>2. z = UpdateRow(r, y, r, s.at)
    BY <1>3, <2>1
  <2>3. Replaces(s.op, r, y, l(t), now)
    <3>1. OwnerKept(r, y, s.log[t]) => OwnerKept(r, y, l(t))
      BY <1>1, <2>1, FinalLogOwner
    <3> QED
      BY <2>1, <3>1 DEF Replaces
  <2> HIDE DEF r, y, z, l, s
  <2>4. /\ Promised(z) = Promised(y)
        /\ z.status = y.status /\ z.assigned_to = y.assigned_to
        /\ z.work_time_seconds = y.work_time_seconds
        /\ z.last_opened_at = y.last_opened_at
    BY <2>2, WrittenAsStaged
  <2>5. Replaces(s.op, r, z, l(t), now)
    BY <2>3, <2>4, ReplacedAsStaged
  <2> QED
    BY <2>5 DEF r, z
<1>6. ASSUME NEW t \in Tickets \ s.has
      PROVE  tickets'[t] = tickets[t] /\ NoOwner(Range(l(t)))
  <2>1. NoOwner(Range(s.log[t]))
    BY <1>1 DEF SerialStaged
  <2> QED
    BY <1>1, <1>3, <2>1, FinalLogOwner
<1>7. s.op \in Handlers
  BY <1>1, <1>3 DEF TraceStaged
<1> HIDE DEF s, l, row
<1>8. \A t \in Tickets : Follows(tickets[t], tickets'[t])
  BY <1>5, <1>6 DEF Replaces, Follows
<1>9. \A t \in Tickets : Fits(tickets'[t], now)
  <2>1. \A t \in Tickets : Fits(tickets[t], now)
    BY DEF SerialInv, SerialTables
  <2> QED
    BY <1>5, <1>6, <2>1 DEF Replaces
<1>10. ASSUME ClocksKept, NEW t \in Tickets PROVE Clocked(tickets'[t])
  <2>1. Clocked(tickets[t]) /\ s.op \notin {"merge", "bulk_assign"}
    BY <1>7, <1>10 DEF SerialInv, SerialTables, ClocksKept
  <2> QED
    BY <1>5, <1>6, <2>1 DEF Replaces
<1>11. ASSUME "bulk_assign" \notin Handlers, NEW t \in Tickets, tickets'[t].assigned_to # None
       PROVE  LastOwner(timeline'[t], tickets'[t].assigned_to)
  <2> DEFINE o == tickets'[t].assigned_to
             q == timeline[t]
  <2>1. q \in Seq(Event) /\ l(t) \in Seq(Event) /\ timeline'[t] = q \o l(t)
    BY <1>2, <1>4
  <2>2. OwnerKept(tickets[t], tickets'[t], l(t))
    <3>1. CASE t \in s.has
      BY <1>5, <1>7, <1>11, <3>1 DEF Replaces
    <3>2. CASE t \notin s.has
      BY <1>6, <3>2 DEF OwnerKept
    <3> QED
      BY <3>1, <3>2
  <2>3. CASE LastOwner(l(t), o)
    <3> HIDE DEF o, q
    <3> QED
      BY <2>1, <2>3, OwnerAppended DEF o
  <2>4. CASE o = tickets[t].assigned_to /\ NoOwner(Range(l(t)))
    <3>1. LastOwner(q, o)
      BY <1>11, <2>4 DEF SerialInv, SerialTables
    <3> HIDE DEF o, q
    <3> QED
      BY <2>1, <2>4, <3>1, OwnerAppended DEF o
  <2> QED
    BY <1>11, <2>2, <2>3, <2>4 DEF OwnerKept
<1>12. SerialTables(tickets', timeline', now)
  BY <1>9, <1>10, <1>11 DEF SerialTables
<1>13. \A d \in Slots : sess'[d] = Idle
  BY <1>1, <1>3 DEF TypeOK, OneAtATime
<1> HIDE DEF OneAtATime
<1>14. \A d \in Slots : SerialStaged(sess'[d], tickets', timeline', now')
  BY <1>13, IdleSerial
<1> QED
  BY <1>3, <1>8, <1>12, <1>14 DEF SerialInv

\* As time passes nothing that is staged or stored goes wrong.
LEMMA TickSerial ==
  ASSUME DeskInv, SerialInv, Tick
  PROVE  SerialInv'
<1>1. /\ now \in Nat /\ now' = now + 1
      /\ tickets' = tickets /\ timeline' = timeline /\ sess' = sess
      /\ \A t \in Tickets : tickets[t] \in Row
  BY TicketRowType DEF DeskInv, TypeOK, Tick
<1>2. \A t \in Tickets : Fits(tickets[t], now)
  BY DEF SerialInv, SerialTables
<1>3. ASSUME NEW r \in Row, Fits(r, now) PROVE Fits(r, now')
  <2>1. r.last_opened_at \in Nat \cup {None} /\ r.work_time_seconds \in Nat
    BY Columns DEF Time
  <2> QED
    BY <1>1, <1>3, <2>1 DEF Fits
<1>4. SerialTables(tickets', timeline', now')
  BY <1>1, <1>2, <1>3 DEF SerialInv, SerialTables
<1>5. ASSUME NEW c \in Slots PROVE SerialStaged(sess[c], tickets, timeline, now')
  <2> DEFINE s == sess[c]
  <2>1. SerialStaged(s, tickets, timeline, now) /\ s \in Session
    BY DEF SerialInv, DeskInv, TypeOK
  <2> HIDE DEF s
  <2>2. ASSUME NEW t \in s.has
        PROVE  s.read[t] = tickets[t] /\ Replaces(s.op, tickets[t], s.new[t], s.log[t], now')
    <3>1. t \in Tickets /\ s.new[t] \in Row
      BY <2>1, Fields
    <3>2. Replaces(s.op, tickets[t], s.new[t], s.log[t], now) /\ s.read[t] = tickets[t]
      BY <2>1 DEF SerialStaged
    <3>3. Fits(s.new[t], now')
      BY <1>2, <1>3, <3>1, <3>2 DEF Replaces
    <3> QED
      BY <3>2, <3>3 DEF Replaces
  <2> QED
    BY <2>1, <2>2 DEF SerialStaged, s
<1> QED
  BY <1>1, <1>4, <1>5 DEF SerialInv

-----------------------------------------------------------------------------
(* The invariant.                                                           *)

\* A created row has no work time, and its first event names its owner.
LEMMA InitSerial == Init => SerialInv
<1> SUFFICES ASSUME Init PROVE SerialInv
  OBVIOUS
<1>1. ASSUME NEW r \in CreatedRows
      PROVE  /\ r.work_time_seconds = 0 /\ r.last_opened_at = None
             /\ r \notin FollowupRows => r.status = "new"
  BY DEF CreatedRows, PortalRows, EmployeeRequestRow, CallTicketRow, FollowupRows, BlankRow
<1>2. now = 0 /\ \A t \in Tickets : /\ tickets[t] \in InitialRows
                                    /\ tickets[t] \in CreatedRows
                                    /\ timeline[t] = <<CreatedEvent(tickets[t])>>
  BY DeskAssumption DEF Init
<1>3. ASSUME NEW t \in Tickets PROVE Fits(tickets[t], now)
  <2>1. tickets[t].work_time_seconds = 0 /\ tickets[t].last_opened_at = None /\ now = 0
    BY <1>1, <1>2
  <2> QED
    BY <2>1 DEF Fits
<1>4. ASSUME ClocksKept, NEW t \in Tickets PROVE Clocked(tickets[t])
  <2>1. tickets[t] \notin FollowupRows
    BY <1>2, <1>4 DEF ClocksKept
  <2>2. tickets[t].status = "new" /\ tickets[t].last_opened_at = None
    BY <1>1, <1>2, <2>1
  <2> QED
    BY <2>2 DEF Clocked
<1>5. ASSUME NEW t \in Tickets PROVE LastOwner(timeline[t], tickets[t].assigned_to)
  <2> DEFINE e == CreatedEvent(tickets[t])
  <2>1. NamesOwner(e) /\ e.to = tickets[t].assigned_to /\ timeline[t] = <<e>>
    BY <1>2 DEF CreatedEvent, NamesOwner
  <2> HIDE DEF e
  <2> QED
    BY <2>1, OneNamed
<1>6. \A c \in Slots : SerialStaged(sess[c], tickets, timeline, now)
  <2>1. \A c \in Slots : sess[c] = Idle
    BY DEF Init
  <2> QED
    BY <2>1, IdleSerial
<1> QED
  BY <1>3, <1>4, <1>5, <1>6 DEF SerialInv, SerialTables

\* Every request of an agent keeps the invariant.
LEMMA AgentRequestSerial ==
  ASSUME DeskInv, OneAtATime, SerialInv, NEW c \in Slots, NEW a \in Agents,
         AgentRequest(c, a)
  PROVE  SerialInv'
<1>1. {"resolved", "closed"} \subseteq Statuses
  BY DEF Statuses
<1>2. ASSUME NEW t \in Tickets,
             \/ \E s \in Statuses : ChangeStatus(c, a, t, s)
             \/ Resolve(c, a, t)
             \/ Close(c, a, t)
      PROVE  SerialInv'
  BY <1>1, <1>2, SetStatusSerial DEF ChangeStatus, Resolve, Close
<1>3. ASSUME NEW t \in Tickets,
             \/ \E type \in {"reply_external", "reply_internal"} : Reply(c, a, t, type)
             \/ \E p \in Priorities : UpdatePriority(c, a, t, p)
             \/ PauseSla(c, a, t)
             \/ ResumeSla(c, a, t)
      PROVE  SerialInv'
  BY <1>3, KeptSerial
<1>4. ASSUME NEW t \in Tickets, NEW owner \in Agents \cup {None}, NEW queue \in {"main", "specialized"},
             ReturnTo(c, a, t, owner, queue)
      PROVE  SerialInv'
  BY <1>4, HandOverSerial
<1>5. ASSUME NEW t \in Tickets,
             \/ Claim(c, a, t)
             \/ \E b \in Agents : Transfer(c, a, t, b)
             \/ Escalate(c, a, t)
      PROVE  SerialInv'
  BY <1>5, ClaimSerial, HandOverSerial
<1>6. ASSUME NEW t \in Tickets,
             \/ \E q \in Queues : ReturnToQueue(c, a, t, q)
             \/ \E b \in Agents : ReturnToAgent(c, a, t, b)
      PROVE  SerialInv'
  BY <1>4, <1>6 DEF ReturnToQueue, ReturnToAgent
<1>7. ASSUME NEW t \in Tickets, ReturnToEscalator(c, a, t) PROVE SerialInv'
  <2>1. PICK b \in LatestEscalators(t) \ {None} : ReturnTo(c, a, t, b, "main")
    BY <1>7 DEF ReturnToEscalator
  <2>2. b \in Agents
    <3>1. timeline[t] \in Seq(Event)
      BY TicketRowType DEF DeskInv
    <3>2. \A i \in DOMAIN timeline[t] : timeline[t][i] \in Event
      BY <3>1
    <3>3. \A i \in DOMAIN timeline[t] : timeline[t][i].actor \in Agents \cup {None}
      BY <3>2 DEF Event
    <3> QED
      BY <2>1, <3>3 DEF LatestEscalators
  <2> QED
    BY <1>4, <2>1, <2>2
<1>8. ASSUME NEW S \in SUBSET Tickets,
             \/ \E p \in Tickets : Merge(c, a, p, S)
             \/ \E b \in Agents : BulkReassign(c, a, S, b)
             \/ \E q \in Queues : BulkMoveToQueue(c, a, S, q)
             \/ \E b \in Agents : BulkAssign(c, a, S, b)
      PROVE  SerialInv'
  BY <1>8, StartManySerial
<1> QED
  BY <1>2, <1>3, <1>5, <1>6, <1>7, <1>8, AutoBalanceSerial DEF AgentRequest

\* Every step keeps the invariant.
LEMMA NextSerial == OneAtATime /\ DeskInv /\ TraceInv /\ SerialInv /\ [Next]_vars => SerialInv'
<1> SUFFICES ASSUME OneAtATime, DeskInv, TraceInv, SerialInv, [Next]_vars PROVE SerialInv'
  OBVIOUS
<1>1. Sessions \subseteq Slots /\ Workers \subseteq Slots
  BY DEF Slots
<1>2. ASSUME NEW c \in Sessions, WebStep(c) PROVE SerialInv'
  BY <1>1, <1>2, AgentRequestSerial, KeptSerial, MergeChildSerial, BulkMoveSerial,
     BulkAssignSerial DEF WebStep
<1>3. ASSUME NEW w \in Workers, WorkerStep(w) PROVE SerialInv'
  BY <1>1, <1>3, BreachSerial, AutoResolveSerial, AutoResolveCheckSerial, AutoArchiveSerial
     DEF WorkerStep
<1>4. ASSUME NEW c \in Slots, Rollback(c) PROVE SerialInv'
  BY <1>4, IdleSerial, BeginSerial DEF Rollback
<1>5. CASE UNCHANGED vars
  BY <1>5 DEF vars, SerialInv
<1> QED
  BY <1>2, <1>3, <1>4, <1>5, CommitSerial, TickSerial DEF Next

\* With one slot the three invariants hold of every reachable state.
LEMMA AlwaysSerial == OneAtATime /\ Spec => [](DeskInv /\ TraceInv /\ SerialInv)
<1> SUFFICES ASSUME OneAtATime PROVE Spec => [](DeskInv /\ TraceInv /\ SerialInv)
  OBVIOUS
<1>1. Init => SerialInv
  BY InitSerial
<1>2. DeskInv /\ TraceInv /\ SerialInv /\ [Next]_vars => SerialInv'
  BY NextSerial
<1> QED
  BY <1>1, <1>2, AlwaysTraced, PTL DEF Spec

-----------------------------------------------------------------------------
(* The theorems.                                                            *)

\* With sessions one after the other no stretch of time is counted twice: the
\* work time of a ticket, with the stretch that is running, fits in the time
\* that has passed (accumulate_work_time, change_ticket_status).
THEOREM WorkTimeIsBounded == OneAtATime /\ Spec => []WorkTimeFits
<1>1. DeskInv /\ SerialInv => WorkTimeFits
  BY DEF SerialInv, SerialTables, WorkTimeFits, Fits
<1> QED
  BY <1>1, AlwaysSerial, PTL

\* Iron Rule 2: where no merge, no bulk assign and no follow-up ticket bypasses
\* change_ticket_status, the work clock runs exactly while a ticket is open.
THEOREM ClockIsRight == OneAtATime /\ ClocksKept /\ Spec => []ClockFollowsStatus
<1> SUFFICES ASSUME OneAtATime, ClocksKept PROVE Spec => []ClockFollowsStatus
  OBVIOUS
<1>1. SerialInv => ClockFollowsStatus
  BY DEF SerialInv, SerialTables, ClockFollowsStatus, Clocked
<1> QED
  BY <1>1, AlwaysSerial, PTL

\* Where the bulk assign that logs nothing does not run, the latest event that
\* names an owner names the owner of the row.
THEOREM OwnerIsTheLatestNamed ==
  OneAtATime /\ "bulk_assign" \notin Handlers /\ Spec => []OwnerIsLatest
<1> SUFFICES ASSUME OneAtATime, "bulk_assign" \notin Handlers PROVE Spec => []OwnerIsLatest
  OBVIOUS
<1>1. DeskInv /\ SerialInv => OwnerIsLatest
  <2> SUFFICES ASSUME DeskInv, SerialInv, NEW t \in Tickets, tickets[t].assigned_to # None
               PROVE  LatestOwnerEvent(t) = tickets[t].assigned_to
    BY DEF OwnerIsLatest
  <2>1. timeline[t] \in Seq(Event)
    BY DEF DeskInv, TypeOK
  <2>2. LastOwner(timeline[t], tickets[t].assigned_to)
    BY DEF SerialInv, SerialTables
  <2> QED
    BY <2>1, <2>2, LatestIsLast
<1> QED
  BY <1>1, AlwaysSerial, PTL

\* When a merge commits, no public reply of a ticket it closes is missing from
\* the primary (merge_tickets).
THEOREM MergesKeepReplies == OneAtATime /\ Spec => MergeKeepsReplies
<1>1. ASSUME DeskInv, SerialInv, NEW c \in Slots, Committing(c, "merge"), NEW t \in sess[c].has,
             NEW e \in Range(timeline[t]), e.type \in {"reply_external", "reply_customer"}
      PROVE  e \in Range(timeline'[sess[c].primary])
  <2> DEFINE s == sess[c]
             p == s.primary
             l == FinalLog(s)[p]
  <2>1. s.op = "merge" /\ Commit(c) /\ s \in Session /\ IsPublicReply(e)
    BY <1>1 DEF Committing, DeskInv, TypeOK, IsPublicReply
  <2>2. p \in Tickets /\ e \in Range(s.log[p])
    BY <1>1, <2>1 DEF SerialInv, SerialStaged
  <2>3. e \in Range(l)
    BY <2>1, <2>2, FinalLogTrace
  <2>4. timeline'[p] = timeline[p] \o l
    BY <2>1, <2>2 DEF Commit
  <2>5. timeline[p] \in Seq(Event) /\ l \in Seq(Event)
    BY <1>1, <2>1, <2>2, FinalLogType DEF DeskInv, TypeOK
  <2> HIDE DEF l, p, s
  <2>6. e \in Range(timeline[p] \o l)
    BY <2>3, <2>5, RangeFacts
  <2> QED
    BY <2>4, <2>6 DEF p, s
<1>2. DeskInv /\ SerialInv /\ [Next]_vars =>
        [\A c \in Slots : Committing(c, "merge") =>
            \A t \in sess[c].has : \A e \in Range(timeline[t]) :
               e.type \in {"reply_external", "reply_customer"} =>
                  e \in Range(timeline'[sess[c].primary])]_vars
  BY <1>1
<1> QED
  BY <1>2, AlwaysSerial, PTL DEF Spec, MergeKeepsReplies

-----------------------------------------------------------------------------
(* TicketDesk implements TicketLifecycle.                                   *)

\* A request stages rows and writes none.
LEMMA RequestsStage ==
  ASSUME NEW c, NEW a, AgentRequest(c, a)
  PROVE  tickets' = tickets
<1>1. ASSUME NEW s, Begin(c, s) PROVE tickets' = tickets
  BY <1>1 DEF Begin
<1> DEFINE Writes == tickets' # tickets
<1>2. ASSUME NEW t, \/ Claim(c, a, t)
                    \/ \E s \in Statuses : ChangeStatus(c, a, t, s)
                    \/ Resolve(c, a, t)
                    \/ Close(c, a, t)
                    \/ \E b \in Agents : Transfer(c, a, t, b)
      PROVE  ~Writes
  BY <1>1, <1>2 DEF Claim, ChangeStatus, Resolve, Close, SetStatus, Transfer
<1>3. ASSUME NEW t, \/ \E type \in {"reply_external", "reply_internal"} : Reply(c, a, t, type)
                    \/ \E p \in Priorities : UpdatePriority(c, a, t, p)
                    \/ Escalate(c, a, t)
                    \/ PauseSla(c, a, t)
                    \/ ResumeSla(c, a, t)
      PROVE  ~Writes
  BY <1>1, <1>3 DEF Reply, UpdatePriority, Escalate, PauseSla, ResumeSla
<1>4. ASSUME NEW t, \/ \E q \in Queues : ReturnToQueue(c, a, t, q)
                    \/ ReturnToEscalator(c, a, t)
                    \/ \E b \in Agents : ReturnToAgent(c, a, t, b)
      PROVE  ~Writes
  BY <1>1, <1>4 DEF ReturnToQueue, ReturnToEscalator, ReturnToAgent, ReturnTo
<1>5. ASSUME NEW S, \/ \E p \in Tickets : Merge(c, a, p, S)
                    \/ \E b \in Agents : BulkReassign(c, a, S, b)
                    \/ \E q \in Queues : BulkMoveToQueue(c, a, S, q)
                    \/ \E b \in Agents : BulkAssign(c, a, S, b)
      PROVE  ~Writes
  BY <1>1, <1>5 DEF Merge, BulkReassign, BulkMoveToQueue, BulkAssign
<1>6. ASSUME AutoBalance(c, a) PROVE ~Writes
  BY <1>1, <1>6 DEF AutoBalance
<1> QED
  BY <1>2, <1>3, <1>4, <1>5, <1>6 DEF AgentRequest

\* Only a commit and the archive task write rows.
LEMMA OnlyCommitsWrite ==
  ASSUME [Next]_vars
  PROVE  \/ tickets' = tickets
         \/ \E c \in Slots : Commit(c)
         \/ \E w \in Workers : AutoArchive(w)
<1>1. ASSUME NEW c, NEW s, Begin(c, s) PROVE tickets' = tickets
  BY <1>1 DEF Begin
<1>2. ASSUME NEW c \in Sessions, NEW t, CustomerReply(c, t) \/ MergeChild(c, t)
                                        \/ BulkMoveNext(c, t) \/ BulkAssignNext(c, t)
      PROVE  tickets' = tickets
  BY <1>1, <1>2 DEF CustomerReply, MergeChild, BulkMoveNext, BulkAssignNext, Extend
<1>3. ASSUME NEW c \in Sessions, WebStep(c) PROVE tickets' = tickets
  BY <1>2, <1>3, RequestsStage DEF WebStep
<1>4. ASSUME NEW w \in Workers, WorkerStep(w), ~AutoArchive(w) PROVE tickets' = tickets
  BY <1>1, <1>4 DEF WorkerStep, CheckSlaBreaches, AutoResolve, AutoResolveCheck
<1>5. ASSUME NEW c \in Slots, Rollback(c) PROVE tickets' = tickets
  BY <1>5 DEF Rollback, Begin
<1>6. ASSUME Tick \/ UNCHANGED vars PROVE tickets' = tickets
  BY <1>6 DEF Tick, vars
<1> QED
  BY <1>3, <1>4, <1>5, <1>6 DEF Next

\* A created row is one the lifecycle starts from.
LEMMA InitLifecycle == Init => Lifecycle!Init
<1> SUFFICES ASSUME Init, NEW t \in Tickets
             PROVE  /\ tickets[t].status \in {"new", "open"}
                    /\ tickets[t].status = "open" <=> tickets[t].assigned_to # None
                    /\ tickets[t].reopen_count = 0 /\ ~tickets[t].sla_breached
  BY DEF Lifecycle!Init, Promised
<1>1. tickets[t] \in CreatedRows
  BY DeskAssumption DEF Init
<1>2. ASSUME NEW r \in CreatedRows PROVE r.reopen_count = 0 /\ ~r.sla_breached
  BY <1>2 DEF CreatedRows, PortalRows, EmployeeRequestRow, CallTicketRow, FollowupRows, BlankRow
<1>3. ASSUME NEW r \in CreatedRows \ FollowupRows PROVE r.status = "new" /\ r.assigned_to = None
  BY <1>3 DEF CreatedRows, PortalRows, EmployeeRequestRow, CallTicketRow, BlankRow
<1>4. ASSUME NEW r \in FollowupRows PROVE r.status = "open" /\ r.assigned_to # None
  <2>1. PICK a \in Agents : r = [CallTicketRow EXCEPT !.status = "open", !.assigned_to = a]
    BY <1>4 DEF FollowupRows
  <2>2. r.status = "open" /\ r.assigned_to = a
    BY <2>1 DEF CallTicketRow, BlankRow
  <2> QED
    BY <2>2, NoneAssumption
<1> QED
  BY <1>1, <1>2, <1>3, <1>4

\* A step of the desk is a step of the lifecycle for each ticket it changes.
LEMMA StepLifecycle ==
  OneAtATime /\ DeskInv /\ TraceInv /\ SerialInv /\ [Next]_vars =>
      [Lifecycle!Next]_([t \in Tickets |-> Promised(tickets[t])])
<1> SUFFICES ASSUME OneAtATime, DeskInv, TraceInv, SerialInv, [Next]_vars
             PROVE  [Lifecycle!Next]_([t \in Tickets |-> Promised(tickets[t])])
  OBVIOUS
<1>1. \A t \in Tickets : Follows(tickets[t], tickets'[t])
  <2>1. CASE tickets' = tickets
    BY <2>1 DEF Follows
  <2>2. CASE \E c \in Slots : Commit(c)
    BY <2>2, CommitSerial
  <2>3. CASE \E w \in Workers : AutoArchive(w)
    BY <2>3, AutoArchiveSerial DEF Slots
  <2> QED
    BY <2>1, <2>2, <2>3, OnlyCommitsWrite
<1> QED
  BY <1>1 DEF Follows, Lifecycle!Next

\* The desk, its sessions one after the other, is an implementation of the
\* lifecycle: every row it creates is one the lifecycle starts from, and every
\* commit, of one request or of a bulk one, and every sweep moves each ticket
\* along the lifecycle or leaves alone what is promised of it.
THEOREM DeskKeepsLifecycle == OneAtATime /\ Spec => KeepsLifecycle
<1> SUFFICES ASSUME OneAtATime PROVE Spec => KeepsLifecycle
  OBVIOUS
<1>1. Init => Lifecycle!Init
  BY InitLifecycle
<1>2. DeskInv /\ TraceInv /\ SerialInv /\ [Next]_vars =>
        [Lifecycle!Next]_([t \in Tickets |-> Promised(tickets[t])])
  BY StepLifecycle
<1> QED
  BY <1>1, <1>2, AlwaysSerial, PTL DEF Spec, KeepsLifecycle, Lifecycle!Spec
=============================================================================
