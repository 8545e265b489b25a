------------------------- MODULE TicketClock_proofs -------------------------
(***************************************************************************)
(* What the SLA clock of a ticket keeps when the sessions of the desk run   *)
(* one after the other: proof that a deadline has moved by the closed       *)
(* pauses of its ticket and by nothing else.                                *)
(***************************************************************************)
EXTENDS TicketSerial_proofs, Induction

\* The open rows of a sequence of pause rows, and the lengths of the others.
OpenRows(q)     == {i \in DOMAIN q : q[i].resumed_at = None}
PauseLengths(q) == [i \in DOMAIN q \ OpenRows(q) |-> q[i].resumed_at - q[i].paused_at]

\* The deadline and the pause column of r are what the pause rows q account
\* for, and at most one of these is open.
Accounts(r, q) ==
  /\ r.sla_deadline # None => r.sla_deadline = SlaBudget + SumOf(PauseLengths(q))
  /\ OpenRows(q) = {} <=> r.sla_paused_at = None
  /\ \A i \in OpenRows(q) : q[i].paused_at = r.sla_paused_at
  /\ \A i, j \in OpenRows(q) : i = j

\* A staged resume closes the open row of its ticket.
ResumeFound(s, rows) ==
  s.op = "resume_sla" => \E t \in s.has : \E i \in OpenRows(rows[t]) : s.upd = <<t, i>>

\* The inductive invariant, relative to DeskInv and SerialInv.
ClockInv ==
  /\ \A t \in Tickets : Accounts(tickets[t], pauses[t])
  /\ \A c \in Slots : ResumeFound(sess[c], pauses)

-----------------------------------------------------------------------------
(* A row and its pause rows.                                                *)

\* The sum of the closed pauses is a number.
LEMMA LengthsType ==
  ASSUME NEW q \in Seq(PauseRow)
  PROVE  /\ PauseLengths(q) \in [DOMAIN q \ OpenRows(q) -> Int]
         /\ DOMAIN q = 1..Len(q) /\ Len(q) \in Nat
         /\ \A i \in DOMAIN q : q[i] \in PauseRow
<1>1. /\ DOMAIN q = 1..Len(q) /\ Len(q) \in Nat
      /\ \A i \in DOMAIN q : q[i] \in PauseRow
  OBVIOUS
<1>2. ASSUME NEW i \in DOMAIN q \ OpenRows(q) PROVE q[i].resumed_at - q[i].paused_at \in Int
  BY <1>1 DEF OpenRows, PauseRow, Time
<1> QED
  BY <1>1, <1>2 DEF PauseLengths

\* A row that keeps the two columns keeps the account.
LEMMA KeptAccounts ==
  ASSUME NEW r, NEW y, NEW q, Accounts(r, q), SameClock(r, y)
  PROVE  Accounts(y, q)
BY DEF Accounts, SameClock

\* A pause row is opened for a ticket that had none (pause_sla).
LEMMA PauseAccounts ==
  ASSUME NEW r, NEW y, NEW q \in Seq(PauseRow), NEW at \in Nat,
         Accounts(r, q), r.sla_paused_at = None,
         y.sla_paused_at = at, y.sla_deadline = r.sla_deadline
  PROVE  Accounts(y, Append(q, [paused_at |-> at, resumed_at |-> None]))
<1> DEFINE row  == [paused_at |-> at, resumed_at |-> None]
           p    == Append(q, row)
           last == Len(q) + 1
<1>1. row \in PauseRow /\ row.paused_at = at /\ row.resumed_at = None
  BY DEF PauseRow, Time
<1> HIDE DEF row
<1>2. /\ DOMAIN q = 1..Len(q) /\ Len(q) \in Nat
      /\ DOMAIN p = 1..last /\ p[last] = row /\ \A i \in DOMAIN q : p[i] = q[i]
  BY <1>1, AppendProperties
<1>3. OpenRows(q) = {} /\ \A i \in DOMAIN q : q[i].resumed_at # None
  BY DEF Accounts, OpenRows
<1> HIDE DEF p
<1>4. DOMAIN p = DOMAIN q \cup {last} /\ last \notin DOMAIN q
  BY <1>2
<1>5. OpenRows(p) = {last}
  BY <1>1, <1>2, <1>3, <1>4 DEF OpenRows
<1>6. PauseLengths(p) = PauseLengths(q)
  <2>1. DOMAIN p \ OpenRows(p) = DOMAIN q \ OpenRows(q)
    BY <1>3, <1>4, <1>5
  <2> QED
    BY <1>2, <2>1 DEF PauseLengths
<1>7. at # None
  BY NoneAssumption
<1>8. Accounts(y, p)
  BY <1>1, <1>2, <1>5, <1>6, <1>7 DEF Accounts
<1> QED
  BY <1>8 DEF p, row

\* Closing the open row adds its length to the sum, and the resume the same
\* length to the deadline (resume_sla).
LEMMA ResumeAccounts ==
  ASSUME NEW r \in Row, NEW y, NEW q \in Seq(PauseRow), NEW at \in Nat, NEW k \in OpenRows(q),
         Accounts(r, q), r.sla_paused_at # None, at > r.sla_paused_at,
         y.sla_paused_at = None, y.sla_deadline = Extended(r, at)
  PROVE  Accounts(y, [q EXCEPT ![k].resumed_at = at])
<1> DEFINE row == [q[k] EXCEPT !.resumed_at = at]
           p   == [q EXCEPT ![k] = row]
           D   == DOMAIN q \ OpenRows(q)
           f   == PauseLengths(q)
           g   == PauseLengths(p)
<1>1. /\ k \in DOMAIN q /\ q[k] \in PauseRow /\ q[k].paused_at = r.sla_paused_at
      /\ OpenRows(q) = {k}
  BY LengthsType DEF Accounts, OpenRows
<1>2. row \in PauseRow /\ row.resumed_at = at /\ row.paused_at = r.sla_paused_at
  BY <1>1 DEF PauseRow, Time
<1> HIDE DEF row
<1>3. p \in Seq(PauseRow)
  BY <1>1, <1>2, ExceptSeq
<1>4. DOMAIN p = DOMAIN q /\ p[k] = row /\ \A i \in DOMAIN q \ {k} : p[i] = q[i]
  BY <1>1
<1> HIDE DEF p
<1>5. at # None
  BY NoneAssumption
<1>6. OpenRows(p) = {}
  BY <1>1, <1>2, <1>4, <1>5 DEF OpenRows
<1>7. /\ D \in SUBSET (1..Len(q)) /\ k \in 1..Len(q) /\ k \notin D /\ Len(q) \in Nat
      /\ D \cup {k} = DOMAIN p \ OpenRows(p)
  BY <1>1, <1>4, <1>6, LengthsType
<1>8. f \in [D -> Int]
  BY LengthsType
<1>9. g \in [D \cup {k} -> Int]
  BY <1>3, <1>7, LengthsType
<1>10. g[k] = at - r.sla_paused_at
  BY <1>2, <1>4, <1>7 DEF PauseLengths
<1>11. ASSUME NEW i \in D PROVE g[i] = f[i]
  <2>1. i \in DOMAIN p \ OpenRows(p) /\ p[i] = q[i]
    BY <1>1, <1>4, <1>6
  <2> QED
    BY <2>1 DEF PauseLengths
<1> HIDE DEF f, g, D
<1>12. SumOf(g) = SumOf(f) + g[k] /\ SumOf(f) \in Int
  BY <1>7, <1>8, <1>9, <1>11, SumExtends
<1>13. r.sla_deadline # None => r.sla_deadline = SlaBudget + SumOf(f)
  BY DEF Accounts, f
<1>14. y.sla_deadline # None => y.sla_deadline = SlaBudget + SumOf(g)
  <2>1. r.sla_deadline \in Nat \cup {None} /\ r.sla_paused_at \in Nat /\ SlaBudget \in Nat
    BY Columns, BudgetAssumption DEF Time
  <2> QED
    BY <1>10, <1>12, <1>13, <2>1 DEF Extended
<1>15. Accounts(y, p)
  BY <1>6, <1>14 DEF Accounts, g
<1> QED
  BY <1>15 DEF p, row

-----------------------------------------------------------------------------
(* The steps.                                                               *)

\* The step writes no row and no pause row, and stages no resume.
StagesNoResume ==
  /\ tickets' = tickets /\ pauses' = pauses
  /\ \A c \in Slots : sess'[c].op = "resume_sla" => sess'[c] = sess[c]

LEMMA BeginNoResume ==
  ASSUME TypeOK, NEW c \in Slots, NEW s, s.op # "resume_sla", Begin(c, s)
  PROVE  StagesNoResume
BY DEF TypeOK, Begin, StagesNoResume

\* The handler of a staged session.
LEMMA StagedOp ==
  /\ Idle.op # "resume_sla"
  /\ \A op, a, t, row, events : Staged(op, a, t, row, events).op = op
  /\ \A op, a, has, read, new, log, todo : Opened(op, a, has, read, new, log, todo).op = op
  /\ \A op, a, S, x, y :
        /\ [ManySession(op, a, S) EXCEPT !.primary = x].op = op
        /\ [ManySession(op, a, S) EXCEPT !.owner = x].op = op
        /\ [ManySession(op, a, S) EXCEPT !.queue = x].op = op
        /\ [ManySession(op, a, S) EXCEPT !.owner = x, !.queue = y].op = op
<1>1. Idle.op # "resume_sla"
  BY DEF Idle
<1>2. \A op, a, t, row, events : Staged(op, a, t, row, events).op = op
  BY DEF Staged, Opened
<1>3. \A op, a, has, read, new, log, todo : Opened(op, a, has, read, new, log, todo).op = op
  BY DEF Opened
<1>4. ASSUME NEW op, NEW a, NEW S, NEW x, NEW y
      PROVE  /\ [ManySession(op, a, S) EXCEPT !.primary = x].op = op
             /\ [ManySession(op, a, S) EXCEPT !.owner = x].op = op
             /\ [ManySession(op, a, S) EXCEPT !.queue = x].op = op
             /\ [ManySession(op, a, S) EXCEPT !.owner = x, !.queue = y].op = op
  BY DEF ManySession, Opened
<1> QED
  BY <1>1, <1>2, <1>3, <1>4

LEMMA RequestNoResume ==
  ASSUME TypeOK, NEW c \in Slots, NEW a, AgentRequest(c, a),
         ~ \E t \in Tickets : ResumeSla(c, a, t)
  PROVE  StagesNoResume
<1>1. ASSUME NEW t, \/ Claim(c, a, t)
                    \/ \E s \in Statuses : ChangeStatus(c, a, t, s)
                    \/ Resolve(c, a, t)
                    \/ Close(c, a, t)
                    \/ \E b \in Agents : Transfer(c, a, t, b)
      PROVE  StagesNoResume
  <2>1. \E op \in {"claim", "change_status", "resolve", "close", "transfer"} : \E row, events :
          Begin(c, Staged(op, a, t, row, events))
    BY <1>1 DEF Claim, ChangeStatus, Resolve, Close, SetStatus, Transfer
  <2> QED
    BY <2>1, StagedOp, BeginNoResume
<1>2. ASSUME NEW t, \/ \E type \in {"reply_external", "reply_internal"} : Reply(c, a, t, type)
                    \/ \E p \in Priorities : UpdatePriority(c, a, t, p)
                    \/ Escalate(c, a, t)
      PROVE  StagesNoResume
  <2>1. \E op \in {"reply", "update_priority", "escalate"} : \E row, events :
          Begin(c, Staged(op, a, t, row, events))
    BY <1>2 DEF Reply, UpdatePriority, Escalate
  <2> QED
    BY <2>1, StagedOp, BeginNoResume
<1>3. ASSUME NEW t, PauseSla(c, a, t) PROVE StagesNoResume
  <2> DEFINE s == [Staged("pause_sla", a, t, PauseTicket(tickets[t], now),
                          <<Ev("sla_paused", a, None)>>) EXCEPT !.ins = t]
  <2>1. s.op = "pause_sla" /\ Begin(c, s)
    BY <1>3 DEF PauseSla, Staged, Opened
  <2> HIDE DEF s
  <2> QED
    BY <2>1, BeginNoResume
<1>4. ASSUME NEW t, \/ \E q \in Queues : ReturnToQueue(c, a, t, q)
                    \/ ReturnToEscalator(c, a, t)
                    \/ \E b \in Agents : ReturnToAgent(c, a, t, b)
      PROVE  StagesNoResume
  <2>1. \E owner, queue : ReturnTo(c, a, t, owner, queue)
    BY <1>4 DEF ReturnToQueue, ReturnToEscalator, ReturnToAgent
  <2> QED
    BY <2>1, StagedOp, BeginNoResume DEF ReturnTo
<1>5. ASSUME NEW S, \/ \E p \in Tickets : Merge(c, a, p, S)
                    \/ \E b \in Agents : BulkReassign(c, a, S, b)
                    \/ \E q \in Queues : BulkMoveToQueue(c, a, S, q)
                    \/ \E b \in Agents : BulkAssign(c, a, S, b)
      PROVE  StagesNoResume
  <2> DEFINE Opens(op) ==
        \/ \E p : Begin(c, [ManySession(op, a, S) EXCEPT !.primary = p])
        \/ \E b : Begin(c, [ManySession(op, a, S) EXCEPT !.owner = b])
        \/ \E q : Begin(c, [ManySession(op, a, S) EXCEPT !.queue = q])
        \/ \E b, q : Begin(c, [ManySession(op, a, S) EXCEPT !.owner = b, !.queue = q])
  <2>1. \E op \in {"merge", "bulk_reassign", "bulk_move", "bulk_assign"} : Opens(op)
    BY <1>5 DEF Merge, BulkReassign, BulkMoveToQueue, BulkAssign
  <2>2. ASSUME NEW op \in {"merge", "bulk_reassign", "bulk_move", "bulk_assign"}, Opens(op)
        PROVE  StagesNoResume
    <3>1. ASSUME NEW p, Begin(c, [ManySession(op, a, S) EXCEPT !.primary = p])
          PROVE  StagesNoResume
      <4>1. [ManySession(op, a, S) EXCEPT !.primary = p].op # "resume_sla"
        BY StagedOp
      <4> QED
        BY <3>1, <4>1, BeginNoResume
    <3>2. ASSUME NEW b, Begin(c, [ManySession(op, a, S) EXCEPT !.owner = b])
          PROVE  StagesNoResume
      <4>1. [ManySession(op, a, S) EXCEPT !.owner = b].op # "resume_sla"
        BY StagedOp
      <4> QED
        BY <3>2, <4>1, BeginNoResume
    <3>3. ASSUME NEW q, Begin(c, [ManySession(op, a, S) EXCEPT !.queue = q])
          PROVE  StagesNoResume
      <4>1. [ManySession(op, a, S) EXCEPT !.queue = q].op # "resume_sla"
        BY StagedOp
      <4> QED
        BY <3>3, <4>1, BeginNoResume
    <3>4. ASSUME NEW b, NEW q, Begin(c, [ManySession(op, a, S) EXCEPT !.owner = b, !.queue = q])
          PROVE  StagesNoResume
      <4>1. [ManySession(op, a, S) EXCEPT !.owner = b, !.queue = q].op # "resume_sla"
        BY StagedOp
      <4> QED
        BY <3>4, <4>1, BeginNoResume
    <3> QED
      BY <2>2, <3>1, <3>2, <3>3, <3>4
  <2> QED
    BY <2>1, <2>2
<1>6. ASSUME AutoBalance(c, a) PROVE StagesNoResume
  <2>1. \E S, read, new, log : Begin(c, Opened("auto_balance", a, S, read, new, log, {}))
    BY <1>6 DEF AutoBalance
  <2> QED
    BY <2>1, StagedOp, BeginNoResume
<1> QED
  BY <1>1, <1>2, <1>3, <1>4, <1>5, <1>6 DEF AgentRequest

\* Only resume_sla stages a resume, and only a commit and the archive task
\* write tables.
LEMMA OnlyResumeStages ==
  ASSUME TypeOK, [Next]_vars
  PROVE  \/ StagesNoResume
         \/ \E c \in Slots, a \in Agents, t \in Tickets : ResumeSla(c, a, t)
         \/ \E c \in Slots : Commit(c)
         \/ \E w \in Workers : AutoArchive(w)
<1>1. Sessions \subseteq Slots /\ Workers \subseteq Slots
  BY DEF Slots
<1>2. ASSUME NEW c \in Slots, NEW s \in Session, s.op # "resume_sla",
             NEW has, NEW read, NEW new, NEW log, NEW todo,
             \/ Begin(c, [s EXCEPT !.todo = todo])
             \/ Begin(c, [s EXCEPT !.todo = todo, !.new = new, !.log = log])
             \/ Begin(c, [s EXCEPT !.has = has, !.read = read, !.new = new, !.log = log,
                                   !.todo = todo])
      PROVE  StagesNoResume
  <2>1. /\ [s EXCEPT !.todo = todo].op = s.op
        /\ [s EXCEPT !.todo = todo, !.new = new, !.log = log].op = s.op
        /\ [s EXCEPT !.has = has, !.read = read, !.new = new, !.log = log,
                     !.todo = todo].op = s.op
    BY DEF Session
  <2> QED
    BY <1>2, <2>1, BeginNoResume
<1>3. \A c \in Slots : sess[c] \in Session
  BY DEF TypeOK
<1>4. ASSUME NEW c \in Sessions, NEW t, \/ MergeChild(c, t) \/ BulkMoveNext(c, t)
                                        \/ BulkAssignNext(c, t)
      PROVE  StagesNoResume
  <2> DEFINE s == sess[c]
  <2>1. c \in Slots /\ s \in Session /\ s.op # "resume_sla"
    BY <1>1, <1>3, <1>4 DEF MergeChild, BulkMoveNext, BulkAssignNext
  <2>2. \/ Begin(c, [s EXCEPT !.todo = @ \ {t}])
        \/ \E row, events : Extend(c, t, row, events)
    BY <1>4 DEF MergeChild, BulkMoveNext, BulkAssignNext
  <2>3. \/ \E todo : Begin(c, [s EXCEPT !.todo = todo])
        \/ \E has, read, new, log, todo :
              Begin(c, [s EXCEPT !.has = has, !.read = read, !.new = new, !.log = log,
                                 !.todo = todo])
    BY <2>2 DEF Extend
  <2> HIDE DEF s
  <2> QED
    BY <1>2, <2>1, <2>3
<1>5. ASSUME NEW c \in Sessions, NEW t, CustomerReply(c, t) PROVE StagesNoResume
  BY <1>1, <1>5, StagedOp, BeginNoResume DEF CustomerReply
<1>6. ASSUME NEW w \in Workers, NEW t, AutoResolveCheck(w, t) PROVE StagesNoResume
  <2> DEFINE s == sess[w]
  <2>1. w \in Slots /\ s \in Session /\ s.op # "resume_sla"
    BY <1>1, <1>3, <1>6 DEF AutoResolveCheck
  <2>2. \/ \E todo : Begin(w, [s EXCEPT !.todo = todo])
        \/ \E new, log, todo : Begin(w, [s EXCEPT !.todo = todo, !.new = new, !.log = log])
    BY <1>6 DEF AutoResolveCheck
  <2> HIDE DEF s
  <2> QED
    BY <1>2, <2>1, <2>2
<1>7. ASSUME NEW w \in Workers, CheckSlaBreaches(w) \/ AutoResolve(w) PROVE StagesNoResume
  <2>1. \E op \in {"check_sla_breaches", "auto_resolve"} : \E S, read, new, log, todo :
          Begin(w, Opened(op, None, S, read, new, log, todo))
    BY <1>7 DEF CheckSlaBreaches, AutoResolve
  <2> QED
    BY <1>1, <2>1, StagedOp, BeginNoResume
<1>8. ASSUME NEW c \in Slots, Rollback(c) PROVE StagesNoResume
  BY <1>8, StagedOp, BeginNoResume DEF Rollback
<1>9. ASSUME Tick \/ UNCHANGED vars PROVE StagesNoResume
  BY <1>9 DEF Tick, vars, StagesNoResume
<1> QED
  BY <1>1, <1>4, <1>5, <1>6, <1>7, <1>8, <1>9, RequestNoResume DEF Next, WebStep, WorkerStep

\* A staged resume has found the open row: the ticket is paused, so there is one.
LEMMA ResumeClock ==
  ASSUME DeskInv, OneAtATime, ClockInv, NEW c \in Slots, NEW a \in Agents, NEW t \in Tickets,
         ResumeSla(c, a, t)
  PROVE  ClockInv'
<1> DEFINE s0 == Staged("resume_sla", a, t, ResumeTicket(tickets[t], now),
                        <<Ev("sla_resumed", a, None)>>)
<1>1. PICK p \in LatestOpenPause(t) : Begin(c, [s0 EXCEPT !.upd = p])
  BY DEF ResumeSla
<1>2. Accounts(tickets[t], pauses[t]) /\ tickets[t].sla_paused_at # None
  BY DEF ClockInv, ResumeSla
<1>3. OpenRows(pauses[t]) # {} /\ OpenPauses(t) = OpenRows(pauses[t])
  BY <1>2 DEF Accounts, OpenRows, OpenPauses
<1>4. PICK i \in OpenRows(pauses[t]) : p = <<t, i>>
  BY <1>1, <1>3 DEF LatestOpenPause
<1> DEFINE s == [s0 EXCEPT !.upd = p]
<1>5. s.has = {t} /\ s.upd = p
  BY DEF Staged, Opened
<1> HIDE DEF s, s0
<1>6. ResumeFound(s, pauses)
  BY <1>4, <1>5 DEF ResumeFound
<1>7. tickets' = tickets /\ pauses' = pauses /\ sess' = [sess EXCEPT ![c] = s]
  BY <1>1 DEF Begin, s
<1>8. \A d \in Slots : sess'[d] = s
  BY <1>7 DEF OneAtATime, DeskInv, TypeOK
<1> HIDE DEF OneAtATime
<1> QED
  BY <1>6, <1>7, <1>8 DEF ClockInv

\* What the UPDATE leaves of the two columns of a row nobody else has written.
LEMMA WrittenClock ==
  ASSUME NEW r, NEW y, NEW at
  PROVE  SameClock(y, UpdateRow(r, y, r, at))
BY DEF SameClock, UpdateRow, Written

\* A commit keeps the account of every ticket.
LEMMA CommitClock ==
  ASSUME DeskInv, OneAtATime, SerialInv, ClockInv, NEW c \in Slots, Commit(c)
  PROVE  ClockInv'
<1> DEFINE s == sess[c]
<1>1. /\ TypeOK /\ s \in Session /\ ClockStaged(s) /\ ResumeFound(s, pauses)
      /\ SerialStaged(s, tickets, timeline, now)
  BY DEF DeskInv, TypeOK, PauseStaged, SerialInv, ClockInv
<1>2. /\ s.at \in Nat /\ s.has \subseteq Tickets
      /\ \A t \in Tickets : /\ tickets[t] \in Row /\ pauses[t] \in Seq(PauseRow)
                            /\ Accounts(tickets[t], pauses[t])
  BY <1>1, Fields DEF TypeOK, ClockInv
<1>3. /\ tickets' = [t \in Tickets |-> IF t \in s.has
                        THEN UpdateRow(s.read[t], s.new[t], tickets[t], s.at) ELSE tickets[t]]
      /\ pauses' = [t \in Tickets |-> CommittedPauses(s, t)]
      /\ sess' = [sess EXCEPT ![c] = Idle]
  BY DEF Commit
<1> HIDE DEF s
<1>4. \A t \in s.has : s.read[t] = tickets[t] /\ SameClock(s.new[t], tickets'[t])
  <2> TAKE t \in s.has
  <2>1. s.read[t] = tickets[t]
    BY <1>1 DEF SerialStaged
  <2> QED
    BY <1>2, <1>3, <2>1, WrittenClock
<1>5. \A t \in Tickets \ s.has : tickets'[t] = tickets[t]
  BY <1>3
<1>6. \A t \in Tickets : pauses'[t] = CommittedPauses(s, t)
  BY <1>3
<1>7. ASSUME NEW t \in Tickets, s.ins # t, s.upd # None => s.upd[1] # t
      PROVE  pauses'[t] = pauses[t]
  BY <1>1, <1>2, <1>6, <1>7, CommittedPausesType
<1>8. ASSUME NEW t \in Tickets \ s.has, s.ins # t, s.upd # None => s.upd[1] # t
      PROVE  Accounts(tickets'[t], pauses'[t])
  BY <1>2, <1>5, <1>7, <1>8
<1>9. ASSUME NEW t \in Tickets PROVE Accounts(tickets'[t], pauses'[t])
  <2>1. CASE s.op \notin ClockHandlers
    <3>1. s.ins # t /\ s.upd = None
      BY <1>1, <2>1, NoneAssumption DEF ClockStaged
    <3>2. CASE t \in s.has
      <4>1. SameClock(s.read[t], s.new[t])
        BY <1>1, <2>1, <3>2 DEF ClockStaged
      <4>2. SameClock(tickets[t], tickets'[t])
        BY <1>4, <3>2, <4>1 DEF SameClock
      <4>3. pauses'[t] = pauses[t]
        BY <1>7, <3>1
      <4> QED
        BY <1>2, <4>2, <4>3, KeptAccounts
    <3> QED
      BY <1>8, <3>1, <3>2
  <2>2. CASE s.op = "pause_sla"
    <3>1. PICK u \in Tickets :
            /\ s.has = {u} /\ s.ins = u /\ s.upd = None
            /\ s.read[u].sla_paused_at = None
            /\ s.new[u].sla_paused_at = s.at
            /\ s.new[u].sla_deadline = s.read[u].sla_deadline
      BY <1>1, <2>2 DEF ClockStaged
    <3>2. CASE t = u
      <4>1. pauses'[t] = Append(pauses[t], [paused_at |-> s.at, resumed_at |-> None])
        BY <1>6, <3>1, <3>2 DEF CommittedPauses
      <4>2. /\ tickets[t].sla_paused_at = None
            /\ tickets'[t].sla_paused_at = s.at
            /\ tickets'[t].sla_deadline = tickets[t].sla_deadline
        BY <1>4, <3>1, <3>2 DEF SameClock
      <4> QED
        BY <1>2, <4>1, <4>2, PauseAccounts
    <3> QED
      BY <1>8, <3>1, <3>2
  <2>3. CASE s.op = "resume_sla"
    <3>1. PICK u \in Tickets :
            /\ s.has = {u} /\ s.ins = None /\ (s.upd # None => s.upd[1] = u)
            /\ s.read[u].sla_paused_at # None /\ s.at > s.read[u].sla_paused_at
            /\ s.new[u].sla_paused_at = None
            /\ s.new[u].sla_deadline = Extended(s.read[u], s.at)
      BY <1>1, <2>3 DEF ClockStaged
    <3>2. PICK i \in OpenRows(pauses[u]) : s.upd = <<u, i>>
      BY <1>1, <2>3, <3>1 DEF ResumeFound
    <3>3. s.upd # None
      <4>1. i \in Nat
        BY <1>2, <3>2 DEF OpenRows
      <4> QED
        BY <3>2, <4>1, DeskAssumption
    <3>4. CASE t = u
      <4>1. pauses'[t] = [pauses[t] EXCEPT ![i].resumed_at = s.at]
        BY <1>2, <1>6, <3>1, <3>2, <3>3, <3>4, NoneAssumption DEF CommittedPauses
      <4>2. /\ tickets[t].sla_paused_at # None /\ s.at > tickets[t].sla_paused_at
            /\ tickets'[t].sla_paused_at = None
            /\ tickets'[t].sla_deadline = Extended(tickets[t], s.at)
        BY <1>4, <3>1, <3>4 DEF SameClock
      <4>3. /\ tickets[t] \in Row /\ pauses[t] \in Seq(PauseRow) /\ s.at \in Nat
            /\ i \in OpenRows(pauses[t]) /\ Accounts(tickets[t], pauses[t])
        BY <1>2, <3>4
      <4> DEFINE r == tickets[t]
                 y == tickets'[t]
                 q == pauses[t]
      <4> HIDE DEF r, y, q
      <4>4. Accounts(y, [q EXCEPT ![i].resumed_at = s.at])
        BY <4>2, <4>3, ResumeAccounts DEF r, y, q
      <4> QED
        BY <4>1, <4>4 DEF y, q
    <3>5. CASE t # u
      BY <1>8, <3>1, <3>2, <3>5, NoneAssumption
    <3> QED
      BY <3>4, <3>5
  <2> QED
    BY <2>1, <2>2, <2>3 DEF ClockHandlers
<1>10. \A d \in Slots : sess'[d] = Idle
  BY <1>1, <1>3 DEF TypeOK, OneAtATime
<1> HIDE DEF OneAtATime
<1>11. \A d \in Slots : ResumeFound(sess'[d], pauses')
  BY <1>10, StagedOp DEF ResumeFound
<1> QED
  BY <1>9, <1>11 DEF ClockInv

\* The archive task leaves the two columns alone.
LEMMA AutoArchiveClock ==
  ASSUME DeskInv, ClockInv, NEW w \in Workers, AutoArchive(w)
  PROVE  ClockInv'
<1> DEFINE row(t) == [tickets[t] EXCEPT !.status = "archived", !.updated_at = now]
<1>1. \A t \in Tickets : tickets[t] \in Row
  BY DEF DeskInv, TypeOK
<1>2. PICK old \in SUBSET Tickets :
         /\ tickets' = [t \in Tickets |-> IF t \in old THEN row(t) ELSE tickets[t]]
         /\ UNCHANGED <<now, timeline, pauses, sess>>
  BY DEF AutoArchive
<1>3. \A t \in Tickets : SameClock(tickets[t], row(t))
  BY <1>1 DEF Row, SameClock
<1> HIDE DEF row
<1>4. \A t \in Tickets : SameClock(tickets[t], tickets'[t])
  BY <1>2, <1>3 DEF SameClock
<1>5. \A t \in Tickets : Accounts(tickets'[t], pauses[t])
  BY <1>4, KeptAccounts DEF ClockInv
<1> QED
  BY <1>2, <1>5 DEF ClockInv

\* A created row has its whole budget, or no deadline, and no pause.
LEMMA InitClock == Init => ClockInv
<1> SUFFICES ASSUME Init PROVE ClockInv
  OBVIOUS
<1>1. ASSUME NEW r \in CreatedRows
      PROVE  r.sla_paused_at = None /\ r.sla_deadline \in {None, SlaBudget}
  BY DEF CreatedRows, PortalRows, EmployeeRequestRow, CallTicketRow, FollowupRows, BlankRow
<1>2. ASSUME NEW t \in Tickets PROVE Accounts(tickets[t], pauses[t])
  <2>1. tickets[t] \in CreatedRows /\ pauses[t] = << >>
    BY DeskAssumption DEF Init
  <2> DEFINE r == tickets[t]
             q == pauses[t]
  <2>2. r.sla_paused_at = None /\ r.sla_deadline \in {None, SlaBudget}
    BY <1>1, <2>1
  <2>3. DOMAIN q = {}
    BY <2>1
  <2> HIDE DEF q, r
  <2>4. OpenRows(q) = {} /\ DOMAIN PauseLengths(q) = {}
    BY <2>3 DEF OpenRows, PauseLengths
  <2>5. SumOf(PauseLengths(q)) = 0
    BY <2>4, EmptySum
  <2> QED
    BY <2>2, <2>4, <2>5, BudgetAssumption DEF Accounts, r, q
<1>3. \A c \in Slots : ResumeFound(sess[c], pauses)
  BY StagedOp DEF Init, ResumeFound
<1> QED
  BY <1>2, <1>3 DEF ClockInv

LEMMA NextClock == OneAtATime /\ DeskInv /\ SerialInv /\ ClockInv /\ [Next]_vars => ClockInv'
<1> SUFFICES ASSUME OneAtATime, DeskInv, SerialInv, ClockInv, [Next]_vars PROVE ClockInv'
  OBVIOUS
<1>1. TypeOK
  BY DEF DeskInv
<1>2. CASE StagesNoResume
  <2>1. \A c \in Slots : ResumeFound(sess'[c], pauses')
    BY <1>2 DEF StagesNoResume, ClockInv, ResumeFound
  <2> QED
    BY <1>2, <2>1 DEF StagesNoResume, ClockInv
<1> QED
  BY <1>1, <1>2, OnlyResumeStages, ResumeClock, CommitClock, AutoArchiveClock

-----------------------------------------------------------------------------
(* The theorem.                                                             *)

\* With sessions one after the other the deadline of a ticket is its budget
\* and the sum of its closed pauses, whatever the other handlers did in
\* between; the clock is paused exactly while one sla_pauses row is open, and
\* that row started when the column says (pause_sla, resume_sla).
THEOREM DeadlinesAccount == OneAtATime /\ Spec => []DeadlineAccounts
<1> SUFFICES ASSUME OneAtATime PROVE Spec => []DeadlineAccounts
  OBVIOUS
<1>1. Init => ClockInv
  BY InitClock
<1>2. DeskInv /\ SerialInv /\ ClockInv /\ [Next]_vars => ClockInv'
  BY NextClock
<1>3. ClockInv => DeadlineAccounts
  <2> SUFFICES ASSUME ClockInv, NEW t \in Tickets
               PROVE  /\ tickets[t].sla_deadline # None =>
                            tickets[t].sla_deadline = SlaBudget + PausedTime(t)
                      /\ OpenPauses(t) = {} <=> tickets[t].sla_paused_at = None
                      /\ \A i \in OpenPauses(t) :
                            pauses[t][i].paused_at = tickets[t].sla_paused_at
    BY DEF DeadlineAccounts
  <2>1. OpenPauses(t) = OpenRows(pauses[t])
    BY DEF OpenPauses, OpenRows
  <2>2. PausedTime(t) = SumOf(PauseLengths(pauses[t]))
    BY <2>1 DEF PausedTime, SumOf, PauseLengths
  <2>3. Accounts(tickets[t], pauses[t])
    BY DEF ClockInv
  <2> QED
    BY <2>1, <2>2, <2>3 DEF Accounts
<1> QED
  BY <1>1, <1>2, <1>3, AlwaysSerial, PTL DEF Spec
=============================================================================
