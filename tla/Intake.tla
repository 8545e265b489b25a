-------------------------------- MODULE Intake --------------------------------
(***************************************************************************)
(* How tickets come in: portal submissions, employee registrations, calls,  *)
(* splits of a ticket, WhatsApp messages and mails.  A submission passes    *)
(* the rate limit, takes a number from a counter of Redis, and commits;     *)
(* between its awaits other submissions run, calls fail, and Redis, which   *)
(* evicts any key when its memory is full, loses keys.                      *)
(***************************************************************************)
EXTENDS BusinessTime, FiniteSets, FiniteSetsExt

CONSTANTS
    Phones,       \* submitters
    Mails,        \* inbound mails: [number : BOOLEAN] says whether the subject
    Numbered,     \*   names a ticket number the pattern matches
    Looped,       \* the mails that carry X-Ticket-ID
    Texts,        \* inbound WhatsApp messages
    Processes,    \* web workers, each with a hash() of its own
    Slots,        \* bound: concurrent requests
    None,
    Moments,      \* bound: the moments of the clock
    SubmitLimit,  \* submissions of a phone per day (5)
    RegisterLimit,\* registration requests of a phone per day (3)
    DayLength,    \* the life of a rate limit key (86400 seconds)
    SameWidth,    \* the number from which CS-INT-%03d and CS-INT-%04d agree (1000)
    Mixes,        \* bound: the ways in used together, the tickets committed or
                  \* under way with them, and what fails meanwhile: [open, room, fails]
    MaxNumber     \* bound: a counter
VARIABLES
    mix,          \* which of them are used, and what may fail
    now,
    rows,         \* the committed tickets
    counters,     \* the sequence keys of Redis
    limits,       \* the rate limit keys of Redis
    dedup,        \* the wa:dedup keys of Redis
    inbox,        \* what became of each mail
    confirmed,    \* the confirmations handed to Celery
    files,        \* the uploads on disk
    req           \* what each request holds

vars == <<mix, now, rows, counters, limits, dedup, inbox, confirmed, files, req>>

\* A number counter is lost while a request holds its number or is about to; a query
\* for the seed fails; a rate limit key is lost before its time; a request fails
\* between INCR and EXPIRE.
Failures == {"counter", "seed", "limit", "expiry"}

AllChannels == {"submit", "register", "call", "split", "whatsapp", "mail"}

_TICKET_SEQ_KEY     == "csts_ticket_seq"
_INT_TICKET_SEQ_KEY == "csint_ticket_seq"
RegisterKey         == "ticket:internal_counter"
SequenceKeys == {_TICKET_SEQ_KEY, _INT_TICKET_SEQ_KEY, RegisterKey}

ASSUME MixAssumption ==
    Mixes \subseteq [open : SUBSET AllChannels, room : Nat, fails : SUBSET Failures]

ASSUME IntakeAssumption ==
    /\ Looped \subseteq Mails /\ Numbered \subseteq Mails
    /\ Moments \subseteq Nat /\ Moments # {} /\ \A m \in Moments : Day(m) > 0
    /\ IsFiniteSet(Slots)
    /\ SubmitLimit \in Nat \ {0} /\ RegisterLimit \in Nat \ {0}
    /\ DayLength \in Nat \ {0} /\ SameWidth \in Nat
    /\ MaxNumber \in Nat

\* The bound of the deadline loop is never what ends it.
ASSUME LoopsSuffice ==
    \A m \in Moments :
        Spent(m, SLA_MINUTES["medium"], _get_holiday_set(Year(Day(m - UtcOffset)))).remaining = 0

-----------------------------------------------------------------------------
(* Numbers, rows and requests.                                              *)

\* Where a CS-INT number came from shows in its width only.
Series(key, n) ==
    IF key = _TICKET_SEQ_KEY THEN "CSTS"
    ELSE IF key = _INT_TICKET_SEQ_KEY \/ n >= SameWidth THEN "CS-INT" ELSE "CS-INT-0"
TicketNumber == [series : {"CSTS", "CS-INT", "CS-INT-0"}, n : Nat]
NumberFrom(key, n) == [series |-> Series(key, n), n |-> n]

Row == [number : TicketNumber, phone : Phones \cup {None}, created : Nat,
        sla_deadline : Nat \cup {None}, attached : BOOLEAN]

ASSUME NoneIsNothing == None \notin Nat /\ None \notin Phones /\ None \notin Row

Key == [count : Nat, expires : Nat \cup {None}]
NoKey == [count |-> 0, expires |-> None]
LimitOf(op) == IF op = "submit" THEN SubmitLimit ELSE RegisterLimit

Request == [op : AllChannels \cup {"none"},
            pc : {"free", "expire", "exists", "max", "setnx", "incr", "flush", "commit", "enqueue"},
            phone : Phones \cup {None}, seed : Nat,
            row : Row \cup {None}, mails : SUBSET Mails, broken : BOOLEAN]
Free == [op |-> "none", pc |-> "free", phone |-> None, seed |-> 0,
         row |-> None, mails |-> {}, broken |-> FALSE]

Init ==
    /\ mix \in Mixes /\ now = Min(Moments)
    /\ rows = {} /\ confirmed = {} /\ files = {} /\ dedup = {}
    /\ counters = [k \in SequenceKeys |-> None]
    /\ limits = [op \in {"submit", "register"} |-> [p \in Phones |-> NoKey]]
    /\ inbox = [m \in Mails |-> "unseen"]
    /\ req = [c \in Slots |-> Free]

TypeOK ==
    /\ mix \in Mixes /\ now \in Moments /\ rows \subseteq Row
    /\ counters \in [SequenceKeys -> Nat \cup {None}]
    /\ limits \in [{"submit", "register"} -> [Phones -> Key]]
    /\ dedup \subseteq Processes \X Texts
    /\ inbox \in [Mails -> {"unseen", "seen", "handled"}]
    /\ confirmed \subseteq TicketNumber /\ files \subseteq TicketNumber
    /\ req \in [Slots -> Request]
    /\ \A c \in Slots : (req[c].row # None) <=>
            \/ req[c].pc \in {"commit", "enqueue"}
            \/ req[c].pc = "flush" /\ req[c].op = "submit"

RoomForOne == Cardinality(rows) + Cardinality({c \in Slots : req[c] # Free}) < mix.room

Step(c, r) == req' = [req EXCEPT ![c] = r]
Goto(c, pc) == Step(c, [req[c] EXCEPT !.pc = pc])

LeaveHolding(c) == IF req[c].op = "mail" THEN Goto(c, "flush") ELSE Step(c, Free)

\* What remains of a mail that was not entered: the next one.
Leave(c) == Step(c, IF req[c].op = "mail" THEN [Free EXCEPT !.op = "mail", !.pc = "flush",
                        !.mails = req[c].mails, !.broken = req[c].broken] ELSE Free)

-----------------------------------------------------------------------------
(* The rate limits.                                                         *)

\* A registration takes a number at once, a submission looks at the counter.
AfterLimit(op) == IF op = "submit" THEN "exists" ELSE "incr"

NeedsExpiry(count) == count = 1

\* The count stops one above the limit, a bound: no larger one makes a difference.
\* INCR creates a key without an expiry, which the first request then sets.
Arrive(c, op, phone) ==
    LET count == limits[op][phone].count + 1
    IN  /\ req[c] = Free /\ RoomForOne /\ op \in mix.open \cap {"submit", "register"}
        /\ limits' = [limits EXCEPT ![op][phone].count = Min({count, LimitOf(op) + 1})]
        /\ Step(c, IF count > LimitOf(op) THEN Free
                   ELSE [Free EXCEPT !.op = op, !.phone = phone,
                            !.pc = IF NeedsExpiry(count) THEN "expire" ELSE AfterLimit(op)])
        /\ UNCHANGED <<mix, now, rows, counters, dedup, inbox, confirmed, files>>

\* EXPIRE gives a key its end; a key that was lost meanwhile stays away.
Expiring(key, time) == IF key = NoKey THEN NoKey ELSE [key EXCEPT !.expires = time]

ExpireLimitEarly(c) ==
    LET r == req[c]
    IN  /\ r.pc = "expire"
        /\ limits' = [limits EXCEPT ![r.op][r.phone] = Expiring(@, now + DayLength \div 24)]
        /\ Goto(c, AfterLimit(r.op))
        /\ UNCHANGED <<mix, now, rows, counters, dedup, inbox, confirmed, files>>

ExpireLimit(c) ==
    LET r == req[c]
    IN  /\ r.pc = "expire"
        /\ limits' = [limits EXCEPT ![r.op][r.phone] = Expiring(@, now + DayLength)]
        /\ Goto(c, AfterLimit(r.op))
        /\ UNCHANGED <<mix, now, rows, counters, dedup, inbox, confirmed, files>>

-----------------------------------------------------------------------------
(* The numbers.                                                             *)

\* A call that ended in a follow-up or a ticket.
Call(c) ==
    /\ req[c] = Free /\ RoomForOne /\ "call" \in mix.open
    /\ Step(c, [Free EXCEPT !.op = "call", !.pc = "incr"])
    /\ UNCHANGED <<mix, now, rows, counters, limits, dedup, inbox, confirmed, files>>

\* A supervisor splits a ticket: the child takes a number like a submission.  Its
\* phone is the parent's and was not counted for it, so it is left out.
split_ticket(c) ==
    /\ req[c] = Free /\ RoomForOne /\ "split" \in mix.open /\ rows # {}
    /\ Step(c, [Free EXCEPT !.op = "split", !.pc = "exists"])
    /\ UNCHANGED <<mix, now, rows, counters, limits, dedup, inbox, confirmed, files>>

\* _seed_counter_if_needed: EXISTS, the highest committed number, SETNX.
SeedExists(c) ==
    /\ req[c].pc = "exists"
    /\ Goto(c, IF counters[_TICKET_SEQ_KEY] = None THEN "max" ELSE "incr")
    /\ UNCHANGED <<mix, now, rows, counters, limits, dedup, inbox, confirmed, files>>

\* The highest number of a CSTS ticket or, when there is none or the query fails,
\* the number of tickets, or 0 when that fails too: both errors are passed over.
SeedMax(c, highestRead, countRead) ==
    LET csts == {r \in rows : r.number.series = "CSTS"}
        seed == IF highestRead /\ csts # {} THEN Max({r.number.n : r \in csts})
                ELSE IF countRead THEN Cardinality(rows) ELSE 0
    IN  /\ req[c].pc = "max"
        /\ (highestRead /\ countRead) \/ "seed" \in mix.fails
        /\ Step(c, [req[c] EXCEPT !.pc = "setnx", !.seed = seed])
        /\ UNCHANGED <<mix, now, rows, counters, limits, dedup, inbox, confirmed, files>>

SetAnyway(value, seed) == seed
SetNx(value, seed) == IF value = None THEN seed ELSE value

SeedSetNx(c) ==
    /\ req[c].pc = "setnx"
    /\ counters' = [counters EXCEPT ![_TICKET_SEQ_KEY] = SetNx(@, req[c].seed)]
    /\ Goto(c, "incr")
    /\ UNCHANGED <<mix, now, rows, limits, dedup, inbox, confirmed, files>>

KeyOf(op) == CASE op = "call" -> _INT_TICKET_SEQ_KEY [] op = "register" -> RegisterKey
               [] OTHER -> _TICKET_SEQ_KEY

Blank(number, phone) == [number |-> number, phone |-> phone, created |-> now, sla_deadline |-> None,
                         attached |-> FALSE]

create_ticket(number, phone) ==
    [Blank(number, phone) EXCEPT !.sla_deadline = calculate_sla_deadline("medium", now)]

\* Calls and employee requests set no deadline.
NewRow(op, number, phone) ==
    IF op \in {"submit", "mail", "split"} THEN create_ticket(number, phone) ELSE Blank(number, phone)

Incr(c) ==
    LET r == req[c]
        key == KeyOf(r.op)
        n == IF counters[key] = None THEN 1 ELSE counters[key] + 1
    IN  /\ r.pc = "incr" /\ n <= MaxNumber
        /\ counters' = [counters EXCEPT ![key] = n]
        /\ Step(c, [r EXCEPT !.row = NewRow(r.op, NumberFrom(key, n), r.phone), !.seed = 0,
                             !.pc = IF r.op = "submit" THEN "flush" ELSE "commit"])
        /\ UNCHANGED <<mix, now, rows, limits, dedup, inbox, confirmed, files>>

-----------------------------------------------------------------------------
(* The rest of a submission.                                                *)

CompleteTicketUnchecked(c, upload, written) ==
    LET r == req[c]
    IN  /\ r.pc = "flush" /\ r.op = "submit"
        /\ files' = IF upload /\ written THEN files \cup {r.row.number} ELSE files
        /\ Step(c, [r EXCEPT !.pc = "commit", !.row.attached = upload])
        /\ UNCHANGED <<mix, now, rows, counters, limits, dedup, inbox, confirmed>>

\* The uploads: one that cannot be written to disk is left out of the ticket.
CompleteTicket(c, upload, written) ==
    LET r == req[c]
    IN  /\ r.pc = "flush" /\ r.op = "submit"
        /\ files' = IF upload /\ written THEN files \cup {r.row.number} ELSE files
        /\ Step(c, [r EXCEPT !.pc = "commit", !.row.attached = upload /\ written])
        /\ UNCHANGED <<mix, now, rows, counters, limits, dedup, inbox, confirmed>>

\* UNIQUE(ticket_number).
Taken(c) == \E r \in rows : r.number = req[c].row.number

Commit(c) ==
    /\ req[c].pc = "commit" /\ req[c].op # "mail" /\ ~Taken(c)
    /\ rows' = rows \cup {req[c].row}
    /\ IF req[c].op = "submit" THEN Goto(c, "enqueue") ELSE Step(c, Free)
    /\ UNCHANGED <<mix, now, counters, limits, dedup, inbox, confirmed, files>>

RollbackAndConfirm(c) ==
    /\ req[c].pc \in {"flush", "commit"} /\ req[c].row # None
    /\ IF req[c].op = "submit" THEN Goto(c, "enqueue") ELSE Leave(c)
    /\ UNCHANGED <<mix, now, rows, counters, limits, dedup, inbox, confirmed, files>>

\* A call of Redis or Postgres fails, the number is taken, or a submission is
\* malformed, which is seen after it was counted.  A number is not given back, and
\* a key that was not reached by EXPIRE stays without one.
Rollback(c) ==
    /\ \/ req[c].pc \in {"exists", "max", "setnx", "incr"}
       \/ req[c].pc \in {"flush", "commit"} /\ req[c].row # None
       \/ req[c].pc = "expire" /\ "expiry" \in mix.fails
    /\ Leave(c)
    /\ UNCHANGED <<mix, now, rows, counters, limits, dedup, inbox, confirmed, files>>

_enqueue_confirmation(c) ==
    /\ req[c].pc = "enqueue"
    /\ confirmed' = confirmed \cup {req[c].row.number}
    /\ Step(c, Free)
    /\ UNCHANGED <<mix, now, rows, counters, limits, dedup, inbox, files>>

-----------------------------------------------------------------------------
(* WhatsApp and mail.                                                       *)

\* The dedup key is set, the ticket looked for, and db.begin() fails in the
\* transaction that the look began: nothing is entered.
route_inbound_whatsapp(process, text) ==
    /\ "whatsapp" \in mix.open /\ <<process, text>> \notin dedup
    /\ dedup' = dedup \cup {<<process, text>>}
    /\ UNCHANGED <<mix, now, rows, counters, limits, inbox, confirmed, files, req>>

\* All unseen mails are fetched and marked before the first is processed.
poll_imap_inbox(c) ==
    LET unseen == {m \in Mails : inbox[m] = "unseen"}
    IN  /\ req[c] = Free /\ RoomForOne /\ "mail" \in mix.open /\ unseen # {}
        /\ inbox' = [m \in Mails |-> IF m \in unseen THEN "seen" ELSE inbox[m]]
        /\ Step(c, [Free EXCEPT !.op = "mail", !.pc = "flush", !.mails = unseen])
        /\ UNCHANGED <<mix, now, rows, counters, limits, dedup, confirmed, files>>

\* A mail of a loop is skipped.  A mail with a number is looked up first, and
\* the transaction this begins refuses every db.begin() of the poll from then on.
\* Another mail gets a number and a row, which the import of the attachments'
\* missing class then rolls back.
TakeMail(c, m) ==
    LET rest == req[c].mails \ {m}
        refused == req[c].broken \/ m \in Numbered
    IN  /\ req[c].pc = "flush" /\ req[c].op = "mail" /\ req[c].row = None /\ m \in req[c].mails
        /\ inbox' = [inbox EXCEPT ![m] = "handled"]
        /\ Step(c, CASE m \in Looped -> [req[c] EXCEPT !.mails = rest]
                     [] m \notin Looped /\ refused -> [req[c] EXCEPT !.mails = rest, !.broken = TRUE]
                     [] OTHER -> [req[c] EXCEPT !.mails = rest, !.pc = "exists"])
        /\ UNCHANGED <<mix, now, rows, counters, limits, dedup, confirmed, files>>

EndPoll(c) ==
    /\ req[c].pc = "flush" /\ req[c].op = "mail" /\ req[c].row = None /\ req[c].mails = {}
    /\ Step(c, Free)
    /\ UNCHANGED <<mix, now, rows, counters, limits, dedup, inbox, confirmed, files>>

-----------------------------------------------------------------------------

\* Redis loses a counter of the numbers, by eviction or a restart without its
\* data.  The dangerous moments are those when a request is between its look at
\* the counter and its commit: its number is in no committed row to seed from.
Undecided(c) ==
    \/ req[c].pc \in {"max", "setnx", "incr", "commit"}
    \/ req[c].row # None /\ req[c].pc # "enqueue"
Evict(key) ==
    /\ counters[key] # None
    /\ (\E c \in Slots : Undecided(c)) => "counter" \in mix.fails
    /\ counters' = [counters EXCEPT ![key] = None]
    /\ UNCHANGED <<mix, now, rows, limits, dedup, inbox, confirmed, files, req>>

\* It loses a rate limit key before its time.
EvictLimit(op, phone) ==
    /\ limits[op][phone] # NoKey /\ "limit" \in mix.fails
    /\ limits' = [limits EXCEPT ![op][phone] = NoKey]
    /\ UNCHANGED <<mix, now, rows, counters, dedup, inbox, confirmed, files, req>>

\* A dedup key is gone, after an hour or by eviction.
Forget(process, text) ==
    /\ <<process, text>> \in dedup
    /\ dedup' = dedup \ {<<process, text>>}
    /\ UNCHANGED <<mix, now, rows, counters, limits, inbox, confirmed, files, req>>

\* Time passes between requests, which are short; keys whose time is over are
\* gone.
Expired(key, time) == key.expires # None /\ key.expires <= time
Tick ==
    /\ \A c \in Slots : req[c] = Free
    /\ \E later \in {m \in Moments : m > now} :
        /\ now' = later
        /\ limits' = [op \in DOMAIN limits |-> [p \in Phones |->
                        IF Expired(limits[op][p], later) THEN NoKey ELSE limits[op][p]]]
        /\ UNCHANGED <<mix, rows, counters, dedup, inbox, confirmed, files, req>>

Next ==
    \/ Tick
    \/ \E key \in SequenceKeys : Evict(key)
    \/ \E op \in {"submit", "register"}, phone \in Phones : EvictLimit(op, phone)
    \/ \E process \in Processes, text \in Texts :
            route_inbound_whatsapp(process, text) \/ Forget(process, text)
    \/ \E c \in Slots :
        \/ \E op \in {"submit", "register"}, phone \in Phones : Arrive(c, op, phone)
        \/ ExpireLimit(c) \/ Call(c) \/ split_ticket(c)
        \/ SeedExists(c) \/ SeedSetNx(c) \/ Incr(c)
        \/ \E highestRead, countRead \in BOOLEAN : SeedMax(c, highestRead, countRead)
        \/ \E upload, written \in BOOLEAN : CompleteTicket(c, upload, written)
        \/ Commit(c) \/ Rollback(c) \/ _enqueue_confirmation(c)
        \/ poll_imap_inbox(c) \/ EndPoll(c) \/ \E m \in Mails : TakeMail(c, m)

Spec == Init /\ [][Next]_vars
=============================================================================
