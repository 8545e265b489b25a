# Verification of the support-ticket desk

TLA+ models, TLC runs and TLAPS proofs for the ticket desk in `src/app`: FastAPI
handlers on asynchronous SQLAlchemy sessions, PostgreSQL, Redis, and Celery
workers driven by beat. Paths below are relative to `src/`.

The system falls into four parts that share no more than a few columns, and each
has a family of modules:

* the **desk**: the life of a ticket row under agents, customers and sweeps;
* the **intake**: how a ticket row comes to be, with its number and deadline;
* the **accounts**: tokens, users and permissions;
* the **pages**: what managers publish and set, what workers report, and what an
  open page is told.

## The system

| Component | State | Operations | Hard parts | Model |
|---|---|---|---|---|
| State machine and time tracking (`app/services/ticket_service.py`) | status, work clock, reopen count, queue of `tickets` | `change_ticket_status`, `change_ticket_priority`, `_check_auto_escalation` | counters computed from a row read earlier; a stretch of time counted once | `TicketRow`, `TicketDesk` |
| Internal ticket API (`app/api/tickets_internal.py`) | the same rows, owner, parent | reply, change_status, transfer, escalate, return, resolve, close, pause, resume, merge, split, bulk handlers | version compared in memory only; several rows in one transaction | `TicketDesk`; split in `Intake` |
| Queue service (`app/services/queue.py`) | owner | `claim_ticket`, `auto_balance` | two claims at once | `TicketDesk` |
| SLA clock (`app/services/sla.py`) | deadline, pause column, `sla_pauses`, breach flag | deadline, pause, resume, breach sweep | sweep against pause; business hours | `TicketDesk`, `BusinessTime` |
| SLA tasks (`app/worker/tasks/sla.py`) | ticket rows | breach sweep, auto-resolve, auto-archive | read, look again elsewhere, commit later | `TicketDesk` |
| Sessions (`app/core/database.py`) | identity map, dirty columns | commit, rollback | READ COMMITTED, no row lock, no `version_id_col` | `Commit` of `TicketDesk`, `Accounts`, `PageRequest` |
| Timeline (`app/services/timeline.py`) | append-only events | `add_event` | events and rows must tell one story | `TicketDesk` |
| Portal (`app/api/portal.py`) | new rows, rate limits, uploads | submit, employee request, customer reply, autofill | four stores in one submission | `Intake`, `TicketDesk`, pages |
| Ticket numbers (`app/services/ticket.py`) | Redis counters | seed, next number | seeding race, eviction | `Intake` |
| Call log (`app/api/dashboard.py`) | internal rows | `log_call` | second counter of one format | `Intake` |
| Inbound mail and WhatsApp (`app/worker/tasks/email_ingestion.py`, `app/services/email.py`, `app/services/whatsapp.py`) | mailbox flags, dedup keys | poll, route | marked as done before done; transactions refused | `Intake` |
| Authentication (`app/api/auth.py`, `app/middleware/auth.py`) | Redis `jti:` and `idle:` keys, `user_sessions` | login, refresh, logout, idle check | check, await, then act on the key | `Accounts` |
| Permissions (`app/core/permissions.py`) | defaults, `role_permissions` | check, toggle, reset | three readers of one rule | `Permissions`, `Accounts` |
| Users and profile (`app/api/manager.py`, `app/api/supervisor.py`, `app/api/profile.py`) | `users`, `user_departments` | create, import, edit, role, activity, password, second factor | guards spread over nine handlers | `Accounts` |
| Form versions and themes (`app/api/manager.py`, `app/api/admin.py`) | `form_versions`, `themes` | save, activate, toggle, delete | one is meant to be active | `Publications` |
| Knowledge base (`app/api/kb.py`) | articles, categories | edit, publish, count, list, search, open | each page filters for itself | `KnowledgeBase` |
| Branches and employees (`app/api/supervisor.py`) | `branches`, `branch_employees` | edit, toggle, delete, two imports | flush in the middle, unique indexes | `Directory` |
| Settings and audit (`app/api/manager.py`, `app/services/audit.py`) | departments, flags, notification rules, SLA policies, `audit_log` | edit, toggle | the entry repeats what was computed | `Settings` |
| Scheduled reports, employee of the month (`app/worker/tasks/reports.py`, `app/services/gamification.py`) | `scheduled_reports`, queue of tasks | edit, beat, due check, generate; count, score | time zones, rows gone while queued | `Reports` |
| Viewers and notifications (`app/api/sse.py`, `app/services/notifications.py`) | expiring Redis keys, `notifications` | register, refresh, leave; create, read | two clocks of expiry, two tabs of one agent | `Live` |
| KPI, exports, storage, SMS, templates, language, health, maintenance | | aggregates and I/O | no protocol | not modelled |

How they meet: the intake inserts the rows the desk works on (`CreatedRows` of
`TicketRow` are the rows the creation paths insert, `Intake` says how they get
number and deadline); the desk asks permissions of the caller's token; the sweeps
and the reports are queued by beat; the portal reads the form, the articles and
the employees the pages keep. The families are checked apart because no column is
written by two of them, but for `users.is_online` (written at login, read by
auto-balance, where `Online` is any set of employees).

What makes the desk correct: nobody holds a ticket, no ticket waits or is done,
and no reopen or breach is counted without a trace in the timeline; the work
clock and the SLA clock account for time once; escalations happen when they are
due and cannot be bypassed; a merge loses no reply; the sweeps get their work
done. Of the others: numbers are unique and confirmations true; what was revoked
stays revoked and rights follow the row; what is listed opens, what is chosen is
served, what is deleted stays gone, and the audit log tells the state. Which of
these survive interleaved sessions, and which hold only of a request nobody
overlapped, is what the models separate.

## Modules

| Module | What it is |
|---|---|
| `TicketRow` | one row of `tickets`, and what each handler computes from the row it read (pure functions); `UpdateRow` is the ORM's UPDATE of the changed columns |
| `TicketDesk` | sessions, timeline and pause rows: one action per handler or task, `Commit`, `Rollback`, `Tick`, and the fairness of the workers |
| `TicketLifecycle` | the abstract specification: what the desk promises of status, owner, queue, reopens and breach, with no sessions |
| `TicketDeskProps`, `MCTicketDesk` | the properties with the refinement mapping to `TicketLifecycle`; small instances |
| `TicketDesk_proofs` | its types and its pause rows proved, however sessions interleave |
| `TicketTrace_proofs` | rows and timeline tell the same story: proved, however sessions interleave |
| `TicketSerial_proofs` | what holds when sessions do not overlap: proved, with the refinement of `TicketLifecycle` |
| `TicketClock_proofs` | what the SLA clock keeps when sessions do not overlap: proved, with sums over the pause rows |
| `BusinessTime` | the business calendar and the deadline of a new ticket, a pure function |
| `Intake` | rate limits, counters, uploads, confirmations, mails and texts, with the awaits in between |
| `IntakeProps`, `MCIntake` | its properties; small instances |
| `Induction` | induction over the numbers, iteration of a function and sums over a set of indices, stated of sets instead of predicates, which the provers can instantiate |
| `Intake_proofs` | the intake's types, numbers, confirmations, uploads, limits and deadlines proved |
| `Permissions` | defaults, denials and rows, and the three places that combine them |
| `Accounts` | tokens and keys of Redis, user rows and permission rows, one action per step between two awaits |
| `AccountsProps`, `MCAccounts` | its properties; small instances |
| `Accounts_proofs` | its theorems about tokens, permissions and rows |
| `PageRequest` | a request of a page: what it read, what it stages, when it commits, and whether another commit came in between |
| `Publications`, `KnowledgeBase`, `Directory`, `Settings`, `Reports`, `Live` | one area of the pages each, over `PageRequest` |
| `Pages` | the areas composed |
| `PagesProps`, `MCPages` | their properties; small instances |
| `Pages_proofs` | theorems about every area, of the composition |

### The desk against the code

* `tickets`, `timeline`, `pauses` are the committed tables; `sess[c]` is the
  database session of a web request (`Sessions`) or of a task (`Workers`): the
  rows as read, the rows as staged, the staged events and pause rows.
* A handler is one action: the SELECT, the guards (404, 403, 409 and 422 answers
  are simply disabled: they write nothing), and everything it stages.
  `Commit` is the commit of `get_db` (or of the task), `Rollback` any exception,
  disconnect or killed worker. Between the two, every other session may run.
  PostgreSQL holds row locks from flush to commit; as readers never wait,
  installing the UPDATE at the commit gives the same rows.
* `UpdateRow(read, new, current, at)` writes a column only if the handler changed
  its value, which is what SQLAlchemy emits, so that concurrent sessions lose
  updates column by column.
* `Merge`, `BulkReassign`, `BulkMoveToQueue` and `BulkAssign` run one SELECT per
  ticket: `MergeChild`, `BulkMoveNext`, `BulkAssignNext` are those steps.
  `AutoResolve` selects the stuck tickets and `AutoResolveCheck` looks for a
  reply ticket by ticket. `CheckSlaBreaches` and `AutoBalance` stage everything
  from one SELECT. `AutoArchive` is a single UPDATE with its condition.
* The SELECT of a second table for the same ticket (the open pause of
  `resume_sla`, the escalation event of `return_ticket`, the replies of a merge)
  is read in the same step as the row.
* A session carries one timestamp, taken when it starts, for every column it
  writes (events of later steps carry the time of the step); ORDER BY ties on
  equal timestamps are left open.

Left out because nothing decides on them: texts, names, category, channel,
attachments, `assigned_at`, `resolved_at`, `closed_at`, `total_time_seconds`,
`sla_total_paused` (never written), soft deletion, notifications and audit rows.
Two of the four priorities stand for all. Time is a counter of ticks; the deadline
of a created row is `SlaBudget` ticks ahead (business minutes are `BusinessTime`),
and a resume comes at least one tick after its pause. The version a browser posts
is assumed current, the permissive case, as it is compared with the row just read.
`AutoBalance` and `BulkAssign` are the administrator's: for any other role the
permission check has already used the session when the handler calls `db.begin()`,
which SQLAlchemy refuses. `AutoArchive` may run under its registered name; beat's
own entry names a task that is not registered. The desk starts with freshly
created tickets (`InitialRows`).

### The intake against the code

* A submission is `Arrive` (INCR of the rate limit), `ExpireLimit`, `SeedExists`,
  `SeedMax`, `SeedSetNx`, `Incr` (the number and the row with its deadline),
  `CompleteTicket` (the upload), `Commit` and `_enqueue_confirmation`: one action
  per await that touches shared state. `Call`, `split_ticket`, the registration
  and the mails join where their code does. The child of a split is inserted like
  a portal row; its parent only gets an event.
* `poll_imap_inbox` marks all unseen mails before it processes the first;
  `TakeMail` is one message with the state of the poll's session (`broken`: in a
  transaction, so that every `db.begin()` fails). `route_inbound_whatsapp` sets
  the dedup key and is refused, so that a text changes no row.
* `Processes`: the dedup key uses `hash()`, which differs from process to process.
* What fails is chosen at the start of a behaviour, with the channels (`mix.fails`
  of `Failures`): a counter lost while a number of it is held, a failing query for
  the seed (`_seed_counter_if_needed` passes over every exception), a rate limit key
  lost before its time, a request that fails between INCR and EXPIRE. The failures
  are steps of the runs and of the proofs; a property that does not survive one of
  them names it as its hypothesis, and the table below says which. Ordinary failures
  (a call of Redis or PostgreSQL, a taken number, an upload that is not written, a
  rollback at any await) are always there.
* `Evict` is Redis losing a counter (`maxmemory-policy allkeys-lru` in the compose
  file, or a restart without its data): at any moment when no number is held or
  about to be, and at all moments if `"counter"` fails. `EvictLimit` loses a rate
  limit key, `Forget` a dedup key.
* `BusinessTime` counts half minutes, an odd one being any moment within a minute,
  so that `SpendDay` shows what `int()` does to the minutes left of a day. `Spent`
  is the last state of the loop of `_add_business_minutes`. The `while` of the source
  is unbounded and `MaxLoops` bounds the function that stands for it: `LoopsSuffice`
  of `Intake`, an assumption TLC evaluates, says that at every moment of the
  instance the loop ends by itself before. `IntakeProps!DeadlineIsWorkedOut` compares
  with a reference definition (`Worked`: the working time of a stretch, day by day):
  the deadline is in working time, never early and less than a minute late. It is
  stated of deadlines in the year of creation, whose holidays are the ones loaded.

| Failure | What no longer holds |
|---|---|
| counter lost while its number is held | numbers are given out twice; UNIQUE refuses the second row |
| query for the seed fails | the same, as the counter starts at 0 or at the number of rows |
| rate limit key lost | a phone begins a new window |
| request fails between INCR and EXPIRE | the key never expires; from the limit on, the phone is refused for good |

### The accounts against the code

* `Present` is the middleware decoding a token of either kind (it does not look at
  the type) and finding its `jti:` key, `CheckIdle` its look at the `idle:` key,
  which revokes a token without one or lets the handler run; the
  handlers stage an UPDATE of the columns that changed, `Commit` installs it
  unless a unique index or a row that came or went refuses (`Conflict`).
* A login is `Login`, `IssueLogin` and `Commit`; a refresh `Refresh` (the key
  exists), `ReadRefresher` (the row is read again) and `IssueRefresh` (new tokens,
  the old key deleted, no idle key).
* `ForceLogout` fails on `user_sessions.revoked_at`, a column that is not there,
  and `DeleteAgent` on `db.begin()`: both end without a change.
* The Redis permission cache is switched off in the source, so there is none here.
* Redis keeps `jti:` and `idle:` keys for their time; see *Not modelled*.
* A token carries the ticks it has left. Identifiers (`Jtis`) stand for UUIDs: one
  is given out again only when no token and no request has it any more.

### The pages against the code

* `page = [area, room, rows]` fixes for a behaviour which area is exercised, how
  many requests there may be at a time and how many rows of its largest table. As
  the areas share no table but the append-only audit log, a behaviour over
  several areas is a shuffle of behaviours over one each.
* `Begin` is a handler up to its staged columns, `Finish` its commit; `alone` says
  that no other commit came in between, which the properties use where a promise
  is only meant of such a request.
* `KnowledgeBase`: a list is one of the sets of articles that its query may return
  under its LIMIT (`Limited`; `MostViewed` with the ORDER BY), of the articles
  (`matches`) that what is typed or chosen matches, and a search for less than two
  characters returns nothing. `RowLimit` holds the limits of the source (50 and 60
  rows of the two home pages, 8 of a search, 5 beside an article).
* `Directory` models the flush in the middle of `import_branches_with_employees`
  and the wait of an INSERT for the transaction holding the same code (`Waits`);
  `Fresh` is the next UUID.
* `Reports`: the clock shows UTC; beat rings at 07:00 Riyadh; the queue holds
  tasks that carry only the key of a report.
* `Live`: a round is the 15 seconds between two looks of a stream, the keys live
  35 seconds, which is 3 rounds (`ViewerTTL`). `CollectViewers` reads set and names
  in one step, an abstraction. A page shows (`shown`) the list it was sent, without
  its own agent, until it is sent the next or its stream ends. `Leave` is the
  `finally` of the generator, `Die` a process that runs none.

## Runs

With bounded clocks, timelines and numbers the models do stop, hence
`CHECK_DEADLOCK FALSE`.

| Run | Instance | Shows |
|---|---|---|
| `desk_serial` | 1 slot, 1 ticket, all handlers but merge and bulk assign | types; the work clock runs exactly while the ticket is open (`ClockFollowsStatus`) and counts no time twice (`WorkTimeFits`); the latest owner event names the owner (`OwnerIsLatest`); deadline and pause rows account for the same time (`DeadlineAccounts`); the desk implements `TicketLifecycle` (`KeepsLifecycle`) |
| `desk_bulk` | 1 slot, 2 tickets, multi-ticket handlers | the same refinement; a merge carries every public reply (`MergeKeepsReplies`) |
| `races_clock` | 2 requests and a task on status and SLA columns | a paused clock has an open pause row; a breach flag has its event; no status without its event; no reopen counted twice |
| `races_owner` | 2 requests | the owner was named by an event; only supervisors fill the manager queue |
| `sweeps_live` | 1 request, 1 worker, `FairSpec` | overdue tickets do not stay unflagged; unanswered tickets do not stay waiting |
| `accounts_sessions` | 2 requests, 3 tokens, `FairSpec` | `RevokedStaysRevoked`; once a row stays as it is the tokens come to tell its role (`RightsSettle`); a login outlasts the idle timeout (`LoginOutlastsIdle`) |
| `accounts_pages` | 1 request, 2 users, every page handler | administrators are guarded (`AdminsGuarded`), nobody locks himself out with a second factor (`SecondFactorUsable`), pages show what routes allow (`PagesMatchRoutes`), a click changes one cell (`ToggleFlipsOne`) |
| `intake` | 2 slots, up to 4 tickets, channels in pairs, each failure beside one | `NumbersNeverMeet`, `ConfirmedIsCommitted`, `UploadIsOnDisk`, `DayIsLimited`, `DeadlineIsWorkedOut` |
| `pages` | 2 requests in each area, 2 agents with 3 open pages | `ListedIsOpen`, `DeletedStaysGone`, `ChosenIsServed`, `ImportTakesAll`, `AuditTellsState`, `StoppedIsQuiet`, `WinnerIsBest`, `ListedIsRecent`, `NewsStaysUnread` |

Disagreements between the code and what the repository says of it, each a run
that TLC must find violated:

| Run | Says | Does |
|---|---|---|
| `claim_twice` | `claim_ticket` assigns "atomically" | both of two concurrent claims succeed |
| `mail_lost` | "No match → create new ticket" | no mail becomes a ticket: the attachments are entered through a class that cannot be imported, and once a mail of the poll was looked up by number the session refuses every transaction |
| `reports_never` | beat runs the due check at 07:00 and queues what is due | beat rings at 07:00 Riyadh, the task asks for 07 UTC: nothing is due |

### Bounds

* Desk: a lost update needs two sessions and one row; merges and bulk handlers
  need two rows; the transition table, the reopen limit (1 instead of 3) and the
  clock need a short timeline. `MaxEvents` stops new web requests on a ticket whose
  timeline is that long, `MaxTime` stops the clock, `RequestLife` bounds how long a
  session stays open (nginx cuts a request after 120 s).
* Accounts: `Jtis` bounds the tokens that live at a time (a refresh needs a third
  beside the pair of a login), the lives are a few ticks with the idle timeout no
  longer than an access token, `MaxEdited` stops new requests once that many
  values differ from the seed (one edit, and the edits its request may add).
* Intake: `Mixes` says which channels run together and how many tickets there may
  be (submissions alone up to four, a second channel beside them up to three), and
  what fails meanwhile (each of the four failures in one or two of the mixes: the
  properties that survive it are checked with it);
  `SubmitLimit` is 2 instead of 5, `SameWidth` 2 instead of 1000, so that the widths
  of the two CS-INT formats meet; a year has 9 days, so that a holiday, a weekend
  and the turn of the year lie within reach of `WeekMoments`; `MaxNumber` stops a
  counter.
* Pages: `rows` bounds the versions, articles, switched-off rows (`Off`) or edited
  settings (`Edited`) of an area, `RowLimit` is one row or two, so that lists
  are cut short, `MaxCount` views and votes, `MaxDue` the waiting
  tasks, `Hours` the hours at which something happens, `Days` a short week with a
  Sunday and a first.

### Fairness

Desk: only the workers are fair. Beat queues every sweep again and again and
Celery drains the queue, so a sweep that keeps finding work is started; a task that
fails is retried, and the next period starts another, so a sweep that reaches its
commit again and again commits. A sweep or a commit can be disabled in between
(the slot is busy, the ticket was paused), which is why the fairness is strong.
Nothing is assumed of agents and customers.

Accounts: time passes (`WF(Tick)`), as the expiry of tokens and Redis keys does
not depend on the program; and a request that has arrived is answered
(`WF(Proceed(c))`), as a handler runs to its end, is rolled back or is cut by
nginx. Nobody has to arrive.

## What the reading turned up

Beside the three runs, and visible in one handler or one interleaving, so that a
run would only restate it. Where a sentence of the repository says otherwise, it is
quoted:

* Desk: the version is compared in memory only ("Optimistic locking",
  `app/models/ticket.py`). Auto-resolve looks for a reply before its commit and
  not again. Two pauses may insert two rows, of which resume closes one. A reply
  that reaches a secondary while it is merged is not copied. Merge closes without
  stopping the work clock, and bulk assign appends no timeline row, which is why
  `desk_serial` leaves these two out. `_check_auto_escalation` also escalates from
  `internal_tickets`; `return_ticket` drops the department it is given; no status
  pauses the SLA clock although SPEC.md:1141 says so; a follow-up ticket is born
  open with no `last_opened_at`. The docstring of `resume_sla` ("Extends deadline by
  pause duration (excluding non-business time)", `app/services/sla.py:160-161`)
  disagrees with its body and the comment in it ("Extend deadline by wall-clock
  duration of this pause", 169-172): a pause over a weekend moves the deadline by
  the weekend. `DeadlineAccounts` states what the body does.
* Accounts: a refresh issues an access token without an idle key, and its first use
  revokes it; a refresh token presented in its place is revoked, too, and cannot be
  refreshed any more. `force_logout` fails. `db.begin()` in the supervisor's and in
  some of the admin's handlers is refused for everybody but the administrator.
* Intake: the rate limit counts a submission before it looks at it. "max 5 ticket
  submissions per phone per day" (`app/api/portal.py:469`) holds of the window that
  the first submission opens; a stretch of 24 hours may see the last four of one
  window and the five of the next, nine in all, which is what `DayIsLimited` bounds.
  A phone whose request dies between INCR and EXPIRE has a key that never expires
  and is refused for good once it reaches the limit. "Uses a single Redis key that
  never resets" (`app/services/ticket.py:78`): the key resets when Redis evicts it
  (`docker-compose.yml:91`), and when its seed is read with an error the counter
  starts at 0 or at the number of tickets (`ticket.py:56-57`, `70-71`). Either may
  give out a committed number, and then every submission fails at the UNIQUE
  constraint until the counter has passed the rows. The deadline is up to a
  minute late (`sla.py:89` counts the rest of a day in whole minutes), and it
  ignores the holidays of the next year.
* Pages: "Activate a specific form version (rollback)" (`app/api/manager.py:2572`):
  activating the version that is active leaves none active, and the portal has no
  form, because the column is put out by an UPDATE the session does not see and then
  not written again; `ChosenIsServed` does not promise that outcome, it only says
  that no other version is served. `/api/kb/search-html` (`app/api/kb.py:337`) asks
  for no permission and lists the titles of internal articles to a visitor, whom the
  article then refuses; `/api/kb/search` (`app/api/dashboard.py:691`) meanwhile asks
  for `kb.view`, though item 4 of the audit report still names it. Viewers are shown
  up to 50 seconds after they are gone: 35 of the key and 15 between two lists;
  overlapping saves, activations and theme clicks can leave two active; an article's
  form may post a deleted category; agents can open internal drafts by their key;
  views and votes are read, added to and written back. SLA policy edits write
  attributes that are no columns, and creating a policy or an automation fails;
  `sound_file` is no column either, and the sound switch leaves no audit entry.
  `add_ip_v2` and `delete_ip` raise. A report is stamped `last_sent_at` also when
  its mail failed; `send_report_now` passes arguments the task does not take;
  `csat_submit` refuses every survey, so that `csat_score` is never set; the
  leaderboard is never saved; badges, `is_event_enabled` and `notify_users` are
  called by nothing. The set of viewers gets its 35 seconds at a registration only,
  so agents vanish from the list while they still view, and a closed tab removes an
  agent who has another.
* Workers: Celery's routes match task names that do not start with the module
  paths they list, so that tasks sent with `.delay` go to the queue `celery`, which
  no worker of the compose file reads. The models let such tasks run, which only
  adds behaviours.
* Tables: the migrations lack `deleted_at` of several tables whose models name it.
  The models assume the columns exist.

## Proofs

For any values of the constants that satisfy the named ASSUMEs:

| Theorem | Says |
|---|---|
| `TicketDesk_proofs!TypeCorrect` | `Spec => []TypeOK` |
| `TicketDesk_proofs!PauseRowsSound` | `Spec => []PausedHasOpenRow` |
| `TicketTrace_proofs!BreachesAreLogged` | `Spec => []BreachLogged` |
| `TicketTrace_proofs!StatusesAreLogged` | `Spec => []StatusLogged` |
| `TicketTrace_proofs!ReopensAreLogged` | `Spec => []ReopensLogged` |
| `TicketTrace_proofs!ManagersAreAsked` | `Spec => []ManagerQueueEarned` |
| `TicketTrace_proofs!OwnersAreLogged` | `"bulk_assign" \notin Handlers /\ Spec => []OwnerLogged` |
| `TicketSerial_proofs!DeskKeepsLifecycle` | `OneAtATime /\ Spec => KeepsLifecycle` |
| `TicketSerial_proofs!ClockIsRight` | `OneAtATime /\ ClocksKept /\ Spec => []ClockFollowsStatus` |
| `TicketSerial_proofs!WorkTimeIsBounded` | `OneAtATime /\ Spec => []WorkTimeFits` |
| `TicketSerial_proofs!OwnerIsTheLatestNamed` | `OneAtATime /\ "bulk_assign" \notin Handlers /\ Spec => []OwnerIsLatest` |
| `TicketSerial_proofs!MergesKeepReplies` | `OneAtATime /\ Spec => MergeKeepsReplies` |
| `TicketClock_proofs!DeadlinesAccount` | `OneAtATime /\ Spec => []DeadlineAccounts` |
| `Intake_proofs!IntakeTyped` | `Spec => []TypeOK` |
| `Intake_proofs!NumbersAreFresh` | `Spec => []NumbersNeverMeet` |
| `Intake_proofs!ConfirmationsAreTrue` | `Spec => []ConfirmedIsCommitted` |
| `Intake_proofs!UploadsAreKept` | `Spec => []UploadIsOnDisk` |
| `Intake_proofs!DaysAreLimited` | `Spec => []DayIsLimited` |
| `Intake_proofs!DeadlinesAreWorkedOut` | `Spec => []DeadlineIsWorkedOut` |
| `Accounts_proofs!RevocationIsFinal` | `Spec => RevokedStaysRevoked` |
| `Accounts_proofs!LoginsOutlastIdle` | `Spec => LoginOutlastsIdle` |
| `Accounts_proofs!PagesAndRoutesAgree` | `Spec => []PagesMatchRoutes` |
| `Accounts_proofs!AccountsTyped` | `Spec => []TypeOK` |
| `Accounts_proofs!SecondFactorsUsable` | `OneAtATime /\ Spec => []SecondFactorUsable` |
| `Accounts_proofs!AdminsAreGuarded` | `OneAtATime /\ Spec => AdminsGuarded` |
| `Accounts_proofs!TogglesFlipOne` | `OneAtATime /\ Spec => ToggleFlipsOne` |
| `Pages_proofs!ChoiceIsServed` | `Spec => ChosenIsServed` |
| `Pages_proofs!ListsOpen` | `Spec => []ListedIsOpen` |
| `Pages_proofs!DeletedIsGone` | `Spec => DeletedStaysGone` |
| `Pages_proofs!AuditIsTrue` | `Spec => AuditTellsState` |
| `Pages_proofs!StoppedReportsStayQuiet` | `Spec => StoppedIsQuiet` |
| `Pages_proofs!WinnersAreBest` | `Spec => WinnerIsBest` |
| `Pages_proofs!NewsStaysUntilRead` | `Spec => NewsStaysUnread` |
| `Pages_proofs!ViewersAreRecent` | `Spec => []ListedIsRecent` |
| `Pages_proofs!ImportsTakeAll` | `Spec => ImportTakesAll` |

**Desk.** Assumed: `None` is no other value and no pair, roles and departments are
functions of the staff, the tickets and the online agents are finite. The inductive
invariant is `DeskInv`: `TypeOK`, `PausedHasOpenRow`, and for every session
`PauseStaged`. The last part is needed because `Commit` writes what was decided on
an older row: if the staged row pauses a clock the session also inserts the pause
row, and if the session closes a pause row then it clears the pause column of that
ticket too, so a commit never closes a row and leaves the column set, whatever was
committed in between. Lemmas about the row functions say which of them leave the
pause column alone; there is one lemma per action and `NextInv` puts them together.
`PauseStaged` also says which handlers leave the pause and the deadline column alone
(`ClockStaged`): all but the two that pause and resume.

**Rows and timeline.** `TraceInv` adds to `DeskInv` what a session stages *together*:
the events it will append account for every promised column it will change
(`Traced`), the owner too unless the handler is the supervisor page's bulk assign,
which logs nothing (`OwnerTraced`, the hypothesis of `OwnersAreLogged`; `races_owner`
runs without that handler for the same reason). That is enough although the row may
have changed since it was read, because UPDATE writes only the columns the session
changed: a column comes from the session that also brings the event, or from a
commit whose event is already there. A reopen counter is written as an absolute
value, so `CountStaged` also keeps that the row it was computed from had no more
reopens than the timeline. Several-ticket handlers stage ticket by ticket;
`TraceStaged` carries their guard (who moves to the manager queue) from the first
step to the commit.

**One session at a time.** `OneAtATime` (`\A c, d \in Slots : c = d`) is what the runs
`desk_serial` and `desk_bulk` have: their properties are about what a handler
computes, and `races_clock`, `races_owner` and `claim_twice` show what overlapping
sessions do. `SerialInv` says that what a session has read is still the row
(`s.read[t] = rows[t]`), that replacing it by the staged row is a step of
`TicketLifecycle` or a stutter (`Follows`), keeps the work clock right (`Fits`,
`Clocked`) and leaves the owner the latest one named (`OwnerKept`), and, of a merge,
that the primary's staged events include every public reply of the tickets read so
far. `DeskKeepsLifecycle` then maps a commit to a step of the lifecycle of each ticket
and everything else to a stutter. `ClocksKept` leaves out the two handlers that set a
status without its clock and the rows born open without one (follow-up tickets of
the call log): with them the property is false, see *What the reading turned up*.

**SLA clock.** `ClockInv` says of every row that it `Accounts` for its pause rows: the
deadline, if there is one, is the budget and the sum of the closed rows, at most one
row is open, and the pause column holds its start; and that a staged resume has
found the open row. `PauseAccounts` shows that a new row leaves the sum alone,
`ResumeAccounts` that closing one adds the same length to the sum and to the
deadline; everything else keeps the two columns and the pause rows. The sum is a
fold over the rows in an arbitrary order: `Induction` shows (`FoldIsSum`,
`SumExtends`) that the order is irrelevant and one more index adds its value.
Two sessions that resume the same pause would add it twice, hence `OneAtATime`.

**Intake.** Assumed: `IntakeAssumption` (finite sets, positive bounds, a moment to
begin with), `MixAssumption`, `CalendarAssumption`, `LoopsSuffice`, and that `None`
is nothing else (`NoneIsNothing`). Every invariant a run checks is proved.

* Numbers (`NumberInv`, of behaviours in which no held counter is lost and no seed
  query fails, `Counted0`; the counter may be lost at any other moment): the counter
  has reached every portal number that is committed or held by a request, two
  holders never hold one number, and the seed a request has read is not behind the
  rows unless the counter exists by now, when `SETNX` will change nothing. This last
  part is the hard one: the seeding is three awaits, and another request may count
  and commit between any two of them. Steps are sorted into those that seed, count,
  commit, evict, and the quiet rest.
* Confirmations and uploads (`PublishInv`): a staged row that says it has a file
  has it on disk before the commit, and a confirmation is queued with the row of
  its number committed.
* Limits (`LimitInv`, as long as no key is lost and no request fails before its
  EXPIRE): a key that counts has an expiry at most a day ahead, or the request that
  is about to set one.
* `DayIsLimited` says, under the same two hypotheses, that a phone gets fewer than
  twice the limit into any stretch of a day. `DayInv` counts by windows: since the
  window's start there are no more rows and submissions under way than the counter
  says, and no more than the limit; the first moment of the window took one of them,
  so that a stretch that leaves this moment behind has at most one less than the
  limit in the window; and the stretch shorter than a day before the window has at
  most one less, too.
* Deadlines: an induction over the iterations of the loop. What is spent of the
  budget and what has passed of working time stay equal but for the half minute the
  first day may lose (`SpendsInTime`): from the second day on the loop starts at a
  full hour and nothing more is lost. `LoopsSuffice` says that nothing remains.
  `Induction` makes this possible: the provers cannot instantiate a theorem about
  all predicates, but the set of the numbers for which something holds is a value
  like any other.

**Accounts.** Assumed: `Jtis` is finite, the lives are positive and the idle timeout
is no longer than an access token; the seed's accounts are rows without a second
factor that lacks its secret (`SeedsAreRows`); `None` is no cell (`NoneIsNoCell`).
Revocation needs no inductive invariant: the lemmas show that only `IssueLogin` and
`IssueRefresh` add keys, and those of identifiers no living token has (`FreshPair`,
from the cardinality of the free ones). The idle timeout needs `IdleInv`: of every
token of a login, with its row or on the way to it, what is left of the idle key and
what has gone of the token make up at least the timeout, as long as the token is not
revoked. A tick takes from one and adds to the other; a refresh never reuses the
identifier, which is why the invariant also says that tokens with a row live. The
steps of the page handlers are shown once to stage no token of a login (`Harmless`).

What one request at a time may do to the rows is `SerialInv`: every committed row
asks for a code only if it has the secret and is no administrator's before it
exists (`RowsOK`), and installing what a request has staged on the rows as they are
keeps that and respects the administrators (`StagedOK`). `Moves` says of each
handler that the request it leaves behind is so; with it goes `Known`, that a
request that arrived is somebody's, which is all the types need. The rows an
UPDATE leaves are compared column by column (`EditStaged`), as the staged record
holds only the columns that changed. Overlapping requests break both: a
verification enables the second factor whose secret a disabling clears, and an edit
is committed on a row that became an administrator's in between.

That pages and routes agree holds in every state, whatever rows there are.

**Pages.** Assumed: the keys of a table are of that table only (`TablesApart`,
`KeysApart`); notifications are numbered and finite (`NotesAssumption`), the tickets
of a month finite and there are agents (`MonthAssumption`); every stream has an
agent and a key lives a positive number of rounds (`LiveAssumption`); branches and
employees have different keys and a workbook holds codes and numbers, none of which is
`None` (`DirectoryAssumption`); the limits of the lists are numbers
(`RowLimitAssumption`). `Requests`
holds of all areas: a request knows whether it is alone and is one of the area its
handler belongs to. Each area then has an invariant about what its requests have
read and staged; where it says `alone`, the rows are still as they were read, as a
commit makes every other request overlapped (`PublishesStay`, `RestylesStay`,
`DeletesStay`, `TellsStay` say what survives such a commit).

* Forms (`FormsInv`): a request hides rows that are there and, alone, all that are
  there, so that its commit leaves no other active, and the chosen one active unless
  its column was on when it was read. Themes (`ThemesInv`): a
  toggle stages its own switch turned over and, alone, puts out all that are on.
  `CommittedForms` and `CommitThemeRows` say what a commit leaves of each row.
* Knowledge base (`KbInv`): no request stages a state other than "deleted", so that
  no old edit revives a row; who deletes a category stages the unlinking of its live
  articles, alone of all of them. `ListedIsOpen` needs no invariant: whatever rows a
  limit leaves and whatever is searched for, a list is a part of what its filter
  lets through (`MostViewed`, `Limited`), and that its page opens. Not of a visitor
  at `kb_search_html`, whom the property leaves out as the article refuses him.
* Settings (`AuditInv`): entry and change name the same switches with the same
  values, so that they reach the rows and the log together, whatever was committed
  in between; what an entry tells without writing it is so if the request is alone.
* Reports (`QuietInv`): a report about to be mailed is on, if the worker is alone.
  The employee of the month (`WinnerInv`): the agents the search is through with are
  worth no more than the best it holds; a count of breaches never exceeds that of
  the tickets, hence no worth is negative.
* Notifications (`NotesInv`): a request creates one, or marks only its user's, all of
  which had been sent; none becomes another's or unread. The number of unread falls
  because the set shrinks.
* Viewers (`ViewersInv`): the agent of an open page is here, a living key and the
  absence of its agent add up to at most the life of a key. Hence whom a stream has
  found was here less than that life ago, and so was whom it sends to its page; the
  page keeps the list for one round, which adds one.
* Imports (`DirectoryInv`): of an import that is alone, the rows of the sheet that
  are done came in: the table has their branch or employee once what is staged is
  written (`Covers`), and each other row is still to come (`Left`). A row that is
  skipped is in the table, and stays as staged keys are of rows that are not there
  (`StagesNew`); a row that is added takes a fresh key (`FreshBranch`,
  `BranchStaged`). An employee whose branch is not there is skipped, which is true
  to the end because no branch is staged after the flush. That the portal finds him
  alone by his number is the unique index at the commit, and needs no request to be
  alone.

All this is proved of the composition: the other areas leave a part's variables
alone. `Only` and `Over` of `PageRequest` are written out, because the provers do not
know TLC's `:>` and `@@`.

Every invariant and action property of the passing runs is proved. Only
model-checked: liveness under fairness (`BreachDetected`, `StuckResolved`,
`RightsSettle`) and with it ENABLED, which are out of the prover's reach. No module
has a RECURSIVE operator.

## Not modelled

`PROJECT.json` lists every component with what is left out of it.

* Single writes of free values: branding, integrations, domain and policy pages,
  maintenance. Pages that only read: dashboards, KPI, exports, search, the alert,
  queue and workload streams, tracking and survey pages.
* Pure I/O: storage, message sending, building of documents, templates, language,
  themes as presentation. Health and theme tasks are stubs.
* Handlers that raise before they write: IP whitelist, automations, supervisor
  schedules, leaderboard.
* Watchers, attachments of replies and their permissions: inserts that nothing
  decides on.
* Row locks from flush to commit, and the deadlock of two bulk requests that
  update the same rows in different orders: PostgreSQL aborts one of the two, which
  is a `Rollback` here.
* Eviction of the keys of `Accounts`: a lost `jti:` key is a logout, a lost `idle:`
  key revokes the token at its next use, whatever time has passed. Both end a session
  early; `LoginOutlastsIdle` is stated for a Redis that keeps them.
* The page of a stream that was cut: it shows its last list until the browser
  connects again.

## Plan

Browser forms with stale versions over the handlers of `TicketDesk`, and row locks
with deadlock, if instances stay small enough.
