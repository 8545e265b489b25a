------------------------------ MODULE Pages_proofs -----------------------------
(***************************************************************************)
(* Proofs about the management pages, the reports, the notifications and    *)
(* the viewers of a ticket, for any number of rows and of requests at a     *)
(* time.  An invariant says what a request that is under way has read, and  *)
(* that it is still so if no other has committed since (alone).             *)
(***************************************************************************)
EXTENDS PagesProps, Induction, FiniteSetTheorems, TLAPS

-----------------------------------------------------------------------------
(* Requests.                                                                *)

\* A request under way knows whether it is alone, and is one of its area.
AreaOf(op) ==
    CASE op \in {"save_form_version", "activate_form_version"} -> "forms"
      [] op = "toggle_theme" -> "themes"
      [] op = "generate" -> "reports"
      [] op = "compute_employee_of_month" -> "month"
      [] OTHER -> page.area

Known(r) == {"op", "alone"} \subseteq DOMAIN r /\ AreaOf(r.op) = page.area

Requests ==
    /\ req = [c \in Slots |-> req[c]]
    /\ \A c \in Slots : Busy(c) => Known(req[c])

Kept == page' = page /\ Requests'

LEMMA OverlappedKnown == ASSUME Requests, page' = page, NEW c \in Slots, Busy(c)
  PROVE  LET s == [req[c] EXCEPT !.alone = FALSE] IN
         /\ {"op", "alone"} \subseteq DOMAIN s /\ s.op = req[c].op /\ s.alone = FALSE /\ s # Free
  BY DEF Requests, Known, Free

LEMMA InterruptKeeps == Requests /\ Interrupt => Kept
<1> SUFFICES ASSUME Requests, Interrupt PROVE Kept
  OBVIOUS
<1>1. page' = page /\ req' = [d \in Slots |-> Overlapped(d)]
  BY DEF Interrupt
<1>2. \A d \in Slots : Busy(d)' => Known(req[d])' 
  BY <1>1, OverlappedKnown DEF Overlapped, Requests, Known, Busy, Free, AreaOf
<1> QED BY <1>1, <1>2 DEF Kept, Requests

LEMMA FinishKeeps == ASSUME Requests, NEW c \in Slots, Finish(c) PROVE Kept
<1>1. page' = page /\ req' = [d \in Slots |-> IF d = c THEN Free ELSE Overlapped(d)]
  BY DEF Finish
<1>2. \A d \in Slots : Busy(d)' => Known(req[d])' 
  BY <1>1, OverlappedKnown DEF Overlapped, Requests, Known, Busy, Free, AreaOf
<1> QED BY <1>1, <1>2 DEF Kept, Requests

LEMMA RollbackKeeps == ASSUME Requests, NEW c \in Slots, Rollback(c) PROVE Kept
  BY DEF Rollback, Kept, Requests, Known, Busy, Free, AreaOf

LEMMA FormsKeep == Requests /\ FormsNext => Kept
<1> SUFFICES ASSUME Requests, FormsNext PROVE Kept
  OBVIOUS
<1>1. ASSUME NEW c \in Slots, NEW b, save_form_version(c, b)
      PROVE  Kept
  BY <1>1 DEF FormsNext, save_form_version, Begin, Over, Kept, Requests, Known, AreaOf, Busy, Free
<1>2. ASSUME NEW c \in Slots, NEW f, activate_form_version(c, f)
      PROVE  Kept
  BY <1>2 DEF FormsNext, activate_form_version, Begin, Over, Kept, Requests, Known, AreaOf, Busy, Free
<1>3. ASSUME NEW c \in Slots, UpdateForms(c)
      PROVE  Kept
  BY <1>3 DEF UpdateForms, Goto, Over, Kept, Requests, Known, AreaOf, Busy, Free
<1>4. ASSUME NEW c \in Slots, CommitForm(c)
      PROVE  Kept
  BY <1>4, FinishKeeps, RollbackKeeps DEF CommitForm
<1> QED
  BY <1>1, <1>2, <1>3, <1>4 DEF FormsNext

LEMMA ThemesKeep == Requests /\ ThemesNext => Kept
<1> SUFFICES ASSUME Requests, ThemesNext PROVE Kept
  OBVIOUS
<1>1. ASSUME create_theme
      PROVE  Kept
  BY <1>1, InterruptKeeps DEF create_theme
<1>2. ASSUME NEW c \in Slots, NEW t, toggle_theme(c, t)
      PROVE  Kept
  BY <1>2 DEF ThemesNext, toggle_theme, BeginTheme, Begin, Over, Kept, Requests, Known, AreaOf, Busy, Free
<1>3. ASSUME NEW c \in Slots, NEW t, delete_theme(c, t)
      PROVE  Kept
  BY <1>3 DEF ThemesNext, delete_theme, BeginTheme, Begin, Over, Kept, Requests, Known, AreaOf, Busy, Free
<1>4. ASSUME NEW c \in Slots, NEW t, NEW look, update_theme(c, t, look)
      PROVE  Kept
  BY <1>4 DEF ThemesNext, update_theme, BeginTheme, Begin, Over, Kept, Requests, Known, AreaOf, Busy, Free
<1>5. ASSUME NEW c \in Slots, ReadOtherThemes(c)
      PROVE  Kept
  BY <1>5 DEF ReadOtherThemes, Goto, Over, Kept, Requests, Known, AreaOf, Busy, Free
<1>6. ASSUME NEW c \in Slots, CommitTheme(c)
      PROVE  Kept
  BY <1>6, FinishKeeps, RollbackKeeps DEF CommitTheme
<1> QED
  BY <1>1, <1>2, <1>3, <1>4, <1>5, <1>6 DEF ThemesNext

LEMMA KnowledgeBaseKeeps == Requests /\ KnowledgeBaseNext => Kept
<1> SUFFICES ASSUME Requests, KnowledgeBaseNext PROVE Kept
  OBVIOUS
<1>1. ASSUME create_kb_category
      PROVE  Kept
  BY <1>1, InterruptKeeps DEF create_kb_category
<1>2. ASSUME NEW p, NEW audience, NEW g, kb_create_article(p, audience, g)
      PROVE  Kept
  BY <1>2, InterruptKeeps DEF kb_create_article
<1>3. ASSUME NEW c \in Slots, NEW a, NEW p, NEW audience, NEW g, kb_update_article(c, a, p, audience, g)
      PROVE  Kept
  BY <1>3 DEF KnowledgeBaseNext, kb_update_article, BeginKb, Begin, Over,
     Kept, Requests, Known, AreaOf, Busy, Free
<1>4. ASSUME NEW c \in Slots, NEW a, kb_delete_article(c, a)
      PROVE  Kept
  BY <1>4 DEF KnowledgeBaseNext, kb_delete_article, BeginKb, Begin, Over,
     Kept, Requests, Known, AreaOf, Busy, Free
<1>5. ASSUME NEW c \in Slots, NEW a, NEW k, count(c, a, k)
      PROVE  Kept
  BY <1>5 DEF KnowledgeBaseNext, count, BeginKb, Begin, Over, Kept, Requests, Known, AreaOf, Busy, Free
<1>6. ASSUME NEW c \in Slots, NEW g, delete_kb_category(c, g)
      PROVE  Kept
  BY <1>6 DEF KnowledgeBaseNext, delete_kb_category, BeginKb, Begin, Over,
     Kept, Requests, Known, AreaOf, Busy, Free
<1>7. ASSUME NEW c \in Slots, NEW g, NEW active, update_kb_category(c, g, active)
      PROVE  Kept
  BY <1>7 DEF KnowledgeBaseNext, update_kb_category, BeginKb, Begin, Over,
     Kept, Requests, Known, AreaOf, Busy, Free
<1>8. ASSUME NEW c \in Slots, UnlinkArticles(c)
      PROVE  Kept
  BY <1>8 DEF UnlinkArticles, Goto, Over, Kept, Requests, Known, AreaOf, Busy, Free
<1>9. ASSUME NEW c \in Slots, CommitKb(c)
      PROVE  Kept
  BY <1>9, FinishKeeps, RollbackKeeps DEF CommitKb
<1> QED
  BY <1>1, <1>2, <1>3, <1>4, <1>5, <1>6, <1>7, <1>8, <1>9 DEF KnowledgeBaseNext

LEMMA SkipKeeps == ASSUME Requests, NEW c \in Slots, Busy(c), Skip(c) PROVE Kept
  BY DEF Skip, Goto, Over, Kept, Requests, Known, AreaOf, Busy, Free

LEMMA AddKeeps ==
  ASSUME Requests, NEW c \in Slots, Busy(c), NEW key, NEW row, Add(c, key, row)
  PROVE  Kept
  BY DEF Add, Goto, Over, Kept, Requests, Known, AreaOf, Busy, Free

LEMMA DirectoryKeeps == Requests /\ DirectoryNext => Kept
<1> SUFFICES ASSUME Requests, DirectoryNext PROVE Kept
  OBVIOUS
<1>1. ASSUME NEW c \in Slots, NEW code, create_branch(c, code)
      PROVE  Kept
  BY <1>1 DEF DirectoryNext, create_branch, BeginDir, Begin, Over, Kept, Requests, Known, AreaOf, Busy, Free
<1>2. ASSUME NEW c \in Slots, NEW b, NEW code, update_branch(c, b, code)
      PROVE  Kept
  BY <1>2 DEF DirectoryNext, update_branch, BeginDir, Begin, Over, Kept, Requests, Known, AreaOf, Busy, Free
<1>3. ASSUME NEW c \in Slots, NEW b, toggle_branch(c, b)
      PROVE  Kept
  BY <1>3 DEF DirectoryNext, toggle_branch, BeginDir, Begin, Over, Kept, Requests, Known, AreaOf, Busy, Free
<1>4. ASSUME NEW c \in Slots, NEW b, NEW badge, create_employee(c, badge, b)
      PROVE  Kept
  BY <1>4 DEF DirectoryNext, create_employee, BeginDir, Begin, Over,
     Kept, Requests, Known, AreaOf, Busy, Free
<1>5. ASSUME NEW c \in Slots, NEW e, NEW badge, update_employee(c, e, badge)
      PROVE  Kept
  BY <1>5 DEF DirectoryNext, update_employee, BeginDir, Begin, Over,
     Kept, Requests, Known, AreaOf, Busy, Free
<1>6. ASSUME NEW c \in Slots, NEW e, toggle_employee(c, e)
      PROVE  Kept
  BY <1>6 DEF DirectoryNext, toggle_employee, BeginDir, Begin, Over,
     Kept, Requests, Known, AreaOf, Busy, Free
<1>7. ASSUME NEW c \in Slots, NEW e, delete_employee(c, e)
      PROVE  Kept
  BY <1>7 DEF DirectoryNext, delete_employee, BeginDir, Begin, Over,
     Kept, Requests, Known, AreaOf, Busy, Free
<1>8. ASSUME NEW c \in Slots, NEW book, import_branches_with_employees(c, book)
      PROVE  Kept
  BY <1>8 DEF DirectoryNext, import_branches_with_employees, Begin, Over,
     Kept, Requests, Known, AreaOf, Busy, Free
<1>9. ASSUME NEW c \in Slots, NEW book, NEW b, import_employees(c, book, b)
      PROVE  Kept
  BY <1>9 DEF DirectoryNext, import_employees, Begin, Over, Kept, Requests, Known, AreaOf, Busy, Free
<1>10. ASSUME NEW c \in Slots, ImportBranchRow(c)
      PROVE  Kept
  BY <1>10, SkipKeeps, AddKeeps DEF ImportBranchRow, Reading
<1>11. ASSUME NEW c \in Slots, FlushBranches(c)
      PROVE  Kept
  BY <1>11, RollbackKeeps DEF FlushBranches, Reading, Goto, Over, Kept, Requests, Known, AreaOf, Busy, Free
<1>12. ASSUME NEW c \in Slots, ImportEmployeeRow(c)
      PROVE  Kept
  BY <1>12, SkipKeeps, AddKeeps DEF ImportEmployeeRow, Reading
<1>13. ASSUME NEW c \in Slots, EndOfEmployees(c)
      PROVE  Kept
  BY <1>13 DEF EndOfEmployees, Reading, Goto, Over, Kept, Requests, Known, AreaOf, Busy, Free
<1>14. ASSUME NEW c \in Slots, CommitDirectory(c)
      PROVE  Kept
  BY <1>14, FinishKeeps, RollbackKeeps DEF CommitDirectory
<1> QED
  BY <1>1, <1>2, <1>3, <1>4, <1>5, <1>6, <1>7, <1>8, <1>9, <1>10, <1>11, <1>12, <1>13, <1>14 DEF DirectoryNext

LEMMA SettingsKeep == Requests /\ SettingsNext => Kept
<1> SUFFICES ASSUME Requests, SettingsNext PROVE Kept
  OBVIOUS
<1>1. ASSUME NEW c \in Slots, NEW code, create_department(c, code)
      PROVE  Kept
  BY <1>1 DEF SettingsNext, create_department, BeginSet, BeginToggle, Begin, Over,
     Kept, Requests, Known, AreaOf, Busy, Free
<1>2. ASSUME NEW c \in Slots, NEW d, toggle_department(c, d)
      PROVE  Kept
  BY <1>2 DEF SettingsNext, toggle_department, BeginSet, BeginToggle, Begin, Over,
     Kept, Requests, Known, AreaOf, Busy, Free
<1>3. ASSUME NEW c \in Slots, NEW d, NEW body, update_department(c, d, body)
      PROVE  Kept
  BY <1>3 DEF SettingsNext, update_department, BeginSet, BeginToggle, Begin, Over,
     Kept, Requests, Known, AreaOf, Busy, Free
<1>4. ASSUME NEW c \in Slots, NEW d, NEW fields, save_department_fields(c, d, fields)
      PROVE  Kept
  BY <1>4 DEF SettingsNext, save_department_fields, BeginSet, BeginToggle, Begin, Over,
     Kept, Requests, Known, AreaOf, Busy, Free
<1>5. ASSUME NEW c \in Slots, NEW f, toggle_flag(c, f)
      PROVE  Kept
  BY <1>5 DEF SettingsNext, toggle_flag, BeginSet, BeginToggle, Begin, Over,
     Kept, Requests, Known, AreaOf, Busy, Free
<1>6. ASSUME NEW c \in Slots, NEW r, toggle_notif_rule(c, r)
      PROVE  Kept
  BY <1>6 DEF SettingsNext, toggle_notif_rule, BeginSet, BeginToggle, Begin, Over,
     Kept, Requests, Known, AreaOf, Busy, Free
<1>7. ASSUME NEW c \in Slots, NEW r, toggle_notif_rule_sound(c, r)
      PROVE  Kept
  BY <1>7 DEF SettingsNext, toggle_notif_rule_sound, BeginSet, BeginToggle, Begin, Over,
     Kept, Requests, Known, AreaOf, Busy, Free
<1>8. ASSUME NEW c \in Slots, NEW role, NEW p, NEW priority, upsert_sla_policy(c, role, p, priority)
      PROVE  Kept
  BY <1>8 DEF SettingsNext, upsert_sla_policy, BeginSet, BeginToggle, Begin, Over,
     Kept, Requests, Known, AreaOf, Busy, Free
<1>9. ASSUME NEW c \in Slots, CommitSettings(c)
      PROVE  Kept
  BY <1>9, FinishKeeps, RollbackKeeps DEF CommitSettings
<1> QED
  BY <1>1, <1>2, <1>3, <1>4, <1>5, <1>6, <1>7, <1>8, <1>9 DEF SettingsNext

LEMMA ReportsKeep == Requests /\ ReportsNext => Kept
<1> SUFFICES ASSUME Requests, ReportsNext PROVE Kept
  OBVIOUS
<1>1. ASSUME Tick \/ run_scheduled_reports_due
      PROVE  Kept
  BY <1>1 DEF Tick, run_scheduled_reports_due, Kept, Requests, Known, AreaOf, Busy, Free
<1>2. ASSUME NEW r, NEW frequency, create_scheduled_report(r, frequency)
      PROVE  Kept
  BY <1>2, InterruptKeeps DEF create_scheduled_report
<1>3. ASSUME NEW c \in Slots, NEW r, NEW on, update_scheduled_report(c, r, on)
      PROVE  Kept
  BY <1>3 DEF ReportsNext, update_scheduled_report, BeginReport, Begin, Over,
     Kept, Requests, Known, AreaOf, Busy, Free
<1>4. ASSUME NEW c \in Slots, NEW r, delete_scheduled_report(c, r)
      PROVE  Kept
  BY <1>4 DEF ReportsNext, delete_scheduled_report, BeginReport, Begin, Over,
     Kept, Requests, Known, AreaOf, Busy, Free
<1>5. ASSUME NEW c \in Slots, NEW r, generate_scheduled_report(c, r)
      PROVE  Kept
  BY <1>5 DEF ReportsNext, generate_scheduled_report, Begin, Over, Kept, Requests, Known, AreaOf, Busy, Free
<1>6. ASSUME NEW c \in Slots, MailReport(c)
      PROVE  Kept
  BY <1>6 DEF MailReport, Goto, Over, Kept, Requests, Known, AreaOf, Busy, Free
<1>7. ASSUME NEW c \in Slots, CommitReport(c)
      PROVE  Kept
  BY <1>7, FinishKeeps, RollbackKeeps DEF CommitReport
<1> QED
  BY <1>1, <1>2, <1>3, <1>4, <1>5, <1>6, <1>7 DEF ReportsNext

LEMMA MonthKeeps == Requests /\ MonthNext => Kept
<1> SUFFICES ASSUME Requests, MonthNext PROVE Kept
  OBVIOUS
<1>1. ASSUME NEW k, DeskMoves(k)
      PROVE  Kept
  BY <1>1, InterruptKeeps DEF DeskMoves
<1>2. ASSUME NEW c \in Slots, compute_employee_of_month(c)
      PROVE  Kept
  BY <1>2 DEF MonthNext, compute_employee_of_month, Begin, Over, Kept, Requests, Known, AreaOf, Busy, Free
<1>3. ASSUME NEW c \in Slots, NEW a, CountResolved(c, a)
      PROVE  Kept
  BY <1>3 DEF CountResolved, Goto, Over, Kept, Requests, Known, AreaOf, Busy, Free
<1>4. ASSUME NEW c \in Slots, ScoreAgent(c)
      PROVE  Kept
  BY <1>4 DEF ScoreAgent, Goto, Over, Kept, Requests, Known, AreaOf, Busy, Free
<1>5. ASSUME NEW c \in Slots, AnnounceWinner(c)
      PROVE  Kept
  BY <1>5, FinishKeeps, RollbackKeeps DEF AnnounceWinner
<1> QED
  BY <1>1, <1>2, <1>3, <1>4, <1>5 DEF MonthNext

LEMMA ViewersKeep == Requests /\ ViewersNext => Kept
<1> SUFFICES ASSUME Requests, ViewersNext PROVE Kept
  OBVIOUS
<1>1. ASSUME Round
      PROVE  Kept
  BY <1>1 DEF Round, Kept, Requests, Known, AreaOf, Busy, Free
<1>2. ASSUME NEW s, Register(s) \/ CollectViewers(s) \/ RefreshAndEmit(s) \/ Leave(s) \/ Die(s)
      PROVE  Kept
  BY <1>2 DEF Register, CollectViewers, RefreshAndEmit, Leave, Die, Kept, Requests, Known, AreaOf, Busy, Free
<1> QED
  BY <1>1, <1>2 DEF ViewersNext

LEMMA NotesKeep == Requests /\ NotesNext => Kept
<1> SUFFICES ASSUME Requests, NotesNext PROVE Kept
  OBVIOUS
<1>1. ASSUME NEW c \in Slots, NEW user, create_notification(c, user)
      PROVE  Kept
  BY <1>1 DEF NotesNext, create_notification, Begin, Over, Kept, Requests, Known, AreaOf, Busy, Free
<1>2. ASSUME NEW c \in Slots, NEW user, mark_all_read(c, user)
      PROVE  Kept
  BY <1>2 DEF NotesNext, mark_all_read, BeginRead, Begin, Over, Kept, Requests, Known, AreaOf, Busy, Free
<1>3. ASSUME NEW c \in Slots, NEW n, NEW user, mark_one_read(c, n, user)
      PROVE  Kept
  BY <1>3 DEF NotesNext, mark_one_read, BeginRead, Begin, Over, Kept, Requests, Known, AreaOf, Busy, Free
<1>4. ASSUME NEW c \in Slots, CommitNotes(c)
      PROVE  Kept
  BY <1>4, FinishKeeps, RollbackKeeps DEF CommitNotes
<1> QED
  BY <1>1, <1>2, <1>3, <1>4 DEF NotesNext

LEMMA RequestsInit == Init => Requests
  BY DEF Init, PageInit, Requests, Busy

LEMMA RequestsKept == Requests /\ [Next]_vars => Kept
<1>1. Requests /\ UNCHANGED vars => Kept
  BY DEF vars, Kept, Requests, Known, AreaOf, Busy
<1> QED
  BY <1>1, FormsKeep, ThemesKeep, KnowledgeBaseKeeps, DirectoryKeeps, SettingsKeep, ReportsKeep,
     MonthKeeps, ViewersKeep, NotesKeep DEF Next

-----------------------------------------------------------------------------
(* Scheduled reports.                                                       *)

\* A report that is being built, and nothing has been committed since its row was
\* read, is on.
QuietInv ==
    page.area = "reports" =>
        \A c \in Slots :
            Busy(c) /\ req[c].op = "generate" /\ req[c].pc = "mail" /\ req[c].alone => On(req[c].report)

LEMMA InterruptOverlaps ==
  ASSUME Requests, NEW c \in Slots, req'[c] = Overlapped(c), req'[c] # Free
  PROVE  req'[c].alone = FALSE /\ req'[c].op = req[c].op
  BY OverlappedKnown DEF Overlapped, Requests, Known, Free, Busy

LEMMA ReportsQuiet == Requests /\ QuietInv /\ ReportsNext => QuietInv'
<1> SUFFICES ASSUME Requests, QuietInv, ReportsNext PROVE QuietInv'
  OBVIOUS
<1>1. ASSUME Tick \/ run_scheduled_reports_due
      PROVE  QuietInv'
  BY <1>1 DEF Tick, run_scheduled_reports_due, QuietInv, Busy, On
<1>2. ASSUME NEW r, NEW frequency, create_scheduled_report(r, frequency)
      PROVE  QuietInv'
  BY <1>2, InterruptOverlaps DEF create_scheduled_report, Interrupt, QuietInv, Busy, Requests
<1>3. ASSUME NEW c \in Slots, NEW r, NEW on, update_scheduled_report(c, r, on)
      PROVE  QuietInv'
  BY <1>3 DEF update_scheduled_report, BeginReport, repVars, Begin, Over, QuietInv, Busy, Free, Requests, On
<1>4. ASSUME NEW c \in Slots, NEW r, delete_scheduled_report(c, r)
      PROVE  QuietInv'
  BY <1>4 DEF delete_scheduled_report, BeginReport, repVars, Begin, Over, QuietInv, Busy, Free, Requests, On
<1>5. ASSUME NEW c \in Slots, NEW r, generate_scheduled_report(c, r)
      PROVE  QuietInv'
  BY <1>5 DEF generate_scheduled_report, StillOn, Begin, Over, QuietInv, Busy, Free, Requests, On
<1>6. ASSUME NEW c \in Slots, MailReport(c)
      PROVE  QuietInv'
  BY <1>6 DEF MailReport, repVars, Goto, Over, QuietInv, Busy, Free, Requests, Known, On
<1>7. ASSUME NEW c \in Slots, CommitReport(c)
      PROVE  QuietInv'
  <2>1. CASE Finish(c)
    BY <2>1, InterruptOverlaps DEF Finish, QuietInv, Busy, Requests
  <2>2. CASE Rollback(c) /\ UNCHANGED reports
    BY <2>2 DEF Rollback, QuietInv, Busy, Free, Requests, On
  <2> QED
    BY <1>7, <2>1, <2>2 DEF CommitReport
<1> QED
  BY <1>1, <1>2, <1>3, <1>4, <1>5, <1>6, <1>7 DEF ReportsNext

LEMMA QuietNext == Requests /\ QuietInv /\ [Next]_vars => QuietInv'
<1> SUFFICES ASSUME Requests, QuietInv, [Next]_vars PROVE QuietInv'
  OBVIOUS
<1>1. page' = page
  BY RequestsKept DEF Kept
<1>2. CASE page.area # "reports"
  BY <1>1, <1>2 DEF QuietInv
<1>3. CASE UNCHANGED vars
  BY <1>3 DEF vars, repVars, QuietInv, Busy, On
<1>4. CASE page.area = "reports" /\ Next
  <2>1. ReportsNext
    BY <1>4 DEF Next, FormsNext, ThemesNext, KnowledgeBaseNext, DirectoryNext, SettingsNext, MonthNext,
       ViewersNext, NotesNext
  <2> QED
    BY <2>1, ReportsQuiet
<1> QED
  BY <1>2, <1>3, <1>4

\* A report that was switched off or deleted before a worker began to build it is
\* not mailed (generate_scheduled_report in app/worker/tasks/reports.py): the task
\* reads the row again, however long it waited in the queue.
THEOREM StoppedReportsStayQuiet == Spec => StoppedIsQuiet
<1> DEFINE Quiet == \A c \in Slots :
        Busy(c) /\ req[c].op = "generate" /\ req[c].pc = "mail" /\ req[c].alone /\ req'[c] # req[c] =>
            On(req[c].report)
<1>1. Init => QuietInv
  BY DEF Init, PageInit, QuietInv, Busy
<1>2. Requests /\ QuietInv => Quiet
  BY DEF Requests, Known, AreaOf, QuietInv
<1>3. Requests /\ [Next]_vars => Requests'
  BY RequestsKept DEF Kept
<1> QED
  BY <1>1, <1>2, <1>3, RequestsInit, QuietNext, PTL DEF Spec, StoppedIsQuiet

-----------------------------------------------------------------------------
(* The employee of the month.                                               *)

\* What an agent's tickets are worth.
Worth(a) == 10 * Cardinality(Resolved(a)) - 5 * Cardinality({k \in Resolved(a) : tickets[k].sla_breached})

\* A search that nobody disturbed has counted the tickets as they are, and holds
\* the best of the agents it is through with.
Counting(r) ==
    /\ {"op", "alone", "pc", "left", "agent", "resolved", "best_score", "best_agent"} \subseteq DOMAIN r
    /\ r.pc \in {"count", "score"} /\ r.left \subseteq Agents /\ r.best_score \in Int
    /\ r.pc = "score" => r.agent \in Agents /\ r.resolved = Cardinality(Resolved(r.agent))
    /\ \A a \in Agents \ r.left : Worth(a) <= r.best_score
    /\ \/ r.best_agent \in Agents /\ r.best_score = Worth(r.best_agent)
       \/ r.best_score = -1 /\ r.left = Agents

Searching(c) == Busy(c) /\ req[c].op = "compute_employee_of_month" /\ req[c].alone

WinnerInv == page.area = "month" => \A c \in Slots : Searching(c) => Counting(req[c])

LEMMA WorthIsNatural ==
  ASSUME NEW a
  PROVE  Worth(a) \in Int /\ Worth(a) >= 0
<1> DEFINE R == Resolved(a)
           B == {k \in R : tickets[k].sla_breached}
<1>1. IsFiniteSet(R) /\ Cardinality(R) \in Nat
  BY MonthAssumption, FS_Subset, FS_CardinalityType DEF Resolved
<1>2. Cardinality(B) \in Nat /\ Cardinality(B) <= Cardinality(R)
  BY <1>1, FS_Subset, FS_CardinalityType
<1>3. Worth(a) = 10 * Cardinality(R) - 5 * Cardinality(B)
  BY DEF Worth
<1> QED
  BY <1>1, <1>2, <1>3

LEMMA ScoreIsWorth ==
  ASSUME NEW a
  PROVE  Score(Cardinality(Resolved(a)), Breaches(a)) + AvgCsat(a) * 20 = Worth(a)
<1> DEFINE x == Cardinality(Resolved(a))
           y == Breaches(a)
<1>1. x \in Nat /\ y \in Nat
  BY MonthAssumption, FS_Subset, FS_CardinalityType DEF Resolved, Breaches
<1>2. Worth(a) = 10 * x - 5 * y
  BY DEF Worth, Breaches
<1>3. Score(x, y) + AvgCsat(a) * 20 = x * 10 - y * 5 + 0 * 20
  BY DEF Score, AvgCsat
<1> HIDE DEF x, y
<1>4. Score(x, y) + AvgCsat(a) * 20 = Worth(a)
  BY <1>1, <1>2, <1>3
<1> QED
  BY <1>4 DEF x, y

LEMMA ScoreStep ==
  ASSUME NEW c \in Slots, Requests, Searching(c), Counting(req[c]), ScoreAgent(c)
  PROVE  Counting(req[c])'
<1> DEFINE r == req[c]
           s == req'[c]
           a == r.agent
           better == Worth(a) > r.best_score
<1>1. r.pc = "score" /\ a \in Agents /\ r.resolved = Cardinality(Resolved(a))
  BY DEF ScoreAgent, Counting
<1>2. Score(r.resolved, Breaches(a)) + AvgCsat(a) * 20 = Worth(a)
  BY <1>1, ScoreIsWorth
<1>3. s = Over([pc |-> "count", left |-> r.left \ {a},
                best_score |-> IF better THEN Worth(a) ELSE r.best_score,
                best_agent |-> IF better THEN a ELSE r.best_agent], r)
  BY <1>2 DEF ScoreAgent, Goto, Requests
<1>4. /\ DOMAIN r \subseteq DOMAIN s
      /\ s.pc = "count" /\ s.left = r.left \ {a}
      /\ s.best_score = IF better THEN Worth(a) ELSE r.best_score
      /\ s.best_agent = IF better THEN a ELSE r.best_agent
  BY <1>3 DEF Over
<1>5. UNCHANGED tickets
  BY DEF ScoreAgent, repVars
<1>6. \A b : Worth(b)' = Worth(b)
  BY <1>5 DEF Worth, Resolved
<1>7. \A b : Worth(b) \in Int /\ Worth(b) >= 0
  BY WorthIsNatural
<1>8. \A b \in Agents \ s.left : Worth(b) <= s.best_score
  BY <1>1, <1>4, <1>7 DEF Counting
<1>9. s.best_agent \in Agents /\ s.best_score = Worth(s.best_agent)
  BY <1>1, <1>4, <1>7 DEF Counting
<1>10. s.best_score \in Int /\ s.left \subseteq Agents
  BY <1>4, <1>7 DEF Counting
<1> HIDE DEF r
<1> QED
  BY <1>4, <1>6, <1>8, <1>9, <1>10 DEF Counting, r

LEMMA CountingStays ==
  ASSUME NEW r, Counting(r), UNCHANGED tickets
  PROVE  Counting(r)'
<1>1. \A b : Worth(b)' = Worth(b) /\ Cardinality(Resolved(b))' = Cardinality(Resolved(b))
  BY DEF Worth, Resolved
<1> QED
  BY <1>1 DEF Counting

LEMMA MonthWinner == Requests /\ WinnerInv /\ MonthNext => WinnerInv'
<1> SUFFICES ASSUME Requests, WinnerInv, MonthNext, NEW c \in Slots, Searching(c)'
             PROVE  Counting(req[c])'
  BY RequestsKept, MonthKeeps DEF WinnerInv, MonthNext, Kept
<1>0. page.area = "month"
  BY DEF MonthNext
<1>1. ASSUME NEW k, DeskMoves(k)
      PROVE  FALSE
  BY <1>1, InterruptOverlaps DEF DeskMoves, Interrupt, Searching, Busy, Requests
<1>2. ASSUME NEW d \in Slots, d # c, req'[c] = req[c], UNCHANGED tickets
      PROVE  Counting(req[c])'
  <2>1. Counting(req[c])
    BY <1>2, <1>0 DEF WinnerInv, Searching, Busy
  <2>2. \A r : Counting(r) => Counting(r)'
    BY <1>2, CountingStays
  <2> QED
    BY <2>1, <2>2, <1>2
<1>3. ASSUME compute_employee_of_month(c)
      PROVE  Counting(req[c])'
  <2>1. req'[c] = Over([alone |-> TRUE],
            [op |-> "compute_employee_of_month", pc |-> "count", left |-> Agents,
                 agent |-> None, resolved |-> 0, best_score |-> -1, best_agent |-> None])
    BY <1>3 DEF compute_employee_of_month, Begin, Requests
  <2> DEFINE s == req'[c]
  <2>2. /\ {"op", "alone", "pc", "left", "agent", "resolved", "best_score", "best_agent"} = DOMAIN s
        /\ s.pc = "count" /\ s.left = Agents /\ s.best_score = -1
    BY <2>1 DEF Over
  <2> QED
    BY <2>2 DEF Counting
<1>4. ASSUME NEW a \in Agents, CountResolved(c, a)
      PROVE  Counting(req[c])'
  <2> DEFINE r == req[c]
             s == req'[c]
  <2>1. /\ Busy(c) /\ UNCHANGED tickets
        /\ s = Over([pc |-> "score", agent |-> a, resolved |-> Cardinality(Resolved(a))], r)
    BY <1>4 DEF CountResolved, Goto, Requests, repVars
  <2>2. Known(r)
    BY <2>1 DEF Requests
  <2>3. s.op = r.op /\ s.alone = r.alone
    BY <2>1, <2>2 DEF Over, Known
  <2>4. Counting(r)
    BY <2>1, <2>3, <1>0 DEF Searching, WinnerInv
  <2>5. /\ DOMAIN s = DOMAIN r
        /\ s.pc = "score" /\ s.agent = a /\ s.resolved = Cardinality(Resolved(a))
        /\ s.left = r.left /\ s.best_score = r.best_score /\ s.best_agent = r.best_agent
    BY <2>1, <2>4 DEF Over, Counting
  <2>6. Counting(s)
    BY <2>4, <2>5 DEF Counting
  <2> QED
    BY <2>6, <2>1, CountingStays
<1>5. ASSUME ScoreAgent(c)
      PROVE  Counting(req[c])'
  <2> DEFINE r == req[c]
             s == req'[c]
  <2>1. Busy(c) /\ Known(r)
    BY <1>5 DEF ScoreAgent, Requests
  <2>2. s.op = r.op /\ s.alone = r.alone
    BY <1>5, <2>1 DEF ScoreAgent, Goto, Requests, Over, Known
  <2>3. Searching(c) /\ Counting(r)
    BY <2>1, <2>2, <1>0 DEF Searching, WinnerInv
  <2> QED
    BY <1>5, <2>3, ScoreStep
<1>6. ASSUME AnnounceWinner(c)
      PROVE  FALSE
  BY <1>6 DEF AnnounceWinner, Rollback, Requests, Searching, Busy
<1>7. ASSUME NEW d \in Slots \ {c},
             \/ compute_employee_of_month(d) \/ ScoreAgent(d) \/ AnnounceWinner(d)
             \/ \E a \in Agents : CountResolved(d, a)
      PROVE  Counting(req[c])'
  <2>1. req'[c] = req[c] /\ UNCHANGED tickets
    BY <1>7 DEF compute_employee_of_month, ScoreAgent, AnnounceWinner, CountResolved, Begin, Goto, Rollback,
                Requests, repVars
  <2> QED
    BY <2>1, <1>2
<1> QED
  BY <1>1, <1>3, <1>4, <1>5, <1>6, <1>7 DEF MonthNext

LEMMA WinnerNext == Requests /\ WinnerInv /\ [Next]_vars => WinnerInv'
<1> SUFFICES ASSUME Requests, WinnerInv, [Next]_vars PROVE WinnerInv'
  OBVIOUS
<1>1. page' = page
  BY RequestsKept DEF Kept
<1>2. CASE page.area # "month"
  BY <1>1, <1>2 DEF WinnerInv
<1>3. CASE UNCHANGED vars
  <2>1. UNCHANGED <<req, tickets>>
    BY <1>3 DEF vars, repVars
  <2>2. \A r : Counting(r) => Counting(r)'
    BY <2>1, CountingStays
  <2> QED
    BY <1>1, <2>1, <2>2 DEF WinnerInv, Searching, Busy
<1>4. CASE page.area = "month" /\ Next
  <2>1. MonthNext
    BY <1>4 DEF Next, FormsNext, ThemesNext, KnowledgeBaseNext, DirectoryNext, SettingsNext, ReportsNext,
       ViewersNext, NotesNext
  <2> QED
    BY <2>1, MonthWinner
<1> QED
  BY <1>2, <1>3, <1>4

\* The search ends with its announcement only.
LEMMA SearchEnds ==
  ASSUME Requests, WinnerInv, [Next]_vars, NEW c \in Slots, EndsAlone(c, "compute_employee_of_month")
  PROVE  Counting(req[c]) /\ req[c].pc = "count" /\ req[c].left = {}
<1>1. Busy(c) /\ Searching(c) /\ Known(req[c]) /\ req'[c] = Free
  BY DEF EndsAlone, Ends, Searching, Requests
<1>2. page.area = "month"
  BY <1>1 DEF Known, AreaOf, Searching
<1>3. Counting(req[c])
  BY <1>1, <1>2 DEF WinnerInv
<1>4. req' # req
  BY <1>1 DEF Busy
<1>5. MonthNext
  BY <1>2, <1>4 DEF Next, vars, FormsNext, ThemesNext, KnowledgeBaseNext, DirectoryNext, SettingsNext, ReportsNext,
       ViewersNext, NotesNext
<1>6. ASSUME NEW k, DeskMoves(k)
      PROVE  FALSE
  BY <1>1, <1>6, OverlappedKnown, MonthKeeps, <1>5 DEF DeskMoves, Interrupt, Overlapped, Kept, Requests
<1>7. ASSUME NEW d \in Slots,
             \/ compute_employee_of_month(d) \/ ScoreAgent(d)
             \/ \E a \in Agents : CountResolved(d, a)
      PROVE  FALSE
  <2>1. CASE d # c
    BY <1>1, <1>7, <2>1 DEF compute_employee_of_month, ScoreAgent, CountResolved, Begin, Goto, Requests, Busy
  <2>2. CASE compute_employee_of_month(c)
    BY <1>1, <2>2 DEF compute_employee_of_month, Begin
  <2>3. ASSUME NEW s, Goto(c, s)
        PROVE  FALSE
    BY <1>1, <2>3 DEF Goto, Over, Requests, Known, Free
  <2> QED
    BY <1>7, <2>1, <2>2, <2>3 DEF ScoreAgent, CountResolved
<1>8. PICK d \in Slots : AnnounceWinner(d)
  BY <1>5, <1>6, <1>7 DEF MonthNext
<1>9. d = c
  BY <1>1, <1>8 DEF AnnounceWinner, Rollback, Requests, Busy
<1> QED
  BY <1>3, <1>8, <1>9 DEF AnnounceWinner

\* The employee of the month has the best score of all agents, and there is one,
\* if no ticket moved while they were counted (compute_employee_of_month in
\* app/services/gamification.py).
THEOREM WinnersAreBest == Spec => WinnerIsBest
<1> DEFINE Best == \A c \in Slots : EndsAlone(c, "compute_employee_of_month") =>
        LET Of(a) == 10 * Cardinality(Resolved(a))
                        - 5 * Cardinality({k \in Resolved(a) : tickets[k].sla_breached})
        IN  req[c].best_agent \in Agents /\ \A a \in Agents : Of(a) <= Of(req[c].best_agent)
<1>1. Init => WinnerInv
  BY DEF Init, PageInit, WinnerInv, Searching, Busy
<1>2. Requests /\ WinnerInv /\ [Next]_vars => Best
  <2> SUFFICES ASSUME Requests, WinnerInv, [Next]_vars, NEW c \in Slots, EndsAlone(c, "compute_employee_of_month")
               PROVE  req[c].best_agent \in Agents /\ \A a \in Agents : Worth(a) <= Worth(req[c].best_agent)
    BY DEF Worth
  <2>1. Counting(req[c]) /\ req[c].left = {}
    BY SearchEnds
  <2> QED
    BY <2>1, MonthAssumption DEF Counting
<1>3. Requests /\ [Next]_vars => Requests'
  BY RequestsKept DEF Kept
<1> QED
  BY <1>1, <1>2, <1>3, RequestsInit, WinnerNext, PTL DEF Spec, WinnerIsBest

-----------------------------------------------------------------------------
(* Notifications.                                                           *)

IsNote(note) == DOMAIN note = {"state", "user", "is_read"} /\ note.is_read \in BOOLEAN

NotesTyped ==
    /\ notes = [n \in Notes |-> notes[n]]
    /\ \A n \in Notes : IsNote(notes[n])

\* A request creates a notification or reads some of its user's.
Marks(r) ==
    /\ DOMAIN r.stage \subseteq Notes
    /\ \A n \in DOMAIN r.stage : r.stage[n] = [is_read |-> TRUE] /\ Sent(n) /\ notes[n].user = r.user
Creates(r) == \A n \in DOMAIN r.stage : r.stage[n] = [state |-> "sent"]

NotesInv ==
    page.area = "notes" =>
        NotesTyped /\ \A c \in Slots : Busy(c) => Creates(req[c]) \/ Marks(req[c])

\* No step but a commit marks a notification read, and none makes it another's.
NotesHold ==
    \A n \in Notes : /\ Sent(n) => Sent(n)' /\ notes'[n].user = notes[n].user
                     /\ notes[n].is_read => notes'[n].is_read

LEMMA MarksStay ==
  ASSUME NEW r, Marks(r) \/ Creates(r), NotesHold
  PROVE  (Marks(r) \/ Creates(r))'
<1>1. Creates(r) => Creates(r)'
  BY DEF Creates
<1>2. Marks(r) => Marks(r)'
  BY DEF Marks, NotesHold, Sent
<1> QED
  BY <1>1, <1>2

\* What is left of the numbers for a new notification has a least one.
LEMMA LeastFree ==
  ASSUME NEW free \in SUBSET Notes, free # {}
  PROVE  (CHOOSE n \in free : \A m \in free : n <= m) \in free
  BY LeastNumber, NotesAssumption

LEMMA CreateStep ==
  ASSUME Requests, NotesTyped, NEW c \in Slots, NEW user, create_notification(c, user)
  PROVE  /\ NotesTyped' /\ NotesHold /\ Creates(req'[c])
         /\ \A d \in Slots \ {c} : req'[d] = req[d]
         /\ \A n \in Notes : notes'[n].is_read = notes[n].is_read
<1> DEFINE free == {n \in Notes : notes[n].state = "none"}
           n == CHOOSE n \in free : \A m \in free : n <= m
<1>1. /\ free # {}
      /\ Begin(c, [op |-> "create_notification", user |-> user, stage |-> Only(n, [state |-> "sent"])])
      /\ notes' = [notes EXCEPT ![n].state = "staged", ![n].user = user]
  BY DEF create_notification
<1>2. n \in free
  BY <1>1, LeastFree
<1> HIDE DEF n
<1>3. n \in Notes /\ ~Sent(n)
  BY <1>2 DEF Sent
<1>4. NotesTyped' /\ \A m \in Notes : notes'[m].is_read = notes[m].is_read
  BY <1>1, <1>3 DEF NotesTyped, IsNote
<1>5. NotesHold
  BY <1>1, <1>3, <1>4 DEF NotesHold, Sent, NotesTyped, IsNote
<1>6. req'[c].stage = Only(n, [state |-> "sent"])
  BY <1>1 DEF Begin, Requests, Over
<1>7. Creates(req'[c])
  BY <1>6 DEF Creates, Only
<1> QED
  BY <1>1, <1>4, <1>5, <1>7 DEF Begin, Requests

LEMMA MarkStep ==
  ASSUME Requests, NEW c \in Slots, NEW user, NEW op, NEW matched \in SUBSET Notes,
         \A n \in matched : Sent(n) /\ notes[n].user = user,
         BeginRead(c, op, user, matched)
  PROVE  /\ UNCHANGED notes /\ Marks(req'[c])
         /\ \A d \in Slots \ {c} : req'[d] = req[d]
<1>1. req'[c].stage = [n \in matched |-> [is_read |-> TRUE]] /\ req'[c].user = user
  BY DEF BeginRead, Begin, Requests, Over
<1> QED
  BY <1>1 DEF Marks, BeginRead, Begin, Requests, liveVars

LEMMA NoteRead ==
  ASSUME NEW note, IsNote(note), NEW new, new = Over([is_read |-> TRUE], note)
  PROVE  IsNote(new) /\ new.is_read = TRUE /\ new.state = note.state /\ new.user = note.user
  BY DEF Over, IsNote

LEMMA NoteSent ==
  ASSUME NEW note, IsNote(note), NEW new, new = Over([state |-> "sent"], note)
  PROVE  IsNote(new) /\ new.is_read = note.is_read /\ new.state = "sent" /\ new.user = note.user
  BY DEF Over, IsNote

LEMMA CommitStep ==
  ASSUME Requests, NotesTyped, NEW c \in Slots, CommitNotes(c), Creates(req[c]) \/ Marks(req[c])
  PROVE  /\ NotesTyped' /\ NotesHold
         /\ \A n \in Notes : ~notes[n].is_read /\ notes'[n].is_read => Marks(req[c]) /\ n \in DOMAIN req[c].stage
         /\ Marks(req[c]) => \A n \in Notes : Sent(n)' => Sent(n)
         /\ Marks(req[c]) => \A n \in Notes : notes'[n].user = notes[n].user
<1> DEFINE stage == req[c].stage
<1>1. notes' = [n \in Notes |-> IF n \in DOMAIN stage THEN Over(stage[n], notes[n]) ELSE notes[n]]
  BY DEF CommitNotes, Written, NotesTyped
<1>2. CASE Marks(req[c])
  <2>1. \A n \in Notes \cap DOMAIN stage : notes'[n] = Over([is_read |-> TRUE], notes[n])
    BY <1>1, <1>2 DEF Marks
  <2>2. \A n \in Notes \ DOMAIN stage : notes'[n] = notes[n]
    BY <1>1
  <2>3. \A n \in Notes \cap DOMAIN stage :
            /\ IsNote(notes'[n]) /\ notes'[n].is_read = TRUE
            /\ notes'[n].state = notes[n].state /\ notes'[n].user = notes[n].user
    BY <2>1, NoteRead DEF NotesTyped
  <2> QED
    BY <1>1, <1>2, <2>2, <2>3 DEF NotesTyped, NotesHold, Sent
<1>3. CASE Creates(req[c]) /\ ~Marks(req[c])
  <2>1. \A n \in Notes \cap DOMAIN stage : notes'[n] = Over([state |-> "sent"], notes[n])
    BY <1>1, <1>3 DEF Creates
  <2>2. \A n \in Notes \ DOMAIN stage : notes'[n] = notes[n]
    BY <1>1
  <2>3. \A n \in Notes \cap DOMAIN stage :
            /\ IsNote(notes'[n]) /\ notes'[n].is_read = notes[n].is_read
            /\ notes'[n].state = "sent" /\ notes'[n].user = notes[n].user
    BY <2>1, NoteSent DEF NotesTyped
  <2> QED
    BY <1>1, <1>3, <2>2, <2>3 DEF NotesTyped, NotesHold, Sent
<1> QED
  BY <1>2, <1>3

LEMMA NotesStep ==
  ASSUME Requests, NotesInv, NotesNext
  PROVE  NotesInv' /\ NotesHold
<1>0. page.area = "notes" /\ NotesTyped /\ \A c \in Slots : Busy(c) => Creates(req[c]) \/ Marks(req[c])
  BY DEF NotesNext, NotesInv
<1> SUFFICES /\ NotesTyped' /\ NotesHold
             /\ \A c \in Slots : Busy(c)' => (Creates(req[c]) \/ Marks(req[c]))'
  BY NotesKeep DEF NotesInv
<1>1. ASSUME NEW c \in Slots, NEW user, create_notification(c, user)
      PROVE  /\ NotesTyped' /\ NotesHold
             /\ \A d \in Slots : Busy(d)' => (Creates(req[d]) \/ Marks(req[d]))'
  <2>1. /\ NotesTyped' /\ NotesHold /\ Creates(req'[c])
        /\ \A d \in Slots \ {c} : req'[d] = req[d]
    BY <1>0, <1>1, CreateStep
  <2>2. \A r : Marks(r) \/ Creates(r) => (Marks(r) \/ Creates(r))'
    BY <2>1, MarksStay
  <2>3. Creates(req[c])'
    BY <2>1 DEF Creates
  <2> QED
    BY <1>0, <2>1, <2>2, <2>3 DEF Busy
<1>2. ASSUME NEW c \in Slots, NEW user, NEW op, NEW matched \in SUBSET Notes,
             \A n \in matched : Sent(n) /\ notes[n].user = user,
             BeginRead(c, op, user, matched)
      PROVE  /\ NotesTyped' /\ NotesHold
             /\ \A d \in Slots : Busy(d)' => (Creates(req[d]) \/ Marks(req[d]))'
  <2>1. /\ UNCHANGED notes /\ Marks(req'[c])
        /\ \A d \in Slots \ {c} : req'[d] = req[d]
    BY <1>2, MarkStep
  <2>2. NotesTyped' /\ NotesHold
    BY <2>1, <1>0 DEF NotesTyped, NotesHold, Sent
  <2>3. \A r : Marks(r) \/ Creates(r) => (Marks(r) \/ Creates(r))'
    BY <2>2, MarksStay
  <2> QED
    BY <1>0, <2>1, <2>2, <2>3 DEF Busy
<1>3. ASSUME NEW c \in Slots, NEW user, mark_all_read(c, user)
      PROVE  /\ NotesTyped' /\ NotesHold
             /\ \A d \in Slots : Busy(d)' => (Creates(req[d]) \/ Marks(req[d]))'
  BY <1>3, <1>2 DEF mark_all_read, UnreadOf
<1>4. ASSUME NEW c \in Slots, NEW user, NEW n \in Notes, mark_one_read(c, n, user)
      PROVE  /\ NotesTyped' /\ NotesHold
             /\ \A d \in Slots : Busy(d)' => (Creates(req[d]) \/ Marks(req[d]))'
  BY <1>4, <1>2 DEF mark_one_read, OneOf
<1>5. ASSUME NEW c \in Slots, CommitNotes(c)
      PROVE  /\ NotesTyped' /\ NotesHold
             /\ \A d \in Slots : Busy(d)' => (Creates(req[d]) \/ Marks(req[d]))'
  <2>1. NotesTyped' /\ NotesHold
    BY <1>0, <1>5, CommitStep DEF CommitNotes
  <2>2. \A r : Marks(r) \/ Creates(r) => (Marks(r) \/ Creates(r))'
    BY <2>1, MarksStay
  <2>3. \A d \in Slots : Busy(d)' => Busy(d) /\ req'[d] = [req[d] EXCEPT !.alone = FALSE]
    BY <1>5 DEF CommitNotes, Finish, Overlapped, Busy
  <2>4. ASSUME NEW d \in Slots, Busy(d)'
        PROVE  (Creates(req[d]) \/ Marks(req[d]))'
    <3> DEFINE s == req'[d]
    <3>1. s = [req[d] EXCEPT !.alone = FALSE]
      BY <2>3, <2>4
    <3>2. s.stage = req[d].stage /\ s.user = req[d].user
      BY <3>1
    <3> HIDE DEF s
    <3>3. Creates(req[d]) \/ Marks(req[d])
      BY <1>0, <2>3, <2>4
    <3>4. Creates(req[d]) => Creates(s)
      BY <3>2 DEF Creates
    <3>5. Marks(req[d]) => Marks(s)
      BY <3>2 DEF Marks
    <3> QED
      BY <2>2, <3>3, <3>4, <3>5 DEF s
  <2> QED
    BY <2>1, <2>4
<1> QED
  BY <1>1, <1>3, <1>4, <1>5 DEF NotesNext

LEMMA NotesNextInv == Requests /\ NotesInv /\ [Next]_vars => NotesInv'
<1> SUFFICES ASSUME Requests, NotesInv, [Next]_vars PROVE NotesInv'
  OBVIOUS
<1>1. page' = page
  BY RequestsKept DEF Kept
<1>2. CASE page.area # "notes"
  BY <1>1, <1>2 DEF NotesInv
<1>3. CASE UNCHANGED vars
  <2>1. UNCHANGED <<req, notes>>
    BY <1>3 DEF vars, liveVars
  <2>2. \A r : (Marks(r) \/ Creates(r)) => (Marks(r) \/ Creates(r))'
    BY <2>1 DEF Marks, Creates, Sent
  <2> QED
    BY <1>1, <2>1, <2>2 DEF NotesInv, NotesTyped, Busy
<1>4. CASE page.area = "notes" /\ Next
  <2>1. NotesNext
    BY <1>4 DEF Next, FormsNext, ThemesNext, KnowledgeBaseNext, DirectoryNext, SettingsNext, ReportsNext,
       MonthNext, ViewersNext
  <2> QED
    BY <2>1, NotesStep
<1> QED
  BY <1>2, <1>3, <1>4

\* A commit that marks a notification read leaves its user one less unread, at least.
LEMMA FewerUnread ==
  ASSUME NEW n \in Notes, Sent(n), ~notes[n].is_read, notes'[n].is_read,
         \A m \in Notes : /\ Sent(m)' => Sent(m)
                          /\ notes'[m].user = notes[m].user
                          /\ notes[m].is_read => notes'[m].is_read
  PROVE  get_unread_count(notes[n].user)' < get_unread_count(notes[n].user)
<1> DEFINE U == {m \in Notes : Sent(m) /\ notes[m].user = notes[n].user /\ ~notes[m].is_read}
<1>1. U' \subseteq U \ {n}
  OBVIOUS
<1>2. IsFiniteSet(U) /\ n \in U
  BY NotesAssumption, FS_Subset
<1>3. IsFiniteSet(U \ {n}) /\ Cardinality(U \ {n}) = Cardinality(U) - 1 /\ Cardinality(U) \in Nat
  BY <1>2, FS_RemoveElement, FS_CardinalityType
<1>4. Cardinality(U') <= Cardinality(U \ {n}) /\ Cardinality(U') \in Nat
  BY <1>1, <1>3, FS_Subset, FS_CardinalityType
<1>5. /\ get_unread_count(notes[n].user) = Cardinality(U)
      /\ get_unread_count(notes[n].user)' = Cardinality(U')
  BY DEF get_unread_count
<1> HIDE DEF U
<1> QED
  BY <1>3, <1>4, <1>5

\* What a user is told stays unread until he reads it: a notification is marked read
\* by a request of its user that found it, and the unread ones become fewer, whatever
\* is sent meanwhile (mark_all_read and mark_one_read in app/services/notifications.py).
THEOREM NewsStaysUntilRead == Spec => NewsStaysUnread
<1> DEFINE Reads ==
      \A n \in Notes :
        /\ notes[n].is_read => notes'[n].is_read
        /\ ~notes[n].is_read /\ notes'[n].is_read =>
             /\ Sent(n)
             /\ \E c \in Slots : Ends(c) /\ req[c].user = notes[n].user
                                /\ n \in DOMAIN req[c].stage
             /\ get_unread_count(notes[n].user)' < get_unread_count(notes[n].user)
<1>1. Init => NotesInv
  <2> SUFFICES ASSUME Init PROVE NotesInv
    OBVIOUS
  <2>1. notes = [n \in Notes |-> [state |-> "none", user |-> None, is_read |-> FALSE]]
    BY DEF Init, LiveInit
  <2>2. NotesTyped
    BY <2>1 DEF NotesTyped, IsNote
  <2> QED
    BY <2>2 DEF Init, PageInit, NotesInv, Busy
<1>2. Requests /\ NotesInv /\ [Next]_vars => Reads
  <2> SUFFICES ASSUME Requests, NotesInv, [Next]_vars, NEW n \in Notes
               PROVE  /\ notes[n].is_read => notes'[n].is_read
                      /\ ~notes[n].is_read /\ notes'[n].is_read =>
                           /\ Sent(n)
                           /\ \E c \in Slots : Ends(c) /\ req[c].user = notes[n].user
                                              /\ n \in DOMAIN req[c].stage
                           /\ get_unread_count(notes[n].user)' < get_unread_count(notes[n].user)
    OBVIOUS
  <2>1. CASE UNCHANGED notes
    BY <2>1
  <2>2. CASE NotesNext
    <3>1. page.area = "notes" /\ NotesTyped /\ NotesHold
      BY <2>2, NotesStep DEF NotesNext, NotesInv
    <3>2. CASE \E c \in Slots, user \in Viewers : create_notification(c, user)
      BY <3>1, <3>2, CreateStep
    <3>3. CASE \E c \in Slots : CommitNotes(c)
      <4>1. PICK c \in Slots : CommitNotes(c)
        BY <3>3
      <4>2. Creates(req[c]) \/ Marks(req[c])
        BY <3>1, <4>1 DEF NotesInv, CommitNotes
      <4>3. CASE ~notes[n].is_read /\ notes'[n].is_read
        <5>1. Marks(req[c]) /\ n \in DOMAIN req[c].stage
          BY <3>1, <4>1, <4>2, <4>3, CommitStep
        <5>2. Sent(n) /\ notes[n].user = req[c].user
          BY <5>1 DEF Marks
        <5>3. Ends(c)
          BY <4>1 DEF CommitNotes, Finish, Ends
        <5>4. \A m \in Notes : /\ Sent(m)' => Sent(m)
                               /\ notes'[m].user = notes[m].user
                               /\ notes[m].is_read => notes'[m].is_read
          BY <3>1, <4>1, <4>2, <5>1, CommitStep DEF NotesHold
        <5> QED
          BY <4>3, <5>1, <5>2, <5>3, <5>4, FewerUnread
      <4> QED
        BY <3>1, <4>3 DEF NotesHold
    <3>4. CASE UNCHANGED notes
      BY <3>4
    <3> QED
      BY <2>2, <3>2, <3>3, <3>4 DEF NotesNext, mark_all_read, mark_one_read, BeginRead, liveVars
  <2> QED
    BY <2>1, <2>2 DEF Next, vars, liveVars, ViewersNext, Round, Register, CollectViewers, RefreshAndEmit,
       Leave, Die
<1>3. Requests /\ [Next]_vars => Requests'
  BY RequestsKept DEF Kept
<1> QED
  BY <1>1, <1>2, <1>3, RequestsInit, NotesNextInv, PTL DEF Spec, NewsStaysUnread

-----------------------------------------------------------------------------
(* Settings and their audit entries.                                        *)

Keys == Departments \cup Flags \cup Rules \cup Policies
Switches == {"is_active", "is_enabled"}

\* The columns that are written are columns, and switches are switches.
RowsHaveColumns ==
    /\ settings = [k \in Keys |-> settings[k]] /\ logged = [k \in Keys |-> logged[k]]
    /\ \A k \in Keys : DOMAIN logged[k] \subseteq DOMAIN settings[k]
    /\ \A d \in Departments : {"code", "is_active", "portal_fields"} \subseteq DOMAIN settings[d]
    /\ \A f \in Flags : "is_enabled" \in DOMAIN settings[f]
    /\ \A r \in Rules : {"is_active", "sound"} \subseteq DOMAIN settings[r]
    /\ \A p \in Policies : "priority" \in DOMAIN settings[p]
    /\ \A k \in Keys : \A col \in DOMAIN settings[k] \cap Switches : settings[k][col] \in BOOLEAN

\* What the last entry about a switch says is how it stands.
SwitchesTold ==
    \A k \in DOMAIN settings : \A col \in DOMAIN logged[k] \cap {"is_active", "is_enabled"} :
        logged[k][col] = settings[k][col]

\* The entry of a request tells what it writes, a switch if and only if it writes
\* one; what it tells and does not write is so, unless another commit came in.
Tells(r) ==
    /\ r.row \in Keys /\ DOMAIN r.stage = {r.row}
    /\ DOMAIN r.stage[r.row] \cup DOMAIN r.entry \subseteq DOMAIN settings[r.row]
    /\ DOMAIN r.entry \cap Switches = DOMAIN r.stage[r.row] \cap Switches
    /\ \A col \in DOMAIN r.entry \cap DOMAIN r.stage[r.row] : r.entry[col] = r.stage[r.row][col]
    /\ \A col \in DOMAIN r.stage[r.row] \cap Switches : r.stage[r.row][col] \in BOOLEAN
    /\ r.alone => \A col \in DOMAIN r.entry \ DOMAIN r.stage[r.row] : r.entry[col] = settings[r.row][col]

AuditInv ==
    /\ RowsHaveColumns /\ SwitchesTold
    /\ page.area = "settings" => \A c \in Slots : Busy(c) => Tells(req[c])

LEMMA AuditInit == Init => AuditInv
<1> SUFFICES ASSUME Init PROVE AuditInv
  OBVIOUS
<1>1. /\ settings = [k \in Keys |-> CASE k \in Departments -> NoDepartment
                                      [] k \in Flags -> FlagRow
                                      [] k \in Rules -> RuleRow
                                      [] OTHER -> PolicyRow]
      /\ logged = [k \in Keys |-> Nothing]
  BY DEF Init, SettingsInit, Keys
<1>2. /\ \A d \in Departments : d \in Keys /\ d \notin Flags /\ d \notin Rules
      /\ \A f \in Flags : f \in Keys /\ f \notin Departments /\ f \notin Rules
      /\ \A r \in Rules : r \in Keys /\ r \notin Departments /\ r \notin Flags
      /\ \A p \in Policies : p \in Keys /\ p \notin Departments /\ p \notin Flags /\ p \notin Rules
  BY TablesApart DEF Keys
<1>3. \A k \in Keys : DOMAIN logged[k] = {}
  BY <1>1 DEF Nothing
<1>4. ASSUME NEW d \in Departments
      PROVE  DOMAIN settings[d] = {"code", "is_active", "portal_fields"} /\ settings[d].is_active = TRUE
  <2>1. settings[d] = NoDepartment
    BY <1>1, <1>2
  <2> QED
    BY <2>1 DEF NoDepartment
<1>5. ASSUME NEW f \in Flags
      PROVE  DOMAIN settings[f] = {"is_enabled"} /\ settings[f].is_enabled = TRUE
  <2>1. settings[f] = FlagRow
    BY <1>1, <1>2
  <2> QED
    BY <2>1 DEF FlagRow
<1>6. ASSUME NEW r \in Rules
      PROVE  DOMAIN settings[r] = {"is_active", "sound"} /\ settings[r].is_active = TRUE
  <2>1. settings[r] = RuleRow
    BY <1>1, <1>2
  <2> QED
    BY <2>1 DEF RuleRow
<1>7. ASSUME NEW p \in Policies
      PROVE  DOMAIN settings[p] = {"priority", "clock_minutes"}
  <2>1. settings[p] = PolicyRow
    BY <1>1, <1>2
  <2> QED
    BY <2>1 DEF PolicyRow
<1>8. ASSUME NEW k \in Keys, NEW col \in DOMAIN settings[k] \cap Switches
      PROVE  settings[k][col] \in BOOLEAN
  <2>1. CASE k \in Departments
    BY <1>4, <1>8, <2>1 DEF Switches
  <2>2. CASE k \in Flags
    BY <1>5, <1>8, <2>2 DEF Switches
  <2>3. CASE k \in Rules
    BY <1>6, <1>8, <2>3 DEF Switches
  <2>4. CASE k \in Policies
    BY <1>7, <1>8, <2>4 DEF Switches
  <2> QED
    BY <1>8, <2>1, <2>2, <2>3, <2>4 DEF Keys
<1>9. RowsHaveColumns
  <2>1. settings = [k \in Keys |-> settings[k]] /\ logged = [k \in Keys |-> logged[k]]
    BY <1>1
  <2> QED
    BY <2>1, <1>3, <1>4, <1>8, <1>5, <1>6, <1>7 DEF RowsHaveColumns
<1>10. SwitchesTold
  BY <1>1, <1>3 DEF SwitchesTold
<1> QED
  BY <1>9, <1>10 DEF Init, PageInit, AuditInv, Busy

\* A change of some columns and an entry that tells it, or one that tells nothing
\* of a change of no switch.
LEMMA BeginSetTells ==
  ASSUME Requests, NEW c \in Slots, NEW op, NEW k \in Keys, NEW new, NEW entry,
         BeginSet(c, op, k, new, entry),
         entry = new \/ (DOMAIN entry = {} /\ DOMAIN new \cap Switches = {}),
         DOMAIN new \subseteq DOMAIN settings[k],
         \A col \in DOMAIN new \cap Switches : new[col] # settings[k][col] /\ new[col] \in BOOLEAN
  PROVE  /\ UNCHANGED setVars /\ Tells(req'[c])
         /\ \A d \in Slots \ {c} : req'[d] = req[d]
<1> DEFINE s == req'[c]
           net == NetChange(settings[k], new)
<1>1. /\ s.row = k /\ s.entry = entry /\ s.stage = Only(k, net)
      /\ \A d \in Slots \ {c} : req'[d] = req[d]
  BY DEF BeginSet, Begin, Over, Requests
<1>2. DOMAIN s.stage = {k} /\ s.stage[k] = net
  BY <1>1 DEF Only
<1>3. /\ DOMAIN net = {col \in DOMAIN new : new[col] # settings[k][col]}
      /\ \A col \in DOMAIN net : net[col] = new[col]
  BY DEF NetChange
<1> HIDE DEF s, net
<1>4. DOMAIN entry \cap Switches = DOMAIN net \cap Switches
  BY <1>3
<1>5. /\ \A col \in DOMAIN entry \cap DOMAIN net : entry[col] = net[col]
      /\ \A col \in DOMAIN entry \ DOMAIN net : entry[col] = settings[k][col]
      /\ \A col \in DOMAIN net \cap Switches : net[col] \in BOOLEAN
      /\ DOMAIN net \cup DOMAIN entry \subseteq DOMAIN settings[k]
  BY <1>3
<1>6. Tells(s)
  BY <1>1, <1>2, <1>4, <1>5 DEF Tells
<1>7. UNCHANGED setVars
  BY DEF BeginSet
<1> QED
  BY <1>1, <1>6, <1>7 DEF s

LEMMA ToggleTells ==
  ASSUME Requests, NEW c \in Slots, NEW op, NEW k \in Keys, NEW col \in Switches, RowsHaveColumns,
         col \in DOMAIN settings[k], BeginToggle(c, op, k, col)
  PROVE  /\ UNCHANGED setVars /\ Tells(req'[c])
         /\ \A d \in Slots \ {c} : req'[d] = req[d]
<1> DEFINE new == Toggled(settings[k], col)
<1>1. BeginSet(c, op, k, new, new)
  BY DEF BeginToggle, Toggled, ToggledEntry
<1>2. DOMAIN new = {col} /\ new[col] = ~settings[k][col]
  BY DEF Toggled, Only
<1>3. settings[k][col] \in BOOLEAN
  BY DEF RowsHaveColumns
<1> HIDE DEF new
<1>4. new[col] \in BOOLEAN /\ new[col] # settings[k][col]
  BY <1>2, <1>3
<1> QED
  BY <1>1, <1>2, <1>4, BeginSetTells

\* One column that is no switch, and an entry that gives it or says nothing.
LEMMA PlainTells ==
  ASSUME Requests, NEW c \in Slots, NEW op, NEW k \in Keys, NEW new, NEW entry, NEW col,
         DOMAIN new = {col}, col \notin Switches, col \in DOMAIN settings[k],
         entry = new \/ DOMAIN entry = {},
         BeginSet(c, op, k, new, entry)
  PROVE  /\ UNCHANGED setVars /\ Tells(req'[c])
         /\ \A d \in Slots \ {c} : req'[d] = req[d]
<1>1. DOMAIN new \subseteq DOMAIN settings[k] /\ DOMAIN new \cap Switches = {}
  OBVIOUS
<1> QED
  BY <1>1, BeginSetTells

Begins(c) ==
    /\ UNCHANGED setVars /\ Tells(req'[c])
    /\ \A d \in Slots \ {c} : req'[d] = req[d]

LEMMA SettingsBegin ==
  ASSUME Requests, AuditInv, SettingsNext
  PROVE  \E c \in Slots : CommitSettings(c) \/ Begins(c)
<1>0. RowsHaveColumns
  BY DEF SettingsNext, AuditInv
<1>1. ASSUME NEW c \in Slots, NEW code, create_department(c, code)
      PROVE  Begins(c)
  <2> DEFINE free == {d \in Departments \ DepartmentRows : \A e \in Slots : Busy(e) => d # req[e].row}
             d == CHOOSE d \in free : TRUE
  <2>1. free # {} /\ BeginSet(c, "create_department", d, [code |-> code], [code |-> code])
    BY <1>1 DEF create_department
  <2>2. d \in Departments
    BY <2>1
  <2> HIDE DEF d
  <2>3. d \in Keys /\ "code" \in DOMAIN settings[d] /\ "code" \notin Switches
    BY <1>0, <2>2 DEF RowsHaveColumns, Keys, Switches
  <2> DEFINE new == [code |-> code]
  <2>4. DOMAIN new = {"code"} /\ BeginSet(c, "create_department", d, new, new)
    BY <2>1
  <2> HIDE DEF new
  <2> QED
    BY <2>3, <2>4, PlainTells DEF Begins
<1>2. ASSUME NEW c \in Slots, NEW d \in Departments, NEW body, update_department(c, d, body)
      PROVE  Begins(c)
  <2> DEFINE new == [code |-> IF body = None THEN settings[d].code ELSE body]
  <2>1. DOMAIN new = {"code"} /\ BeginSet(c, "update_department", d, new, new)
    BY <1>2 DEF update_department
  <2>2. d \in Keys /\ "code" \in DOMAIN settings[d] /\ "code" \notin Switches
    BY <1>0 DEF RowsHaveColumns, Keys, Switches
  <2> HIDE DEF new
  <2> QED
    BY <2>1, <2>2, PlainTells DEF Begins
<1>3. ASSUME NEW c \in Slots, NEW d \in Departments, NEW fields, save_department_fields(c, d, fields)
      PROVE  Begins(c)
  <2> DEFINE new == [portal_fields |-> fields]
  <2>1. DOMAIN new = {"portal_fields"} /\ BeginSet(c, "save_department_fields", d, new, new)
    BY <1>3 DEF save_department_fields
  <2>2. d \in Keys /\ "portal_fields" \in DOMAIN settings[d] /\ "portal_fields" \notin Switches
    BY <1>0 DEF RowsHaveColumns, Keys, Switches
  <2> HIDE DEF new
  <2> QED
    BY <2>1, <2>2, PlainTells DEF Begins
<1>4. ASSUME NEW c \in Slots, NEW r \in Rules, toggle_notif_rule_sound(c, r)
      PROVE  Begins(c)
  <2> DEFINE new == Toggled(settings[r], "sound")
  <2>1. DOMAIN new = {"sound"} /\ BeginSet(c, "toggle_notif_rule_sound", r, new, Nothing)
    BY <1>4 DEF toggle_notif_rule_sound, Toggled, Only
  <2>2. r \in Keys /\ "sound" \in DOMAIN settings[r] /\ "sound" \notin Switches /\ DOMAIN Nothing = {}
    BY <1>0 DEF RowsHaveColumns, Keys, Switches, Nothing
  <2> HIDE DEF new
  <2> QED
    BY <2>1, <2>2, PlainTells DEF Begins
<1>5. ASSUME NEW c \in Slots, NEW role, NEW p \in Policies, NEW priority, upsert_sla_policy(c, role, p, priority)
      PROVE  Begins(c)
  <2> DEFINE new == [priority |-> priority]
  <2>1. DOMAIN new = {"priority"} /\ BeginSet(c, "upsert_sla_policy", p, new, new)
    BY <1>5 DEF upsert_sla_policy
  <2>2. p \in Keys /\ "priority" \in DOMAIN settings[p] /\ "priority" \notin Switches
    BY <1>0 DEF RowsHaveColumns, Keys, Switches
  <2> HIDE DEF new
  <2> QED
    BY <2>1, <2>2, PlainTells DEF Begins
<1>6. ASSUME NEW c \in Slots, NEW d \in Departments, toggle_department(c, d)
      PROVE  Begins(c)
  <2>1. d \in Keys /\ "is_active" \in DOMAIN settings[d] /\ "is_active" \in Switches
    BY <1>0 DEF RowsHaveColumns, Keys, Switches
  <2> QED
    BY <1>0, <1>6, <2>1, ToggleTells DEF toggle_department, Begins
<1>7. ASSUME NEW c \in Slots, NEW f \in Flags, toggle_flag(c, f)
      PROVE  Begins(c)
  <2>1. f \in Keys /\ "is_enabled" \in DOMAIN settings[f] /\ "is_enabled" \in Switches
    BY <1>0 DEF RowsHaveColumns, Keys, Switches
  <2> QED
    BY <1>0, <1>7, <2>1, ToggleTells DEF toggle_flag, Begins
<1>8. ASSUME NEW c \in Slots, NEW r \in Rules, toggle_notif_rule(c, r)
      PROVE  Begins(c)
  <2>1. r \in Keys /\ "is_active" \in DOMAIN settings[r] /\ "is_active" \in Switches
    BY <1>0 DEF RowsHaveColumns, Keys, Switches
  <2> QED
    BY <1>0, <1>8, <2>1, ToggleTells DEF toggle_notif_rule, Begins
<1> QED
  BY <1>1, <1>2, <1>3, <1>4, <1>5, <1>6, <1>7, <1>8 DEF SettingsNext

\* A request keeps telling what it writes as long as it is alone or the rows stay.
LEMMA TellsStay ==
  ASSUME NEW r, Tells(r), RowsHaveColumns',
         \A k \in Keys : DOMAIN settings'[k] = DOMAIN settings[k],
         r.alone => UNCHANGED settings
  PROVE  Tells(r)'
  BY DEF Tells

LEMMA SettingsCommit ==
  ASSUME Requests, RowsHaveColumns, NEW c \in Slots, Busy(c), Tells(req[c]), CommitSettings(c)
  PROVE  \/ Rollback(c) /\ UNCHANGED setVars
         \/ /\ Finish(c) /\ RowsHaveColumns'
            /\ \A k \in Keys : DOMAIN settings'[k] = DOMAIN settings[k]
            /\ \A k \in Keys \ {req[c].row} : settings'[k] = settings[k] /\ logged'[k] = logged[k]
            /\ settings'[req[c].row] = Over(req[c].stage[req[c].row], settings[req[c].row])
            /\ logged'[req[c].row] = Over(req[c].entry, logged[req[c].row])
<1> DEFINE r == req[c]
           row == r.row
           new == r.stage[row]
<1>1. CASE Rollback(c) /\ UNCHANGED setVars
  BY <1>1
<1>2. CASE /\ settings' = Written(settings, r.stage)
           /\ logged' = [logged EXCEPT ![r.row] = Over(r.entry, @)] /\ Finish(c)
  <2>1. row \in Keys /\ DOMAIN r.stage = {row}
    BY DEF Tells
  <2>2. settings' = [k \in Keys |-> IF k = row THEN Over(new, settings[k]) ELSE settings[k]]
    BY <1>2, <2>1 DEF Written, RowsHaveColumns
  <2>3. logged' = [k \in Keys |-> IF k = row THEN Over(r.entry, logged[k]) ELSE logged[k]]
    BY <1>2, <2>1 DEF RowsHaveColumns
  <2>4. /\ \A k \in Keys \ {row} : settings'[k] = settings[k] /\ logged'[k] = logged[k]
        /\ settings'[row] = Over(new, settings[row]) /\ logged'[row] = Over(r.entry, logged[row])
    BY <2>1, <2>2, <2>3
  <2>5. DOMAIN settings'[row] = DOMAIN settings[row] /\ DOMAIN logged'[row] \subseteq DOMAIN settings[row]
    BY <2>1, <2>4 DEF Over, Tells, RowsHaveColumns
  <2>6. \A col \in DOMAIN settings[row] \cap Switches : settings'[row][col] \in BOOLEAN
    BY <2>1, <2>4, <2>5 DEF Over, Tells, RowsHaveColumns
  <2>7. \A k \in Keys : DOMAIN settings'[k] = DOMAIN settings[k] /\ DOMAIN logged'[k] \subseteq DOMAIN settings'[k]
    BY <2>4, <2>5 DEF RowsHaveColumns
  <2>8. \A k \in Keys : \A col \in DOMAIN settings'[k] \cap Switches : settings'[k][col] \in BOOLEAN
    BY <2>4, <2>6, <2>7 DEF RowsHaveColumns
  <2>9. Departments \subseteq Keys /\ Flags \subseteq Keys /\ Rules \subseteq Keys /\ Policies \subseteq Keys
    BY DEF Keys
  <2>10. settings' = [k \in Keys |-> settings'[k]] /\ logged' = [k \in Keys |-> logged'[k]]
    BY <2>2, <2>3
  <2>11. RowsHaveColumns'
    BY <2>7, <2>8, <2>9, <2>10 DEF RowsHaveColumns
  <2> HIDE DEF new
  <2> QED
    BY <1>2, <2>4, <2>7, <2>11 DEF new
<1> QED
  BY <1>1, <1>2 DEF CommitSettings

\* A commit writes a switch and what the log says of it together, or neither.
LEMMA CommitTold ==
  ASSUME RowsHaveColumns, SwitchesTold, NEW r, Tells(r),
         RowsHaveColumns',
         \A k \in Keys \ {r.row} : settings'[k] = settings[k] /\ logged'[k] = logged[k],
         settings'[r.row] = Over(r.stage[r.row], settings[r.row]),
         logged'[r.row] = Over(r.entry, logged[r.row])
  PROVE  SwitchesTold'
<1> DEFINE row == r.row
           new == r.stage[row]
<1>1. ASSUME NEW col \in DOMAIN logged'[row] \cap Switches
      PROVE  logged'[row][col] = settings'[row][col]
  <2>1. CASE col \in DOMAIN r.entry
    <3>1. col \in DOMAIN new /\ r.entry[col] = new[col]
      BY <1>1, <2>1 DEF Tells
    <3> QED
      BY <2>1, <3>1 DEF Over
  <2>2. CASE col \notin DOMAIN r.entry
    <3>1. col \in DOMAIN logged[row] /\ col \notin DOMAIN new /\ row \in Keys
      BY <1>1, <2>2 DEF Over, Tells
    <3>2. col \in DOMAIN settings[row] /\ row \in DOMAIN settings
      BY <3>1 DEF RowsHaveColumns
    <3>3. logged[row][col] = settings[row][col]
      BY <1>1, <3>1, <3>2 DEF SwitchesTold, Switches
    <3> QED
      BY <2>2, <3>1, <3>2, <3>3 DEF Over
  <2> QED
    BY <2>1, <2>2
<1>2. ASSUME NEW k \in Keys \ {row}, NEW col \in DOMAIN logged'[k] \cap Switches
      PROVE  logged'[k][col] = settings'[k][col]
  <2>1. k \in DOMAIN settings
    BY <1>2 DEF RowsHaveColumns
  <2> QED
    BY <1>2, <2>1 DEF SwitchesTold, Switches
<1>3. DOMAIN settings' = Keys
  BY DEF RowsHaveColumns
<1> QED
  BY <1>1, <1>2, <1>3 DEF SwitchesTold, Switches

LEMMA OverlappedTells ==
  ASSUME Requests, NEW c \in Slots, Busy(c), Tells(req[c]), req'[c] = Overlapped(c)
  PROVE  Tells(req'[c]) /\ req'[c].alone = FALSE
<1> DEFINE r == req[c]
           s == req'[c]
<1>1. s = [r EXCEPT !.alone = FALSE] /\ "alone" \in DOMAIN r
  BY DEF Overlapped, Requests, Known
<1>2. s.alone = FALSE /\ s.row = r.row /\ s.stage = r.stage /\ s.entry = r.entry
  BY <1>1
<1> HIDE DEF s
<1>3. Tells(s)
  BY <1>2 DEF Tells
<1> QED
  BY <1>2, <1>3 DEF s

LEMMA SettingsAudit == Requests /\ AuditInv /\ SettingsNext => AuditInv'
<1> SUFFICES ASSUME Requests, AuditInv, SettingsNext PROVE AuditInv'
  OBVIOUS
<1>0. RowsHaveColumns /\ SwitchesTold /\ \A c \in Slots : Busy(c) => Tells(req[c])
  BY DEF SettingsNext, AuditInv
<1> SUFFICES /\ RowsHaveColumns' /\ SwitchesTold'
             /\ \A d \in Slots : Busy(d)' => Tells(req[d])'
  BY DEF AuditInv
<1>1. ASSUME NEW c \in Slots, UNCHANGED setVars, \A d \in Slots : Busy(d)' => Tells(req'[d])
      PROVE  /\ RowsHaveColumns' /\ SwitchesTold'
             /\ \A d \in Slots : Busy(d)' => Tells(req[d])'
  <2>1. RowsHaveColumns' /\ SwitchesTold' /\ UNCHANGED settings
    BY <1>0, <1>1 DEF setVars, RowsHaveColumns, SwitchesTold
  <2>2. \A r : Tells(r) => Tells(r)'
    BY <2>1 DEF Tells
  <2> QED
    BY <1>1, <2>1, <2>2
<1>2. ASSUME NEW c \in Slots, Begins(c)
      PROVE  /\ RowsHaveColumns' /\ SwitchesTold'
             /\ \A d \in Slots : Busy(d)' => Tells(req[d])'
  BY <1>0, <1>1, <1>2 DEF Begins, Busy
<1>3. ASSUME NEW c \in Slots, CommitSettings(c)
      PROVE  /\ RowsHaveColumns' /\ SwitchesTold'
             /\ \A d \in Slots : Busy(d)' => Tells(req[d])'
  <2>1. Busy(c) /\ Tells(req[c])
    BY <1>0, <1>3 DEF CommitSettings
  <2>2. CASE Rollback(c) /\ UNCHANGED setVars
    <3>1. \A d \in Slots : Busy(d)' => req'[d] = req[d] /\ Busy(d)
      BY <2>2 DEF Rollback, Requests, Busy
    <3> QED
      BY <1>0, <1>1, <2>2, <3>1
  <2>3. CASE /\ Finish(c) /\ RowsHaveColumns'
             /\ \A k \in Keys : DOMAIN settings'[k] = DOMAIN settings[k]
             /\ \A k \in Keys \ {req[c].row} : settings'[k] = settings[k] /\ logged'[k] = logged[k]
             /\ settings'[req[c].row] = Over(req[c].stage[req[c].row], settings[req[c].row])
             /\ logged'[req[c].row] = Over(req[c].entry, logged[req[c].row])
    <3>1. SwitchesTold'
      BY <1>0, <2>1, <2>3, CommitTold
    <3>2. \A d \in Slots : Busy(d)' => Busy(d) /\ req'[d] = Overlapped(d)
      BY <2>3 DEF Finish, Overlapped, Busy
    <3>3. \A d \in Slots : Busy(d)' => Tells(req'[d]) /\ req'[d].alone = FALSE
      BY <1>0, <3>2, OverlappedTells
    <3>4. \A r : Tells(r) /\ r.alone = FALSE => Tells(r)'
      BY <2>3, TellsStay
    <3> QED
      BY <2>3, <3>1, <3>3, <3>4
  <2> QED
    BY <1>0, <1>3, <2>1, <2>2, <2>3, SettingsCommit
<1> QED
  BY <1>2, <1>3, SettingsBegin

LEMMA AuditNext == Requests /\ AuditInv /\ [Next]_vars => AuditInv'
<1> SUFFICES ASSUME Requests, AuditInv, [Next]_vars PROVE AuditInv'
  OBVIOUS
<1>1. page' = page
  BY RequestsKept DEF Kept
<1>2. CASE page.area # "settings" /\ Next
  <2>1. UNCHANGED setVars
    BY <1>2 DEF Next, SettingsNext, FormsNext, ThemesNext
  <2> QED
    BY <1>1, <1>2, <2>1 DEF AuditInv, RowsHaveColumns, SwitchesTold, setVars
<1>3. CASE UNCHANGED vars
  <2>1. UNCHANGED <<req, settings, logged>>
    BY <1>3 DEF vars, setVars
  <2>2. \A r : Tells(r) => Tells(r)'
    BY <2>1 DEF Tells
  <2> QED
    BY <1>1, <2>1, <2>2 DEF AuditInv, RowsHaveColumns, SwitchesTold, Busy
<1>4. CASE page.area = "settings" /\ Next
  <2>1. SettingsNext
    BY <1>4 DEF Next, FormsNext, ThemesNext, KnowledgeBaseNext, DirectoryNext, NotesNext, ReportsNext,
       MonthNext, ViewersNext
  <2> QED
    BY <2>1, SettingsAudit
<1> QED
  BY <1>2, <1>3, <1>4

LEMMA AloneTold ==
  ASSUME Requests, AuditInv, [Next]_vars, NEW c \in Slots, page.area = "settings", Ends(c), req[c].alone
  PROVE  \/ UNCHANGED setVars
         \/ \A col \in DOMAIN req[c].entry : logged'[req[c].row][col] = settings'[req[c].row][col]
<1>1. Busy(c) /\ Known(req[c]) /\ req'[c] = Free
  BY DEF Ends, Requests
<1>2. Tells(req[c]) /\ RowsHaveColumns /\ \A d \in Slots : Busy(d) => Tells(req[d])
  BY <1>1 DEF AuditInv
<1>3. SettingsNext
  <2>1. req' # req
    BY <1>1 DEF Busy
  <2> QED
    BY <2>1 DEF Next, vars, FormsNext, ThemesNext, KnowledgeBaseNext, DirectoryNext, NotesNext, ReportsNext,
       MonthNext, ViewersNext
<1>4. ASSUME NEW d \in Slots, Begins(d)
      PROVE  UNCHANGED setVars
  BY <1>4 DEF Begins
<1>5. ASSUME NEW d \in Slots, CommitSettings(d), d # c
      PROVE  UNCHANGED setVars
  <2>1. Busy(d) /\ Tells(req[d])
    BY <1>2, <1>5 DEF CommitSettings
  <2>2. CASE Finish(d)
    <3>1. req'[c] = [req[c] EXCEPT !.alone = FALSE]
      BY <1>1, <1>5, <2>2 DEF Finish, Overlapped
    <3>2. req'[c] # Free
      BY <1>1, <2>2, <3>1, OverlappedKnown DEF Finish
    <3> QED
      BY <1>1, <3>2
  <2> QED
    BY <1>2, <1>5, <2>1, <2>2, SettingsCommit
<1>6. CASE CommitSettings(c)
  <2> DEFINE r == req[c]
             row == r.row
             new == r.stage[row]
  <2>1. CASE UNCHANGED setVars
    BY <2>1
  <2>2. CASE /\ RowsHaveColumns'
             /\ settings'[row] = Over(new, settings[row]) /\ logged'[row] = Over(r.entry, logged[row])
    <3>1. ASSUME NEW col \in DOMAIN r.entry
          PROVE  logged'[row][col] = settings'[row][col]
      <4>1. logged'[row][col] = r.entry[col]
        BY <2>2, <3>1 DEF Over
      <4>2. CASE col \in DOMAIN new
        BY <1>2, <2>2, <3>1, <4>1, <4>2 DEF Over, Tells
      <4>3. CASE col \notin DOMAIN new
        <5>1. col \in DOMAIN settings[row] /\ r.entry[col] = settings[row][col]
          BY <1>2, <3>1, <4>3 DEF Tells
        <5> QED
          BY <2>2, <4>1, <4>3, <5>1 DEF Over
      <4> QED
        BY <4>2, <4>3
    <3> QED
      BY <3>1
  <2> QED
    BY <1>1, <1>2, <1>6, <2>1, <2>2, SettingsCommit
<1> QED
  BY <1>3, <1>4, <1>5, <1>6, SettingsBegin

\* Whoever reads the last audit entry about a switch reads how it stands, however
\* requests overlap; of what is typed in, after a change nobody overlapped
\* (toggle_department, toggle_flag and the others of app/api/manager.py and admin.py).
THEOREM AuditIsTrue == Spec => AuditTellsState
<1> DEFINE Alone == \A c \in Slots : page.area = "settings" /\ Ends(c) /\ req[c].alone =>
            \/ UNCHANGED setVars
            \/ \A col \in DOMAIN req[c].entry : logged'[req[c].row][col] = settings'[req[c].row][col]
<1>1. AuditInv => SwitchesTold
  BY DEF AuditInv
<1>2. Requests /\ AuditInv /\ [Next]_vars => Alone
  BY AloneTold
<1>3. Requests /\ [Next]_vars => Requests'
  BY RequestsKept DEF Kept
<1> QED
  BY <1>1, <1>2, <1>3, RequestsInit, AuditInit, AuditNext, PTL DEF Spec, AuditTellsState, SwitchesTold

-----------------------------------------------------------------------------
(* The knowledge base.                                                      *)

KbTyped ==
    /\ articles = [a \in Articles |-> articles[a]]
    /\ categories = [g \in Categories |-> categories[g]]
    /\ \A a \in Articles : {"state", "category_id"} \subseteq DOMAIN articles[a]
    /\ \A g \in Categories : "state" \in DOMAIN categories[g]

\* A request brings no row back to life.
OnlyDeletes(r) ==
    \A k \in DOMAIN r.stage : "state" \in DOMAIN r.stage[k] => r.stage[k].state = "deleted"

\* Who deletes a category will unlink its live articles, all of them if no other
\* commit comes in.
Unlinks(r, g) ==
    /\ r.pc \in {g, "commit"} /\ DOMAIN r.stage \cap Categories = {g}
    /\ \A a \in DOMAIN r.stage \cap Articles : r.stage[a] = [category_id |-> None]
    /\ r.pc = "commit" /\ r.alone =>
         \A a \in Articles : LiveArticle(a) /\ articles[a].category_id = g => a \in DOMAIN r.stage

Deletes(r) ==
    /\ OnlyDeletes(r) /\ "pc" \in DOMAIN r
    /\ IF r.op = "delete_kb_category" THEN \E g \in Categories : Unlinks(r, g) ELSE r.pc = "commit"

KbInv == KbTyped /\ (page.area = "kb" => \A c \in Slots : Busy(c) => Deletes(req[c]))

GoneStays ==
    /\ \A a \in Articles : articles[a].state = "deleted" => articles'[a].state = "deleted"
    /\ \A g \in Categories : categories[g].state = "deleted" => categories'[g].state = "deleted"

LEMMA KbInitInv == Init => KbInv
<1> SUFFICES ASSUME Init PROVE KbInv
  OBVIOUS
<1>1. articles = [a \in Articles |-> NoArticle] /\ categories = [g \in Categories |-> NoCategory]
  BY DEF Init, KnowledgeBaseInit
<1>2. {"state", "category_id"} \subseteq DOMAIN NoArticle /\ "state" \in DOMAIN NoCategory
  BY DEF NoArticle, NoCategory
<1>3. KbTyped
  BY <1>1, <1>2 DEF KbTyped
<1> QED
  BY <1>3 DEF Init, PageInit, KbInv, Busy

\* The rows that are staged, laid over a table.
LEMMA WrittenRow ==
  ASSUME NEW K, NEW table, table = [k \in K |-> table[k]], NEW stage, NEW k \in K
  PROVE  Written(table, stage)[k] = IF k \in DOMAIN stage THEN Over(stage[k], table[k]) ELSE table[k]
  BY DEF Written

\* A request that begins, with columns of one row that do not revive it.
LEMMA BeginKbDeletes ==
  ASSUME Requests, NEW c \in Slots, NEW op, op # "delete_kb_category", NEW k, NEW new,
         "state" \in DOMAIN new => new.state = "deleted",
         BeginKb(c, op, "commit", Only(k, new))
  PROVE  /\ UNCHANGED kbVars /\ Deletes(req'[c])
         /\ \A d \in Slots \ {c} : req'[d] = req[d]
<1> DEFINE s == req'[c]
<1>1. /\ s.op = op /\ s.pc = "commit" /\ "pc" \in DOMAIN s /\ s.stage = Only(k, new)
      /\ \A d \in Slots \ {c} : req'[d] = req[d]
      /\ UNCHANGED kbVars
  BY DEF BeginKb, Begin, Over, Requests
<1>2. DOMAIN s.stage = {k} /\ s.stage[k] = new
  BY <1>1 DEF Only
<1> HIDE DEF s
<1>3. OnlyDeletes(s)
  BY <1>2 DEF OnlyDeletes
<1>4. Deletes(s)
  BY <1>1, <1>3 DEF Deletes
<1> QED
  BY <1>1, <1>4 DEF s

LEMMA NetChangeKeeps ==
  ASSUME NEW row, NEW new
  PROVE  DOMAIN NetChange(row, new) \subseteq DOMAIN new
  BY DEF NetChange

KbBegins(c) ==
    /\ UNCHANGED kbVars /\ Deletes(req'[c])
    /\ \A d \in Slots \ {c} : req'[d] = req[d]

LEMMA DeleteCategoryBegins ==
  ASSUME Requests, NEW c \in Slots, NEW g \in Categories, delete_kb_category(c, g)
  PROVE  KbBegins(c)
<1> DEFINE s == req'[c]
<1>1. /\ s.op = "delete_kb_category" /\ s.pc = g /\ "pc" \in DOMAIN s /\ s.stage = Only(g, [state |-> "deleted"])
      /\ \A d \in Slots \ {c} : req'[d] = req[d]
      /\ UNCHANGED kbVars
  BY DEF delete_kb_category, BeginKb, Begin, Over, Requests
<1>2. DOMAIN s.stage = {g} /\ s.stage[g].state = "deleted"
  BY <1>1 DEF Only
<1> HIDE DEF s
<1>3. OnlyDeletes(s)
  BY <1>2 DEF OnlyDeletes
<1>4. Unlinks(s, g)
  BY <1>1, <1>2, KeysApart DEF Unlinks
<1>5. Deletes(s)
  BY <1>1, <1>3, <1>4 DEF Deletes
<1> QED
  BY <1>1, <1>5 DEF s, KbBegins

LEMMA UnlinkStep ==
  ASSUME Requests, KbTyped, NEW c \in Slots, Deletes(req[c]), UnlinkArticles(c)
  PROVE  KbBegins(c)
<1> DEFINE r == req[c]
           s == req'[c]
           g == r.pc
           linked == {a \in Articles : LiveArticle(a) /\ articles[a].category_id = g}
           unlink == [a \in linked |-> NetChange(articles[a], [category_id |-> None])]
<1>1. /\ Busy(c) /\ g \in Categories
      /\ s = Over([pc |-> "commit", stage |-> Over(r.stage, unlink)], r)
      /\ \A d \in Slots \ {c} : req'[d] = req[d]
      /\ UNCHANGED kbVars
  BY DEF UnlinkArticles, Goto, Requests
<1>2. Known(r)
  BY <1>1 DEF Requests
<1>3. /\ s.pc = "commit" /\ s.stage = Over(r.stage, unlink) /\ s.op = r.op /\ s.alone = r.alone
      /\ "pc" \in DOMAIN s
  BY <1>1, <1>2 DEF Over, Known
<1>4. r.op = "delete_kb_category" /\ Unlinks(r, g)
  BY <1>1, KeysApart DEF Deletes, Unlinks
<1>5. DOMAIN r.stage \cap Articles = {} \/ \A a \in DOMAIN r.stage \cap Articles : r.stage[a] = [category_id |-> None]
  BY <1>4 DEF Unlinks
<1>6. \A a \in linked : NetChange(articles[a], [category_id |-> None]) = [category_id |-> None]
  <2> SUFFICES ASSUME NEW a \in linked
               PROVE  NetChange(articles[a], [category_id |-> None]) = [category_id |-> None]
    OBVIOUS
  <2>1. articles[a].category_id # None
    BY <1>1, KeysApart
  <2> QED
    BY <2>1 DEF NetChange
<1>7. DOMAIN unlink = linked /\ \A a \in linked : unlink[a] = [category_id |-> None]
  BY <1>6
<1> HIDE DEF unlink, s
<1>8. /\ DOMAIN s.stage = DOMAIN r.stage \cup linked
      /\ \A k \in DOMAIN r.stage : s.stage[k] = r.stage[k]
      /\ \A k \in linked \ DOMAIN r.stage : s.stage[k] = [category_id |-> None]
  BY <1>3, <1>7 DEF Over
<1>9. OnlyDeletes(s)
  <2>1. \A k \in linked \ DOMAIN r.stage : DOMAIN s.stage[k] = {"category_id"}
    BY <1>8
  <2> HIDE DEF linked
  <2>2. OnlyDeletes(r)
    BY DEF Deletes
  <2>3. ASSUME NEW k \in DOMAIN s.stage, "state" \in DOMAIN s.stage[k]
        PROVE  s.stage[k].state = "deleted"
    <3>1. k \in DOMAIN r.stage
      BY <2>1, <2>3, <1>8
    <3> QED
      BY <3>1, <2>2, <2>3, <1>8 DEF OnlyDeletes
  <2> QED
    BY <2>3 DEF OnlyDeletes
<1>10. Unlinks(s, g)
  <2>1. DOMAIN s.stage \cap Categories = {g}
    BY <1>4, <1>8, KeysApart DEF Unlinks
  <2>2. \A a \in DOMAIN s.stage \cap Articles : s.stage[a] = [category_id |-> None]
    BY <1>4, <1>8 DEF Unlinks
  <2>3. \A a \in Articles : LiveArticle(a) /\ articles[a].category_id = g => a \in DOMAIN s.stage
    BY <1>8
  <2> QED
    BY <1>3, <2>1, <2>2, <2>3 DEF Unlinks
<1>11. Deletes(s)
  BY <1>1, <1>3, <1>4, <1>9, <1>10 DEF Deletes
<1> QED
  BY <1>1, <1>11 DEF s, KbBegins

LEMMA CreateArticleStep ==
  ASSUME Requests, KbTyped, NEW p, NEW audience, NEW g, kb_create_article(p, audience, g)
  PROVE  Interrupt /\ KbTyped' /\ GoneStays /\ UNCHANGED categories
<1> DEFINE free == {a \in Articles : articles[a].state = "none"}
           a == CHOOSE a \in free : TRUE
           new == [NoArticle EXCEPT !.state = "live", !.is_published = p,
                                    !.audience = audience, !.category_id = g]
<1>1. free # {} /\ articles' = [articles EXCEPT ![a] = new] /\ Interrupt /\ UNCHANGED categories
  BY DEF kb_create_article
<1>2. a \in free
  BY <1>1
<1>3. {"state", "category_id"} \subseteq DOMAIN new
  BY DEF NoArticle
<1> HIDE DEF a, new
<1>4. KbTyped'
  BY <1>1, <1>2, <1>3 DEF KbTyped
<1>5. GoneStays
  BY <1>1, <1>2 DEF KbTyped, GoneStays
<1> QED
  BY <1>1, <1>4, <1>5

LEMMA CreateCategoryStep ==
  ASSUME Requests, KbTyped, create_kb_category
  PROVE  Interrupt /\ KbTyped' /\ GoneStays /\ UNCHANGED articles
<1> DEFINE free == {g \in Categories : categories[g].state = "none"}
           g == CHOOSE g \in free : TRUE
<1>1. free # {} /\ categories' = [categories EXCEPT ![g].state = "live"] /\ Interrupt /\ UNCHANGED articles
  BY DEF create_kb_category
<1>2. g \in free
  BY <1>1
<1> HIDE DEF g
<1>3. KbTyped'
  BY <1>1, <1>2 DEF KbTyped
<1>4. GoneStays
  BY <1>1, <1>2 DEF KbTyped, GoneStays
<1> QED
  BY <1>1, <1>3, <1>4

LEMMA CommitKbStep ==
  ASSUME Requests, KbTyped, NEW c \in Slots, OnlyDeletes(req[c]), CommitKb(c)
  PROVE  KbTyped' /\ GoneStays
<1> DEFINE stage == req[c].stage
<1>1. articles' = Written(articles, stage) /\ categories' = Written(categories, stage)
  BY DEF CommitKb
<1>2. articles' = [a \in Articles |-> articles'[a]] /\ categories' = [g \in Categories |-> categories'[g]]
  BY <1>1 DEF Written, KbTyped
<1>3. ASSUME NEW a \in Articles
      PROVE  /\ {"state", "category_id"} \subseteq DOMAIN articles'[a]
             /\ articles[a].state = "deleted" => articles'[a].state = "deleted"
  <2> DEFINE row == articles[a]
             new == stage[a]
  <2>1. articles'[a] = IF a \in DOMAIN stage THEN Over(new, row) ELSE row
    BY <1>1, WrittenRow DEF KbTyped
  <2>2. {"state", "category_id"} \subseteq DOMAIN row
    BY DEF KbTyped
  <2>3. a \in DOMAIN stage /\ "state" \in DOMAIN new => new.state = "deleted"
    BY DEF OnlyDeletes
  <2> HIDE DEF row, new
  <2>4. DOMAIN row \subseteq DOMAIN Over(new, row)
        /\ Over(new, row).state = IF "state" \in DOMAIN new THEN new.state ELSE row.state
    BY <2>2 DEF Over
  <2> QED
    BY <2>1, <2>2, <2>3, <2>4 DEF row
<1>4. ASSUME NEW g \in Categories
      PROVE  /\ "state" \in DOMAIN categories'[g]
             /\ categories[g].state = "deleted" => categories'[g].state = "deleted"
  <2> DEFINE row == categories[g]
             new == stage[g]
  <2>1. categories'[g] = IF g \in DOMAIN stage THEN Over(new, row) ELSE row
    BY <1>1, WrittenRow DEF KbTyped
  <2>2. "state" \in DOMAIN row
    BY DEF KbTyped
  <2>3. g \in DOMAIN stage /\ "state" \in DOMAIN new => new.state = "deleted"
    BY DEF OnlyDeletes
  <2> HIDE DEF row, new
  <2>4. DOMAIN row \subseteq DOMAIN Over(new, row)
        /\ Over(new, row).state = IF "state" \in DOMAIN new THEN new.state ELSE row.state
    BY <2>2 DEF Over
  <2> QED
    BY <2>1, <2>2, <2>3, <2>4 DEF row
<1> QED
  BY <1>2, <1>3, <1>4 DEF KbTyped, GoneStays

\* A step of the knowledge base reads, or writes rows and disturbs the others.
LEMMA KbSteps ==
  ASSUME Requests, KbInv, KnowledgeBaseNext
  PROVE  \/ \E c \in Slots : KbBegins(c)
         \/ Interrupt /\ KbTyped' /\ GoneStays /\ UNCHANGED categories
         \/ Interrupt /\ KbTyped' /\ GoneStays /\ UNCHANGED articles
         \/ \E c \in Slots : CommitKb(c) /\ Deletes(req[c]) /\ KbTyped' /\ GoneStays
<1>0. KbTyped /\ \A c \in Slots : Busy(c) => Deletes(req[c])
  BY DEF KbInv, KnowledgeBaseNext
<1>1. ASSUME NEW c \in Slots, NEW a \in Articles, NEW p, NEW audience, NEW g, kb_update_article(c, a, p, audience, g)
      PROVE  KbBegins(c)
  <2> DEFINE body == [is_published |-> p, audience |-> audience, category_id |-> g]
             new == NetChange(articles[a], body)
  <2>1. BeginKb(c, "kb_update_article", "commit", Only(a, new))
    BY <1>1 DEF kb_update_article
  <2>2. "state" \notin DOMAIN body
    OBVIOUS
  <2>3. "state" \notin DOMAIN new
    BY <2>2, NetChangeKeeps
  <2> HIDE DEF new
  <2> QED
    BY <2>1, <2>3, BeginKbDeletes DEF KbBegins
<1>2. ASSUME NEW c \in Slots, NEW a \in Articles, kb_delete_article(c, a)
      PROVE  KbBegins(c)
  <2> DEFINE new == [state |-> "deleted"]
  <2>1. BeginKb(c, "kb_delete_article", "commit", Only(a, new)) /\ new.state = "deleted"
    BY <1>2 DEF kb_delete_article
  <2> HIDE DEF new
  <2> QED
    BY <2>1, BeginKbDeletes DEF KbBegins
<1>3. ASSUME NEW c \in Slots, NEW a \in Articles, NEW k \in Counters, count(c, a, k)
      PROVE  KbBegins(c)
  <2> DEFINE body == Only(k, articles[a][k] + 1)
             new == NetChange(articles[a], body)
  <2>1. BeginKb(c, "count", "commit", Only(a, new))
    BY <1>3 DEF count
  <2>2. "state" \notin DOMAIN body
    BY DEF Only, Counters
  <2>3. "state" \notin DOMAIN new
    BY <2>2, NetChangeKeeps
  <2> HIDE DEF new
  <2> QED
    BY <2>1, <2>3, BeginKbDeletes DEF KbBegins
<1>4. ASSUME NEW c \in Slots, NEW g \in Categories, NEW active, update_kb_category(c, g, active)
      PROVE  KbBegins(c)
  <2> DEFINE body == [is_active |-> active]
             new == NetChange(categories[g], body)
  <2>1. BeginKb(c, "update_kb_category", "commit", Only(g, new))
    BY <1>4 DEF update_kb_category
  <2>2. "state" \notin DOMAIN body
    OBVIOUS
  <2>3. "state" \notin DOMAIN new
    BY <2>2, NetChangeKeeps
  <2> HIDE DEF new
  <2> QED
    BY <2>1, <2>3, BeginKbDeletes DEF KbBegins
<1>5. ASSUME NEW c \in Slots, UnlinkArticles(c)
      PROVE  KbBegins(c)
  BY <1>0, <1>5, UnlinkStep DEF UnlinkArticles
<1>6. ASSUME NEW c \in Slots, CommitKb(c)
      PROVE  Deletes(req[c]) /\ KbTyped' /\ GoneStays
  BY <1>0, <1>6, CommitKbStep DEF CommitKb, Deletes
<1> QED
  BY <1>0, <1>1, <1>2, <1>3, <1>4, <1>5, <1>6, DeleteCategoryBegins, CreateArticleStep, CreateCategoryStep
  DEF KnowledgeBaseNext

LEMMA OverlappedDeletes ==
  ASSUME Requests, page' = page, NEW c \in Slots, Busy(c), Deletes(req[c]), req'[c] = Overlapped(c)
  PROVE  Deletes(req'[c]) /\ req'[c].alone = FALSE
<1> DEFINE r == req[c]
           s == req'[c]
<1>1. s = [r EXCEPT !.alone = FALSE] /\ {"alone", "op"} \subseteq DOMAIN r
  BY DEF Overlapped, Requests, Known
<1>2. /\ s.alone = FALSE /\ s.op = r.op /\ s.stage = r.stage /\ s.pc = r.pc
      /\ DOMAIN s = DOMAIN r
  BY <1>1
<1> HIDE DEF s
<1>3. OnlyDeletes(r) => OnlyDeletes(s)
  BY <1>2 DEF OnlyDeletes
<1>4. \A g : Unlinks(r, g) => Unlinks(s, g)
  BY <1>2 DEF Unlinks
<1>5. Deletes(s)
  BY <1>2, <1>3, <1>4 DEF Deletes
<1> QED
  BY <1>2, <1>5 DEF s

\* A request that is not alone owes the articles nothing.
LEMMA DeletesStay ==
  ASSUME NEW r, Deletes(r), r.alone = FALSE \/ UNCHANGED articles
  PROVE  Deletes(r)'
<1>1. OnlyDeletes(r)' 
  BY DEF Deletes, OnlyDeletes
<1>2. \A g : Unlinks(r, g) => Unlinks(r, g)'
  BY DEF Unlinks, LiveArticle
<1> QED
  BY <1>1, <1>2 DEF Deletes

LEMMA KbStepInv == Requests /\ KbInv /\ KnowledgeBaseNext => KbInv' /\ GoneStays
<1> SUFFICES ASSUME Requests, KbInv, KnowledgeBaseNext PROVE KbInv' /\ GoneStays
  OBVIOUS
<1>0. KbTyped /\ page' = page /\ \A c \in Slots : Busy(c) => Deletes(req[c])
  BY KnowledgeBaseKeeps DEF KbInv, KnowledgeBaseNext, Kept
<1>1. ASSUME NEW c \in Slots, KbBegins(c)
      PROVE  KbInv' /\ GoneStays
  <2>1. KbTyped' /\ GoneStays /\ UNCHANGED articles
    BY <1>0, <1>1 DEF KbBegins, kbVars, KbTyped, GoneStays
  <2>2. \A r : Deletes(r) => Deletes(r)'
    BY <2>1, DeletesStay
  <2>3. \A d \in Slots : Busy(d)' => Deletes(req'[d])
    BY <1>0, <1>1 DEF KbBegins, Busy
  <2> QED
    BY <2>1, <2>2, <2>3 DEF KbInv
<1>2. ASSUME KbTyped', GoneStays, \A d \in Slots : Busy(d)' => Busy(d) /\ req'[d] = Overlapped(d)
      PROVE  KbInv' /\ GoneStays
  <2>1. \A d \in Slots : Busy(d)' => Deletes(req'[d]) /\ req'[d].alone = FALSE
    BY <1>0, <1>2, OverlappedDeletes
  <2>2. \A r : Deletes(r) /\ r.alone = FALSE => Deletes(r)'
    BY DeletesStay
  <2> QED
    BY <1>2, <2>1, <2>2 DEF KbInv
<1>3. Interrupt => \A d \in Slots : Busy(d)' => Busy(d) /\ req'[d] = Overlapped(d)
  BY DEF Interrupt, Overlapped, Busy
<1>4. ASSUME NEW c \in Slots, CommitKb(c)
      PROVE  \A d \in Slots : Busy(d)' => Busy(d) /\ req'[d] = Overlapped(d)
  BY <1>4 DEF CommitKb, Finish, Overlapped, Busy
<1> QED
  BY <1>1, <1>2, <1>3, <1>4, KbSteps

LEMMA KbNextInv == Requests /\ KbInv /\ [Next]_vars => KbInv' /\ GoneStays
<1> SUFFICES ASSUME Requests, KbInv, [Next]_vars PROVE KbInv' /\ GoneStays
  OBVIOUS
<1>1. page' = page
  BY RequestsKept DEF Kept
<1>2. CASE KnowledgeBaseNext
  BY <1>2, KbStepInv
<1>3. CASE UNCHANGED vars
  <2>1. UNCHANGED <<req, articles, categories>>
    BY <1>3 DEF vars, kbVars
  <2>2. \A r : Deletes(r) => Deletes(r)'
    BY <2>1, DeletesStay
  <2> QED
    BY <1>1, <2>1, <2>2 DEF KbInv, KbTyped, GoneStays, Busy
<1>4. CASE UNCHANGED kbVars /\ page.area # "kb"
  BY <1>1, <1>4 DEF KbInv, KbTyped, GoneStays, kbVars
<1> QED
  BY <1>2, <1>3, <1>4 DEF Next, FormsNext, ThemesNext, DirectoryNext, SettingsNext, NotesNext, ReportsNext,
     MonthNext, ViewersNext

\* A category that was deleted alone has no live article left.
LEMMA DeletedAlone ==
  ASSUME Requests, KbInv, [Next]_vars, NEW c \in Slots, NEW g \in Categories,
         EndsAlone(c, "delete_kb_category"), categories[g] # categories'[g],
         NEW a \in Articles, articles'[a].state = "live"
  PROVE  articles'[a].category_id # g
<1>1. Busy(c) /\ req'[c] = Free /\ req[c].alone /\ req[c].op = "delete_kb_category"
  BY DEF EndsAlone, Ends
<1>2. KnowledgeBaseNext
  BY DEF Next, vars, kbVars
<1>3. KbTyped /\ page' = page
  BY <1>2, KnowledgeBaseKeeps DEF KbInv, Kept
<1>4. ASSUME req'[c] = Overlapped(c)
      PROVE  FALSE
  BY <1>1, <1>3, <1>4, OverlappedKnown DEF Overlapped
<1>5. ASSUME NEW d \in Slots, KbBegins(d)
      PROVE  FALSE
  BY <1>5 DEF KbBegins, kbVars
<1>6. ~Interrupt
  BY <1>4 DEF Interrupt
<1>7. PICK d \in Slots : CommitKb(d) /\ Deletes(req[d])
  BY <1>2, <1>5, <1>6, KbSteps
<1>8. d = c
  BY <1>4, <1>7 DEF CommitKb, Finish
<1> DEFINE r == req[c]
           stage == r.stage
<1>9. PICK h \in Categories : Unlinks(r, h)
  BY <1>1, <1>7, <1>8 DEF Deletes
<1>10. /\ articles' = Written(articles, stage) /\ categories' = Written(categories, stage)
       /\ r.pc = "commit"
  BY <1>7, <1>8 DEF CommitKb
<1>11. h = g
  <2>1. g \notin DOMAIN stage => categories'[g] = categories[g]
    BY <1>3, <1>10, WrittenRow DEF KbTyped
  <2> QED
    BY <1>9, <2>1 DEF Unlinks
<1>12. articles'[a] = IF a \in DOMAIN stage THEN Over(stage[a], articles[a]) ELSE articles[a]
  BY <1>3, <1>10, WrittenRow DEF KbTyped
<1>13. CASE a \in DOMAIN stage
  <2> DEFINE new == stage[a]
             row == articles[a]
  <2>1. new = [category_id |-> None]
    BY <1>9, <1>13 DEF Unlinks
  <2> HIDE DEF new, row
  <2>2. "category_id" \in DOMAIN new /\ new.category_id = None
    BY <2>1
  <2>3. Over(new, row).category_id = None
    BY <2>2 DEF Over
  <2> QED
    BY <1>12, <1>13, <2>3, KeysApart DEF new, row
<1>14. CASE a \notin DOMAIN stage
  BY <1>1, <1>9, <1>10, <1>11, <1>12, <1>14 DEF Unlinks, LiveArticle
<1> QED
  BY <1>13, <1>14

\* An article or a category that was deleted stays deleted, whatever was read
\* before and is committed after; and a category that was deleted alone keeps no
\* live article (app/api/kb.py, delete_kb_category in app/api/manager.py).
THEOREM DeletedIsGone == Spec => DeletedStaysGone
<1> DEFINE Gone ==
      /\ \A a \in Articles : articles[a].state = "deleted" => articles'[a].state = "deleted"
      /\ \A g \in Categories : categories[g].state = "deleted" => categories'[g].state = "deleted"
      /\ \A c \in Slots, g \in Categories :
           EndsAlone(c, "delete_kb_category") /\ categories[g] # categories'[g] =>
               \A a \in Articles : articles'[a].state = "live" => articles'[a].category_id # g
<1>1. Requests /\ KbInv /\ [Next]_vars => Gone
  <2> SUFFICES ASSUME Requests, KbInv, [Next]_vars PROVE Gone
    OBVIOUS
  <2>1. GoneStays
    BY KbNextInv
  <2> QED
    BY <2>1, DeletedAlone DEF GoneStays
<1>2. Requests /\ KbInv /\ [Next]_vars => KbInv'
  BY KbNextInv
<1>3. Requests /\ [Next]_vars => Requests'
  BY RequestsKept DEF Kept
<1> QED
  BY <1>1, <1>2, <1>3, RequestsInit, KbInitInv, PTL DEF Spec, DeletedStaysGone

LEMMA ListedAlwaysOpen == ListedIsOpen
<1>1. \A rows, limit : AllOpen(Limited(rows, limit), rows) /\ AllOpen(MostViewed(rows, limit), rows)
  BY DEF AllOpen, Limited, MostViewed
<1>2. \A lists, rows, opened : AllOpen(lists, rows) /\ rows \subseteq opened => AllOpen({{}} \cup lists, opened)
  BY DEF AllOpen
<1>3. \A lists, rows, opened : AllOpen(lists, rows) /\ rows \subseteq opened => AllOpen(lists, opened)
  BY DEF AllOpen
<1>4. \A reader : Opens(reader, "/kb") = kb_article_detail(reader) /\ Opens(reader, "/portal/kb") = portal_kb_detail
  BY DEF Opens
<1> DEFINE audience(reader, asked) == audience_of(reader, asked)
           link(reader, asked) == IF reader = "editor" THEN "/kb" ELSE kb_link(audience(reader, asked))
<1>5. ASSUME NEW reader \in {"editor", "agent"}, NEW asked \in Audiences, NEW matches \in SUBSET ArticleRows
      PROVE  /\ AllOpen(kb_home(reader, asked, matches), Opens(reader, link(reader, asked)))
             /\ AllOpen(kb_search_html(reader, asked, matches), Opens(reader, kb_link(audience(reader, asked))))
             /\ \A limit \in 0 .. Cardinality(ArticleRows) :
                    AllOpen(kb_search(matches, limit), Opens(reader, "/kb"))
  <2> DEFINE rows == Published(audience(reader, asked)) \cap matches
  <2>1. rows \subseteq Opens(reader, link(reader, asked)) /\ rows \subseteq Opens(reader, kb_link(audience(reader, asked)))
    <3>1. CASE reader = "editor"
      BY <1>4, <3>1 DEF audience_of, kb_article_detail, portal_kb_detail, Published, kb_link, Audiences
    <3>2. CASE reader = "agent"
      BY <1>4, <3>2 DEF audience_of, kb_article_detail, portal_kb_detail, Published, kb_link, Audiences
    <3> QED
      BY <3>1, <3>2
  <2>2. Published("internal") \cap matches \subseteq Opens(reader, "/kb")
    BY <1>4 DEF kb_article_detail, Published
  <2>3. AllOpen(kb_home(reader, asked, matches), Opens(reader, link(reader, asked)))
    BY <1>1, <1>3, <2>1 DEF kb_home
  <2>4. AllOpen(kb_search_html(reader, asked, matches), Opens(reader, kb_link(audience(reader, asked))))
    <3> DEFINE lists == Limited(rows, RowLimit["search"])
    <3>1. kb_search_html(reader, asked, matches) = {{}} \cup lists
      BY Zenon DEF kb_search_html
    <3>2. AllOpen(lists, rows)
      BY <1>1
    <3> HIDE DEF lists, rows, audience, link
    <3>3. AllOpen({{}} \cup lists, Opens(reader, kb_link(audience(reader, asked))))
      BY <1>2, <2>1, <3>2
    <3> QED
      BY <3>1, <3>3, Zenon
  <2>5. \A limit \in 0 .. Cardinality(ArticleRows) : AllOpen(kb_search(matches, limit), Opens(reader, "/kb"))
    <3> SUFFICES ASSUME NEW limit \in 0 .. Cardinality(ArticleRows)
                 PROVE  AllOpen(kb_search(matches, limit), Opens(reader, "/kb"))
      OBVIOUS
    <3> DEFINE internal == Published("internal") \cap matches
               lists == Limited(internal, limit)
    <3>1. kb_search(matches, limit) = {{}} \cup lists
      BY Zenon DEF kb_search
    <3>2. AllOpen(lists, internal)
      BY <1>1
    <3> HIDE DEF lists, internal
    <3>3. AllOpen({{}} \cup lists, Opens(reader, "/kb"))
      BY <1>2, <2>2, <3>2 DEF internal
    <3> QED
      BY <3>1, <3>3, Zenon
  <2> QED
    BY <2>3, <2>4, <2>5
<1>6. ASSUME NEW reader \in Readers
      PROVE  /\ \A a \in kb_article_detail(reader) : AllOpen(kb_related(a), Opens(reader, "/kb"))
             /\ kb_internal_attachment(reader) = Opens(reader, "/kb")
  <2>1. ASSUME NEW a \in kb_article_detail(reader)
        PROVE  AllOpen(kb_related(a), Opens(reader, "/kb"))
    <3> DEFINE rows == {b \in Published(articles[a].audience) \ {a} :
                          articles[a].category_id # None /\ articles[b].category_id = articles[a].category_id}
    <3>1. rows \subseteq Opens(reader, "/kb")
      BY <1>4 DEF kb_article_detail, Published
    <3> QED
      BY <1>1, <1>3, <3>1 DEF kb_related, Related
  <2>2. kb_internal_attachment(reader) = Opens(reader, "/kb")
    BY <1>4 DEF kb_internal_attachment, kb_article_detail
  <2> QED
    BY <2>1, <2>2
<1>7. ASSUME NEW matches \in SUBSET ArticleRows
      PROVE  AllOpen(portal_kb_home(matches), portal_kb_detail) /\ AllOpen(portal_kb_search(matches), portal_kb_detail)
  <2>1. Published("portal") \cap matches \subseteq portal_kb_detail
    BY DEF Published, portal_kb_detail
  <2> QED
    <3> DEFINE rows == Published("portal") \cap matches
               lists == Limited(rows, RowLimit["search"])
    <3>1. portal_kb_search(matches) = {{}} \cup lists
      BY Zenon DEF portal_kb_search
    <3>2. AllOpen(lists, rows)
      BY <1>1
    <3>3. AllOpen(portal_kb_home(matches), portal_kb_detail)
      BY <1>1, <1>3, <2>1 DEF portal_kb_home
    <3> HIDE DEF lists, rows
    <3>4. AllOpen({{}} \cup lists, portal_kb_detail)
      BY <1>2, <2>1, <3>2 DEF rows
    <3> QED
      BY <3>1, <3>3, <3>4, Zenon
<1>8. portal_kb_attachment = portal_kb_detail
  BY DEF portal_kb_attachment, portal_kb_detail
<1>9. ASSUME NEW a \in portal_kb_detail
      PROVE  AllOpen(portal_kb_related(a), portal_kb_detail)
  <2> DEFINE rows == {b \in Published("portal") \ {a} :
                        articles[a].category_id # None /\ articles[b].category_id = articles[a].category_id}
  <2>1. rows \subseteq portal_kb_detail
    BY DEF portal_kb_detail, Published
  <2> QED
    BY <1>1, <1>3, <2>1 DEF portal_kb_related, Related
<1>10. ASSUME NEW g \in DOMAIN manager_kb_categories
       PROVE  manager_kb_categories[g]
                = Cardinality({a \in kb_article_detail("editor") : articles[a].category_id = g})
  <2>1. {a \in kb_article_detail("editor") : articles[a].category_id = g}
          = {a \in Articles : LiveArticle(a) /\ articles[a].category_id = g}
    BY DEF kb_article_detail
  <2> QED
    BY <1>10, <2>1 DEF manager_kb_categories
<1> QED
  BY <1>5, <1>6, <1>7, <1>8, <1>9, <1>10 DEF ListedIsOpen

\* Every article a page or a search may list for a reader, whatever is searched for
\* and whichever rows a limit leaves, opens by the link it carries, and nothing but
\* published articles of the portal comes out through the portal (app/api/kb.py): of
\* every table of articles and categories, reachable or not, and any limits.
THEOREM ListsOpen == Spec => []ListedIsOpen
  BY ListedAlwaysOpen, PTL

-----------------------------------------------------------------------------
(* Form versions.                                                           *)

IsForm(form) ==
    /\ DOMAIN form = {"version", "is_active", "new_structure"}
    /\ form.version \in Nat /\ form.is_active \in BOOLEAN
    /\ form.is_active => form.version > 0

\* Versions are bounded, so that there is a highest one.
FormsTyped ==
    /\ forms = [f \in Forms |-> forms[f]]
    /\ \A f \in Forms : IsForm(forms[f])
    /\ \E n \in Nat : \A f \in Forms : forms[f].version <= n

\* What is known of a request that saves or activates: the rows it hides are rows,
\* and all there are if no other commit came in.
Publishes(r) ==
    /\ {"pc", "stage"} \subseteq DOMAIN r
    /\ \A f \in DOMAIN r.stage : r.stage[f] = [is_active |-> FALSE]
    /\ DOMAIN r.stage \cap Forms \subseteq FormRows
    /\ r.alone /\ r.pc = "commit" => FormRows \subseteq DOMAIN r.stage
    /\ \/ /\ r.op = "save_form_version" /\ {"max_ver", "new_structure"} \subseteq DOMAIN r
          /\ r.max_ver \in Nat /\ r.new_structure \in BOOLEAN
          /\ r.alone => FormRows # Forms
       \/ /\ r.op = "activate_form_version" /\ {"form", "was_active"} \subseteq DOMAIN r
          /\ r.form \in FormRows

FormsInv == FormsTyped /\ (page.area = "forms" => \A c \in Slots : Busy(c) => Publishes(req[c]))

LEMMA FormsInit == Init => FormsInv
<1> SUFFICES ASSUME Init PROVE FormsInv
  OBVIOUS
<1>1. forms = [f \in Forms |-> NoForm]
  BY DEF Init, PublicationsInit
<1>2. IsForm(NoForm) /\ NoForm.version <= 0
  BY DEF IsForm, NoForm
<1>3. FormsTyped
  BY <1>1, <1>2 DEF FormsTyped
<1> QED
  BY <1>3 DEF Init, PageInit, FormsInv, Busy

LEMMA HighestVersion ==
  ASSUME FormsTyped
  PROVE  max_ver \in Nat
<1> DEFINE v == {forms[f].version : f \in FormRows}
<1>1. v \in SUBSET Nat /\ \E n \in Nat : \A m \in v : m <= n
  BY DEF FormsTyped, IsForm, FormRows
<1>2. v # {} => \E n \in v : \A m \in v : m <= n
  <2> SUFFICES ASSUME v # {} PROVE \E n \in v : \A m \in v : m <= n
    OBVIOUS
  <2> HIDE DEF v
  <2>1. PICK n \in Nat : \A m \in v : m <= n
    BY <1>1
  <2>2. PICK n1 \in v : \A m \in v : n1 >= m
    BY <1>1, <2>1, GreatestNumber
  <2> QED
    BY <1>1, <2>2
<1>3. max_ver = IF v = {} THEN 0 ELSE CHOOSE n \in v : \A m \in v : m <= n
  BY DEF max_ver
<1> HIDE DEF v
<1> QED
  BY <1>1, <1>2, <1>3

PublishBegins(c) ==
    /\ UNCHANGED pubVars /\ Publishes(req'[c])
    /\ \A d \in Slots \ {c} : req'[d] = req[d]

LEMMA SaveBegins ==
  ASSUME Requests, FormsTyped, NEW c \in Slots, NEW structured \in BOOLEAN, save_form_version(c, structured)
  PROVE  PublishBegins(c)
<1> DEFINE s == req'[c]
<1>1. /\ FormRows # Forms
      /\ s.op = "save_form_version" /\ s.max_ver = max_ver /\ s.new_structure = structured
      /\ s.pc = "update" /\ s.stage = Nothing
      /\ {"pc", "stage", "max_ver", "new_structure"} \subseteq DOMAIN s
      /\ \A d \in Slots \ {c} : req'[d] = req[d]
      /\ UNCHANGED pubVars
  BY DEF save_form_version, Begin, Over, Requests
<1>2. DOMAIN s.stage = {}
  BY <1>1 DEF Nothing
<1> HIDE DEF s
<1>3. Publishes(s)
  BY <1>1, <1>2, HighestVersion DEF Publishes
<1> QED
  BY <1>1, <1>3 DEF s, PublishBegins

LEMMA ActivateBegins ==
  ASSUME Requests, FormsTyped, NEW c \in Slots, NEW f \in Forms, activate_form_version(c, f)
  PROVE  PublishBegins(c)
<1> DEFINE s == req'[c]
<1>1. /\ f \in FormRows /\ s.op = "activate_form_version" /\ s.form = f
      /\ s.pc = "update" /\ s.stage = Nothing
      /\ {"pc", "stage", "form", "was_active"} \subseteq DOMAIN s
      /\ \A d \in Slots \ {c} : req'[d] = req[d]
      /\ UNCHANGED pubVars
  BY DEF activate_form_version, Begin, Over, Requests
<1>2. DOMAIN s.stage = {}
  BY <1>1 DEF Nothing
<1> HIDE DEF s
<1>3. Publishes(s)
  BY <1>1, <1>2 DEF Publishes
<1> QED
  BY <1>1, <1>3 DEF s, PublishBegins

LEMMA HideStep ==
  ASSUME Requests, FormsTyped, NEW c \in Slots, Publishes(req[c]), UpdateForms(c)
  PROVE  PublishBegins(c)
<1> DEFINE r == req[c]
           s == req'[c]
           hide == [f \in FormRows |-> [is_active |-> FALSE]]
<1>1. /\ Busy(c) /\ s = Over([pc |-> "commit", stage |-> hide], r)
      /\ \A d \in Slots \ {c} : req'[d] = req[d]
      /\ UNCHANGED pubVars
  BY DEF UpdateForms, HideForms, Goto, Requests
<1>2. Known(r)
  BY <1>1 DEF Requests
<1>3. /\ s.pc = "commit" /\ s.stage = hide /\ DOMAIN r \subseteq DOMAIN s
      /\ s.op = r.op /\ s.alone = r.alone
  BY <1>1, <1>2 DEF Over, Known
<1>4. /\ \A f \in DOMAIN s.stage : s.stage[f] = [is_active |-> FALSE]
      /\ DOMAIN s.stage = FormRows
  BY <1>3
<1>5. "pc" \in DOMAIN s /\ "stage" \in DOMAIN s /\ DOMAIN r \subseteq DOMAIN s
  BY <1>1 DEF Over
<1>6. ASSUME r.op = "save_form_version"
      PROVE  Publishes(s)
  <2>1. /\ {"max_ver", "new_structure"} \subseteq DOMAIN r
        /\ r.max_ver \in Nat /\ r.new_structure \in BOOLEAN
        /\ r.alone => FormRows # Forms
    BY <1>6 DEF Publishes
  <2>2. s.max_ver = r.max_ver /\ s.new_structure = r.new_structure
    BY <1>1, <2>1 DEF Over
  <2> HIDE DEF s
  <2> QED
    BY <1>3, <1>4, <1>5, <1>6, <2>1, <2>2 DEF Publishes
<1>7. ASSUME r.op = "activate_form_version"
      PROVE  Publishes(s)
  <2>1. {"form", "was_active"} \subseteq DOMAIN r /\ r.form \in FormRows
    BY <1>7 DEF Publishes
  <2>2. s.form = r.form
    BY <1>1, <2>1 DEF Over
  <2> HIDE DEF s
  <2> QED
    BY <1>3, <1>4, <1>5, <1>7, <2>1, <2>2 DEF Publishes
<1>8. Publishes(s)
  BY <1>6, <1>7 DEF Publishes
<1> QED
  BY <1>1, <1>8 DEF PublishBegins

\* What the commit of a form lays over the rows.
Laid(r) ==
    IF r.op = "save_form_version"
    THEN Only(CHOOSE f \in Forms \ FormRows : TRUE,
              [version |-> r.max_ver + 1, is_active |-> TRUE, new_structure |-> r.new_structure])
    ELSE IF r.was_active THEN Nothing ELSE Only(r.form, [is_active |-> TRUE])

LEMMA CommitFormIs ==
  ASSUME Requests, FormsTyped, NEW c \in Slots, CommitForm(c)
  PROVE  /\ Busy(c) /\ req[c].pc = "commit" /\ Finish(c)
         /\ forms' = Written(forms, Over(Laid(req[c]), req[c].stage))
  BY DEF CommitForm, Laid

\* A form keeps being a form when it is put on or out, and when it is replaced.
LEMMA FormSwitched ==
  ASSUME NEW form, IsForm(form), NEW new, NEW row, row = Over(new, form),
         DOMAIN new = {"is_active"}, new.is_active \in BOOLEAN, new.is_active => form.version > 0
  PROVE  IsForm(row) /\ row.is_active = new.is_active /\ row.version = form.version
<1>1. /\ DOMAIN row = {"version", "is_active", "new_structure"}
      /\ row.version = form.version /\ row.is_active = new.is_active
  BY DEF Over, IsForm
<1> QED
  BY <1>1 DEF IsForm

LEMMA FormReplaced ==
  ASSUME NEW form, IsForm(form), NEW new, NEW row, row = Over(new, form),
         DOMAIN new = {"version", "is_active", "new_structure"},
         new.version \in Nat, new.version > 0, new.is_active = TRUE
  PROVE  IsForm(row) /\ row.is_active = TRUE /\ row.version = new.version /\ row.new_structure = new.new_structure
<1>1. /\ DOMAIN row = {"version", "is_active", "new_structure"}
      /\ row.version = new.version /\ row.is_active = TRUE /\ row.new_structure = new.new_structure
  BY DEF Over, IsForm
<1> QED
  BY <1>1 DEF IsForm

\* What a commit leaves of each form: the new one, the one that is brought back, one
\* that is hidden, or one that is not touched.
LEMMA CommittedForms ==
  ASSUME Requests, FormsTyped, NEW c \in Slots, Publishes(req[c]), CommitForm(c), NEW f \in Forms
  PROVE  LET r == req[c]
             over == Laid(r)
             row == forms'[f]
         IN  /\ f \in DOMAIN over /\ r.op = "save_form_version" =>
                   /\ IsForm(row) /\ row.is_active = TRUE /\ row.version = r.max_ver + 1
                   /\ row.new_structure = r.new_structure
             /\ f \in DOMAIN over /\ r.op = "activate_form_version" =>
                   IsForm(row) /\ row.is_active = TRUE /\ row.version = forms[f].version
             /\ f \notin DOMAIN over /\ f \in DOMAIN r.stage =>
                   IsForm(row) /\ row.is_active = FALSE /\ row.version = forms[f].version
             /\ f \notin DOMAIN over /\ f \notin DOMAIN r.stage => row = forms[f]
<1> DEFINE r == req[c]
           over == Laid(r)
           row == forms'[f]
           both == Over(over, r.stage)
<1>1. /\ forms' = Written(forms, both)
      /\ \A h \in DOMAIN r.stage : r.stage[h] = [is_active |-> FALSE]
  BY CommitFormIs DEF Publishes
<1>2. row = IF f \in DOMAIN both THEN Over(both[f], forms[f]) ELSE forms[f]
  BY <1>1, WrittenRow DEF FormsTyped
<1>3. /\ DOMAIN both = DOMAIN over \cup DOMAIN r.stage
      /\ \A h \in DOMAIN over : both[h] = over[h]
      /\ \A h \in DOMAIN r.stage \ DOMAIN over : both[h] = r.stage[h]
  BY DEF Over
<1>4. IsForm(forms[f])
  BY DEF FormsTyped
<1> HIDE DEF both, row
<1>5. ASSUME f \in DOMAIN over, r.op = "save_form_version"
      PROVE  /\ IsForm(row) /\ row.is_active = TRUE /\ row.version = r.max_ver + 1
             /\ row.new_structure = r.new_structure
  <2> DEFINE new == [version |-> r.max_ver + 1, is_active |-> TRUE, new_structure |-> r.new_structure]
  <2>1. over[f] = new
    BY <1>5 DEF Laid, Only
  <2>2. r.max_ver \in Nat
    BY <1>5 DEF Publishes
  <2>3. /\ DOMAIN new = {"version", "is_active", "new_structure"} /\ new.version = r.max_ver + 1
        /\ new.is_active = TRUE /\ new.new_structure = r.new_structure
    OBVIOUS
  <2>4. row = Over(new, forms[f])
    BY <1>2, <1>3, <1>5, <2>1
  <2>5. new.version \in Nat /\ new.version > 0
    BY <2>2, <2>3
  <2> HIDE DEF new
  <2> QED
    BY <1>4, <2>3, <2>4, <2>5, FormReplaced
<1>6. ASSUME f \in DOMAIN over, r.op = "activate_form_version"
      PROVE  IsForm(row) /\ row.is_active = TRUE /\ row.version = forms[f].version
  <2> DEFINE new == [is_active |-> TRUE]
  <2>1. over[f] = new /\ f = r.form
    BY <1>6 DEF Laid, Only, Nothing
  <2>2. forms[f].version > 0
    BY <1>6, <2>1 DEF Publishes, FormRows
  <2>3. DOMAIN new = {"is_active"} /\ new.is_active = TRUE
    OBVIOUS
  <2>4. row = Over(new, forms[f])
    BY <1>2, <1>3, <1>6, <2>1
  <2> HIDE DEF new
  <2> QED
    BY <1>4, <2>2, <2>3, <2>4, FormSwitched
<1>7. ASSUME f \notin DOMAIN over, f \in DOMAIN r.stage
      PROVE  IsForm(row) /\ row.is_active = FALSE /\ row.version = forms[f].version
  <2> DEFINE new == [is_active |-> FALSE]
  <2>1. DOMAIN new = {"is_active"} /\ new.is_active = FALSE
    OBVIOUS
  <2>2. row = Over(new, forms[f])
    BY <1>1, <1>2, <1>3, <1>7
  <2> HIDE DEF new
  <2> QED
    BY <1>4, <2>1, <2>2, FormSwitched
<1>8. f \notin DOMAIN over /\ f \notin DOMAIN r.stage => row = forms[f]
  BY <1>2, <1>3
<1> QED
  BY <1>5, <1>6, <1>7, <1>8 DEF row

LEMMA CommitFormRows ==
  ASSUME Requests, FormsTyped, NEW c \in Slots, Publishes(req[c]), CommitForm(c)
  PROVE  FormsTyped' /\ FormRows \subseteq FormRows'
<1> DEFINE r == req[c]
           over == Laid(r)
<1>1. forms' = [f \in Forms |-> forms'[f]]
  BY CommitFormIs DEF Written, FormsTyped
<1>2. r.op = "save_form_version" \/ r.op = "activate_form_version"
  BY DEF Publishes
<1>3. PICK n \in Nat : \A f \in Forms : forms[f].version <= n
  BY DEF FormsTyped
<1>4. \A f \in Forms : IsForm(forms[f])
  BY DEF FormsTyped
<1>5. CASE r.op = "save_form_version"
  <2>1. r.max_ver \in Nat
    BY <1>5 DEF Publishes
  <2>2. ASSUME NEW f \in Forms
        PROVE  /\ IsForm(forms'[f]) /\ forms'[f].version <= n + r.max_ver + 1
               /\ forms[f].version > 0 => forms'[f].version > 0
    <3>1. CASE f \in DOMAIN over
      <4>1. IsForm(forms'[f]) /\ forms'[f].version = r.max_ver + 1
        BY <1>5, <3>1, CommittedForms
      <4> QED
        BY <2>1, <4>1
    <3>2. CASE f \notin DOMAIN over
      <4>1. IsForm(forms'[f]) /\ forms'[f].version = forms[f].version
        BY <1>4, <3>2, CommittedForms
      <4>2. forms[f].version \in Nat /\ forms[f].version <= n
        BY <1>3, <1>4 DEF IsForm
      <4> QED
        BY <2>1, <4>1, <4>2
    <3> QED
      BY <3>1, <3>2
  <2>3. n + r.max_ver + 1 \in Nat
    BY <2>1
  <2>4. FormsTyped'
    BY <1>1, <2>2, <2>3 DEF FormsTyped
  <2> QED
    BY <2>2, <2>4 DEF FormRows
<1>6. CASE r.op = "activate_form_version"
  <2>1. ASSUME NEW f \in Forms
        PROVE  IsForm(forms'[f]) /\ forms'[f].version = forms[f].version
    <3>1. CASE f \in DOMAIN over
      BY <1>6, <3>1, CommittedForms
    <3>2. CASE f \notin DOMAIN over
      BY <1>4, <3>2, CommittedForms
    <3> QED
      BY <3>1, <3>2
  <2>2. FormsTyped'
    BY <1>1, <1>3, <2>1 DEF FormsTyped
  <2> QED
    BY <2>1, <2>2 DEF FormRows
<1> QED
  BY <1>2, <1>5, <1>6

LEMMA PublishesStay ==
  ASSUME NEW r, Publishes(r), (r.alone = FALSE /\ FormRows \subseteq FormRows') \/ UNCHANGED FormRows
  PROVE  Publishes(r)'
<1>1. CASE UNCHANGED FormRows
  BY <1>1 DEF Publishes
<1>2. CASE r.alone = FALSE /\ FormRows \subseteq FormRows'
  BY <1>2 DEF Publishes
<1> QED
  BY <1>1, <1>2

LEMMA OverlappedPublishes ==
  ASSUME Requests, page' = page, NEW c \in Slots, Busy(c), Publishes(req[c]), req'[c] = Overlapped(c)
  PROVE  Publishes(req'[c]) /\ req'[c].alone = FALSE
<1> DEFINE r == req[c]
           s == req'[c]
<1>1. s = [r EXCEPT !.alone = FALSE] /\ {"alone", "op"} \subseteq DOMAIN r
  BY DEF Overlapped, Requests, Known
<1>2. /\ s.alone = FALSE /\ s.op = r.op /\ s.stage = r.stage /\ s.pc = r.pc
      /\ s.max_ver = r.max_ver /\ s.new_structure = r.new_structure /\ s.form = r.form
      /\ DOMAIN s = DOMAIN r
  BY <1>1
<1> HIDE DEF s
<1>3. Publishes(s)
  BY <1>2 DEF Publishes
<1> QED
  BY <1>2, <1>3 DEF s

LEMMA FormsStep == Requests /\ FormsInv /\ FormsNext => FormsInv'
<1> SUFFICES ASSUME Requests, FormsInv, FormsNext PROVE FormsInv'
  OBVIOUS
<1>0. FormsTyped /\ page' = page /\ \A c \in Slots : Busy(c) => Publishes(req[c])
  BY FormsKeep DEF FormsInv, FormsNext, Kept
<1>1. ASSUME NEW c \in Slots, PublishBegins(c)
      PROVE  FormsInv'
  <2>1. FormsTyped' /\ UNCHANGED FormRows
    BY <1>0, <1>1 DEF PublishBegins, pubVars, FormsTyped, FormRows
  <2>2. \A r : Publishes(r) => Publishes(r)'
    BY <2>1, PublishesStay
  <2>3. \A d \in Slots : Busy(d)' => Publishes(req'[d])
    BY <1>0, <1>1 DEF PublishBegins, Busy
  <2> QED
    BY <2>1, <2>2, <2>3 DEF FormsInv
<1>2. ASSUME NEW c \in Slots, CommitForm(c)
      PROVE  FormsInv'
  <2>1. Busy(c) /\ Finish(c)
    BY <1>0, <1>2, CommitFormIs
  <2>2. FormsTyped' /\ FormRows \subseteq FormRows'
    BY <1>0, <1>2, <2>1, CommitFormRows
  <2>3. \A d \in Slots : Busy(d)' => Busy(d) /\ req'[d] = Overlapped(d)
    BY <2>1 DEF Finish, Overlapped, Busy
  <2>4. \A d \in Slots : Busy(d)' => Publishes(req'[d]) /\ req'[d].alone = FALSE
    BY <1>0, <2>3, OverlappedPublishes
  <2>5. \A r : Publishes(r) /\ r.alone = FALSE => Publishes(r)'
    BY <2>2, PublishesStay
  <2> QED
    BY <2>2, <2>4, <2>5 DEF FormsInv
<1>3. ASSUME NEW c \in Slots, NEW b \in BOOLEAN, save_form_version(c, b)
      PROVE  PublishBegins(c)
  BY <1>0, <1>3, SaveBegins
<1>4. ASSUME NEW c \in Slots, NEW f \in Forms, activate_form_version(c, f)
      PROVE  PublishBegins(c)
  BY <1>0, <1>4, ActivateBegins
<1>5. ASSUME NEW c \in Slots, UpdateForms(c)
      PROVE  PublishBegins(c)
  BY <1>0, <1>5, HideStep DEF UpdateForms
<1> QED
  BY <1>1, <1>2, <1>3, <1>4, <1>5 DEF FormsNext

LEMMA FormsNextInv == Requests /\ FormsInv /\ [Next]_vars => FormsInv'
<1> SUFFICES ASSUME Requests, FormsInv, [Next]_vars PROVE FormsInv'
  OBVIOUS
<1>1. page' = page
  BY RequestsKept DEF Kept
<1>2. CASE FormsNext
  BY <1>2, FormsStep
<1>3. CASE UNCHANGED vars
  <2>1. UNCHANGED <<req, forms>>
    BY <1>3 DEF vars, pubVars
  <2>2. \A r : Publishes(r) => Publishes(r)'
    BY <2>1, PublishesStay DEF FormRows
  <2> QED
    BY <1>1, <2>1, <2>2 DEF FormsInv, FormsTyped, Busy
<1>4. CASE UNCHANGED forms /\ page.area # "forms"
  BY <1>1, <1>4 DEF FormsInv, FormsTyped
<1>5. ThemesNext => UNCHANGED forms
  BY DEF ThemesNext, create_theme, toggle_theme, delete_theme, update_theme, BeginTheme, ReadOtherThemes,
     CommitTheme, pubVars
<1> QED
  BY <1>2, <1>3, <1>4, <1>5 DEF Next, pubVars, ThemesNext, KnowledgeBaseNext, DirectoryNext, SettingsNext,
     NotesNext, ReportsNext, MonthNext, ViewersNext

\* The end of a save or of an activation is its commit.
LEMMA FormEnds ==
  ASSUME Requests, FormsInv, [Next]_vars, NEW c \in Slots,
         EndsAlone(c, "save_form_version") \/ EndsAlone(c, "activate_form_version")
  PROVE  FormsTyped /\ Publishes(req[c]) /\ CommitForm(c) /\ req[c].alone /\ FormRows \subseteq DOMAIN req[c].stage
<1>1. Busy(c) /\ req'[c] = Free /\ req[c].alone /\ Known(req[c])
  BY DEF EndsAlone, Ends, Requests
<1>2. page.area = "forms"
  BY <1>1 DEF EndsAlone, Known, AreaOf
<1>3. req' # req
  BY <1>1 DEF Busy
<1>4. FormsNext
  BY <1>2, <1>3 DEF Next, vars, ThemesNext, KnowledgeBaseNext, DirectoryNext, SettingsNext, NotesNext, ReportsNext,
     MonthNext, ViewersNext
<1>5. FormsTyped /\ page' = page /\ \A d \in Slots : Busy(d) => Publishes(req[d])
  BY <1>2, <1>4, FormsKeep DEF FormsInv, Kept
<1>6. ASSUME NEW d \in Slots, PublishBegins(d)
      PROVE  FALSE
  <2>1. d = c
    BY <1>1, <1>6 DEF PublishBegins, Busy
  <2> QED
    BY <1>1, <1>6, <2>1 DEF PublishBegins, Publishes, Free
<1>7. ASSUME NEW d \in Slots, NEW b \in BOOLEAN, save_form_version(d, b)
      PROVE  FALSE
  BY <1>5, <1>6, <1>7, SaveBegins
<1>8. ASSUME NEW d \in Slots, NEW f \in Forms, activate_form_version(d, f)
      PROVE  FALSE
  BY <1>5, <1>6, <1>8, ActivateBegins
<1>9. ASSUME NEW d \in Slots, UpdateForms(d)
      PROVE  FALSE
  BY <1>5, <1>6, <1>9, HideStep DEF UpdateForms
<1>10. PICK d \in Slots : CommitForm(d)
  BY <1>4, <1>7, <1>8, <1>9 DEF FormsNext
<1>11. d = c
  <2>1. SUFFICES ASSUME d # c PROVE FALSE
    OBVIOUS
  <2>2. req'[c] = Overlapped(c)
    BY <1>5, <1>10, <2>1, CommitFormIs DEF Finish
  <2> QED
    BY <1>1, <1>5, <2>2, OverlappedKnown DEF Overlapped
<1>12. req[c].pc = "commit" /\ Publishes(req[c])
  BY <1>1, <1>5, <1>10, <1>11, CommitFormIs
<1> QED
  BY <1>1, <1>5, <1>10, <1>11, <1>12 DEF Publishes

LEMMA SavedIsServed ==
  ASSUME Requests, FormsInv, [Next]_vars, NEW c \in Slots, EndsAlone(c, "save_form_version")
  PROVE  \E f \in Forms : /\ forms[f].version = 0 /\ ActiveForms(forms') = {f}
                          /\ get_active_form_schema' = IF req[c].new_structure THEN {f} ELSE {None}
<1> DEFINE r == req[c]
           over == Laid(r)
           f == CHOOSE f \in Forms \ FormRows : TRUE
<1>1. FormsTyped /\ Publishes(r) /\ CommitForm(c) /\ r.alone /\ FormRows \subseteq DOMAIN r.stage
  BY FormEnds
<1>2. r.op = "save_form_version"
  BY DEF EndsAlone
<1>3. FormRows # Forms /\ r.new_structure \in BOOLEAN
  BY <1>1, <1>2 DEF Publishes
<1>4. f \in Forms \ FormRows
  BY <1>3 DEF FormRows
<1>5. DOMAIN over = {f}
  BY <1>2 DEF Laid, Only
<1> HIDE DEF f, over
<1>6. forms[f].version = 0
  BY <1>1, <1>4 DEF FormsTyped, IsForm, FormRows
<1>7. IsForm(forms'[f]) /\ forms'[f].is_active = TRUE /\ forms'[f].new_structure = r.new_structure
  BY <1>1, <1>2, <1>4, <1>5, CommittedForms DEF over
<1>8. \A h \in Forms \ {f} : forms'[h].is_active = FALSE
  <2> SUFFICES ASSUME NEW h \in Forms \ {f} PROVE forms'[h].is_active = FALSE
    OBVIOUS
  <2>1. h \notin DOMAIN over
    BY <1>5
  <2>2. CASE h \in DOMAIN r.stage
    BY <1>1, <2>1, <2>2, CommittedForms DEF over
  <2>3. CASE h \notin DOMAIN r.stage
    <3>1. forms'[h] = forms[h]
      BY <1>1, <2>1, <2>3, CommittedForms DEF over
    <3>2. ~ (forms[h].version > 0)
      BY <1>1, <2>3 DEF FormRows
    <3> QED
      BY <1>1, <3>1, <3>2 DEF FormsTyped, IsForm
  <2> QED
    BY <2>2, <2>3
<1>9. ActiveForms(forms') = {f}
  <2>1. forms'[f].version <= forms'[f].version
    BY <1>7 DEF IsForm
  <2> QED
    BY <1>4, <1>7, <1>8, <2>1 DEF ActiveForms
<1>10. get_active_form_schema' = IF r.new_structure THEN {f} ELSE {None}
  <2>1. ActiveForms(forms)' = {f}
    BY <1>9
  <2>2. get_active_form_schema' = {IF forms'[h].new_structure THEN h ELSE None : h \in {f}}
    BY <2>1 DEF get_active_form_schema
  <2> QED
    BY <1>3, <1>7, <2>2
<1> QED
  BY <1>4, <1>6, <1>9, <1>10

LEMMA ActivatedIsServed ==
  ASSUME Requests, FormsInv, [Next]_vars, NEW c \in Slots, EndsAlone(c, "activate_form_version")
  PROVE  ActiveForms(forms') = IF req[c].was_active THEN {} ELSE {req[c].form}
<1> DEFINE r == req[c]
           over == Laid(r)
<1>1. FormsTyped /\ Publishes(r) /\ CommitForm(c) /\ r.alone /\ FormRows \subseteq DOMAIN r.stage
  BY FormEnds
<1>2. r.op = "activate_form_version"
  BY DEF EndsAlone
<1>3. r.form \in Forms
  BY <1>1, <1>2 DEF Publishes, FormRows
<1>4. DOMAIN over = IF r.was_active THEN {} ELSE {r.form}
  BY <1>2 DEF Laid, Only, Nothing
<1> HIDE DEF over
<1>5. ASSUME NEW h \in Forms, h \notin DOMAIN over
      PROVE  forms'[h].is_active = FALSE
  <2>1. CASE h \in DOMAIN r.stage
    BY <1>1, <1>5, <2>1, CommittedForms DEF over
  <2>2. CASE h \notin DOMAIN r.stage
    <3>1. forms'[h] = forms[h]
      BY <1>1, <1>5, <2>2, CommittedForms DEF over
    <3>2. ~ (forms[h].version > 0)
      BY <1>1, <2>2 DEF FormRows
    <3> QED
      BY <1>1, <3>1, <3>2 DEF FormsTyped, IsForm
  <2> QED
    BY <2>1, <2>2
<1>6. CASE r.was_active
  BY <1>4, <1>5, <1>6 DEF ActiveForms
<1>7. CASE ~r.was_active
  <2>1. IsForm(forms'[r.form]) /\ forms'[r.form].is_active = TRUE
    BY <1>1, <1>2, <1>3, <1>4, <1>7, CommittedForms DEF over
  <2>2. forms'[r.form].version <= forms'[r.form].version
    BY <2>1 DEF IsForm
  <2> QED
    BY <1>3, <1>4, <1>5, <1>7, <2>1, <2>2 DEF ActiveForms
<1> QED
  BY <1>6, <1>7

-----------------------------------------------------------------------------
(* Themes.                                                                  *)

IsTheme(theme) ==
    {"exists", "is_active"} \subseteq DOMAIN theme /\ theme.exists \in BOOLEAN /\ theme.is_active \in BOOLEAN

ThemesTyped == themes = [t \in Themes |-> themes[t]] /\ \A t \in Themes : IsTheme(themes[t])

\* What is written of a theme.
IsChange(new) == \A col \in DOMAIN new \cap {"exists", "is_active"} : new[col] \in BOOLEAN

\* A toggle turns its theme over and puts out others, all that are on once it has
\* read them; all this of rows that are as they were if no other commit came in.
Toggles(r) ==
    /\ r.theme \in Themes /\ r.theme \in DOMAIN r.stage
    /\ DOMAIN r.stage[r.theme] = {"is_active"}
    /\ \A t \in DOMAIN r.stage \ {r.theme} : r.stage[t] = [is_active |-> FALSE]
    /\ r.pc = "others" \/ r.pc = "commit"
    /\ r.pc = "others" => r.stage[r.theme].is_active = TRUE /\ DOMAIN r.stage = {r.theme}
    /\ r.alone =>
         /\ DOMAIN r.stage \subseteq ThemeRows
         /\ r.stage[r.theme].is_active = ~themes[r.theme].is_active
         /\ r.pc = "commit" /\ r.stage[r.theme].is_active =>
              active_theme(themes) \subseteq DOMAIN r.stage

Restyles(r) ==
    /\ {"pc", "stage", "theme"} \subseteq DOMAIN r
    /\ \A t \in DOMAIN r.stage : IsChange(r.stage[t])
    /\ IF r.op = "toggle_theme" THEN Toggles(r) ELSE r.pc = "commit"

ThemesInv == ThemesTyped /\ (page.area = "themes" => \A c \in Slots : Busy(c) => Restyles(req[c]))

LEMMA ThemesInit == Init => ThemesInv
<1> SUFFICES ASSUME Init PROVE ThemesInv
  OBVIOUS
<1>1. themes = [t \in Themes |-> NoTheme]
  BY DEF Init, PublicationsInit
<1>2. IsTheme(NoTheme)
  BY DEF IsTheme, NoTheme
<1>3. ThemesTyped
  BY <1>1, <1>2 DEF ThemesTyped
<1> QED
  BY <1>3 DEF Init, PageInit, ThemesInv, Busy

LEMMA OverTheme ==
  ASSUME NEW theme, IsTheme(theme), NEW new, IsChange(new), NEW row, row = Over(new, theme)
  PROVE  /\ IsTheme(row)
         /\ row.exists = IF "exists" \in DOMAIN new THEN new.exists ELSE theme.exists
         /\ row.is_active = IF "is_active" \in DOMAIN new THEN new.is_active ELSE theme.is_active
<1>1. /\ {"exists", "is_active"} \subseteq DOMAIN row
      /\ row.exists = IF "exists" \in DOMAIN new THEN new.exists ELSE theme.exists
      /\ row.is_active = IF "is_active" \in DOMAIN new THEN new.is_active ELSE theme.is_active
  BY DEF Over, IsTheme
<1> QED
  BY <1>1 DEF IsTheme, IsChange

RestyleBegins(c) ==
    /\ UNCHANGED pubVars /\ Restyles(req'[c])
    /\ \A d \in Slots \ {c} : req'[d] = req[d]

LEMMA BeginThemeIs ==
  ASSUME Requests, NEW c \in Slots, NEW op, NEW t, NEW pc, NEW stage, BeginTheme(c, op, t, pc, stage)
  PROVE  /\ t \in ThemeRows
         /\ req'[c].op = op /\ req'[c].pc = pc /\ req'[c].theme = t
         /\ DOMAIN req'[c].stage = {t} /\ req'[c].stage[t] = stage
         /\ {"pc", "stage", "theme"} \subseteq DOMAIN req'[c]
         /\ UNCHANGED pubVars /\ \A d \in Slots \ {c} : req'[d] = req[d]
<1>1. /\ t \in ThemeRows
      /\ req'[c].op = op /\ req'[c].pc = pc /\ req'[c].theme = t /\ req'[c].stage = Only(t, stage)
      /\ {"pc", "stage", "theme"} \subseteq DOMAIN req'[c]
      /\ UNCHANGED pubVars /\ \A d \in Slots \ {c} : req'[d] = req[d]
  BY DEF BeginTheme, Begin, Over, Requests
<1> QED
  BY <1>1 DEF Only

LEMMA EditBegins ==
  ASSUME Requests, NEW c \in Slots, NEW t \in Themes,
         (\E look : update_theme(c, t, look)) \/ delete_theme(c, t)
  PROVE  RestyleBegins(c)
<1> DEFINE s == req'[c]
<1>1. ASSUME NEW look, update_theme(c, t, look)
      PROVE  RestyleBegins(c)
  <2> DEFINE body == [look |-> look]
             new == NetChange(themes[t], body)
  <2>1. BeginTheme(c, "update_theme", t, "commit", new)
    BY <1>1 DEF update_theme
  <2>2. DOMAIN new \subseteq DOMAIN body /\ DOMAIN body = {"look"}
    BY NetChangeKeeps
  <2> HIDE DEF new
  <2>3. IsChange(new)
    BY <2>2 DEF IsChange
  <2> QED
    BY <2>1, <2>3, BeginThemeIs DEF Restyles, RestyleBegins
<1>2. ASSUME delete_theme(c, t)
      PROVE  RestyleBegins(c)
  <2> DEFINE new == NoTheme
  <2>1. BeginTheme(c, "delete_theme", t, "commit", new)
    BY <1>2 DEF delete_theme
  <2>2. new.exists = FALSE /\ new.is_active = FALSE
    BY DEF NoTheme
  <2> HIDE DEF new
  <2>3. IsChange(new)
    BY <2>2 DEF IsChange
  <2> QED
    BY <2>1, <2>3, BeginThemeIs DEF Restyles, RestyleBegins
<1> QED
  BY <1>1, <1>2

LEMMA ToggleBegins ==
  ASSUME Requests, ThemesTyped, NEW c \in Slots, NEW t \in Themes, toggle_theme(c, t)
  PROVE  RestyleBegins(c)
<1> DEFINE s == req'[c]
           on == themes[t].is_active
           new == [is_active |-> ~on]
           pc == IF on THEN "commit" ELSE "others"
<1>1. BeginTheme(c, "toggle_theme", t, pc, new)
  BY DEF toggle_theme
<1>2. on \in BOOLEAN
  BY DEF ThemesTyped, IsTheme
<1>3. DOMAIN new = {"is_active"} /\ new.is_active = ~on
  OBVIOUS
<1> HIDE DEF new, on
<1>4. IsChange(new)
  BY <1>2, <1>3 DEF IsChange
<1>5. /\ t \in ThemeRows
      /\ s.op = "toggle_theme" /\ s.pc = pc /\ s.theme = t
      /\ DOMAIN s.stage = {t} /\ s.stage[t] = new
      /\ {"pc", "stage", "theme"} \subseteq DOMAIN s
      /\ UNCHANGED pubVars /\ \A d \in Slots \ {c} : req'[d] = req[d]
  BY <1>1, BeginThemeIs
<1> HIDE DEF s
<1>6. Toggles(s)
  <2>1. s.pc = "others" => new.is_active = TRUE
    BY <1>3, <1>5
  <2>2. s.pc = "commit" => new.is_active = FALSE
    BY <1>3, <1>5
  <2>3. new.is_active = ~themes[t].is_active
    BY <1>3 DEF on
  <2> QED
    BY <1>3, <1>5, <2>1, <2>2, <2>3 DEF Toggles
<1>7. Restyles(s)
  BY <1>4, <1>5, <1>6 DEF Restyles
<1> QED
  BY <1>5, <1>7 DEF RestyleBegins, s

LEMMA ReadOthersStep ==
  ASSUME Requests, ThemesTyped, NEW c \in Slots, Restyles(req[c]), ReadOtherThemes(c)
  PROVE  RestyleBegins(c)
<1> DEFINE r == req[c]
           s == req'[c]
           others == OtherThemes(c)
           out == [t \in others |-> [is_active |-> FALSE]]
<1>1. /\ Busy(c) /\ r.pc = "others" /\ s = Over([pc |-> "commit", stage |-> Over(r.stage, out)], r)
      /\ UNCHANGED pubVars /\ \A d \in Slots \ {c} : req'[d] = req[d]
  BY DEF ReadOtherThemes, Goto, Requests
<1>2. Known(r) /\ r.op = "toggle_theme" /\ Toggles(r)
  BY <1>1 DEF Requests, Restyles
<1>3. /\ s.pc = "commit" /\ s.stage = Over(r.stage, out) /\ s.op = r.op /\ s.alone = r.alone
      /\ s.theme = r.theme /\ {"pc", "stage", "theme"} \subseteq DOMAIN s
  BY <1>1, <1>2 DEF Over, Known, Restyles
<1>4. DOMAIN out = others /\ \A t \in others : out[t] = [is_active |-> FALSE]
  OBVIOUS
<1> HIDE DEF s, out
<1>5. DOMAIN r.stage = {r.theme} /\ r.stage[r.theme].is_active = TRUE /\ DOMAIN r.stage[r.theme] = {"is_active"}
  BY <1>1, <1>2 DEF Toggles
<1>6. /\ DOMAIN s.stage = {r.theme} \cup others
      /\ s.stage[r.theme] = r.stage[r.theme]
      /\ \A t \in DOMAIN s.stage \ {r.theme} : s.stage[t] = [is_active |-> FALSE]
  <2>1. DOMAIN s.stage = {r.theme} \cup others
    BY <1>3, <1>4, <1>5 DEF Over
  <2>2. s.stage[r.theme] = r.stage[r.theme]
    BY <1>3, <1>4, <1>5 DEF Over
  <2>3. \A t \in DOMAIN s.stage \ {r.theme} : s.stage[t] = out[t]
    BY <1>3, <1>4, <1>5 DEF Over
  <2> QED
    BY <1>4, <2>1, <2>2, <2>3
<1>7. others \subseteq ThemeRows /\ active_theme(themes) \subseteq {r.theme} \cup others
  BY DEF OtherThemes, active_theme, ThemeRows
<1> HIDE DEF others
<1>8. Toggles(s)
  BY <1>2, <1>3, <1>5, <1>6, <1>7 DEF Toggles
<1>9. \A t \in DOMAIN s.stage : IsChange(s.stage[t])
  <2>1. IsChange(r.stage[r.theme])
    BY <1>5 DEF Restyles
  <2>2. \A new : new = [is_active |-> FALSE] => IsChange(new)
    <3> SUFFICES ASSUME NEW new, new = [is_active |-> FALSE] PROVE IsChange(new)
      OBVIOUS
    <3>1. DOMAIN new = {"is_active"} /\ new.is_active = FALSE
      OBVIOUS
    <3> QED
      BY <3>1 DEF IsChange
  <2> QED
    BY <1>6, <2>1, <2>2
<1>10. Restyles(s)
  BY <1>2, <1>3, <1>8, <1>9 DEF Restyles
<1> QED
  BY <1>1, <1>10 DEF RestyleBegins, s

LEMMA CommitThemeRows ==
  ASSUME Requests, ThemesTyped, NEW c \in Slots, Restyles(req[c]), CommitTheme(c)
  PROVE  \/ /\ Stale(c) /\ Rollback(c) /\ UNCHANGED themes
         \/ /\ ~Stale(c) /\ Finish(c) /\ ThemesTyped'
            /\ \A t \in Themes \ DOMAIN req[c].stage : themes'[t] = themes[t]
            /\ \A t \in Themes \cap DOMAIN req[c].stage : themes'[t] = Over(req[c].stage[t], themes[t])
<1> DEFINE stage == req[c].stage
<1>1. CASE Stale(c)
  BY <1>1 DEF CommitTheme
<1>2. CASE ~Stale(c)
  <2>1. themes' = Written(themes, stage) /\ Finish(c)
    BY <1>2 DEF CommitTheme
  <2>2. themes' = [t \in Themes |-> themes'[t]]
    BY <2>1 DEF Written, ThemesTyped
  <2>3. \A t \in Themes : themes'[t] = IF t \in DOMAIN stage THEN Over(stage[t], themes[t]) ELSE themes[t]
    BY <2>1, WrittenRow DEF ThemesTyped
  <2>4. \A t \in Themes : IsTheme(themes'[t])
    BY <2>3, OverTheme DEF ThemesTyped, Restyles
  <2>5. ThemesTyped'
    BY <2>2, <2>4 DEF ThemesTyped
  <2> QED
    BY <1>2, <2>1, <2>3, <2>5
<1> QED
  BY <1>1, <1>2

LEMMA RestylesStay ==
  ASSUME NEW r, Restyles(r), r.alone = FALSE \/ UNCHANGED themes
  PROVE  Restyles(r)'
<1>1. CASE UNCHANGED themes
  BY <1>1 DEF Restyles, Toggles, IsChange, ThemeRows, active_theme
<1>2. CASE r.alone = FALSE
  BY <1>2 DEF Restyles, Toggles, IsChange
<1> QED
  BY <1>1, <1>2

LEMMA OverlappedRestyles ==
  ASSUME Requests, NEW c \in Slots, Busy(c), Restyles(req[c]), req'[c] = Overlapped(c)
  PROVE  Restyles(req'[c]) /\ req'[c].alone = FALSE
<1> DEFINE r == req[c]
           s == req'[c]
<1>1. s = [r EXCEPT !.alone = FALSE] /\ {"alone", "op"} \subseteq DOMAIN r
  BY DEF Overlapped, Requests, Known
<1>2. /\ s.alone = FALSE /\ s.op = r.op /\ s.stage = r.stage /\ s.pc = r.pc
      /\ s.theme = r.theme /\ DOMAIN s = DOMAIN r
  BY <1>1
<1> HIDE DEF s
<1>3. Restyles(s)
  BY <1>2 DEF Restyles, Toggles
<1> QED
  BY <1>2, <1>3 DEF s

LEMMA CreatedTheme ==
  ASSUME ThemesTyped, create_theme
  PROVE  ThemesTyped'
<1> DEFINE new == [NoTheme EXCEPT !.exists = TRUE]
           k == CHOOSE t \in Themes \ ThemeRows : TRUE
<1>1. themes' = [themes EXCEPT ![k] = new]
  BY DEF create_theme
<1>2. IsTheme(new)
  BY DEF IsTheme, NoTheme
<1> HIDE DEF new, k
<1>3. themes' = [t \in Themes |-> themes'[t]] /\ \A t \in Themes : IsTheme(themes'[t])
  BY <1>1, <1>2 DEF ThemesTyped
<1> QED
  BY <1>3 DEF ThemesTyped

LEMMA ThemesStep == Requests /\ ThemesInv /\ ThemesNext => ThemesInv'
<1> SUFFICES ASSUME Requests, ThemesInv, ThemesNext PROVE ThemesInv'
  OBVIOUS
<1>0. ThemesTyped /\ page' = page /\ \A c \in Slots : Busy(c) => Restyles(req[c])
  BY ThemesKeep DEF ThemesInv, ThemesNext, Kept
<1>1. ASSUME NEW c \in Slots, RestyleBegins(c)
      PROVE  ThemesInv'
  <2>1. UNCHANGED themes
    BY <1>1 DEF RestyleBegins, pubVars
  <2>2. \A r : Restyles(r) => Restyles(r)'
    BY <2>1, RestylesStay
  <2>3. \A d \in Slots : Busy(d)' => Restyles(req'[d])
    BY <1>0, <1>1 DEF RestyleBegins, Busy
  <2> QED
    BY <1>0, <2>1, <2>2, <2>3 DEF ThemesInv, ThemesTyped
<1>2. \A r : Restyles(r) /\ r.alone = FALSE => Restyles(r)'
  BY RestylesStay
<1>3. ASSUME create_theme
      PROVE  ThemesInv'
  <2>1. \A d \in Slots : Busy(d)' => Busy(d) /\ req'[d] = Overlapped(d)
    BY <1>3 DEF create_theme, Interrupt, Overlapped, Busy
  <2>2. \A d \in Slots : Busy(d)' => Restyles(req'[d]) /\ req'[d].alone = FALSE
    BY <1>0, <2>1, OverlappedRestyles
  <2> QED
    BY <1>0, <1>2, <1>3, <2>2, CreatedTheme DEF ThemesInv
<1>4. ASSUME NEW c \in Slots, CommitTheme(c)
      PROVE  ThemesInv'
  <2>1. Restyles(req[c])
    BY <1>0, <1>4 DEF CommitTheme
  <2>2. CASE Rollback(c) /\ UNCHANGED themes
    <3>1. \A d \in Slots : Busy(d)' => Busy(d) /\ req'[d] = req[d]
      BY <2>2 DEF Rollback, Busy, Requests
    <3>2. \A r : Restyles(r) => Restyles(r)'
      BY <2>2, RestylesStay
    <3> QED
      BY <1>0, <2>2, <3>1, <3>2 DEF ThemesInv, ThemesTyped
  <2>3. CASE ThemesTyped' /\ Finish(c)
    <3>1. \A d \in Slots : Busy(d)' => Busy(d) /\ req'[d] = Overlapped(d)
      BY <2>3 DEF Finish, Overlapped, Busy
    <3>2. \A d \in Slots : Busy(d)' => Restyles(req'[d]) /\ req'[d].alone = FALSE
      BY <1>0, <3>1, OverlappedRestyles
    <3> QED
      BY <1>2, <2>3, <3>2 DEF ThemesInv
  <2> QED
    BY <1>0, <1>4, <2>1, <2>2, <2>3, CommitThemeRows
<1>5. ASSUME NEW c \in Slots, NEW t \in Themes, toggle_theme(c, t)
      PROVE  RestyleBegins(c)
  BY <1>0, <1>5, ToggleBegins
<1>6. ASSUME NEW c \in Slots, NEW t \in Themes, (\E look : update_theme(c, t, look)) \/ delete_theme(c, t)
      PROVE  RestyleBegins(c)
  BY <1>6, EditBegins
<1>7. ASSUME NEW c \in Slots, ReadOtherThemes(c)
      PROVE  RestyleBegins(c)
  BY <1>0, <1>7, ReadOthersStep DEF ReadOtherThemes
<1> QED
  BY <1>1, <1>3, <1>4, <1>5, <1>6, <1>7 DEF ThemesNext

LEMMA ThemesNextInv == Requests /\ ThemesInv /\ [Next]_vars => ThemesInv'
<1> SUFFICES ASSUME Requests, ThemesInv, [Next]_vars PROVE ThemesInv'
  OBVIOUS
<1>1. page' = page
  BY RequestsKept DEF Kept
<1>2. CASE ThemesNext
  BY <1>2, ThemesStep
<1>3. CASE UNCHANGED vars
  <2>1. UNCHANGED <<req, themes>>
    BY <1>3 DEF vars, pubVars
  <2>2. \A r : Restyles(r) => Restyles(r)'
    BY <2>1, RestylesStay
  <2> QED
    BY <1>1, <2>1, <2>2 DEF ThemesInv, ThemesTyped, Busy
<1>4. CASE UNCHANGED themes /\ page.area # "themes"
  BY <1>1, <1>4 DEF ThemesInv, ThemesTyped
<1>5. FormsNext => UNCHANGED themes
  BY DEF FormsNext, save_form_version, activate_form_version, UpdateForms, CommitForm, pubVars
<1> QED
  BY <1>2, <1>3, <1>4, <1>5 DEF Next, pubVars, FormsNext, KnowledgeBaseNext, DirectoryNext, SettingsNext,
     NotesNext, ReportsNext, MonthNext, ViewersNext

\* The end of a toggle nobody overlapped is its commit, of rows that are all there.
LEMMA ToggleEnds ==
  ASSUME Requests, ThemesInv, [Next]_vars, NEW c \in Slots, EndsAlone(c, "toggle_theme")
  PROVE  /\ ThemesTyped /\ Restyles(req[c]) /\ Toggles(req[c]) /\ req[c].pc = "commit" /\ req[c].alone
         /\ CommitTheme(c) /\ ~Stale(c)
<1>1. Busy(c) /\ req'[c] = Free /\ req[c].alone /\ req[c].op = "toggle_theme" /\ Known(req[c])
  BY DEF EndsAlone, Ends, Requests
<1>2. page.area = "themes"
  BY <1>1 DEF Known, AreaOf
<1>3. req' # req
  BY <1>1 DEF Busy
<1>4. ThemesNext
  BY <1>2, <1>3 DEF Next, vars, FormsNext, KnowledgeBaseNext, DirectoryNext, SettingsNext, NotesNext, ReportsNext,
     MonthNext, ViewersNext
<1>5. ThemesTyped /\ page' = page /\ \A d \in Slots : Busy(d) => Restyles(req[d])
  BY <1>2, <1>4, ThemesKeep DEF ThemesInv, Kept
<1>6. ASSUME NEW d \in Slots, RestyleBegins(d)
      PROVE  FALSE
  <2>1. d = c
    BY <1>1, <1>6 DEF RestyleBegins, Busy
  <2> QED
    BY <1>1, <1>6, <2>1 DEF RestyleBegins, Restyles, Free
<1>7. ASSUME create_theme
      PROVE  FALSE
  <2>1. req'[c] = Overlapped(c)
    BY <1>7 DEF create_theme, Interrupt
  <2> QED
    BY <1>1, <1>5, <2>1, OverlappedKnown DEF Overlapped
<1>8. ASSUME NEW d \in Slots, NEW t \in Themes, toggle_theme(d, t)
      PROVE  FALSE
  BY <1>5, <1>6, <1>8, ToggleBegins
<1>9. ASSUME NEW d \in Slots, NEW t \in Themes, (\E look : update_theme(d, t, look)) \/ delete_theme(d, t)
      PROVE  FALSE
  BY <1>6, <1>9, EditBegins
<1>10. ASSUME NEW d \in Slots, ReadOtherThemes(d)
       PROVE  FALSE
  BY <1>5, <1>6, <1>10, ReadOthersStep DEF ReadOtherThemes
<1>11. PICK d \in Slots : CommitTheme(d)
  BY <1>4, <1>7, <1>8, <1>9, <1>10 DEF ThemesNext
<1>12. d = c
  <2>1. SUFFICES ASSUME d # c PROVE FALSE
    OBVIOUS
  <2>2. req'[c] = Overlapped(c) \/ req'[c] = req[c]
    BY <1>11, <2>1 DEF CommitTheme, Finish, Rollback, Requests
  <2> QED
    BY <1>1, <1>5, <2>2, OverlappedKnown DEF Overlapped, Busy
<1>13. Restyles(req[c]) /\ Toggles(req[c]) /\ req[c].pc = "commit"
  BY <1>1, <1>5, <1>11, <1>12 DEF Restyles, CommitTheme
<1>14. ~Stale(c)
  BY <1>1, <1>13 DEF Stale, Toggles, ThemeRows
<1> QED
  BY <1>1, <1>5, <1>11, <1>12, <1>13, <1>14

LEMMA ToggledIsServed ==
  ASSUME Requests, ThemesInv, [Next]_vars, NEW c \in Slots, EndsAlone(c, "toggle_theme")
  PROVE  IF themes[req[c].theme].is_active THEN req[c].theme \notin active_theme(themes')
                                           ELSE active_theme(themes') = {req[c].theme}
<1> DEFINE r == req[c]
           t == r.theme
<1>1. /\ ThemesTyped /\ Restyles(r) /\ Toggles(r) /\ r.pc = "commit" /\ r.alone
      /\ CommitTheme(c) /\ ~Stale(c)
  BY ToggleEnds
<1>2. /\ \A k \in Themes \ DOMAIN r.stage : themes'[k] = themes[k]
      /\ \A k \in Themes \cap DOMAIN r.stage : themes'[k] = Over(r.stage[k], themes[k])
  BY <1>1, CommitThemeRows
<1>3. /\ t \in Themes /\ t \in DOMAIN r.stage /\ DOMAIN r.stage[t] = {"is_active"}
      /\ r.stage[t].is_active = ~themes[t].is_active
      /\ \A k \in DOMAIN r.stage \ {t} : r.stage[k] = [is_active |-> FALSE]
      /\ DOMAIN r.stage \subseteq ThemeRows
      /\ r.stage[t].is_active => active_theme(themes) \subseteq DOMAIN r.stage
  BY <1>1 DEF Toggles
<1>4. themes'[t].exists = TRUE /\ themes'[t].is_active = ~themes[t].is_active
  <2>1. /\ themes'[t] = Over(r.stage[t], themes[t]) /\ IsTheme(themes[t]) /\ IsChange(r.stage[t])
        /\ themes[t].exists
    BY <1>1, <1>2, <1>3 DEF ThemesTyped, Restyles, ThemeRows
  <2>2. themes[t].exists = TRUE
    BY <2>1 DEF IsTheme
  <2>3. themes'[t].exists = themes[t].exists /\ themes'[t].is_active = r.stage[t].is_active
    <3> DEFINE new == r.stage[t]
               theme == themes[t]
               row == themes'[t]
    <3>1. row = Over(new, theme) /\ IsTheme(theme) /\ IsChange(new) /\ DOMAIN new = {"is_active"}
      BY <1>3, <2>1
    <3> HIDE DEF new, theme, row
    <3>2. row.exists = theme.exists /\ row.is_active = new.is_active
      BY <3>1, OverTheme
    <3> QED
      BY <3>2 DEF new, theme, row
  <2> QED
    BY <1>3, <2>2, <2>3
<1>5. CASE themes[t].is_active
  BY <1>4, <1>5 DEF active_theme
<1>6. CASE ~themes[t].is_active
  <2>1. ASSUME NEW k \in Themes \ {t}
        PROVE  k \notin active_theme(themes')
    <3>1. CASE k \in DOMAIN r.stage
      <4>1. r.stage[k] = [is_active |-> FALSE]
        BY <1>3, <2>1, <3>1
      <4>2. DOMAIN r.stage[k] = {"is_active"} /\ r.stage[k].is_active = FALSE
        BY <4>1
      <4>3. themes'[k] = Over(r.stage[k], themes[k]) /\ IsTheme(themes[k]) /\ IsChange(r.stage[k])
        BY <1>1, <1>2, <2>1, <3>1 DEF ThemesTyped, Restyles
      <4>4. themes'[k].is_active = FALSE
        BY <4>2, <4>3, OverTheme
      <4> QED
        BY <4>4 DEF active_theme
    <3>2. CASE k \notin DOMAIN r.stage
      BY <1>2, <1>3, <1>6, <2>1, <3>2 DEF active_theme
    <3> QED
      BY <3>1, <3>2
  <2>2. t \in active_theme(themes')
    BY <1>3, <1>4, <1>6 DEF active_theme
  <2> QED
    BY <1>6, <2>1, <2>2 DEF active_theme
<1> QED
  BY <1>5, <1>6

\* A form that was published, or that was inactive and brought back, by a request
\* nobody overlapped is the one the portal loads, and a theme that was put on alone is
\* the only one that is on (save_form_version and activate_form_version in
\* app/api/manager.py, toggle_theme in app/api/admin.py), whatever earlier races left
\* active; of a version that was active when it was brought back, no other is served.
THEOREM ChoiceIsServed == Spec => ChosenIsServed
<1> DEFINE Served == \A c \in Slots :
        /\ EndsAlone(c, "save_form_version") =>
             \E f \in Forms : /\ forms[f].version = 0 /\ ActiveForms(forms') = {f}
                              /\ get_active_form_schema' = IF req[c].new_structure THEN {f} ELSE {None}
        /\ EndsAlone(c, "activate_form_version") =>
             /\ ActiveForms(forms') \subseteq {req[c].form}
             /\ ~req[c].was_active => ActiveForms(forms') = {req[c].form}
        /\ EndsAlone(c, "toggle_theme") =>
             IF themes[req[c].theme].is_active THEN req[c].theme \notin active_theme(themes')
                                               ELSE active_theme(themes') = {req[c].theme}
<1>1. Requests /\ FormsInv /\ ThemesInv /\ [Next]_vars => Served
  BY SavedIsServed, ActivatedIsServed, ToggledIsServed
<1>2. Requests /\ [Next]_vars => Requests'
  BY RequestsKept DEF Kept
<1> QED
  BY <1>1, <1>2, RequestsInit, FormsInit, FormsNextInv, ThemesInit, ThemesNextInv, PTL DEF Spec, ChosenIsServed

-----------------------------------------------------------------------------
(* The viewers of a ticket.                                                 *)

\* The rounds are counted by numbers.
ViewersTyped ==
    /\ viewerKeys \in [Viewers -> Nat]
    /\ away \in [Viewers -> Nat]
    /\ streams \in [Streams -> [pc : {"closed", "due", "found", "asleep"}, found : SUBSET Viewers, shown : SUBSET Viewers]]
    /\ viewerSet \subseteq Viewers

\* The agent of an open page is here; a key is younger than the absence of its
\* agent; and whom a stream has found was here less than the life of a key ago.
ViewersInv ==
    /\ ViewersTyped
    /\ \A s \in Streams : Open(s) => away[AgentOf[s]] = 0
    /\ \A v \in Viewers : Named(v) => viewerKeys[v] + away[v] <= ViewerTTL
    /\ \A s \in Streams : streams[s].pc # "found" => streams[s].found = {}
    /\ \A s \in Streams : streams[s].pc = "closed" => streams[s].shown = {}
    /\ \A s \in Streams : \A v \in streams[s].found : away[v] < ViewerTTL
    /\ ListedIsRecent

\* Nobody views a ticket at first.
LEMMA ViewersInit == Init => ViewersInv
  BY LiveAssumption
  DEF Init, LiveInit, ViewersInv, ViewersTyped, Closed, Open, Named, ListedIsRecent

\* What leaves the streams, the keys and the absences alone keeps the invariant.
LEMMA ViewersStutter == ViewersInv /\ UNCHANGED streamVars => ViewersInv'
  BY DEF ViewersInv, ViewersTyped, streamVars, Open, Named, ListedIsRecent

\* Notifications are another page of Redis.
LEMMA NotesLeaveViewers == NotesNext => UNCHANGED streamVars
  BY DEF NotesNext, create_notification, mark_all_read, mark_one_read, BeginRead, CommitNotes,
         liveVars, streamVars

\* What a step leaves of the streams but one, while no absence grows, is as recent
\* as before.
LEMMA OthersRecent ==
  ASSUME ViewersInv, ViewersTyped', NEW s \in Streams,
         \A p \in Streams \ {s} : streams'[p] = streams[p],
         \A v \in Viewers : away'[v] <= away[v],
         \A v \in streams'[s].found : away'[v] < ViewerTTL,
         \A v \in streams'[s].shown :
            away'[v] < IF streams'[s].pc = "asleep" THEN ViewerTTL ELSE ViewerTTL + 1
  PROVE  /\ \A p \in Streams : \A v \in streams'[p].found : away'[v] < ViewerTTL
         /\ ListedIsRecent'
<1>1. ASSUME NEW p \in Streams \ {s}, NEW v \in streams'[p].found
      PROVE  away'[v] < ViewerTTL
  <2>1. v \in streams[p].found /\ v \in Viewers
    BY <1>1 DEF ViewersInv, ViewersTyped
  <2> QED
    BY <2>1, LiveAssumption DEF ViewersInv, ViewersTyped
<1>2. ASSUME NEW p \in Streams \ {s}, NEW v \in streams'[p].shown
      PROVE  away'[v] < IF streams'[p].pc = "asleep" THEN ViewerTTL ELSE ViewerTTL + 1
  <2>1. streams'[p] = streams[p] /\ v \in streams[p].shown /\ v \in Viewers
    BY <1>2 DEF ViewersInv, ViewersTyped
  <2>2. away[v] < IF streams[p].pc = "asleep" THEN ViewerTTL ELSE ViewerTTL + 1
    BY <2>1 DEF ViewersInv, ListedIsRecent
  <2> QED
    BY <2>1, <2>2, LiveAssumption DEF ViewersInv, ViewersTyped
<1> QED
  BY <1>1, <1>2 DEF ListedIsRecent

LEMMA RegisterInv ==
  ASSUME ViewersInv, NEW s \in Streams, Register(s)
  PROVE  ViewersInv'
<1>1. ViewersTyped'
  <2>1. AgentOf[s] \in Viewers /\ ViewerTTL \in Nat
    BY LiveAssumption
  <2>2. viewerKeys' \in [Viewers -> Nat] /\ away' \in [Viewers -> Nat] /\ viewerSet' \subseteq Viewers
    BY <2>1 DEF Register, ViewersInv, ViewersTyped
  <2>3. streams' \in [Streams -> [pc : {"closed", "due", "found", "asleep"}, found : SUBSET Viewers,
                                  shown : SUBSET Viewers]]
    BY DEF Register, ViewersInv, ViewersTyped
  <2> QED
    BY <2>2, <2>3 DEF ViewersTyped
<1>2. \A p \in Streams \ {s} : streams'[p] = streams[p]
  BY DEF Register, ViewersInv, ViewersTyped
<1>3. streams'[s].pc = "due" /\ streams'[s].found = {} /\ streams'[s].shown = {}
  BY DEF Register, ViewersInv, ViewersTyped, Open
<1>4. \A p \in Streams : Open(p)' => away'[AgentOf[p]] = 0
  BY <1>2, LiveAssumption DEF Register, ViewersInv, ViewersTyped, Open
<1>5. \A v \in Viewers : Named(v)' => viewerKeys'[v] + away'[v] <= ViewerTTL
  BY LiveAssumption DEF Register, ViewersInv, ViewersTyped, Open, Named
<1>6. \A v \in Viewers : away'[v] <= away[v]
  BY LiveAssumption DEF Register, ViewersInv, ViewersTyped
<1>7. /\ \A p \in Streams : \A v \in streams'[p].found : away'[v] < ViewerTTL
      /\ ListedIsRecent'
  BY <1>1, <1>2, <1>3, <1>6, OthersRecent
<1> QED
  BY <1>1, <1>2, <1>3, <1>4, <1>5, <1>7 DEF ViewersInv

\* Found are agents whose key is alive, so that they were here less than the
\* life of a key ago.
LEMMA CollectInv ==
  ASSUME ViewersInv, NEW s \in Streams, CollectViewers(s)
  PROVE  ViewersInv'
<1> DEFINE found == {v \in viewerSet : Named(v)}
<1>1. \A v \in found : away[v] < ViewerTTL
  BY LiveAssumption DEF ViewersInv, ViewersTyped, Named
<1>2. found \subseteq Viewers
  BY DEF ViewersInv, ViewersTyped
<1>3. /\ \A p \in Streams \ {s} : streams'[p] = streams[p]
      /\ streams'[s].pc = "found" /\ streams'[s].found = found /\ streams'[s].shown = streams[s].shown
      /\ streams[s].pc = "due" /\ viewerSet' = found /\ away' = away /\ viewerKeys' = viewerKeys
  BY DEF CollectViewers, ViewersInv, ViewersTyped
<1>4. ViewersTyped'
  <2>1. streams' \in [Streams -> [pc : {"closed", "due", "found", "asleep"}, found : SUBSET Viewers,
                                  shown : SUBSET Viewers]]
    BY <1>2 DEF CollectViewers, ViewersInv, ViewersTyped
  <2> QED
    BY <1>2, <1>3, <2>1 DEF ViewersInv, ViewersTyped
<1> HIDE DEF found
<1>5. \A v \in streams'[s].shown :
        away'[v] < IF streams'[s].pc = "asleep" THEN ViewerTTL ELSE ViewerTTL + 1
  BY <1>3 DEF ViewersInv, ListedIsRecent
<1>6. /\ \A p \in Streams : \A v \in streams'[p].found : away'[v] < ViewerTTL
      /\ ListedIsRecent'
  <2>1. \A v \in Viewers : away'[v] <= away[v]
    BY <1>3 DEF ViewersInv, ViewersTyped
  <2>2. \A v \in streams'[s].found : away'[v] < ViewerTTL
    BY <1>1, <1>3
  <2> QED
    BY <1>3, <1>4, <1>5, <2>1, <2>2, OthersRecent
<1> QED
  BY <1>3, <1>4, <1>6 DEF ViewersInv, Open, Named

\* Sent is whom the stream found, so that he was here less than the life of a key
\* ago.
LEMMA RefreshInv ==
  ASSUME ViewersInv, NEW s \in Streams, RefreshAndEmit(s)
  PROVE  ViewersInv'
<1>1. ViewersTyped'
  BY LiveAssumption DEF RefreshAndEmit, ViewersInv, ViewersTyped
<1>2. \A p \in Streams \ {s} : streams'[p] = streams[p]
  BY DEF RefreshAndEmit, ViewersInv, ViewersTyped
<1>3. /\ streams'[s].pc = "asleep" /\ streams'[s].found = {}
      /\ streams'[s].shown \subseteq streams[s].found /\ away' = away
  BY DEF RefreshAndEmit, ViewersInv, ViewersTyped
<1>4. \A p \in Streams : Open(p)' => away'[AgentOf[p]] = 0
  BY <1>2, LiveAssumption DEF RefreshAndEmit, ViewersInv, ViewersTyped, Open
<1>5. \A v \in Viewers : Named(v)' => viewerKeys'[v] + away'[v] <= ViewerTTL
  BY LiveAssumption DEF RefreshAndEmit, ViewersInv, ViewersTyped, Open, Named
<1>6. \A v \in Viewers : away'[v] <= away[v]
  BY <1>3 DEF ViewersInv, ViewersTyped
<1>7. \A v \in streams'[s].shown : away'[v] < ViewerTTL
  BY <1>3 DEF ViewersInv
<1>8. /\ \A p \in Streams : \A v \in streams'[p].found : away'[v] < ViewerTTL
      /\ ListedIsRecent'
  BY <1>1, <1>2, <1>3, <1>6, <1>7, OthersRecent
<1> QED
  BY <1>1, <1>2, <1>3, <1>4, <1>5, <1>8 DEF ViewersInv

LEMMA LeaveInv ==
  ASSUME ViewersInv, NEW s \in Streams, Leave(s) \/ Die(s)
  PROVE  ViewersInv'
<1>1. ViewersTyped'
  BY LiveAssumption DEF Leave, Die, Closed, ViewersInv, ViewersTyped
<1>2. \A p \in Streams \ {s} : streams'[p] = streams[p]
  BY DEF Leave, Die, Closed, ViewersInv, ViewersTyped
<1>3. streams'[s].pc = "closed" /\ streams'[s].found = {} /\ streams'[s].shown = {}
  BY DEF Leave, Die, Closed, ViewersInv, ViewersTyped, Open
<1>4. \A p \in Streams : Open(p)' => away'[AgentOf[p]] = 0
  BY <1>2, LiveAssumption DEF Leave, Die, Closed, ViewersInv, ViewersTyped, Open
<1>5. \A v \in Viewers : Named(v)' => viewerKeys'[v] + away'[v] <= ViewerTTL
  BY LiveAssumption DEF Leave, Die, Closed, ViewersInv, ViewersTyped, Open, Named
<1>6. \A v \in Viewers : away'[v] <= away[v]
  BY LiveAssumption DEF Leave, Die, Closed, ViewersInv, ViewersTyped
<1>7. /\ \A p \in Streams : \A v \in streams'[p].found : away'[v] < ViewerTTL
      /\ ListedIsRecent'
  BY <1>1, <1>2, <1>3, <1>6, OthersRecent
<1> QED
  BY <1>1, <1>2, <1>3, <1>4, <1>5, <1>7 DEF ViewersInv

\* A round takes one from every key and gives at most one to every absence; every
\* list that is shown was sent in the round that ends.
LEMMA RoundInv ==
  ASSUME ViewersInv, Round
  PROVE  ViewersInv'
<1>1. ViewersTyped'
  BY LiveAssumption DEF Round, ViewersInv, ViewersTyped, Closed, Open
<1>2. \A s \in Streams : streams'[s].found = {} /\ streams'[s].pc # "found"
  BY DEF Round, ViewersInv, ViewersTyped, Closed, Open
<1>3. \A s \in Streams : Open(s)' => away'[AgentOf[s]] = 0
  BY LiveAssumption DEF Round, ViewersInv, ViewersTyped, Closed, Open
<1>4. ASSUME NEW v \in Viewers, viewerKeys'[v] > 0
      PROVE  viewerKeys'[v] + away'[v] <= ViewerTTL
  <2>1. viewerKeys[v] > 0 /\ viewerKeys'[v] = viewerKeys[v] - 1
    BY <1>4 DEF Round, ViewersInv, ViewersTyped
  <2>2. viewerKeys[v] + away[v] <= ViewerTTL
    BY <2>1 DEF ViewersInv, Named
  <2>3. away'[v] <= away[v] + 1
    BY <2>1, <2>2, LiveAssumption DEF Round, ViewersInv, ViewersTyped
  <2> QED
    BY <2>1, <2>2, <2>3, <1>1, LiveAssumption DEF ViewersInv, ViewersTyped
<1>5. \A s \in Streams : streams'[s].pc = "closed" => streams'[s].shown = {}
  BY DEF Round, ViewersInv, ViewersTyped, Closed, Open
<1>6. ASSUME NEW s \in Streams, NEW v \in streams'[s].shown
      PROVE  away'[v] < IF streams'[s].pc = "asleep" THEN ViewerTTL ELSE ViewerTTL + 1
  <2>1. streams[s].pc = "asleep" /\ v \in streams[s].shown /\ v \in Viewers /\ streams'[s].pc = "due"
    BY <1>6 DEF Round, ViewersInv, ViewersTyped, Closed, Open
  <2>2. away[v] < ViewerTTL
    BY <2>1 DEF ViewersInv, ListedIsRecent
  <2>3. away'[v] <= away[v] + 1
    BY <2>1, <2>2, LiveAssumption DEF Round, ViewersInv, ViewersTyped
  <2> QED
    BY <2>1, <2>2, <2>3, <1>1, LiveAssumption DEF ViewersInv, ViewersTyped
<1> QED
  BY <1>1, <1>2, <1>3, <1>4, <1>5, <1>6 DEF ViewersInv, Named, ListedIsRecent

LEMMA ViewersNextInv == ViewersInv /\ [Next]_vars => ViewersInv'
<1> SUFFICES ASSUME ViewersInv, [Next]_vars PROVE ViewersInv'
  OBVIOUS
<1>1. CASE ViewersNext
  BY <1>1, RegisterInv, CollectInv, RefreshInv, LeaveInv, RoundInv DEF ViewersNext
<1>2. CASE NotesNext
  BY <1>2, NotesLeaveViewers, ViewersStutter
<1>3. CASE UNCHANGED liveVars
  BY <1>3, ViewersStutter DEF liveVars, streamVars
<1>4. UNCHANGED vars => UNCHANGED liveVars
  BY DEF vars, liveVars
<1> QED
  BY <1>1, <1>2, <1>3, <1>4 DEF Next

\* An agent whom an open page shows as viewing the ticket had a page of it open less
\* than the life of a key before the list was sent, and less than a round more before
\* the next is (sse_ticket_viewers in app/api/sse.py), for any number of agents and
\* pages, however they come, leave and die.
THEOREM ViewersAreRecent == Spec => []ListedIsRecent
<1>1. ViewersInv => ListedIsRecent
  BY DEF ViewersInv
<1> QED
  BY <1>1, ViewersInit, ViewersNextInv, PTL DEF Spec

-----------------------------------------------------------------------------
(* Branches, employees and workbooks.                                       *)

BranchColumns   == {"code", "is_active"}
EmployeeColumns == {"employee_id", "branch_id", "is_active", "deleted"}

DirectoryTyped ==
    /\ branches = [b \in Branches |-> branches[b]]
    /\ employees = [e \in Employees |-> employees[e]]
    /\ \A b \in Branches : DOMAIN branches[b] = BranchColumns
    /\ \A e \in Employees : DOMAIN employees[e] = EmployeeColumns

\* What a request stages are columns of the row under their key.
StagesRows(r) ==
    \A k \in DOMAIN r.stage :
        \/ k \in Branches /\ DOMAIN r.stage[k] \subseteq BranchColumns
        \/ k \in Employees /\ DOMAIN r.stage[k] \subseteq EmployeeColumns

\* An employee as a workbook brings him, and the rows of a workbook to come.
IsNewcomer(row) ==
    /\ DOMAIN row = EmployeeColumns /\ row.employee_id \in Badges
    /\ row.is_active = TRUE /\ row.deleted = FALSE

Left(r) == {r.rows[j] : j \in DOMAIN r.rows}

\* The tables, when what is staged is written, have the branch and the employee.
HasBranch(code, stage)    == BranchOf(Written(branches, stage), code) # {}
HasEmployee(badge, stage) ==
    \E e \in Employees : /\ Written(employees, stage)[e].employee_id = badge
                         /\ ~Written(employees, stage)[e].deleted

\* An employee whose branch is there is there.
TakesRow(r, row) == r.branch # None \/ HasBranch(row.code, r.stage) => HasEmployee(row.employee_id, r.stage)

\* The rows of the workbook that are done came in.
Covers(r) ==
    /\ r.pc = "branches" =>
         \A i \in DOMAIN r.book.branches :
             HasBranch(r.book.branches[i], r.stage) \/ r.book.branches[i] \in Left(r)
    /\ r.pc # "branches" /\ r.op = "import_branches" =>
         \A i \in DOMAIN r.book.branches : HasBranch(r.book.branches[i], r.stage)
    /\ r.pc = "employees" =>
         \A i \in DOMAIN r.book.employees :
             TakesRow(r, r.book.employees[i]) \/ r.book.employees[i] \in Left(r)
    /\ r.pc = "commit" =>
         \A i \in DOMAIN r.book.employees : TakesRow(r, r.book.employees[i])

\* The keys it stages are of rows that are not there.
StagesNew(r) ==
    \A k \in DOMAIN r.stage : /\ k \in Branches => branches[k] = NoBranch
                              /\ k \in Employees => employees[k] = NoEmployee

ImportFields == {"op", "alone", "pc", "book", "branch", "rows", "flushed", "stage"}

\* An import, and what it has done so far if it is alone.
Imports(r) ==
    /\ ImportFields \subseteq DOMAIN r /\ r.book \in Workbooks
    /\ r.pc = "branches" => r.rows \in Seq(Codes)
    /\ r.pc = "employees" => /\ r.rows \in Seq([code : Codes, employee_id : Badges])
                             /\ r.branch = None => r.flushed = TRUE
    /\ \A k \in DOMAIN r.stage : k \in Employees => IsNewcomer(r.stage[k])
    /\ r.alone => StagesNew(r) /\ Covers(r)

ImportOps == {"import_employees", "import_branches"}

\* A request of the other pages of the directory goes from its begin to its commit.
Edits(r) ==
    /\ StagesRows(r)
    /\ IF r.op \in ImportOps THEN Imports(r) ELSE r.pc = "commit"

DirectoryInv ==
    /\ DirectoryTyped
    /\ page.area = "directory" => \A c \in Slots : Busy(c) => Edits(req[c])

DirUnchanged(c) == UNCHANGED dirVars /\ \A d \in Slots \ {c} : req'[d] = req[d]

\* A step of a request that leaves the tables to its commit.
DirStays(c) == DirUnchanged(c) /\ (req'[c] # Free => Edits(req'[c]))

LEMMA EmptyRows ==
  /\ DOMAIN NoBranch = BranchColumns /\ NoBranch.code = None
  /\ DOMAIN NoEmployee = EmployeeColumns /\ NoEmployee.employee_id = None
  BY DEF NoBranch, NoEmployee, BranchColumns, EmployeeColumns

LEMMA DirectoryInitInv == Init => DirectoryInv
<1> SUFFICES ASSUME Init PROVE DirectoryInv
  OBVIOUS
<1>1. branches = [b \in Branches |-> NoBranch] /\ employees = [e \in Employees |-> NoEmployee]
  BY DEF Init, DirectoryInit
<1>2. DirectoryTyped
  BY <1>1, EmptyRows DEF DirectoryTyped
<1> QED
  BY <1>2 DEF Init, PageInit, DirectoryInv, Busy

\* A fresh key is of a row that is not there, and nobody has staged it.
LEMMA FreshBranch ==
  ASSUME DirectoryTyped, HasFresh(branches)
  PROVE  LET k == Fresh(branches) IN
         /\ k \in Branches /\ branches[k] = NoBranch
         /\ \A c \in Slots : Busy(c) => k \notin DOMAIN req[c].stage
<1> DEFINE IsFresh(k) == \A c \in Slots : Busy(c) => k \notin DOMAIN req[c].stage
<1>1. \E k \in DOMAIN branches \ InUse(branches) : IsFresh(k)
  BY DEF HasFresh
<1>2. Fresh(branches) = CHOOSE k \in DOMAIN branches \ InUse(branches) : IsFresh(k)
  BY DEF Fresh
<1>3. Fresh(branches) \in DOMAIN branches \ InUse(branches) /\ IsFresh(Fresh(branches))
  <2> HIDE DEF IsFresh
  <2> QED BY <1>1, <1>2
<1>4. DOMAIN branches = Branches /\ \A b \in Branches : branches[b] # NoEmployee
  BY EmptyRows DEF DirectoryTyped, BranchColumns, EmployeeColumns
<1> QED
  BY <1>3, <1>4 DEF InUse

LEMMA FreshEmployee ==
  ASSUME DirectoryTyped, HasFresh(employees)
  PROVE  LET k == Fresh(employees) IN
         /\ k \in Employees /\ employees[k] = NoEmployee
         /\ \A c \in Slots : Busy(c) => k \notin DOMAIN req[c].stage
<1> DEFINE IsFresh(k) == \A c \in Slots : Busy(c) => k \notin DOMAIN req[c].stage
<1>1. \E k \in DOMAIN employees \ InUse(employees) : IsFresh(k)
  BY DEF HasFresh
<1>2. Fresh(employees) = CHOOSE k \in DOMAIN employees \ InUse(employees) : IsFresh(k)
  BY DEF Fresh
<1>3. Fresh(employees) \in DOMAIN employees \ InUse(employees) /\ IsFresh(Fresh(employees))
  <2> HIDE DEF IsFresh
  <2> QED BY <1>1, <1>2
<1>4. DOMAIN employees = Employees /\ \A e \in Employees : employees[e] # NoBranch
  BY EmptyRows DEF DirectoryTyped, BranchColumns, EmployeeColumns
<1> QED
  BY <1>3, <1>4 DEF InUse

\* The tables after a write: a row whose key is staged, and one whose key is not.
LEMMA WrittenBranch ==
  ASSUME DirectoryTyped, NEW stage, NEW b \in Branches
  PROVE  Written(branches, stage)[b] =
           IF b \in DOMAIN stage THEN Over(stage[b], branches[b]) ELSE branches[b]
  BY WrittenRow DEF DirectoryTyped

LEMMA WrittenEmployee ==
  ASSUME DirectoryTyped, NEW stage, NEW e \in Employees
  PROVE  Written(employees, stage)[e] =
           IF e \in DOMAIN stage THEN Over(stage[e], employees[e]) ELSE employees[e]
  BY WrittenRow DEF DirectoryTyped

\* A branch of the table, and one that is staged, is there after the write.
LEMMA BranchStays ==
  ASSUME DirectoryTyped, NEW stage, NEW code \in Codes, BranchOf(branches, code) # {},
         \A b \in DOMAIN stage : b \in Branches => branches[b] = NoBranch
  PROVE  HasBranch(code, stage)
<1>1. PICK b \in Branches : branches[b].code = code
  BY DEF BranchOf
<1>2. branches[b] # NoBranch
  BY <1>1, EmptyRows, DirectoryAssumption
<1>3. Written(branches, stage)[b].code = code
  BY <1>1, <1>2, WrittenBranch
<1> QED
  BY <1>3 DEF HasBranch, BranchOf

LEMMA EmployeeStays ==
  ASSUME DirectoryTyped, NEW stage, NEW badge \in Badges, EmployeeOf(badge) # {},
         \A e \in DOMAIN stage : e \in Employees => employees[e] = NoEmployee
  PROVE  HasEmployee(badge, stage)
<1>1. PICK e \in Employees : employees[e].employee_id = badge /\ ~employees[e].deleted
  BY DEF EmployeeOf
<1>2. employees[e] # NoEmployee
  BY <1>1, EmptyRows, DirectoryAssumption
<1>3. Written(employees, stage)[e] = employees[e]
  BY <1>2, WrittenEmployee
<1> QED
  BY <1>1, <1>3 DEF HasEmployee

\* One more row is staged.
LEMMA Staged ==
  ASSUME NEW k, NEW row, NEW stage
  PROVE  /\ DOMAIN Over(Only(k, row), stage) = DOMAIN stage \cup {k}
         /\ Over(Only(k, row), stage)[k] = row
  BY DEF Over, Only

LEMMA StagedOthers ==
  ASSUME NEW k, NEW row, NEW stage, NEW j \in DOMAIN stage, j # k
  PROVE  Over(Only(k, row), stage)[j] = stage[j]
  BY DEF Over, Only

LEMMA BranchStaged ==
  ASSUME DirectoryTyped, NEW stage, NEW k \in Branches, k \notin DOMAIN stage, branches[k] = NoBranch,
         NEW code \in Codes
  PROVE  LET row == [NoBranch EXCEPT !.code = code]
             new == Over(Only(k, row), stage)
         IN  /\ HasBranch(code, new)
             /\ \A x \in Codes : HasBranch(x, stage) => HasBranch(x, new)
<1> DEFINE row == [NoBranch EXCEPT !.code = code]
           new == Over(Only(k, row), stage)
<1>1. row.code = code /\ "code" \in DOMAIN row
  BY DEF NoBranch
<1> HIDE DEF row
<1>2. DOMAIN new = DOMAIN stage \cup {k} /\ new[k] = row
  BY Staged
<1>others. ASSUME NEW j \in DOMAIN stage, j # k PROVE new[j] = stage[j]
  BY <1>others, StagedOthers
<1> HIDE DEF new
<1>3. Over(row, branches[k]).code = code
  BY <1>1 DEF Over
<1>4. Written(branches, new)[k].code = code
  BY <1>2, <1>3, WrittenBranch
<1>5. ASSUME NEW x \in Codes, HasBranch(x, stage)
      PROVE  HasBranch(x, new)
  <2>1. PICK b \in Branches : Written(branches, stage)[b].code = x
    BY <1>5 DEF HasBranch, BranchOf
  <2>2. b # k
    BY <2>1, EmptyRows, DirectoryAssumption, WrittenBranch
  <2>3. Written(branches, new)[b] = Written(branches, stage)[b]
    BY <1>2, <1>others, <2>2, WrittenBranch
  <2> QED
    BY <2>1, <2>3 DEF HasBranch, BranchOf
<1>6. HasBranch(code, new)
  BY <1>4 DEF HasBranch, BranchOf
<1> QED
  BY <1>5, <1>6 DEF row, new

LEMMA EmployeeStaged ==
  ASSUME DirectoryTyped, NEW stage, NEW k \in Employees, k \notin DOMAIN stage, employees[k] = NoEmployee,
         NEW row, IsNewcomer(row)
  PROVE  LET new == Over(Only(k, row), stage)
         IN  /\ HasEmployee(row.employee_id, new)
             /\ \A x \in Badges : HasEmployee(x, stage) => HasEmployee(x, new)
             /\ \A x : HasBranch(x, new) <=> HasBranch(x, stage)
<1> DEFINE new == Over(Only(k, row), stage)
<1>1. DOMAIN new = DOMAIN stage \cup {k} /\ new[k] = row
  BY Staged
<1>others. ASSUME NEW j \in DOMAIN stage, j # k PROVE new[j] = stage[j]
  BY <1>others, StagedOthers
<1> HIDE DEF new
<1>2. Over(row, employees[k]).employee_id = row.employee_id /\ Over(row, employees[k]).deleted = FALSE
  BY DEF Over, IsNewcomer, EmployeeColumns
<1>3. HasEmployee(row.employee_id, new)
  BY <1>1, <1>2, WrittenEmployee DEF HasEmployee
<1>4. ASSUME NEW x \in Badges, HasEmployee(x, stage)
      PROVE  HasEmployee(x, new)
  <2>1. PICK e \in Employees : /\ Written(employees, stage)[e].employee_id = x
                               /\ ~Written(employees, stage)[e].deleted
    BY <1>4 DEF HasEmployee
  <2>2. e # k
    BY <2>1, EmptyRows, DirectoryAssumption, WrittenEmployee
  <2>3. Written(employees, new)[e] = Written(employees, stage)[e]
    BY <1>1, <1>others, <2>2, WrittenEmployee
  <2> QED
    BY <2>1, <2>3 DEF HasEmployee
<1>5. \A b \in Branches : Written(branches, new)[b] = Written(branches, stage)[b]
  BY <1>1, <1>others, WrittenBranch, DirectoryAssumption
<1>6. \A x : HasBranch(x, new) <=> HasBranch(x, stage)
  BY <1>5 DEF HasBranch, BranchOf
<1> QED
  BY <1>3, <1>4, <1>6 DEF new

\* The first of the rows to come, and the others.
LEMMA LeftTail ==
  ASSUME NEW S, NEW rows \in Seq(S), rows # <<>>
  PROVE  /\ Head(rows) \in S /\ Tail(rows) \in Seq(S)
         /\ {rows[j] : j \in DOMAIN rows} = {Head(rows)} \cup {Tail(rows)[j] : j \in DOMAIN Tail(rows)}
<1>1. Len(rows) \in Nat \ {0} /\ DOMAIN rows = 1 .. Len(rows)
  OBVIOUS
<1>2. /\ Tail(rows) \in Seq(S) /\ Head(rows) = rows[1] /\ rows[1] \in S
      /\ DOMAIN Tail(rows) = 1 .. Len(rows) - 1
      /\ \A j \in 1 .. Len(rows) - 1 : Tail(rows)[j] = rows[j + 1]
  BY <1>1
<1>3. \A j \in 1 .. Len(rows) : j = 1 \/ (j - 1 \in 1 .. Len(rows) - 1 /\ (j - 1) + 1 = j)
  BY <1>1
<1>4. \A j \in 1 .. Len(rows) - 1 : j + 1 \in 1 .. Len(rows)
  BY <1>1
<1>5. 1 \in 1 .. Len(rows)
  BY <1>1
<1>6. ASSUME NEW j \in 1 .. Len(rows)
      PROVE  rows[j] = Head(rows) \/ \E i \in DOMAIN Tail(rows) : rows[j] = Tail(rows)[i]
  <2>1. CASE j = 1
    BY <1>2, <2>1
  <2>2. CASE j # 1
    <3>1. j - 1 \in DOMAIN Tail(rows) /\ Tail(rows)[j - 1] = rows[j]
      BY <1>2, <1>3, <2>2
    <3> QED
      BY <3>1
  <2> QED
    BY <2>1, <2>2
<1>7. \A j \in DOMAIN Tail(rows) : Tail(rows)[j] \in {rows[i] : i \in DOMAIN rows}
  BY <1>1, <1>2, <1>4
<1>8. Head(rows) \in {rows[i] : i \in DOMAIN rows}
  BY <1>1, <1>2, <1>5
<1> QED
  BY <1>1, <1>2, <1>6, <1>7, <1>8

\* What an import keeps when it has done a row.
SameImport(r, s) ==
    /\ ImportFields \subseteq DOMAIN s
    /\ s.op = r.op /\ s.alone = r.alone /\ s.pc = r.pc /\ s.book = r.book
    /\ s.branch = r.branch /\ s.flushed = r.flushed

LEMMA SkipIs ==
  ASSUME Requests, NEW c \in Slots, Imports(req[c]), Skip(c)
  PROVE  /\ SameImport(req[c], req'[c])
         /\ req'[c].rows = Tail(req[c].rows) /\ req'[c].stage = req[c].stage
         /\ \A d \in Slots \ {c} : req'[d] = req[d]
<1> DEFINE r   == req[c]
           new == [rows |-> Tail(r.rows)]
<1>1. /\ req'[c] = Over(new, r) /\ DOMAIN new = {"rows"} /\ new.rows = Tail(r.rows)
      /\ \A d \in Slots \ {c} : req'[d] = req[d]
  BY DEF Skip, Goto, Requests
<1>2. ImportFields \subseteq DOMAIN r
  BY DEF Imports
<1> HIDE DEF r, new
<1> QED
  BY <1>1, <1>2 DEF Over, ImportFields, SameImport, r

LEMMA AddIs ==
  ASSUME Requests, NEW c \in Slots, Imports(req[c]), NEW key, NEW row, Add(c, key, row)
  PROVE  /\ SameImport(req[c], req'[c])
         /\ req'[c].rows = Tail(req[c].rows) /\ req'[c].stage = Over(Only(key, row), req[c].stage)
         /\ \A d \in Slots \ {c} : req'[d] = req[d]
<1> DEFINE r     == req[c]
           stage == Over(Only(key, row), r.stage)
           new   == [rows |-> Tail(r.rows), stage |-> stage]
<1>1. /\ req'[c] = Over(new, r)
      /\ DOMAIN new = {"rows", "stage"} /\ new.rows = Tail(r.rows) /\ new.stage = stage
      /\ \A d \in Slots \ {c} : req'[d] = req[d]
  BY DEF Add, Goto, Requests
<1>2. ImportFields \subseteq DOMAIN r
  BY DEF Imports
<1> HIDE DEF new, stage
<1>3. SameImport(r, Over(new, r)) /\ Over(new, r).rows = new.rows /\ Over(new, r).stage = new.stage
  <2> HIDE DEF r
  <2> QED BY <1>1, <1>2 DEF Over, ImportFields, SameImport
<1> QED
  BY <1>1, <1>3 DEF stage

\* A sheet with a row less to go.
LEMMA BranchRowDone ==
  ASSUME NEW r, Edits(r), Imports(r), r.pc = "branches", r.rows # <<>>,
         NEW s, SameImport(r, s), StagesRows(s), s.rows = Tail(r.rows),
         \A k \in DOMAIN s.stage : k \in Employees => IsNewcomer(s.stage[k]),
         r.alone => /\ StagesNew(s) /\ HasBranch(Head(r.rows), s.stage)
                    /\ \A x \in Codes : HasBranch(x, r.stage) => HasBranch(x, s.stage)
  PROVE  Edits(s)
<1>1. /\ r.rows \in Seq(Codes) /\ r.book \in Workbooks /\ r.op \in ImportOps
  BY DEF Edits, Imports
<1>2. /\ Head(r.rows) \in Codes /\ s.rows \in Seq(Codes)
      /\ Left(r) = {Head(r.rows)} \cup Left(s)
  <2> DEFINE rows == r.rows
  <2>1. rows \in Seq(Codes) /\ rows # <<>> /\ s.rows = Tail(rows)
    BY <1>1
  <2> HIDE DEF rows
  <2>2. /\ Head(rows) \in Codes /\ Tail(rows) \in Seq(Codes)
        /\ {rows[j] : j \in DOMAIN rows} = {Head(rows)} \cup {Tail(rows)[j] : j \in DOMAIN Tail(rows)}
    BY <2>1, LeftTail
  <2> QED
    BY <2>1, <2>2 DEF Left, rows
<1>3. \A i \in DOMAIN r.book.branches : r.book.branches[i] \in Codes
  <2>1. r.book.branches \in Seq(Codes)
    BY <1>1, DirectoryAssumption
  <2> QED
    BY <2>1
<1>4. s.alone => Covers(s)
  BY <1>2, <1>3 DEF SameImport, Imports, Covers
<1> QED
  BY <1>1, <1>2, <1>4 DEF SameImport, Imports, Edits

LEMMA EmployeeRowDone ==
  ASSUME NEW r, Edits(r), Imports(r), r.pc = "employees", r.rows # <<>>,
         NEW s, SameImport(r, s), StagesRows(s), s.rows = Tail(r.rows),
         \A k \in DOMAIN s.stage : k \in Employees => IsNewcomer(s.stage[k]),
         r.alone => /\ StagesNew(s) /\ TakesRow(s, Head(r.rows))
                    /\ \A x \in Badges : HasEmployee(x, r.stage) => HasEmployee(x, s.stage)
                    /\ \A x : HasBranch(x, s.stage) <=> HasBranch(x, r.stage)
  PROVE  Edits(s)
<1> DEFINE Entries == [code : Codes, employee_id : Badges]
<1>1. /\ r.rows \in Seq(Entries) /\ r.book \in Workbooks /\ r.op \in ImportOps
  BY DEF Edits, Imports
<1>2. r.book.employees \in Seq(Entries) /\ \A entry \in Entries : entry.employee_id \in Badges
  BY <1>1, DirectoryAssumption
<1> HIDE DEF Entries
<1>3. /\ Head(r.rows) \in Entries /\ s.rows \in Seq(Entries)
      /\ Left(r) = {Head(r.rows)} \cup Left(s)
  <2> DEFINE rows == r.rows
  <2>1. rows \in Seq(Entries) /\ rows # <<>> /\ s.rows = Tail(rows)
    BY <1>1
  <2> HIDE DEF rows
  <2>2. /\ Head(rows) \in Entries /\ Tail(rows) \in Seq(Entries)
        /\ {rows[j] : j \in DOMAIN rows} = {Head(rows)} \cup {Tail(rows)[j] : j \in DOMAIN Tail(rows)}
    BY <2>1, LeftTail
  <2> QED
    BY <2>1, <2>2 DEF Left, rows
<1>4. \A i \in DOMAIN r.book.employees : r.book.employees[i].employee_id \in Badges
  BY <1>2
<1>5. ASSUME s.alone, NEW i \in DOMAIN r.book.employees, TakesRow(r, r.book.employees[i])
      PROVE  TakesRow(s, r.book.employees[i])
  BY <1>5, <1>4 DEF TakesRow, SameImport
<1>6. s.alone => Covers(s)
  BY <1>3, <1>5 DEF SameImport, Imports, Covers
<1> QED
  BY <1>1, <1>3, <1>6 DEF SameImport, Imports, Edits, Entries

\* An import that is under way.
LEMMA Importing ==
  ASSUME DirectoryInv, page.area = "directory", NEW c \in Slots,
         Reading(c, "branches") \/ Reading(c, "employees")
  PROVE  DirectoryTyped /\ Busy(c) /\ Edits(req[c]) /\ Imports(req[c]) /\ req[c].op \in ImportOps
  BY DEF DirectoryInv, Reading, Edits

LEMMA BranchRowStep ==
  ASSUME Requests, DirectoryInv, page.area = "directory", NEW c \in Slots, ImportBranchRow(c)
  PROVE  DirStays(c)
<1> DEFINE r    == req[c]
           s    == req'[c]
           code == Head(r.rows)
<1>1. /\ Reading(c, "branches") /\ r.rows # <<>> /\ r.pc = "branches" /\ UNCHANGED dirVars
  BY DEF ImportBranchRow, Reading
<1>2. DirectoryTyped /\ Busy(c) /\ Edits(r) /\ Imports(r) /\ StagesRows(r)
  BY <1>1, Importing DEF Edits
<1>3. code \in Codes
  BY <1>1, <1>2, LeftTail DEF Imports
<1>4. CASE BranchOf(branches, code) # {}
  <2>1. Skip(c)
    BY <1>4 DEF ImportBranchRow
  <2>2. /\ SameImport(r, s) /\ s.rows = Tail(r.rows) /\ s.stage = r.stage
        /\ \A d \in Slots \ {c} : req'[d] = req[d]
    BY <1>2, <2>1, SkipIs
  <2> HIDE DEF r, s, code
  <2>3. r.alone => HasBranch(code, s.stage)
    BY <1>2, <1>3, <1>4, <2>2, BranchStays DEF Imports, StagesNew
  <2>4. /\ StagesRows(s) /\ \A k \in DOMAIN s.stage : k \in Employees => IsNewcomer(s.stage[k])
        /\ r.alone => StagesNew(s)
    BY <1>2, <2>2 DEF StagesRows, Imports, StagesNew
  <2>5. Edits(s)
    BY <1>1, <1>2, <2>2, <2>3, <2>4, BranchRowDone DEF code
  <2> QED
    BY <1>1, <2>2, <2>5 DEF DirStays, DirUnchanged, s
<1>5. CASE BranchOf(branches, code) = {}
  <2> DEFINE k   == Fresh(branches)
             row == [NoBranch EXCEPT !.code = code]
  <2>1. HasFresh(branches) /\ Add(c, k, row)
    BY <1>5 DEF ImportBranchRow
  <2>2. k \in Branches /\ branches[k] = NoBranch /\ k \notin DOMAIN r.stage
    BY <1>2, <2>1, FreshBranch
  <2>3. /\ SameImport(r, s) /\ s.rows = Tail(r.rows) /\ s.stage = Over(Only(k, row), r.stage)
        /\ \A d \in Slots \ {c} : req'[d] = req[d]
    BY <1>2, <2>1, AddIs
  <2> HIDE DEF r, s, code, k
  <2>4. HasBranch(code, s.stage) /\ \A x \in Codes : HasBranch(x, r.stage) => HasBranch(x, s.stage)
    BY <1>2, <1>3, <2>2, <2>3, BranchStaged
  <2>5. DOMAIN row = BranchColumns
    BY DEF NoBranch, BranchColumns
  <2> HIDE DEF row
  <2>6. DOMAIN s.stage = DOMAIN r.stage \cup {k} /\ s.stage[k] = row
    BY <2>3, Staged
  <2>7. ASSUME NEW j \in DOMAIN s.stage, j # k
        PROVE  j \in DOMAIN r.stage /\ s.stage[j] = r.stage[j]
    BY <2>3, <2>6, <2>7, StagedOthers
  <2>8. StagesRows(s)
    BY <1>2, <2>2, <2>5, <2>6, <2>7 DEF StagesRows
  <2>9. k \notin Employees
    BY <2>2, DirectoryAssumption
  <2>10. \A j \in DOMAIN s.stage : j \in Employees => IsNewcomer(s.stage[j])
    BY <1>2, <2>7, <2>9 DEF Imports
  <2>11. r.alone => StagesNew(s)
    BY <1>2, <2>2, <2>7, <2>9 DEF Imports, StagesNew
  <2>12. Edits(s)
    BY <1>1, <1>2, <2>3, <2>4, <2>8, <2>10, <2>11, BranchRowDone DEF code
  <2> QED
    BY <1>1, <2>3, <2>12 DEF DirStays, DirUnchanged, s
<1> QED
  BY <1>4, <1>5

LEMMA NewcomerIs ==
  ASSUME NEW badge \in Badges, NEW b
  PROVE  IsNewcomer(NewEmployee(badge, b)) /\ NewEmployee(badge, b).employee_id = badge
  BY DEF IsNewcomer, NewEmployee, NoEmployee, EmployeeColumns

LEMMA EmployeeRowStep ==
  ASSUME Requests, DirectoryInv, page.area = "directory", NEW c \in Slots, ImportEmployeeRow(c)
  PROVE  DirStays(c)
<1> DEFINE r     == req[c]
           s     == req'[c]
           entry == Head(r.rows)
           found == IF r.branch # None THEN {r.branch} ELSE BranchOf(Seen(c), entry.code)
<1>1. /\ Reading(c, "employees") /\ r.rows # <<>> /\ r.pc = "employees" /\ UNCHANGED dirVars
  BY DEF ImportEmployeeRow, Reading
<1>2. DirectoryTyped /\ Busy(c) /\ Edits(r) /\ Imports(r) /\ StagesRows(r)
  BY <1>1, Importing DEF Edits
<1>3. entry.employee_id \in Badges
  <2>1. r.rows \in Seq([code : Codes, employee_id : Badges])
    BY <1>1, <1>2 DEF Imports
  <2>2. entry \in [code : Codes, employee_id : Badges]
    BY <1>1, <2>1, LeftTail
  <2> QED
    BY <2>2
<1>4. found = {} => r.branch = None /\ ~HasBranch(entry.code, r.stage)
  BY <1>1, <1>2 DEF Seen, HasBranch, Imports
<1>5. CASE found = {} \/ EmployeeOf(entry.employee_id) # {}
  <2>1. Skip(c)
    BY <1>5 DEF ImportEmployeeRow
  <2>2. /\ SameImport(r, s) /\ s.rows = Tail(r.rows) /\ s.stage = r.stage
        /\ \A d \in Slots \ {c} : req'[d] = req[d]
    BY <1>2, <2>1, SkipIs
  <2> HIDE DEF r, s, entry, found
  <2>3. r.alone /\ found # {} => HasEmployee(entry.employee_id, s.stage)
    BY <1>2, <1>3, <1>5, <2>2, EmployeeStays DEF Imports, StagesNew
  <2>4. r.alone => TakesRow(s, entry)
    BY <1>4, <2>2, <2>3 DEF TakesRow, SameImport
  <2>5. /\ StagesRows(s) /\ \A k \in DOMAIN s.stage : k \in Employees => IsNewcomer(s.stage[k])
        /\ r.alone => StagesNew(s)
    BY <1>2, <2>2 DEF StagesRows, Imports, StagesNew
  <2>6. Edits(s)
    BY <1>1, <1>2, <2>2, <2>4, <2>5, EmployeeRowDone DEF entry
  <2> QED
    BY <1>1, <2>2, <2>6 DEF DirStays, DirUnchanged, s
<1>6. CASE found # {} /\ EmployeeOf(entry.employee_id) = {}
  <2> DEFINE k == Fresh(employees)
  <2>1. HasFresh(employees) /\ \E b \in found : Add(c, k, NewEmployee(entry.employee_id, b))
    BY <1>6 DEF ImportEmployeeRow
  <2>2. PICK b : Add(c, k, NewEmployee(entry.employee_id, b))
    BY <2>1
  <2> DEFINE row == NewEmployee(entry.employee_id, b)
  <2>3. k \in Employees /\ employees[k] = NoEmployee /\ k \notin DOMAIN r.stage
    BY <1>2, <2>1, FreshEmployee
  <2>4. /\ SameImport(r, s) /\ s.rows = Tail(r.rows) /\ s.stage = Over(Only(k, row), r.stage)
        /\ \A d \in Slots \ {c} : req'[d] = req[d]
    BY <1>2, <2>2, AddIs
  <2> HIDE DEF r, s, entry, found, k
  <2>5. IsNewcomer(row) /\ row.employee_id = entry.employee_id
    BY <1>3, NewcomerIs
  <2> HIDE DEF row
  <2>6. /\ HasEmployee(entry.employee_id, s.stage)
        /\ \A x \in Badges : HasEmployee(x, r.stage) => HasEmployee(x, s.stage)
        /\ \A x : HasBranch(x, s.stage) <=> HasBranch(x, r.stage)
    <3> DEFINE old == r.stage
    <3>1. k \notin DOMAIN old /\ s.stage = Over(Only(k, row), old)
      BY <2>3, <2>4
    <3> HIDE DEF old
    <3>2. /\ HasEmployee(row.employee_id, s.stage)
          /\ \A x \in Badges : HasEmployee(x, old) => HasEmployee(x, s.stage)
          /\ \A x : HasBranch(x, s.stage) <=> HasBranch(x, old)
      BY <1>2, <2>3, <2>5, <3>1, EmployeeStaged
    <3> QED
      BY <2>5, <3>2 DEF old
  <2>7. DOMAIN s.stage = DOMAIN r.stage \cup {k} /\ s.stage[k] = row
    BY <2>4, Staged
  <2>8. ASSUME NEW j \in DOMAIN s.stage, j # k
        PROVE  j \in DOMAIN r.stage /\ s.stage[j] = r.stage[j]
    BY <2>4, <2>7, <2>8, StagedOthers
  <2>9. StagesRows(s)
    BY <1>2, <2>3, <2>5, <2>7, <2>8 DEF StagesRows, IsNewcomer
  <2>10. \A j \in DOMAIN s.stage : j \in Employees => IsNewcomer(s.stage[j])
    BY <1>2, <2>5, <2>7, <2>8 DEF Imports
  <2>11. k \notin Branches
    BY <2>3, DirectoryAssumption
  <2>12. r.alone => StagesNew(s)
    BY <1>2, <2>3, <2>8, <2>11 DEF Imports, StagesNew
  <2>13. TakesRow(s, entry)
    BY <2>6 DEF TakesRow
  <2>14. Edits(s)
    BY <1>1, <1>2, <2>4, <2>6, <2>9, <2>10, <2>12, <2>13, EmployeeRowDone DEF entry
  <2> QED
    BY <1>1, <2>4, <2>14 DEF DirStays, DirUnchanged, s
<1> QED
  BY <1>5, <1>6

\* The branches are through, and flushed.
LEMMA FlushStep ==
  ASSUME Requests, DirectoryInv, page.area = "directory", NEW c \in Slots, FlushBranches(c)
  PROVE  DirStays(c)
<1> DEFINE r == req[c]
           s == req'[c]
<1>1. /\ Reading(c, "branches") /\ r.rows = <<>> /\ r.pc = "branches" /\ UNCHANGED dirVars
  BY DEF FlushBranches, Reading
<1>2. DirectoryTyped /\ Busy(c) /\ Edits(r) /\ Imports(r) /\ StagesRows(r) /\ r.op \in ImportOps
  BY <1>1, Importing DEF Edits
<1>3. CASE Rollback(c)
  BY <1>1, <1>3 DEF Rollback, DirStays, DirUnchanged, Requests
<1>4. CASE Goto(c, [pc |-> "employees", rows |-> r.book.employees, flushed |-> TRUE])
  <2> DEFINE new == [pc |-> "employees", rows |-> r.book.employees, flushed |-> TRUE]
  <2>1. /\ s = Over(new, r) /\ DOMAIN new = {"pc", "rows", "flushed"}
        /\ new.pc = "employees" /\ new.rows = r.book.employees /\ new.flushed = TRUE
        /\ \A d \in Slots \ {c} : req'[d] = req[d]
    BY <1>4 DEF Goto, Requests
  <2>2. ImportFields \subseteq DOMAIN r
    BY <1>2 DEF Imports
  <2> HIDE DEF new, r, s
  <2>3. /\ ImportFields \subseteq DOMAIN s
        /\ s.pc = "employees" /\ s.rows = r.book.employees /\ s.flushed = TRUE
        /\ s.op = r.op /\ s.alone = r.alone /\ s.book = r.book /\ s.branch = r.branch /\ s.stage = r.stage
    BY <2>1, <2>2 DEF Over, ImportFields
  <2>4. Left(r) = {}
    BY <1>1 DEF Left
  <2>5. r.book.employees \in Seq([code : Codes, employee_id : Badges])
    BY <1>2, DirectoryAssumption DEF Imports
  <2>6. \A i \in DOMAIN r.book.employees : r.book.employees[i] \in Left(s)
    BY <2>3 DEF Left
  <2>7. r.alone => Covers(s)
    BY <1>1, <1>2, <2>3, <2>4, <2>6 DEF Imports, Covers
  <2>8. StagesRows(s) /\ (r.alone => StagesNew(s))
    BY <1>2, <2>3 DEF StagesRows, StagesNew, Imports
  <2>9. Edits(s)
    BY <1>2, <2>3, <2>5, <2>7, <2>8 DEF Edits, Imports
  <2> QED
    BY <1>1, <2>1, <2>9 DEF DirStays, DirUnchanged, s
<1> QED
  BY <1>3, <1>4 DEF FlushBranches

LEMMA EndStep ==
  ASSUME Requests, DirectoryInv, page.area = "directory", NEW c \in Slots, EndOfEmployees(c)
  PROVE  DirStays(c)
<1> DEFINE r == req[c]
           s == req'[c]
           new == [pc |-> "commit"]
<1>1. /\ Reading(c, "employees") /\ r.rows = <<>> /\ r.pc = "employees" /\ UNCHANGED dirVars
  BY DEF EndOfEmployees, Reading
<1>2. DirectoryTyped /\ Busy(c) /\ Edits(r) /\ Imports(r) /\ StagesRows(r) /\ r.op \in ImportOps
  BY <1>1, Importing DEF Edits
<1>3. /\ s = Over(new, r) /\ DOMAIN new = {"pc"} /\ new.pc = "commit"
      /\ \A d \in Slots \ {c} : req'[d] = req[d]
  BY DEF EndOfEmployees, Goto, Requests
<1>4. ImportFields \subseteq DOMAIN r
  BY <1>2 DEF Imports
<1> HIDE DEF new, r, s
<1>5. /\ ImportFields \subseteq DOMAIN s /\ s.pc = "commit"
      /\ s.op = r.op /\ s.alone = r.alone /\ s.book = r.book /\ s.branch = r.branch /\ s.stage = r.stage
  BY <1>3, <1>4 DEF Over, ImportFields
<1>6. Left(r) = {}
  BY <1>1 DEF Left
<1>7. r.alone => Covers(s)
  BY <1>1, <1>2, <1>5, <1>6 DEF Imports, Covers, TakesRow
<1>8. StagesRows(s) /\ (r.alone => StagesNew(s))
  BY <1>2, <1>5 DEF StagesRows, StagesNew, Imports
<1>9. Edits(s)
  BY <1>2, <1>5, <1>7, <1>8 DEF Edits, Imports
<1> QED
  BY <1>1, <1>3, <1>9 DEF DirStays, DirUnchanged, s

\* A request that begins with one row staged, and is no import.
LEMMA BeginEdits ==
  ASSUME Requests, NEW c \in Slots, NEW op, op \notin ImportOps, NEW k, NEW new,
         \/ k \in Branches /\ DOMAIN new \subseteq BranchColumns
         \/ k \in Employees /\ DOMAIN new \subseteq EmployeeColumns,
         BeginDir(c, op, Only(k, new))
  PROVE  DirStays(c)
<1> DEFINE s == req'[c]
<1>1. /\ s.op = op /\ s.pc = "commit" /\ s.stage = Only(k, new) /\ UNCHANGED dirVars
      /\ \A d \in Slots \ {c} : req'[d] = req[d]
  BY DEF BeginDir, Begin, Over, Requests
<1>2. DOMAIN s.stage = {k} /\ s.stage[k] = new
  BY <1>1 DEF Only
<1> HIDE DEF s
<1>3. StagesRows(s)
  BY <1>2 DEF StagesRows
<1>4. Edits(s)
  BY <1>1, <1>3 DEF Edits
<1> QED
  BY <1>1, <1>4 DEF s, DirStays, DirUnchanged

LEMMA NetChangeDomain ==
  ASSUME NEW row, NEW new, NEW Columns, DOMAIN new \subseteq Columns
  PROVE  DOMAIN NetChange(row, new) \subseteq Columns
  BY DEF NetChange

LEMMA BranchEdits ==
  ASSUME Requests, DirectoryTyped, NEW c \in Slots
  PROVE  /\ \A code \in Codes : create_branch(c, code) => DirStays(c)
         /\ \A b \in Branches, code \in Codes : update_branch(c, b, code) => DirStays(c)
         /\ \A b \in Branches : toggle_branch(c, b) => DirStays(c)
<1>1. ASSUME NEW code \in Codes, create_branch(c, code)
      PROVE  DirStays(c)
  <2> DEFINE row == [NoBranch EXCEPT !.code = code]
             k   == Fresh(branches)
  <2>1. HasFresh(branches) /\ BeginDir(c, "create_branch", Only(k, row))
    BY <1>1 DEF create_branch
  <2>2. DOMAIN row = BranchColumns
    BY DEF NoBranch, BranchColumns
  <2>3. k \in Branches
    BY <2>1, FreshBranch
  <2> HIDE DEF row, k
  <2> QED
    BY <2>1, <2>2, <2>3, BeginEdits DEF ImportOps
<1>2. ASSUME NEW b \in Branches, NEW code \in Codes, update_branch(c, b, code)
      PROVE  DirStays(c)
  <2> DEFINE new == [code |-> code]
             net == NetChange(branches[b], new)
  <2>1. DOMAIN new \subseteq BranchColumns
    BY DEF BranchColumns
  <2> HIDE DEF new
  <2>2. DOMAIN net \subseteq BranchColumns
    BY <2>1, NetChangeDomain
  <2>3. BeginDir(c, "update_branch", Only(b, net))
    BY <1>2 DEF update_branch, new
  <2> HIDE DEF net
  <2> QED
    BY <2>2, <2>3, BeginEdits DEF ImportOps
<1>3. ASSUME NEW b \in Branches, toggle_branch(c, b)
      PROVE  DirStays(c)
  <2> DEFINE new == [is_active |-> ~branches[b].is_active]
  <2>1. DOMAIN new \subseteq BranchColumns
    BY DEF BranchColumns
  <2>2. BeginDir(c, "toggle_branch", Only(b, new))
    BY <1>3 DEF toggle_branch
  <2> HIDE DEF new
  <2> QED
    BY <2>1, <2>2, BeginEdits DEF ImportOps
<1> QED
  BY <1>1, <1>2, <1>3

LEMMA EmployeeEdits ==
  ASSUME Requests, DirectoryTyped, NEW c \in Slots
  PROVE  /\ \A badge \in Badges, b \in Branches : create_employee(c, badge, b) => DirStays(c)
         /\ \A e \in Employees, badge \in Badges : update_employee(c, e, badge) => DirStays(c)
         /\ \A e \in Employees : toggle_employee(c, e) => DirStays(c)
         /\ \A e \in Employees : delete_employee(c, e) => DirStays(c)
<1>1. ASSUME NEW badge \in Badges, NEW b \in Branches, create_employee(c, badge, b)
      PROVE  DirStays(c)
  <2> DEFINE row == NewEmployee(badge, b)
             k   == Fresh(employees)
  <2>1. HasFresh(employees) /\ BeginDir(c, "create_employee", Only(k, row))
    BY <1>1 DEF create_employee
  <2>2. DOMAIN row = EmployeeColumns
    BY NewcomerIs DEF IsNewcomer
  <2>3. k \in Employees
    BY <2>1, FreshEmployee
  <2> HIDE DEF row, k
  <2> QED
    BY <2>1, <2>2, <2>3, BeginEdits DEF ImportOps
<1>2. ASSUME NEW e \in Employees, NEW badge \in Badges, update_employee(c, e, badge)
      PROVE  DirStays(c)
  <2> DEFINE new == [employee_id |-> badge]
             net == NetChange(employees[e], new)
  <2>1. DOMAIN new \subseteq EmployeeColumns
    BY DEF EmployeeColumns
  <2> HIDE DEF new
  <2>2. DOMAIN net \subseteq EmployeeColumns
    BY <2>1, NetChangeDomain
  <2>3. BeginDir(c, "update_employee", Only(e, net))
    BY <1>2 DEF update_employee, new
  <2> HIDE DEF net
  <2> QED
    BY <2>2, <2>3, BeginEdits DEF ImportOps
<1>3. ASSUME NEW e \in Employees, toggle_employee(c, e)
      PROVE  DirStays(c)
  <2> DEFINE new == [is_active |-> ~employees[e].is_active]
  <2>1. DOMAIN new \subseteq EmployeeColumns
    BY DEF EmployeeColumns
  <2>2. BeginDir(c, "toggle_employee", Only(e, new))
    BY <1>3 DEF toggle_employee
  <2> HIDE DEF new
  <2> QED
    BY <2>1, <2>2, BeginEdits DEF ImportOps
<1>4. ASSUME NEW e \in Employees, delete_employee(c, e)
      PROVE  DirStays(c)
  <2> DEFINE new == [deleted |-> TRUE]
  <2>1. DOMAIN new \subseteq EmployeeColumns
    BY DEF EmployeeColumns
  <2>2. BeginDir(c, "delete_employee", Only(e, new))
    BY <1>4 DEF delete_employee
  <2> HIDE DEF new
  <2> QED
    BY <2>1, <2>2, BeginEdits DEF ImportOps
<1> QED
  BY <1>1, <1>2, <1>3, <1>4

\* An import begins with everything to do.
LEMMA ImportBegins ==
  ASSUME Requests, DirectoryTyped, NEW c \in Slots, NEW book \in Workbooks
  PROVE  /\ \A b \in Branches : import_employees(c, book, b) => DirStays(c)
         /\ import_branches_with_employees(c, book) => DirStays(c)
<1>1. book.branches \in Seq(Codes) /\ book.employees \in Seq([code : Codes, employee_id : Badges])
  BY DirectoryAssumption
<1>2. DOMAIN Nothing = {}
  BY DEF Nothing
<1>3. ASSUME NEW b \in Branches, import_employees(c, book, b)
      PROVE  DirStays(c)
  <2> DEFINE s == req'[c]
  <2>1. /\ ImportFields \subseteq DOMAIN s /\ s.op = "import_employees" /\ s.pc = "employees"
        /\ s.book = book /\ s.branch = b /\ s.rows = book.employees /\ s.stage = Nothing
        /\ UNCHANGED dirVars
        /\ \A d \in Slots \ {c} : req'[d] = req[d]
    BY <1>3 DEF import_employees, Begin, Over, Requests, ImportFields
  <2> HIDE DEF s
  <2>2. \A i \in DOMAIN book.employees : book.employees[i] \in Left(s)
    BY <2>1 DEF Left
  <2>3. Covers(s) /\ StagesNew(s) /\ StagesRows(s)
    <3>1. Covers(s)
      BY <2>1, <2>2 DEF Covers
    <3>2. StagesNew(s) /\ StagesRows(s)
      BY <1>2, <2>1 DEF StagesNew, StagesRows
    <3> QED
      BY <3>1, <3>2
  <2>4. Edits(s)
    BY <1>1, <1>2, <2>1, <2>3, DirectoryAssumption DEF Edits, Imports, ImportOps
  <2> QED
    BY <2>1, <2>4 DEF s, DirStays, DirUnchanged
<1>4. ASSUME import_branches_with_employees(c, book)
      PROVE  DirStays(c)
  <2> DEFINE s == req'[c]
  <2>1. /\ ImportFields \subseteq DOMAIN s /\ s.op = "import_branches" /\ s.pc = "branches"
        /\ s.book = book /\ s.rows = book.branches /\ s.stage = Nothing
        /\ UNCHANGED dirVars
        /\ \A d \in Slots \ {c} : req'[d] = req[d]
    BY <1>4 DEF import_branches_with_employees, Begin, Over, Requests, ImportFields
  <2> HIDE DEF s
  <2>2. \A i \in DOMAIN book.branches : book.branches[i] \in Left(s)
    BY <2>1 DEF Left
  <2>3. Covers(s) /\ StagesNew(s) /\ StagesRows(s)
    <3>1. Covers(s)
      BY <2>1, <2>2 DEF Covers
    <3>2. StagesNew(s) /\ StagesRows(s)
      BY <1>2, <2>1 DEF StagesNew, StagesRows
    <3> QED
      BY <3>1, <3>2
  <2>4. Edits(s)
    BY <1>1, <1>2, <2>1, <2>3 DEF Edits, Imports, ImportOps
  <2> QED
    BY <2>1, <2>4 DEF s, DirStays, DirUnchanged
<1> QED
  BY <1>3, <1>4

\* Every step of the directory but a commit leaves the tables alone.
LEMMA DirectorySteps ==
  ASSUME Requests, DirectoryInv, DirectoryNext
  PROVE  \E c \in Slots : DirStays(c) \/ CommitDirectory(c)
<1>1. page.area = "directory" /\ DirectoryTyped
  BY DEF DirectoryNext, DirectoryInv
<1>2. PICK c \in Slots :
        \/ \E code \in Codes : create_branch(c, code) \/ \E b \in Branches : update_branch(c, b, code)
        \/ \E b \in Branches : toggle_branch(c, b)
        \/ \E badge \in Badges : \/ \E b \in Branches : create_employee(c, badge, b)
                                 \/ \E e \in Employees : update_employee(c, e, badge)
        \/ \E e \in Employees : toggle_employee(c, e) \/ delete_employee(c, e)
        \/ \E book \in Workbooks : \/ import_branches_with_employees(c, book)
                                   \/ \E b \in Branches : import_employees(c, book, b)
        \/ ImportBranchRow(c) \/ FlushBranches(c) \/ ImportEmployeeRow(c) \/ EndOfEmployees(c)
        \/ CommitDirectory(c)
  BY DEF DirectoryNext
<1>3. CASE \/ \E code \in Codes : create_branch(c, code) \/ \E b \in Branches : update_branch(c, b, code)
           \/ \E b \in Branches : toggle_branch(c, b)
  BY <1>1, <1>3, BranchEdits
<1>4. CASE \/ \E badge \in Badges : \/ \E b \in Branches : create_employee(c, badge, b)
                                    \/ \E e \in Employees : update_employee(c, e, badge)
           \/ \E e \in Employees : toggle_employee(c, e) \/ delete_employee(c, e)
  BY <1>1, <1>4, EmployeeEdits
<1>5. CASE \E book \in Workbooks : \/ import_branches_with_employees(c, book)
                                   \/ \E b \in Branches : import_employees(c, book, b)
  BY <1>1, <1>5, ImportBegins
<1>6. CASE ImportBranchRow(c) \/ FlushBranches(c) \/ ImportEmployeeRow(c) \/ EndOfEmployees(c)
  BY <1>1, <1>6, BranchRowStep, FlushStep, EmployeeRowStep, EndStep
<1> QED
  BY <1>2, <1>3, <1>4, <1>5, <1>6

LEMMA OverlappedEdits ==
  ASSUME Requests, page' = page, NEW c \in Slots, Busy(c), Edits(req[c]), req'[c] = Overlapped(c)
  PROVE  Edits(req'[c]) /\ req'[c].alone = FALSE
<1> DEFINE r == req[c]
           s == req'[c]
<1>1. s = [r EXCEPT !.alone = FALSE] /\ {"alone", "op"} \subseteq DOMAIN r
  BY DEF Overlapped, Requests, Known
<1> HIDE DEF r, s
<1>2. /\ s.alone = FALSE /\ DOMAIN s = DOMAIN r
      /\ s.op = r.op /\ s.stage = r.stage /\ s.pc = r.pc
      /\ s.book = r.book /\ s.branch = r.branch /\ s.rows = r.rows /\ s.flushed = r.flushed
  BY <1>1
<1>3. StagesRows(s)
  BY <1>2 DEF Edits, StagesRows, r
<1>4. Imports(r) => Imports(s)
  BY <1>2 DEF Imports
<1>5. Edits(s)
  BY <1>2, <1>3, <1>4 DEF Edits, r
<1> QED
  BY <1>2, <1>5 DEF s

\* What a request that is not alone has staged does not depend on the tables.
LEMMA EditsStay ==
  ASSUME NEW r, Edits(r), r.alone = FALSE \/ UNCHANGED dirVars
  PROVE  Edits(r)'
<1>1. StagesRows(r)'
  BY DEF Edits, StagesRows
<1>2. ASSUME Imports(r), UNCHANGED dirVars
      PROVE  Imports(r)'
  <2>1. \A x, stage : HasBranch(x, stage)' <=> HasBranch(x, stage)
    BY <1>2 DEF dirVars, HasBranch, BranchOf
  <2>2. \A x, stage : HasEmployee(x, stage)' <=> HasEmployee(x, stage)
    BY <1>2 DEF dirVars, HasEmployee
  <2>3. Covers(r) => Covers(r)'
    BY <2>1, <2>2 DEF Covers, TakesRow
  <2>4. StagesNew(r) => StagesNew(r)'
    BY <1>2 DEF dirVars, StagesNew
  <2> QED
    BY <1>2, <2>3, <2>4 DEF Imports
<1>3. ASSUME Imports(r), r.alone = FALSE
      PROVE  Imports(r)'
  BY <1>3 DEF Imports
<1> QED
  BY <1>1, <1>2, <1>3 DEF Edits

\* A commit leaves the columns of the tables.
LEMMA CommittedTyped ==
  ASSUME DirectoryTyped, NEW stage, NEW r, r.stage = stage, StagesRows(r),
         branches' = Written(branches, stage), employees' = Written(employees, stage)
  PROVE  DirectoryTyped'
<1>1. /\ branches' = [b \in Branches |-> branches'[b]]
      /\ employees' = [e \in Employees |-> employees'[e]]
  BY DEF DirectoryTyped, Written
<1>2. ASSUME NEW b \in Branches
      PROVE  DOMAIN branches'[b] = BranchColumns
  <2>1. b \notin Employees /\ DOMAIN branches[b] = BranchColumns
    BY DirectoryAssumption DEF DirectoryTyped
  <2>2. CASE b \in DOMAIN stage
    <3>1. DOMAIN stage[b] \subseteq BranchColumns
      BY <2>1, <2>2 DEF StagesRows
    <3>2. branches'[b] = Over(stage[b], branches[b])
      BY <2>2, WrittenBranch
    <3> QED
      BY <2>1, <3>1, <3>2 DEF Over
  <2>3. CASE b \notin DOMAIN stage
    BY <2>1, <2>3, WrittenBranch
  <2> QED
    BY <2>2, <2>3
<1>3. ASSUME NEW e \in Employees
      PROVE  DOMAIN employees'[e] = EmployeeColumns
  <2>1. e \notin Branches /\ DOMAIN employees[e] = EmployeeColumns
    BY DirectoryAssumption DEF DirectoryTyped
  <2>2. CASE e \in DOMAIN stage
    <3>1. DOMAIN stage[e] \subseteq EmployeeColumns
      BY <2>1, <2>2 DEF StagesRows
    <3>2. employees'[e] = Over(stage[e], employees[e])
      BY <2>2, WrittenEmployee
    <3> QED
      BY <2>1, <3>1, <3>2 DEF Over
  <2>3. CASE e \notin DOMAIN stage
    BY <2>1, <2>3, WrittenEmployee
  <2> QED
    BY <2>2, <2>3
<1> QED
  BY <1>1, <1>2, <1>3 DEF DirectoryTyped

LEMMA CommitIs ==
  ASSUME Requests, DirectoryInv, page.area = "directory", NEW c \in Slots, CommitDirectory(c)
  PROVE  /\ Edits(req[c]) /\ req[c].pc = "commit"
         /\ \/ Rollback(c) /\ UNCHANGED dirVars
            \/ /\ branches' = Written(branches, req[c].stage)
               /\ employees' = Written(employees, req[c].stage)
               /\ Unique(employees', "employee_id")
               /\ Finish(c)
  BY DEF CommitDirectory, Reading, DirectoryInv

LEMMA DirectoryStepInv == Requests /\ DirectoryInv /\ DirectoryNext => DirectoryInv'
<1> SUFFICES ASSUME Requests, DirectoryInv, DirectoryNext PROVE DirectoryInv'
  OBVIOUS
<1>0. /\ DirectoryTyped /\ page.area = "directory" /\ page' = page
      /\ \A c \in Slots : Busy(c) => Edits(req[c])
  BY DirectoryKeeps DEF DirectoryInv, DirectoryNext, Kept
<1>1. ASSUME NEW c \in Slots, DirStays(c)
      PROVE  DirectoryInv'
  <2>1. DirectoryTyped'
    BY <1>0, <1>1 DEF DirStays, DirUnchanged, dirVars, DirectoryTyped
  <2>2. \A r : Edits(r) => Edits(r)'
    BY <1>1, EditsStay DEF DirStays, DirUnchanged
  <2>3. \A d \in Slots : Busy(d)' => Edits(req'[d])
    BY <1>0, <1>1 DEF DirStays, DirUnchanged, Busy
  <2> QED
    BY <2>1, <2>2, <2>3 DEF DirectoryInv
<1>2. ASSUME NEW c \in Slots, CommitDirectory(c), Finish(c),
             branches' = Written(branches, req[c].stage), employees' = Written(employees, req[c].stage)
      PROVE  DirectoryInv'
  <2>1. StagesRows(req[c])
    BY <1>0, <1>2, CommitIs DEF Edits
  <2>2. DirectoryTyped'
    BY <1>0, <1>2, <2>1, CommittedTyped
  <2>3. \A d \in Slots : Busy(d)' => Busy(d) /\ req'[d] = Overlapped(d)
    BY <1>2 DEF Finish, Overlapped, Busy
  <2>4. \A d \in Slots : Busy(d)' => Edits(req'[d]) /\ req'[d].alone = FALSE
    BY <1>0, <2>3, OverlappedEdits
  <2>5. \A r : Edits(r) /\ r.alone = FALSE => Edits(r)'
    BY EditsStay
  <2> QED
    BY <2>2, <2>4, <2>5 DEF DirectoryInv
<1>3. ASSUME NEW c \in Slots, Rollback(c), UNCHANGED dirVars
      PROVE  DirectoryInv'
  BY <1>1, <1>3 DEF Rollback, DirStays, DirUnchanged, Requests
<1> QED
  BY <1>0, <1>1, <1>2, <1>3, DirectorySteps, CommitIs

LEMMA DirectoryNextInv == Requests /\ DirectoryInv /\ [Next]_vars => DirectoryInv'
<1> SUFFICES ASSUME Requests, DirectoryInv, [Next]_vars PROVE DirectoryInv'
  OBVIOUS
<1>1. page' = page
  BY RequestsKept DEF Kept
<1>2. CASE DirectoryNext
  BY <1>2, DirectoryStepInv
<1>3. CASE UNCHANGED vars
  <2>1. UNCHANGED <<req, branches, employees>> /\ UNCHANGED dirVars
    BY <1>3 DEF vars, dirVars
  <2>2. \A r : Edits(r) => Edits(r)'
    BY <2>1, EditsStay
  <2> QED
    BY <1>1, <2>1, <2>2 DEF DirectoryInv, DirectoryTyped, Busy
<1>4. CASE UNCHANGED dirVars /\ page.area # "directory"
  BY <1>1, <1>4 DEF DirectoryInv, DirectoryTyped, dirVars
<1> QED
  BY <1>2, <1>3, <1>4 DEF Next, FormsNext, ThemesNext, KnowledgeBaseNext, SettingsNext, NotesNext,
     ReportsNext, MonthNext, ViewersNext

\* A step that changes the tables is the commit of the request that ends.
LEMMA DirectoryEnds ==
  ASSUME Requests, DirectoryInv, [Next]_vars, NEW c \in Slots, Ends(c), ~UNCHANGED dirVars
  PROVE  /\ DirectoryTyped /\ DirectoryTyped' /\ Edits(req[c]) /\ req[c].pc = "commit"
         /\ branches' = Written(branches, req[c].stage) /\ employees' = Written(employees, req[c].stage)
         /\ Unique(employees', "employee_id")
<1>1. DirectoryNext
  BY DEF Next, vars
<1>2. page.area = "directory" /\ page' = page /\ DirectoryTyped /\ DirectoryTyped'
  BY <1>1, DirectoryKeeps, DirectoryStepInv DEF DirectoryNext, DirectoryInv, Kept
<1>3. PICK d \in Slots : CommitDirectory(d)
  BY <1>1, DirectorySteps DEF DirStays, DirUnchanged
<1>4. Finish(d)
  BY <1>2, <1>3, CommitIs
<1>5. d = c
  <2>1. Busy(c) /\ req'[c] = Free
    BY DEF Ends
  <2>2. req'[c] # Overlapped(c)
    BY <1>2, <2>1, OverlappedKnown DEF Overlapped
  <2> QED
    BY <1>4, <2>2 DEF Finish
<1> QED
  BY <1>2, <1>3, <1>5, CommitIs

\* An import that was alone has taken all.
LEMMA AllTaken ==
  ASSUME Requests, DirectoryInv, [Next]_vars, NEW c \in Slots, Ends(c), ~UNCHANGED dirVars,
         req[c].op \in ImportOps, req[c].alone
  PROVE  /\ \A i \in DOMAIN req[c].book.employees :
              LET row == req[c].book.employees[i]
              IN  (req[c].branch # None \/ \E b \in Branches : branches'[b].code = row.code) =>
                      \E e \in Employees : employees'[e].employee_id = row.employee_id
                                           /\ ~employees'[e].deleted
         /\ req[c].op = "import_branches" =>
              \A i \in DOMAIN req[c].book.branches :
                  \E b \in Branches : branches'[b].code = req[c].book.branches[i]
<1> DEFINE r == req[c]
<1>1. /\ Edits(r) /\ r.pc = "commit"
      /\ branches' = Written(branches, r.stage) /\ employees' = Written(employees, r.stage)
  BY DirectoryEnds
<1>2. Covers(r)
  BY <1>1 DEF Edits, Imports
<1>3. /\ \A x : HasBranch(x, r.stage) <=> \E b \in Branches : branches'[b].code = x
      /\ \A x : HasEmployee(x, r.stage) <=>
            \E e \in Employees : employees'[e].employee_id = x /\ ~employees'[e].deleted
  BY <1>1 DEF HasBranch, HasEmployee, BranchOf
<1> HIDE DEF r
<1>4. \A i \in DOMAIN r.book.employees : TakesRow(r, r.book.employees[i])
  BY <1>1, <1>2 DEF Covers
<1>5. r.op = "import_branches" => \A i \in DOMAIN r.book.branches : HasBranch(r.book.branches[i], r.stage)
  BY <1>1, <1>2 DEF Covers
<1> QED
  BY <1>3, <1>4, <1>5 DEF TakesRow, r

\* An employee who came in with a workbook is found by his number.
LEMMA NewcomersFound ==
  ASSUME Requests, DirectoryInv, [Next]_vars, NEW c \in Slots, Ends(c), req[c].op \in ImportOps,
         NEW e \in Employees, employees[e] # employees'[e]
  PROVE  \E n \in Badges : employees'[e].employee_id = n /\ autofill_employee(n)' = {e}
<1> DEFINE r   == req[c]
           row == r.stage[e]
<1>1. ~UNCHANGED dirVars
  BY DEF dirVars
<1>2. /\ DirectoryTyped /\ DirectoryTyped' /\ Edits(r)
      /\ employees' = Written(employees, r.stage) /\ Unique(employees', "employee_id")
  BY <1>1, DirectoryEnds
<1>3. employees'[e] = IF e \in DOMAIN r.stage THEN Over(row, employees[e]) ELSE employees[e]
  BY <1>2, WrittenEmployee
<1>4. e \in DOMAIN r.stage /\ IsNewcomer(row)
  BY <1>2, <1>3 DEF Edits, Imports
<1> HIDE DEF r, row
<1>0. PICK n \in Badges : row.employee_id = n
  BY <1>4 DEF IsNewcomer
<1>5. /\ employees'[e].employee_id = n
      /\ employees'[e].is_active = TRUE /\ employees'[e].deleted = FALSE
  BY <1>0, <1>3, <1>4 DEF Over, IsNewcomer, EmployeeColumns
<1>6. e \in autofill_employee(n)'
  BY <1>5 DEF autofill_employee, EmployeeOf
<1>7. ASSUME NEW d \in autofill_employee(n)'
      PROVE  d = e
  <2>1. d \in Employees /\ employees'[d].employee_id = n
    BY <1>7 DEF autofill_employee, EmployeeOf
  <2>2. ASSUME NEW x \in Employees, employees'[x].employee_id = n
        PROVE  x \in InUse(employees')
    <3>1. x \in DOMAIN employees' /\ DOMAIN employees'[x] = EmployeeColumns
      BY <1>2 DEF DirectoryTyped
    <3>2. employees'[x] # NoEmployee
      BY <1>5, <2>2, EmptyRows, DirectoryAssumption
    <3>3. employees'[x] # NoBranch
      BY <3>1, EmptyRows DEF BranchColumns, EmployeeColumns
    <3> QED
      BY <3>1, <3>2, <3>3 DEF InUse
  <2>3. d \in InUse(employees') /\ e \in InUse(employees')
    BY <1>5, <2>1, <2>2
  <2> QED
    BY <1>2, <1>5, <2>1, <2>3 DEF Unique
<1> QED
  BY <1>5, <1>6, <1>7

\* A workbook nobody overlapped comes in whole or not at all, and who came in is
\* found by his number (import_employees in app/api/manager.py,
\* import_branches_with_employees in app/api/supervisor.py).
THEOREM ImportsTakeAll == Spec => ImportTakesAll
<1> DEFINE TakesEmployees(c) ==
      \A i \in DOMAIN req[c].book.employees :
          LET row == req[c].book.employees[i]
          IN  (req[c].branch # None \/ \E b \in Branches : branches'[b].code = row.code) =>
                  \E e \in Employees : employees'[e].employee_id = row.employee_id
                                       /\ ~employees'[e].deleted
<1> DEFINE TakesBranches(c) ==
      \A i \in DOMAIN req[c].book.branches :
          \E b \in Branches : branches'[b].code = req[c].book.branches[i]
<1> DEFINE Takes ==
      \A c \in Slots :
        LET takesEmployees ==
                \A i \in DOMAIN req[c].book.employees :
                    LET row == req[c].book.employees[i]
                    IN  (req[c].branch # None \/ \E b \in Branches : branches'[b].code = row.code) =>
                            \E e \in Employees : employees'[e].employee_id = row.employee_id
                                                 /\ ~employees'[e].deleted
        IN  /\ EndsAlone(c, "import_employees") => UNCHANGED dirVars \/ takesEmployees
            /\ EndsAlone(c, "import_branches") =>
                 \/ UNCHANGED dirVars
                 \/ /\ \A i \in DOMAIN req[c].book.branches :
                         \E b \in Branches : branches'[b].code = req[c].book.branches[i]
                    /\ takesEmployees
            /\ Ends(c) /\ req[c].op \in {"import_employees", "import_branches"} =>
                 \A e \in Employees : employees[e] # employees'[e] =>
                    \E n \in Badges : employees'[e].employee_id = n /\ autofill_employee(n)' = {e}
<1>1. Requests /\ DirectoryInv /\ [Next]_vars => Takes
  <2> SUFFICES ASSUME Requests, DirectoryInv, [Next]_vars PROVE Takes
    OBVIOUS
  <2>1. ASSUME NEW c \in Slots, ~UNCHANGED dirVars,
               EndsAlone(c, "import_employees") \/ EndsAlone(c, "import_branches")
        PROVE  TakesEmployees(c) /\ (req[c].op = "import_branches" => TakesBranches(c))
    <3>1. Ends(c) /\ req[c].op \in ImportOps /\ req[c].alone
      BY <2>1 DEF EndsAlone, ImportOps
    <3> QED
      BY <2>1, <3>1, AllTaken
  <2>2. \A c \in Slots : EndsAlone(c, "import_branches") => req[c].op = "import_branches"
    BY DEF EndsAlone
  <2>3. ASSUME NEW c \in Slots, Ends(c), req[c].op \in {"import_employees", "import_branches"},
               NEW e \in Employees, employees[e] # employees'[e]
        PROVE  \E n \in Badges : employees'[e].employee_id = n /\ autofill_employee(n)' = {e}
    BY <2>3, NewcomersFound DEF ImportOps
  <2> QED
    BY <2>1, <2>2, <2>3
<1>2. Requests /\ DirectoryInv /\ [Next]_vars => DirectoryInv'
  BY DirectoryNextInv
<1>3. Requests /\ [Next]_vars => Requests'
  BY RequestsKept DEF Kept
<1> QED
  BY <1>1, <1>2, <1>3, RequestsInit, DirectoryInitInv, PTL DEF Spec, ImportTakesAll
=============================================================================
