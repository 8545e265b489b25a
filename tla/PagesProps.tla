------------------------------ MODULE PagesProps -------------------------------
(***************************************************************************)
(* What the management pages promise.  Where two requests that overlap may  *)
(* break a promise (the README says which do), it is stated of a commit no  *)
(* other commit came into: req[c].alone.                                    *)
(***************************************************************************)
EXTENDS Pages

EndsAlone(c, op) == Ends(c) /\ req[c].op = op /\ req[c].alone

\* A form that was published or brought back by a request nobody overlapped is
\* the one the portal loads (and the builder, if it has the new format), whatever
\* earlier races left active: save_form_version and activate_form_version put out
\* every other.  It is not promised of a version that is active when it is brought
\* back: its column is not written again after all were put out, and the portal is
\* left without a form; what is promised then is only that no other is served.  A
\* theme that was put on alone is the only one that is on, and one that was put off
\* is off.
ChosenIsServed ==
    [][\A c \in Slots :
        /\ EndsAlone(c, "save_form_version") =>
             \E f \in Forms : /\ forms[f].version = 0 /\ ActiveForms(forms') = {f}
                              /\ get_active_form_schema' = IF req[c].new_structure THEN {f} ELSE {None}
        /\ EndsAlone(c, "activate_form_version") =>
             /\ ActiveForms(forms') \subseteq {req[c].form}
             /\ ~req[c].was_active => ActiveForms(forms') = {req[c].form}
        /\ EndsAlone(c, "toggle_theme") =>
             IF themes[req[c].theme].is_active THEN req[c].theme \notin active_theme(themes')
                                               ELSE active_theme(themes') = {req[c].theme}]_vars

\* Every article a page or a search lists for a reader opens by the link it
\* carries, whatever is searched for and whichever rows a limit leaves; no draft
\* and no internal article comes out through the portal, with its attachment or
\* beside another (kb.py).  It is said of readers who may view the knowledge base
\* and, of the portal, of everybody: kb_search_html lists internal articles to a
\* visitor too, who cannot open them.  The counts of the table of categories are of
\* articles an editor can open.
AllOpen(lists, opened) == \A list \in lists : list \subseteq opened
ListedIsOpen ==
    /\ \A reader \in {"editor", "agent"}, asked \in Audiences, matches \in SUBSET ArticleRows :
        LET audience == audience_of(reader, asked)
            link == IF reader = "editor" THEN "/kb" ELSE kb_link(audience)
        IN  /\ AllOpen(kb_home(reader, asked, matches), Opens(reader, link))
            /\ AllOpen(kb_search_html(reader, asked, matches), Opens(reader, kb_link(audience)))
            /\ \A limit \in 0 .. Cardinality(ArticleRows) : AllOpen(kb_search(matches, limit), Opens(reader, "/kb"))
    /\ \A reader \in Readers :
        /\ \A a \in kb_article_detail(reader) : AllOpen(kb_related(a), Opens(reader, "/kb"))
        /\ kb_internal_attachment(reader) = Opens(reader, "/kb")
    /\ \A matches \in SUBSET ArticleRows :
        AllOpen(portal_kb_home(matches), portal_kb_detail) /\ AllOpen(portal_kb_search(matches), portal_kb_detail)
    /\ portal_kb_attachment = portal_kb_detail
    /\ \A a \in portal_kb_detail : AllOpen(portal_kb_related(a), portal_kb_detail)
    /\ \A g \in DOMAIN manager_kb_categories :
        manager_kb_categories[g] = Cardinality({a \in kb_article_detail("editor") : articles[a].category_id = g})

\* An article or a category that was deleted stays deleted, whatever edits, views
\* and votes read it before and are committed after; and a category deleted alone
\* keeps no live article (delete_kb_category unlinks them).
DeletedStaysGone ==
    [][/\ \A a \in Articles : articles[a].state = "deleted" => articles'[a].state = "deleted"
       /\ \A g \in Categories : categories[g].state = "deleted" => categories'[g].state = "deleted"
       /\ \A c \in Slots, g \in Categories :
            EndsAlone(c, "delete_kb_category") /\ categories[g] # categories'[g] =>
                \A a \in Articles : articles'[a].state = "live" => articles'[a].category_id # g]_vars

\* A workbook nobody overlapped comes in whole or not at all: unless nothing has
\* changed, every branch of its sheet is there, and so is every employee of a
\* branch that is, among them those of the branches the workbook brought; and the
\* portal finds each employee that came in by his number, him alone.
ImportTakesAll ==
    [][\A c \in Slots :
        LET takesEmployees ==
                \A i \in DOMAIN req[c].book.employees :
                    LET row == req[c].book.employees[i]
                    IN  (req[c].branch # None \/ \E b \in Branches : branches'[b].code = row.code) =>
                            \E e \in Employees : employees'[e].employee_id = row.employee_id
                                                 /\ ~employees'[e].deleted
        IN  /\ EndsAlone(c, "import_employees") => UNCHANGED dirVars \/ takesEmployees
            /\ EndsAlone(c, "import_branches") =>
                 \/ UNCHANGED dirVars
                 \/ /\ \A i \in DOMAIN req[c].book.branches :
                         \E b \in Branches : branches'[b].code = req[c].book.branches[i]
                    /\ takesEmployees
            /\ Ends(c) /\ req[c].op \in {"import_employees", "import_branches"} =>
                 \A e \in Employees : employees[e] # employees'[e] =>
                    \E n \in Badges : employees'[e].employee_id = n /\ autofill_employee(n)' = {e}]_vars

\* Whoever reads the last audit entry about a switch reads how the switch stands:
\* the entry is of the same transaction as the change, and toggles that overlap
\* say the same.  For what is typed in (a code, the fields, a priority) it holds
\* after a change nobody overlapped.
AuditTellsState ==
    /\ [](\A k \in DOMAIN settings : \A col \in DOMAIN logged[k] \cap {"is_active", "is_enabled"} :
            logged[k][col] = settings[k][col])
    /\ [][\A c \in Slots : page.area = "settings" /\ Ends(c) /\ req[c].alone =>
            \/ UNCHANGED setVars
            \/ \A col \in DOMAIN req[c].entry : logged'[req[c].row][col] = settings'[req[c].row][col]]_vars

\* A report goes out only if it is on, unless it was switched off or deleted while
\* a worker was building it: a task that waited in the queue reads the row again.
StoppedIsQuiet ==
    [][\A c \in Slots :
        Busy(c) /\ req[c].op = "generate" /\ req[c].pc = "mail" /\ req[c].alone /\ req'[c] # req[c] =>
            On(req[c].report)]_vars

\* "Beat runs this daily at 07:00; enqueues generate_scheduled_report for each
\* active report whose frequency is due" (worker/tasks/reports.py): whenever the
\* beat's task runs on the day it was sent, a daily report that is on is queued.
DueIsQueued ==
    [][due' < due => \A r \in ScheduledReports :
        On(r) /\ reports[r].frequency = "daily" => queued'[r] = queued[r] + 1]_vars

\* If nothing moved while they were counted, the employee of the month has the
\* best score of all, and there is one: no count of breaches takes an agent below
\* the -1 the search starts from, as they are breaches of resolved tickets.
WinnerIsBest ==
    [][\A c \in Slots : EndsAlone(c, "compute_employee_of_month") =>
        LET Of(a) == 10 * Cardinality(Resolved(a))
                        - 5 * Cardinality({k \in Resolved(a) : tickets[k].sla_breached})
        IN  req[c].best_agent \in Agents /\ \A a \in Agents : Of(a) <= Of(req[c].best_agent)]_vars

\* Whoever a page shows as viewing the ticket had a stream of it open less than
\* ViewerTTL rounds before the list was sent, and less than one round more until
\* the next is (35 and 15 seconds), whatever streams were closed or died with their
\* process: the list stays on the page while the generator sleeps
\* (sse_ticket_viewers).  It is of pages whose own stream is open.
ListedIsRecent ==
    \A s \in Streams : \A v \in streams[s].shown :
        away[v] < IF streams[s].pc = "asleep" THEN ViewerTTL ELSE ViewerTTL + 1

\* A notification is read only by its user, and only one that was there when he
\* asked: what is committed while "mark all read" runs stays unread; and it never
\* becomes unread again.
NewsStaysUnread ==
    [][\A n \in Notes :
        /\ notes[n].is_read => notes'[n].is_read
        /\ ~notes[n].is_read /\ notes'[n].is_read =>
             /\ Sent(n)
             /\ \E c \in Slots : Ends(c) /\ req[c].user = notes[n].user
                                /\ n \in DOMAIN req[c].stage
             /\ get_unread_count(notes[n].user)' < get_unread_count(notes[n].user)]_vars
=============================================================================
