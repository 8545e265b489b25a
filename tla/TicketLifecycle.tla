--------------------------- MODULE TicketLifecycle ---------------------------
(***************************************************************************)
(* What the desk promises of a ticket, with no sessions: which status may   *)
(* follow which, who may end up with it, when it is escalated, and what     *)
(* never changes again.  TicketDesk implements it when its sessions run one *)
(* after the other.                                                         *)
(***************************************************************************)
EXTENDS Naturals

CONSTANTS Tickets, Agents, None, ReopenLimit

VARIABLE desk   \* [Tickets -> the promised part of each row]

Upper == {"supervisor", "manager"}

\* An agent or the auto-resolve task works on the ticket.
Work(x, y) ==
    \E next \in CASE x.status = "new"  -> {"open"}
                  [] x.status = "open" -> {"pending_customer", "pending_3rd", "resolved"}
                  [] x.status \in {"pending_customer", "pending_3rd"} -> {"open", "resolved"}
                  [] x.status = "resolved" -> {"closed"}
                  [] OTHER -> {} :
        y = [x EXCEPT !.status = next]

\* A reopened ticket is counted; at the limit, or once the SLA is breached, it
\* is reopened into the hands of a supervisor or a manager.
Reopen(x, y) ==
    /\ x.status \in {"resolved", "closed"}
    /\ y \in {[x EXCEPT !.status = "open", !.reopens = @ + 1, !.queue = q] :
                  q \in {x.queue, "supervisor"}}
    /\ y.reopens >= ReopenLimit \/ y.breached => y.queue \in Upper
    /\ y.queue # x.queue => y.reopens >= ReopenLimit \/ y.breached

\* The ticket changes hands; a waiting ticket may go back to work with it, and
\* a new one may start.
HandOver(x, y) ==
    /\ \E o \in Agents \cup {None}, q \in Upper \cup {"main", "specialized", x.queue} :
           y \in {[x EXCEPT !.owner = o, !.queue = q, !.status = s] : s \in {x.status, "open"}}
    /\ y.status # x.status => x.status \in {"new", "pending_customer", "pending_3rd"}

Escalate(x, y) == \E q \in Upper : y = [x EXCEPT !.queue = q]

\* The clock ran out on a ticket somebody should be working on.
Breach(x, y) ==
    /\ ~x.breached /\ x.status \in {"new", "open", "pending_customer", "pending_3rd"}
    /\ y = [x EXCEPT !.breached = TRUE,
                     !.queue = IF @ \in {"main", "specialized"} THEN "supervisor" ELSE @]

\* The ticket was merged into another one.
Merged(x, y) == x.status \notin {"closed", "archived"} /\ y = [x EXCEPT !.status = "closed"]

Archive(x, y) == x.status = "closed" /\ y = [x EXCEPT !.status = "archived"]

Step(x, y) == \/ Work(x, y)    \/ Reopen(x, y) \/ HandOver(x, y) \/ Escalate(x, y)
              \/ Breach(x, y)  \/ Merged(x, y) \/ Archive(x, y)

\* Tickets start new, except the follow-ups an agent opens for himself.
Init == \A t \in Tickets :
    /\ desk[t].status \in {"new", "open"}
    /\ desk[t].status = "open" <=> desk[t].owner # None
    /\ desk[t].reopens = 0 /\ ~desk[t].breached

Next == \A t \in Tickets : desk'[t] = desk[t] \/ Step(desk[t], desk'[t])

Spec == Init /\ [][Next]_desk
=============================================================================
