---------------------------- MODULE MCTicketDesk ----------------------------
(***************************************************************************)
(* Small instances of TicketDesk.  The .cfg of a run chooses the slots, the  *)
(* handlers and the bounds; the staff and the handler sets are here.         *)
(***************************************************************************)
EXTENDS TicketDeskProps

CONSTANTS t1, t2,            \* tickets
          e1, e2, s1, m1, d1 \* employees, a supervisor, an administrator, a department

MCRoleOf ==
    [a \in Agents |-> CASE a \in {e1, e2} -> "employee"
                        [] a = s1         -> "supervisor"
                        [] a = m1         -> "admin"]
MCDeptsOf == [a \in Agents |-> IF a = e1 THEN {d1} ELSE {}]
MCOnline  == {e1, e2} \cap Agents

MainRow == [BlankRow EXCEPT !.sla_deadline = SlaBudget]
OneMainRow == {MainRow}

\* All but the follow-ups, which are born open with no last_opened_at, and the
\* employee requests, whose queue every other row can reach.
ClockedRows == PortalRows \cup {CallTicketRow}

\* Handlers that keep the work clock, the owner events and the pause rows: all
\* but merge and the supervisor page's bulk assign.
TrackedHandlers == AllHandlers \ {"merge", "bulk_assign"}
BulkHandlers    == {"merge", "bulk_reassign", "bulk_move", "bulk_assign", "auto_balance",
                    "reply", "customer_reply", "resolve", "close"}
ClockHandlers   == {"change_status", "customer_reply", "pause_sla", "resume_sla",
                    "check_sla_breaches", "auto_resolve", "auto_archive"}
OwnerHandlers   == {"claim", "transfer", "escalate", "return_ticket", "change_status"}
WaitHandlers    == {"change_status", "claim", "customer_reply", "pause_sla",
                    "check_sla_breaches", "auto_resolve"}
=============================================================================
