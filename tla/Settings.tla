------------------------------- MODULE Settings --------------------------------
(***************************************************************************)
(* Departments, feature flags, notification rules and SLA policies, and the *)
(* audit entry each change leaves.                                          *)
(***************************************************************************)
EXTENDS PageRequest

CONSTANTS
    Departments, Flags, Rules, Policies,   \* keys of the rows there may be
    DeptCodes, Priorities

VARIABLES
    settings,   \* the rows of the four tables
    logged      \* of each row's columns, what the last audit entry about them says

setVars == <<settings, logged>>

\* A key is of one table only.
ASSUME TablesApart ==
    /\ Departments \cap Flags = {}
    /\ (Departments \cup Flags) \cap Rules = {}
    /\ (Departments \cup Flags \cup Rules) \cap Policies = {}

NoDepartment == [code |-> None, is_active |-> TRUE, portal_fields |-> 0]
FlagRow == [is_enabled |-> TRUE]
RuleRow == [is_active |-> TRUE, sound |-> TRUE]
PolicyRow == [priority |-> CHOOSE p \in Priorities : TRUE, clock_minutes |-> 1]

SettingsInit ==
    /\ settings = [k \in Departments \cup Flags \cup Rules \cup Policies |->
                    CASE k \in Departments -> NoDepartment
                      [] k \in Flags -> FlagRow
                      [] k \in Rules -> RuleRow
                      [] OTHER -> PolicyRow]
    /\ logged = [k \in DOMAIN settings |-> Nothing]

DepartmentRows == {d \in Departments : settings[d].code # None}
CodesUnique(table) == \A d, e \in Departments : table[d].code = table[e].code /\ table[d].code # None => d = e

\* A session that has already run a query refuses db.begin(): require_permission
\* runs one for every role but the administrator's.
db_begin(role) == role = "admin"

\* Columns that were changed or logged; a request begins while there are few.
Edited == {p \in (DOMAIN settings) \X {"code", "portal_fields", "is_active", "is_enabled", "sound", "priority"} :
              p[2] \in DOMAIN logged[p[1]] \/ (p[2] = "sound" /\ p[1] \in Rules /\ ~settings[p[1]].sound)}

\* entry: what the audit entry of the same transaction says of the row.
BeginSet(c, op, k, new, entry) ==
    /\ Cardinality(Edited) < page.rows
    /\ Begin(c, [op |-> op, pc |-> "commit", row |-> k, entry |-> entry,
                 stage |-> Only(k, NetChange(settings[k], new))])
    /\ UNCHANGED setVars

create_department(c, code) ==
    LET free == {d \in Departments \ DepartmentRows : \A e \in Slots : Busy(e) => d # req[e].row}
        d == CHOOSE d \in free : TRUE
    IN  /\ free # {} /\ \A e \in DepartmentRows : settings[e].code # code
        /\ BeginSet(c, "create_department", d, [code |-> code], [code |-> code])

\* A body without a code leaves it; the entry gives the code that was read.
update_department(c, d, body) ==
    LET new == IF body = None THEN settings[d].code ELSE body
    IN  d \in DepartmentRows /\ BeginSet(c, "update_department", d, [code |-> new], [code |-> new])

Toggled(row, col) == Only(col, ~row[col])
EntryBefore(row, col) == Only(col, row[col])
ToggledEntry(row, col) == Only(col, ~row[col])

BeginToggle(c, op, k, col) ==
    BeginSet(c, op, k, Toggled(settings[k], col), ToggledEntry(settings[k], col))

toggle_department(c, d) == d \in DepartmentRows /\ BeginToggle(c, "toggle_department", d, "is_active")
save_department_fields(c, d, fields) ==
    d \in DepartmentRows
    /\ BeginSet(c, "save_department_fields", d, [portal_fields |-> fields], [portal_fields |-> fields])
toggle_flag(c, f) == f \in Flags /\ BeginToggle(c, "toggle_flag", f, "is_enabled")
toggle_notif_rule(c, r) == r \in Rules /\ BeginToggle(c, "toggle_notif_rule", r, "is_active")

\* The sound of a rule is changed without an entry.
toggle_notif_rule_sound(c, r) ==
    r \in Rules /\ BeginSet(c, "toggle_notif_rule_sound", r, Toggled(settings[r], "sound"), Nothing)

\* response_minutes and resolution_minutes are no columns: clock_minutes stays.
upsert_sla_policy(c, role, p, priority) ==
    /\ db_begin(role) /\ p \in Policies
    /\ BeginSet(c, "upsert_sla_policy", p, [priority |-> priority], [priority |-> priority])

CommitSettings(c) ==
    LET r == req[c]
        new == Written(settings, r.stage)
    IN  /\ Busy(c)
        /\ IF CodesUnique(new)
           THEN settings' = new /\ logged' = [logged EXCEPT ![r.row] = Over(r.entry, @)] /\ Finish(c)
           ELSE Rollback(c) /\ UNCHANGED setVars

SettingsNext ==
    /\ page.area = "settings"
    /\ \E c \in Slots :
           \/ \E code \in DeptCodes : create_department(c, code)
           \/ \E d \in Departments :
                \/ toggle_department(c, d)
                \/ \E body \in DeptCodes \cup {None} : update_department(c, d, body)
                \/ \E fields \in {0, 1} : save_department_fields(c, d, fields)
           \/ \E f \in Flags : toggle_flag(c, f)
           \/ \E r \in Rules : toggle_notif_rule(c, r) \/ toggle_notif_rule_sound(c, r)
           \/ \E role \in {"manager", "admin"}, p \in Policies, pr \in Priorities :
                upsert_sla_policy(c, role, p, pr)
           \/ CommitSettings(c)
=============================================================================
