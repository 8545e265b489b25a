------------------------------- MODULE Directory -------------------------------
(***************************************************************************)
(* The branches and their employees, edited one by one or imported from a   *)
(* workbook.  Codes and employee numbers are unique in the database, those  *)
(* of deleted employees included.                                           *)
(***************************************************************************)
EXTENDS PageRequest

CONSTANTS
    Branches, Employees,   \* keys of the rows there may be
    Codes, Badges,         \* branch codes and employee numbers
    Workbooks              \* what is imported: [branches, employees], two sequences

ASSUME DirectoryAssumption ==
    /\ Branches \cap Employees = {} /\ None \notin Branches \cup Codes \cup Badges
    /\ \A book \in Workbooks : /\ book.branches \in Seq(Codes)
                              /\ book.employees \in Seq([code : Codes, employee_id : Badges])

VARIABLES branches, employees

dirVars == <<branches, employees>>

NoBranch == [code |-> None, is_active |-> TRUE]
NoEmployee == [employee_id |-> None, branch_id |-> None, is_active |-> TRUE, deleted |-> FALSE]

DirectoryInit ==
    /\ branches = [b \in Branches |-> NoBranch]
    /\ employees = [e \in Employees |-> NoEmployee]

InUse(table) == {k \in DOMAIN table : table[k] # NoBranch /\ table[k] # NoEmployee}
Unique(table, col) == \A j, k \in InUse(table) : table[j][col] = table[k][col] => j = k

BranchOf(table, code) == {b \in Branches : table[b].code = code}
EmployeeOf(badge) == {e \in Employees : employees[e].employee_id = badge /\ ~employees[e].deleted}

\* The portal looks an active employee up by his number.
autofill_employee(badge) == {e \in EmployeeOf(badge) : employees[e].is_active}

\* A key no row has, committed or staged.
Fresh(table) ==
    CHOOSE k \in DOMAIN table \ InUse(table) : \A c \in Slots : Busy(c) => k \notin DOMAIN req[c].stage
HasFresh(table) ==
    \E k \in DOMAIN table \ InUse(table) : \A c \in Slots : Busy(c) => k \notin DOMAIN req[c].stage

-----------------------------------------------------------------------------
(* One row at a time.                                                       *)

\* Rows that were switched off or deleted; page.rows bounds them.
Off == {b \in Branches : ~branches[b].is_active} \cup {e \in Employees : ~employees[e].is_active \/ employees[e].deleted}

Few == Cardinality(Off) < page.rows

BeginDir(c, op, stage) ==
    /\ Few
    /\ Begin(c, [op |-> op, pc |-> "commit", flushed |-> FALSE, stage |-> stage])
    /\ UNCHANGED dirVars

create_branch(c, code) ==
    /\ BranchOf(branches, code) = {} /\ HasFresh(branches)
    /\ BeginDir(c, "create_branch", Only(Fresh(branches), [NoBranch EXCEPT !.code = code]))

update_branch(c, b, code) ==
    b \in InUse(branches) /\ BeginDir(c, "update_branch", Only(b, NetChange(branches[b], [code |-> code])))

toggle_branch(c, b) ==
    b \in InUse(branches) /\ BeginDir(c, "toggle_branch", Only(b, [is_active |-> ~branches[b].is_active]))

NewEmployee(badge, b) == [NoEmployee EXCEPT !.employee_id = badge, !.branch_id = b]

create_employee(c, badge, b) ==
    /\ b \in InUse(branches) /\ EmployeeOf(badge) = {} /\ HasFresh(employees)
    /\ BeginDir(c, "create_employee", Only(Fresh(employees), NewEmployee(badge, b)))

Present(e) == e \in InUse(employees) /\ ~employees[e].deleted

update_employee(c, e, badge) ==
    Present(e) /\ BeginDir(c, "update_employee", Only(e, NetChange(employees[e], [employee_id |-> badge])))
toggle_employee(c, e) ==
    Present(e) /\ BeginDir(c, "toggle_employee", Only(e, [is_active |-> ~employees[e].is_active]))
delete_employee(c, e) == Present(e) /\ BeginDir(c, "delete_employee", Only(e, [deleted |-> TRUE]))

-----------------------------------------------------------------------------
(* Workbooks, a row at a time.                                              *)

import_employees(c, book, b) ==
    /\ Few /\ b \in InUse(branches)
    /\ Begin(c, [op |-> "import_employees", pc |-> "employees", book |-> book, branch |-> b,
                 rows |-> book.employees, flushed |-> FALSE, stage |-> Nothing])
    /\ UNCHANGED dirVars

import_branches_with_employees(c, book) ==
    /\ Few
    /\ Begin(c, [op |-> "import_branches", pc |-> "branches", book |-> book, branch |-> None,
                 rows |-> book.branches, flushed |-> FALSE, stage |-> Nothing])
    /\ UNCHANGED dirVars

SeenBefore(c) == branches

\* A session does not see the rows it has not flushed, two of one workbook included.
Seen(c) == IF req[c].flushed THEN Written(branches, req[c].stage) ELSE branches

Reading(c, pc) == Busy(c) /\ req[c].pc = pc
Skip(c) == Goto(c, [rows |-> Tail(req[c].rows)])
Add(c, key, row) == Goto(c, [rows |-> Tail(req[c].rows), stage |-> Over(Only(key, row), req[c].stage)])

ImportBranchRow(c) ==
    LET code == Head(req[c].rows)
    IN  /\ Reading(c, "branches") /\ req[c].rows # <<>>
        /\ IF BranchOf(branches, code) # {} THEN Skip(c)
           ELSE HasFresh(branches) /\ Add(c, Fresh(branches), [NoBranch EXCEPT !.code = code])
        /\ UNCHANGED dirVars

\* An employee of a branch that is not there, or with a number that is, is skipped.
ImportEmployeeRow(c) ==
    LET r == req[c]
        row == Head(r.rows)
        found == IF r.branch # None THEN {r.branch} ELSE BranchOf(Seen(c), row.code)
    IN  /\ Reading(c, "employees") /\ r.rows # <<>>
        /\ IF found = {} \/ EmployeeOf(row.employee_id) # {} THEN Skip(c)
           ELSE /\ HasFresh(employees)
                /\ \E b \in found : Add(c, Fresh(employees), NewEmployee(row.employee_id, b))
        /\ UNCHANGED dirVars

EndOfEmployees(c) ==
    /\ Reading(c, "employees") /\ req[c].rows = <<>>
    /\ Goto(c, [pc |-> "commit"])
    /\ UNCHANGED dirVars

-----------------------------------------------------------------------------
(* Flush and commit.                                                        *)

\* An INSERT waits for the transaction that inserted the same code.
Waits(c) ==
    \E d \in Slots \ {c} : Busy(d) /\ req[d].flushed
        /\ StagedColumns(req[d].stage, "code") \cap StagedColumns(req[c].stage, "code") # {}

FlushBranches(c) ==
    /\ Reading(c, "branches") /\ req[c].rows = <<>> /\ ~Waits(c)
    /\ IF Unique(Written(branches, req[c].stage), "code")
       THEN Goto(c, [pc |-> "employees", rows |-> req[c].book.employees, flushed |-> TRUE])
       ELSE Rollback(c)
    /\ UNCHANGED dirVars

CommitDirectory(c) ==
    LET newBranches == Written(branches, req[c].stage)
        newEmployees == Written(employees, req[c].stage)
    IN  /\ Reading(c, "commit") /\ ~Waits(c)
        /\ IF Unique(newBranches, "code") /\ Unique(newEmployees, "employee_id")
           THEN branches' = newBranches /\ employees' = newEmployees /\ Finish(c)
           ELSE Rollback(c) /\ UNCHANGED dirVars

DirectoryNext ==
    /\ page.area = "directory"
    /\ \E c \in Slots :
           \/ \E code \in Codes : create_branch(c, code) \/ \E b \in Branches : update_branch(c, b, code)
           \/ \E b \in Branches : toggle_branch(c, b)
           \/ \E badge \in Badges : \/ \E b \in Branches : create_employee(c, badge, b)
                                    \/ \E e \in Employees : update_employee(c, e, badge)
           \/ \E e \in Employees : toggle_employee(c, e) \/ delete_employee(c, e)
           \/ \E book \in Workbooks : \/ import_branches_with_employees(c, book)
                                      \/ \E b \in Branches : import_employees(c, book, b)
           \/ ImportBranchRow(c) \/ FlushBranches(c) \/ ImportEmployeeRow(c) \/ EndOfEmployees(c)
           \/ CommitDirectory(c)
=============================================================================
