SPECIFICATION Spec
CONSTANTS
    None = None
    Slots = {1, 2}
    Mixes <- OnlyReports
    Forms = {form1, form2, form3, form4}
    Themes = {t1, t2}
    Articles = {a1, a2}
    Categories = {g1}
    RowLimit <- Limits
    MaxCount = 1
    Branches = {b1, b2}
    Employees = {e1, e2}
    x1 = x1 x2 = x2 n1 = n1 n2 = n2 v1 = v1 v2 = v2 s1 = s1 s2 = s2 s3 = s3
    Codes = {x1, x2}
    Badges = {n1, n2}
    Workbooks <- Books
    Departments = {d1, d2}
    Flags = {flag}
    Rules = {rule}
    Policies = {policy}
    DeptCodes = {x1, x2}
    Priorities = {n1, n2}
    ScheduledReports = {r1}
    Days = 3
    Sundays = {0}
    Firsts = {1}
    Hours = {0, 4, 7}
    MaxDue = 1
    Agents = {v1, v2}
    Tickets = {k1, k2}
    Streams = {s1, s2, s3}
    Viewers = {v1, v2}
    AgentOf <- Pages3
    ViewerTTL = 3
    Notes = {1, 2, 3}
CHECK_DEADLOCK FALSE
PROPERTIES
    DueIsQueued
