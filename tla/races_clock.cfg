SPECIFICATION Spec
CONSTANTS
    t1 = t1 t2 = t2
    e1 = e1 e2 = e2 s1 = s1 m1 = m1 d1 = d1
    None = None
    Tickets = {t1}
    Agents = {s1}
    Depts = {d1}
    RoleOf <- MCRoleOf
    DeptsOf <- MCDeptsOf
    SlaBudget = 1
    ReopenLimit = 1
    Sessions = {c1, c2}
    Workers = {w1}
    Online <- MCOnline
    Handlers <- ClockHandlers
    InitialRows <- OneMainRow
    PendingTimeout = 1
    ArchiveAge = 1
    RequestLife = 1
    MaxTime = 2
    MaxEvents = 4
CHECK_DEADLOCK FALSE
INVARIANTS
    PausedHasOpenRow
    BreachLogged
    StatusLogged
    ReopensLogged
