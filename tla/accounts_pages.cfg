SPECIFICATION Spec
CONSTANTS
    root = root boss = boss
    p1 = p1 p2 = p2 d1 = d1 d2 = d2 mail = mail
    None = None
    Users = {root, boss}
    Departments = {d1}
    Passwords = {p1}
    Emails = {mail}
    Jtis = {1, 2}
    Requests = {c1}
    AccessTTL = 1
    RefreshTTL = 1
    IdleTTL = 1
    TogglePerms = {"kb.edit"}
    MaxEdited = 1
    ChosenRoles = {"admin", "employee"}
    Handlers <- PageHandlers
    InitialUsers <- TwoSeeds
CHECK_DEADLOCK FALSE
INVARIANTS
    SecondFactorUsable
    PagesMatchRoutes
PROPERTIES
    AdminsGuarded
    ToggleFlipsOne
