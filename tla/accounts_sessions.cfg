SPECIFICATION FairSpec
CONSTANTS
    root = root boss = boss
    p1 = p1 p2 = p2 d1 = d1 d2 = d2 mail = mail
    None = None
    Users = {root}
    Departments = {}
    Passwords = {p1}
    Emails = {}
    Jtis = {1, 2, 3}
    Requests = {1, 2}
    AccessTTL = 2
    RefreshTTL = 2
    IdleTTL = 1
    TogglePerms = {}
    MaxEdited = 9
    ChosenRoles = {"admin", "manager"}
    Handlers <- SessionHandlers
    InitialUsers <- OneSeed
CHECK_DEADLOCK FALSE
INVARIANTS
    TypeOK
PROPERTIES
    RevokedStaysRevoked
    RightsSettle
    LoginOutlastsIdle
