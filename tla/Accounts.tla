------------------------------- MODULE Accounts -------------------------------
(***************************************************************************)
(* Accounts, tokens and permissions.  A request presents a token to the     *)
(* middleware, which looks its keys up in Redis; its handler reads rows,    *)
(* decides, and commits what it computed.  Between two awaits of one        *)
(* request any number of steps of others may happen.                        *)
(*                                                                          *)
(* A key of Redis lives as long as the token it was set for, so a token     *)
(* carries the time it has left and Tick counts it down; an expired token   *)
(* is refused whatever Redis holds, and its identifier may be given out     *)
(* again in place of a new one.                                             *)
(***************************************************************************)
EXTENDS Permissions, Naturals, FiniteSets

CONSTANTS
    Users,         \* user names; some have no account yet
    Departments,
    Passwords,
    Emails,
    None,
    Jtis,          \* bound: tokens that live at one time
    Requests,      \* bound: concurrent requests
    AccessTTL,     \* ticks an access token lives (60 minutes)
    RefreshTTL,    \* ticks a refresh token lives (30 days)
    IdleTTL,       \* ticks of inactivity that end a session (10 minutes)
    ChosenRoles,   \* the roles that are given on the users page
    TogglePerms,   \* the keys whose cells are clicked on the permissions page
    MaxEdited,     \* bound: a request starts while at most this many values
                   \*   differ from the seed
    Handlers,      \* the operations that run
    InitialUsers   \* the accounts of the seed

VARIABLES
    users,         \* the committed rows of users and user_departments
    overrides,     \* the committed rows of role_permissions
    sessionRows,   \* the tokens whose user_sessions row is_valid
    tokens,        \* the signed tokens that have not expired
    jtiKeys,       \* the keys jti:... of Redis
    idleKeys,      \* ticks the keys idle:... have left
    req            \* what each request has read and staged

vars == <<users, overrides, sessionRows, tokens, jtiKeys, idleKeys, req>>

AllHandlers ==
    {"login", "refresh", "logout", "view", "assign_department", "assign_user_departments",
     "create_user", "create_agent", "import_agents", "delete_agent", "update_user",
     "change_user_role", "toggle_user_active", "reset_user_password", "force_logout",
     "toggle_permission", "reset_role_permissions", "twofa_setup", "twofa_verify",
     "twofa_disable", "change_password"}

ASSUME AccountsAssumption ==
    /\ Handlers \subseteq AllHandlers /\ TogglePerms \subseteq Keys /\ ChosenRoles \subseteq Roles
    /\ IsFiniteSet(Jtis) /\ None \notin Users \cup Jtis \cup Departments \cup Emails
    /\ AccessTTL \in Nat \ {0} /\ RefreshTTL \in Nat \ {0} /\ IdleTTL \in 1..AccessTTL

-----------------------------------------------------------------------------
(* Rows, tokens and requests.                                               *)

NoUser == [exists |-> FALSE, role |-> "employee", is_active |-> TRUE, is_online |-> FALSE,
           password |-> None, totp_secret |-> FALSE, totp_enabled |-> FALSE,
           email |-> None, department_id |-> None, departments |-> {}]

UserRow == [exists : BOOLEAN, role : Roles, is_active : BOOLEAN, is_online : BOOLEAN,
            password : Passwords \cup {None},
            totp_secret : BOOLEAN,             \* whether there is one
            totp_enabled : BOOLEAN, email : Emails \cup {None},
            department_id : Departments \cup {None},
            departments : SUBSET Departments]  \* user_departments

Columns == DOMAIN NoUser \ {"departments"}

Token == [kind : {"access", "refresh"}, user : Users, role : Roles \cup {None}, exp : Nat]
NoToken == [kind |-> "access", user |-> None, role |-> None, exp |-> 0]
Live(j) == tokens[j].exp > 0

Request == [op      : Handlers \cup {"none"},
            pc      : {"free", "idle", "handler", "user", "issue", "commit"},
            tok     : Jtis \cup {None},            \* the token presented
            by      : Users \cup {None},           \* its subject
            role    : Roles \cup {None},           \* its role
            targets : SUBSET Users,                \* the rows read
            cols    : SUBSET Columns,              \* the columns staged
            new     : UserRow,                     \* their values
            links   : [gone : SUBSET Departments, add : SUBSET Departments],
            rows    : SUBSET Jtis,                 \* user_sessions rows staged
            cell    : [role : Roles, key : Keys, was : Override, value : Override] \cup {None}]

NoLinks == [gone |-> {}, add |-> {}]
Free == [op |-> "none", pc |-> "free", tok |-> None, by |-> None, role |-> None,
         targets |-> {}, cols |-> {}, new |-> NoUser, links |-> NoLinks, rows |-> {},
         cell |-> None]

\* The accounts of the seed have no second factor without a secret, and where there
\* is no account there is no row.
ASSUME SeedsAreRows ==
    \A seed \in InitialUsers :
        /\ seed \in [Users -> UserRow]
        /\ \A u \in Users : /\ seed[u].totp_enabled => seed[u].totp_secret
                            /\ ~seed[u].exists => seed[u] = NoUser

ASSUME NoneIsNoCell ==
    None \notin [role : Roles, key : Keys, was : Override, value : Override]

TypeOK ==
    /\ users \in [Users -> UserRow] /\ overrides \in Overrides
    /\ sessionRows \subseteq Jtis /\ jtiKeys \subseteq Jtis
    /\ \A j \in Jtis : tokens[j] \in Token \cup {NoToken} /\ idleKeys[j] \in 0..IdleTTL
    /\ req \in [Requests -> Request]

Init ==
    /\ users \in InitialUsers
    /\ overrides = NoOverrides
    /\ sessionRows = {} /\ jtiKeys = {}
    /\ tokens = [j \in Jtis |-> NoToken]
    /\ idleKeys = [j \in Jtis |-> 0]
    /\ req = [c \in Requests |-> Free]

Step(c, r) == req' = [req EXCEPT ![c] = r]
Drop(c) == Step(c, Free)

-----------------------------------------------------------------------------
(* The middleware.                                                          *)

\* A second factor that is set up and enabled counts as one value.
Edited ==
    {p \in Users \X (DOMAIN NoUser \ {"is_online", "totp_enabled"}) :
        \A seed \in InitialUsers : users[p[1]][p[2]] # seed[p[1]][p[2]]}
    \cup {p \in Roles \X TogglePerms : overrides[p[1]][p[2]] # "none"}

\* The token decodes and its jti key exists; of which kind it is nobody asks, and a
\* refresh token, which has no idle key, is revoked in the next step.
Present(c, op, j) ==
    /\ req[c] = Free /\ op \in Handlers \ {"login", "refresh"}
    /\ Live(j) /\ j \in jtiKeys
    /\ Cardinality(Edited) <= MaxEdited
    /\ Step(c, [Free EXCEPT !.op = op, !.pc = "idle", !.tok = j,
                            !.by = tokens[j].user, !.role = tokens[j].role])
    /\ UNCHANGED <<users, overrides, sessionRows, tokens, jtiKeys, idleKeys>>

TouchLong(j) == idleKeys' = [idleKeys EXCEPT ![j] = IF @ > 0 THEN AccessTTL ELSE 0]

\* EXPIRE does nothing to a key that is not there.
TouchIdle(j) == idleKeys' = [idleKeys EXCEPT ![j] = IF @ > 0 THEN IdleTTL ELSE 0]

CheckIdleSlides(c) ==
    LET j == req[c].tok
    IN  /\ req[c].pc = "idle"
        /\ IF req[c].role = None
           THEN jtiKeys' = jtiKeys \ {j} /\ Drop(c) /\ UNCHANGED idleKeys
           ELSE /\ idleKeys' = [idleKeys EXCEPT ![j] = IdleTTL] /\ jtiKeys' = jtiKeys \cup {j}
                /\ IF req[c].op = "view" THEN Drop(c) ELSE Step(c, [req[c] EXCEPT !.pc = "handler"])
        /\ UNCHANGED <<users, overrides, sessionRows, tokens>>

\* A session that was idle is revoked, another one is let in.
CheckIdle(c) ==
    LET j == req[c].tok
    IN  /\ req[c].pc = "idle"
        /\ IF idleKeys[j] = 0
           THEN jtiKeys' = jtiKeys \ {j} /\ Drop(c) /\ UNCHANGED idleKeys
           ELSE /\ TouchIdle(j) /\ UNCHANGED jtiKeys
                /\ IF req[c].op = "view" THEN Drop(c) ELSE Step(c, [req[c] EXCEPT !.pc = "handler"])
        /\ UNCHANGED <<users, overrides, sessionRows, tokens>>

-----------------------------------------------------------------------------
(* Login, refresh and logout.                                               *)

\* An identifier for a new token, and one for another.
FreshJtis == {j \in Jtis : ~Live(j) /\ \A c \in Requests : req[c].tok # j /\ j \notin req[c].rows}
NewAccess == CHOOSE j \in FreshJtis : TRUE
NewRefresh == CHOOSE j \in FreshJtis \ {NewAccess} : TRUE

create_access_token(u, role) == [kind |-> "access", user |-> u, role |-> role, exp |-> AccessTTL]
create_refresh_token(u) == [kind |-> "refresh", user |-> u, role |-> None, exp |-> RefreshTTL]

IssueTokens(u, role) ==
    tokens' = [tokens EXCEPT ![NewAccess]  = create_access_token(u, role),
                             ![NewRefresh] = create_refresh_token(u)]

\* The columns an UPDATE names: those whose value changed since the row was read.
Changed(old, new) == {col \in Columns : old[col] # new[col]}
Staged(r, u, new) ==
    LET cols == Changed(users[u], new)
    IN  [r EXCEPT !.pc = "commit", !.targets = {u}, !.cols = cols,
                  !.new = [col \in DOMAIN new |-> IF col \in cols THEN new[col] ELSE NoUser[col]]]
StageUpdate(c, u, new) == Step(c, Staged(req[c], u, new))

\* An enabled second factor without a secret raises.
CanLogin(u, password) ==
    /\ users[u].exists /\ users[u].password = password /\ users[u].is_active
    /\ users[u].totp_enabled => users[u].totp_secret

Login(c, u, password) ==
    /\ req[c] = Free /\ "login" \in Handlers
    /\ CanLogin(u, password)
    /\ Step(c, [Staged(Free, u, [users[u] EXCEPT !.is_online = TRUE]) EXCEPT
                    !.op = "login", !.pc = "issue", !.by = u, !.role = users[u].role])
    /\ UNCHANGED <<users, overrides, sessionRows, tokens, jtiKeys, idleKeys>>

IssueLoginUnkeyed(c) ==
    /\ req[c].pc = "issue" /\ req[c].op = "login"
    /\ Cardinality(FreshJtis) >= 2
    /\ IssueTokens(req[c].by, req[c].role)
    /\ jtiKeys' = jtiKeys \cup {NewAccess, NewRefresh}
    /\ Step(c, [req[c] EXCEPT !.pc = "commit", !.rows = {NewAccess}])
    /\ UNCHANGED <<users, overrides, sessionRows, idleKeys>>

IssueLogin(c) ==
    /\ req[c].pc = "issue" /\ req[c].op = "login"
    /\ Cardinality(FreshJtis) >= 2
    /\ IssueTokens(req[c].by, req[c].role)
    /\ jtiKeys' = jtiKeys \cup {NewAccess, NewRefresh}
    /\ idleKeys' = [idleKeys EXCEPT ![NewAccess] = IdleTTL]
    /\ Step(c, [req[c] EXCEPT !.pc = "commit", !.rows = {NewAccess}])
    /\ UNCHANGED <<users, overrides, sessionRows>>

Refresh(c, j) ==
    /\ req[c] = Free /\ "refresh" \in Handlers
    /\ Live(j) /\ tokens[j].kind = "refresh" /\ j \in jtiKeys
    /\ Step(c, [Free EXCEPT !.op = "refresh", !.pc = "user", !.tok = j, !.by = tokens[j].user])
    /\ UNCHANGED <<users, overrides, sessionRows, tokens, jtiKeys, idleKeys>>

MayRefreshDeactivated(row) == row.exists

MayRefresh(row) == row.exists /\ row.is_active

ReadRefresher(c) ==
    LET row == users[req[c].by]
    IN  /\ req[c].pc = "user"
        /\ IF MayRefresh(row) THEN Step(c, [req[c] EXCEPT !.pc = "issue", !.role = row.role])
                              ELSE Drop(c)
        /\ UNCHANGED <<users, overrides, sessionRows, tokens, jtiKeys, idleKeys>>

IssueRefresh(c) ==
    /\ req[c].pc = "issue" /\ req[c].op = "refresh"
    /\ Cardinality(FreshJtis) >= 2
    /\ IssueTokens(req[c].by, req[c].role)
    /\ jtiKeys' = (jtiKeys \ {req[c].tok}) \cup {NewAccess, NewRefresh}
    /\ Drop(c)
    /\ UNCHANGED <<users, overrides, sessionRows, idleKeys>>

RowsOf(u) == {j \in sessionRows : tokens[j].user = u}

Logout(c) ==
    LET u == req[c].by
    IN  /\ req[c].pc = "handler" /\ req[c].op = "logout"
        /\ jtiKeys' = jtiKeys \ {req[c].tok}
        /\ idleKeys' = [idleKeys EXCEPT ![req[c].tok] = 0]
        /\ Step(c, [Staged(req[c], u, [users[u] EXCEPT !.is_online = FALSE]) EXCEPT !.rows = RowsOf(u)])
        /\ UNCHANGED <<users, overrides, sessionRows, tokens>>

-----------------------------------------------------------------------------
(* The manager's and the supervisor's pages.  A request whose input is      *)
(* malformed or names no row is refused.                                    *)

At(c, op) == req[c].pc = "handler" /\ req[c].op = op

Refuse(c) ==
    /\ req[c].pc = "handler" /\ req[c].op # "logout"
    /\ Drop(c)
    /\ UNCHANGED <<users, overrides, sessionRows, tokens, jtiKeys, idleKeys>>

MayEditAnybody(c, op, u, key) ==
    /\ At(c, op)
    /\ check_permission(overrides, req[c].role, key)
    /\ users[u].exists

\* A page of the manager: the permission, the row, and nobody but an
\* administrator touches an administrator.
MayEdit(c, op, u, key) ==
    /\ At(c, op)
    /\ check_permission(overrides, req[c].role, key)
    /\ users[u].exists
    /\ users[u].role = "admin" => req[c].role = "admin"

IsManager(c) == req[c].role \in {"manager", "admin"}

Edits(c) == UNCHANGED <<users, overrides, sessionRows, tokens, jtiKeys, idleKeys>>

AssignDepartment(c, u, d) ==
    /\ MayEdit(c, "assign_department", u, "manager.view") /\ IsManager(c)
    /\ StageUpdate(c, u, [users[u] EXCEPT !.department_id = d])
    /\ Edits(c)

\* The user_departments rows the DELETE sees go, the chosen ones come.
AssignUserDepartments(c, u, first, chosen) ==
    /\ MayEdit(c, "assign_user_departments", u, "manager.view") /\ IsManager(c)
    /\ IF chosen = {} THEN first = None ELSE first \in chosen
    /\ Step(c, [Staged(req[c], u, [users[u] EXCEPT !.department_id = first]) EXCEPT
                    !.links = [gone |-> users[u].departments, add |-> chosen]])
    /\ Edits(c)

UpdateUser(c, u, email) ==
    /\ MayEdit(c, "update_user", u, "manager.settings")
    /\ StageUpdate(c, u, [users[u] EXCEPT !.email = email])
    /\ Edits(c)

ChangeUserRole(c, u, role) ==
    /\ MayEdit(c, "change_user_role", u, "manager.settings")
    /\ role = "admin" => req[c].role = "admin"
    /\ StageUpdate(c, u, [users[u] EXCEPT !.role = role])
    /\ Edits(c)

ToggleUserActive(c, u) ==
    /\ MayEdit(c, "toggle_user_active", u, "manager.settings")
    /\ StageUpdate(c, u, [users[u] EXCEPT !.is_active = ~@])
    /\ Edits(c)

ResetUserPassword(c, u, password) ==
    /\ MayEdit(c, "reset_user_password", u, "manager.settings")
    /\ StageUpdate(c, u, [users[u] EXCEPT !.password = password])
    /\ Edits(c)

\* It reads user_sessions.revoked_at, which does not exist, and raises before
\* any key or row is changed.
ForceLogout(c, u) ==
    /\ MayEdit(c, "force_logout", u, "manager.view") /\ IsManager(c)
    /\ Drop(c)
    /\ Edits(c)

StageCreate(c, new, created) ==
    /\ Step(c, [req[c] EXCEPT !.pc = "commit", !.targets = created, !.new = new, !.cols = Columns])
    /\ Edits(c)

NewUser(role, password, email) ==
    [NoUser EXCEPT !.exists = TRUE, !.role = role, !.password = password, !.email = email]

CreateUser(c, u, role, password, email) ==
    /\ At(c, "create_user")
    /\ check_permission(overrides, req[c].role, "manager.settings")
    /\ role = "admin" => req[c].role = "admin"
    /\ ~users[u].exists
    /\ StageCreate(c, NewUser(role, password, email), {u})

\* db.begin() fails once check_permission has read role_permissions, that is for
\* everybody but an administrator.
CanBegin(c) == req[c].role = "admin"

CreateAgent(c, u, password, email) ==
    /\ At(c, "create_agent")
    /\ check_permission(overrides, req[c].role, "supervisor.team") /\ CanBegin(c)
    /\ StageCreate(c, NewUser("employee", password, email), {u})

\* The sheet names several users; their random passwords are told to nobody.
ImportAgents(c, sheet) ==
    /\ At(c, "import_agents")
    /\ check_permission(overrides, req[c].role, "supervisor.team") /\ CanBegin(c)
    /\ StageCreate(c, NewUser("employee", None, None), sheet)

\* The row is read before db.begin(), which fails for everybody.
DeleteAgent(c) ==
    /\ At(c, "delete_agent")
    /\ check_permission(overrides, req[c].role, "supervisor.team")
    /\ Drop(c)
    /\ Edits(c)

TogglePermission(c, role, key) ==
    /\ At(c, "toggle_permission")
    /\ check_permission(overrides, req[c].role, "manager.settings")
    /\ Step(c, [req[c] EXCEPT !.pc = "commit",
                    !.cell = [role |-> role, key |-> key, was |-> overrides[role][key],
                              value |-> ToggledRow(overrides[role][key], role, key)]])
    /\ Edits(c)

ResetRolePermissions(c, role) ==
    /\ At(c, "reset_role_permissions")
    /\ check_permission(overrides, req[c].role, "manager.settings")
    /\ overrides' = [overrides EXCEPT ![role] = [k \in Keys |-> "none"]]
    /\ Drop(c)
    /\ UNCHANGED <<users, sessionRows, tokens, jtiKeys, idleKeys>>

-----------------------------------------------------------------------------
(* The profile: everybody edits his own row.                                *)

TwofaSetup(c) ==
    LET u == req[c].by
    IN  /\ At(c, "twofa_setup")
        /\ check_permission(overrides, req[c].role, "dashboard.view")
        /\ ~users[u].totp_secret
        /\ StageUpdate(c, u, [users[u] EXCEPT !.totp_secret = TRUE])
        /\ Edits(c)

TwofaVerify(c) ==
    LET u == req[c].by
    IN  /\ At(c, "twofa_verify")
        /\ users[u].totp_secret
        /\ StageUpdate(c, u, [users[u] EXCEPT !.totp_enabled = TRUE])
        /\ Edits(c)

TwofaForget(c) ==
    LET u == req[c].by
    IN  /\ At(c, "twofa_disable")
        /\ StageUpdate(c, u, [users[u] EXCEPT !.totp_secret = FALSE])
        /\ Edits(c)

TwofaDisable(c) ==
    LET u == req[c].by
    IN  /\ At(c, "twofa_disable")
        /\ StageUpdate(c, u, [users[u] EXCEPT !.totp_enabled = FALSE, !.totp_secret = FALSE])
        /\ Edits(c)

ChangePassword(c, current, new) ==
    LET u == req[c].by
    IN  /\ At(c, "change_password")
        /\ users[u].password = current
        /\ StageUpdate(c, u, [users[u] EXCEPT !.password = new])
        /\ Edits(c)

-----------------------------------------------------------------------------
(* The commit.                                                              *)

\* What the database refuses: a username or an email taken, a link of
\* user_departments that another request inserted, a permission row that came
\* or went since it was read.
Conflict(c) ==
    LET r == req[c]
    IN  \/ "exists" \in r.cols /\ \E u \in r.targets : users[u].exists
        \/ "email" \in r.cols /\ r.new.email # None
           /\ \E u \in Users \ r.targets : users[u].email = r.new.email
        \/ \E u \in r.targets : r.links.add \cap (users[u].departments \ r.links.gone) # {}
        \/ r.cell # None /\ (r.cell.was = "none") # (overrides[r.cell.role][r.cell.key] = "none")

Installed(row, r) ==
    [col \in DOMAIN row |->
        CASE col = "departments" -> (row.departments \ r.links.gone) \cup r.links.add
          [] col \in r.cols     -> r.new[col]
          [] OTHER              -> row[col]]

Commit(c) ==
    LET r == req[c]
    IN  /\ r.pc = "commit" /\ ~Conflict(c)
        /\ users' = [u \in Users |-> IF u \in r.targets THEN Installed(users[u], r) ELSE users[u]]
        /\ overrides' = IF r.cell = None THEN overrides
                         ELSE [overrides EXCEPT ![r.cell.role][r.cell.key] = r.cell.value]
        /\ sessionRows' = IF r.op = "login" THEN sessionRows \cup {j \in r.rows : Live(j)}
                                            ELSE sessionRows \ r.rows
        /\ Drop(c)
        /\ UNCHANGED <<tokens, jtiKeys, idleKeys>>

\* The database refuses, or the connection is lost.
Rollback(c) ==
    /\ req[c].pc = "commit"
    /\ Drop(c)
    /\ UNCHANGED <<users, overrides, sessionRows, tokens, jtiKeys, idleKeys>>

-----------------------------------------------------------------------------

\* Time passes for every key of Redis and every token.
Tick ==
    LET alive == {j \in Jtis : tokens[j].exp > 1}
    IN  /\ \E j \in Jtis : Live(j)
        /\ tokens' = [j \in Jtis |-> IF j \in alive THEN [tokens[j] EXCEPT !.exp = @ - 1] ELSE NoToken]
        /\ jtiKeys' = jtiKeys \cap alive
        /\ sessionRows' = sessionRows \cap alive
        /\ idleKeys' = [j \in Jtis |-> IF j \in alive /\ idleKeys[j] > 0 THEN idleKeys[j] - 1 ELSE 0]
        /\ UNCHANGED <<users, overrides, req>>

\* The steps a request takes by itself once it has arrived.
Proceed(c) ==
    \/ CheckIdle(c) \/ ReadRefresher(c) \/ IssueLogin(c) \/ IssueRefresh(c)
    \/ Logout(c) \/ Refuse(c) \/ Commit(c) \/ Rollback(c)

Arrive(c) ==
    \/ \E u \in Users, p \in Passwords : Login(c, u, p)
    \/ \E j \in Jtis : Refresh(c, j) \/ \E op \in Handlers : Present(c, op, j)

ManagePeople(c) ==
    \/ \E u \in Users :
        \/ \E d \in Departments \cup {None} : AssignDepartment(c, u, d)
        \/ \E chosen \in SUBSET Departments, first \in Departments \cup {None} :
              AssignUserDepartments(c, u, first, chosen)
        \/ \E e \in Emails \cup {None} : UpdateUser(c, u, e)
        \/ \E r \in ChosenRoles : ChangeUserRole(c, u, r)
        \/ ToggleUserActive(c, u) \/ ForceLogout(c, u)
        \/ \E p \in Passwords : ResetUserPassword(c, u, p)
        \/ \E p \in Passwords, e \in Emails \cup {None} :
              CreateAgent(c, u, p, e) \/ \E r \in ChosenRoles : CreateUser(c, u, r, p, e)
    \/ \E sheet \in SUBSET Users : ImportAgents(c, sheet)
    \/ DeleteAgent(c)

ManageGrants(c) ==
    \E r \in Roles : ResetRolePermissions(c, r) \/ \E k \in TogglePerms : TogglePermission(c, r, k)

EditProfile(c) ==
    \/ TwofaSetup(c) \/ TwofaVerify(c) \/ TwofaDisable(c)
    \/ \E p, q \in Passwords : ChangePassword(c, p, q)

Next ==
    \/ Tick
    \/ \E c \in Requests :
        Proceed(c) \/ Arrive(c) \/ ManagePeople(c) \/ ManageGrants(c) \/ EditProfile(c)

Spec == Init /\ [][Next]_vars

\* Time passes, and a request that has arrived is answered.
FairSpec == Spec /\ WF_vars(Tick) /\ \A c \in Requests : WF_vars(Proceed(c))
=============================================================================
