---------------------------- MODULE Accounts_proofs ----------------------------
(***************************************************************************)
(* Proofs about Accounts, for any users, tokens, requests and lives of      *)
(* tokens, and any rows of role_permissions.                                *)
(***************************************************************************)
EXTENDS AccountsProps, FiniteSetTheorems, TLAPS

-----------------------------------------------------------------------------
(* Identifiers that are given out.                                          *)

\* Where there are two identifiers free, a login and a refresh take two.
LEMMA FreshPair ==
  ASSUME Cardinality(FreshJtis) >= 2
  PROVE  NewAccess \in FreshJtis /\ NewRefresh \in FreshJtis /\ NewAccess # NewRefresh
<1>1. IsFiniteSet(FreshJtis)
  BY AccountsAssumption, FS_Subset DEF FreshJtis
<1>2. FreshJtis # {}
  BY FS_EmptySet
<1>3. NewAccess \in FreshJtis
  BY <1>2 DEF NewAccess
<1>4. FreshJtis \ {NewAccess} # {}
  <2>1. SUFFICES ASSUME FreshJtis = {NewAccess} PROVE FALSE
    BY <1>3
  <2>2. Cardinality({NewAccess}) = 1
    BY FS_Singleton
  <2> QED
    BY <2>1, <2>2
<1>5. NewRefresh \in FreshJtis \ {NewAccess}
  BY <1>4 DEF NewRefresh
<1> QED
  BY <1>3, <1>5

\* What no handler of a page, no commit and no arrival touches.
TokenVars == <<tokens, jtiKeys, idleKeys>>

LEMMA PeopleLeaveTokens ==
  ASSUME NEW c \in Requests, ManagePeople(c)
  PROVE  UNCHANGED <<sessionRows, TokenVars>>
  BY DEF ManagePeople, AssignDepartment, AssignUserDepartments, UpdateUser, ChangeUserRole,
         ToggleUserActive, ForceLogout, ResetUserPassword, CreateAgent, CreateUser, ImportAgents,
         DeleteAgent, Edits, StageCreate, TokenVars

LEMMA GrantsLeaveTokens ==
  ASSUME NEW c \in Requests, ManageGrants(c)
  PROVE  UNCHANGED <<sessionRows, TokenVars>>
  BY DEF ManageGrants, ResetRolePermissions, TogglePermission, Edits, TokenVars

LEMMA ProfileLeavesTokens ==
  ASSUME NEW c \in Requests, EditProfile(c)
  PROVE  UNCHANGED <<sessionRows, TokenVars>>
  BY DEF EditProfile, TwofaSetup, TwofaVerify, TwofaDisable, ChangePassword, Edits, TokenVars

LEMMA ArrivalsLeaveTokens ==
  ASSUME NEW c \in Requests, Arrive(c)
  PROVE  UNCHANGED <<sessionRows, TokenVars>>
  BY DEF Arrive, Login, Refresh, Present, TokenVars

-----------------------------------------------------------------------------
(* Revocation.                                                              *)

\* Only new tokens get a key.
OnlyFreshGetKeys == jtiKeys' \subseteq jtiKeys \cup FreshJtis

LEMMA ProceedKeys ==
  ASSUME NEW c \in Requests, Proceed(c)
  PROVE  OnlyFreshGetKeys
<1>1. CASE CheckIdle(c) \/ ReadRefresher(c) \/ Logout(c) \/ Refuse(c) \/ Commit(c) \/ Rollback(c)
  BY <1>1 DEF CheckIdle, ReadRefresher, Logout, Refuse, Commit, Rollback, OnlyFreshGetKeys
<1>2. CASE IssueLogin(c) \/ IssueRefresh(c)
  BY <1>2, FreshPair DEF IssueLogin, IssueRefresh, OnlyFreshGetKeys
<1> QED
  BY <1>1, <1>2 DEF Proceed

LEMMA NextKeys == [Next]_vars => OnlyFreshGetKeys
<1> SUFFICES ASSUME [Next]_vars PROVE OnlyFreshGetKeys
  OBVIOUS
<1>1. CASE Tick
  BY <1>1 DEF Tick, OnlyFreshGetKeys
<1>2. CASE UNCHANGED vars
  BY <1>2 DEF vars, OnlyFreshGetKeys
<1>3. ASSUME NEW c \in Requests, Arrive(c) \/ ManagePeople(c) \/ ManageGrants(c) \/ EditProfile(c)
      PROVE  OnlyFreshGetKeys
  BY <1>3, ArrivalsLeaveTokens, PeopleLeaveTokens, GrantsLeaveTokens, ProfileLeavesTokens
  DEF TokenVars, OnlyFreshGetKeys
<1> QED
  BY <1>1, <1>2, <1>3, ProceedKeys DEF Next

\* A token whose key is gone is never accepted again, however many requests
\* present it, refresh it and log out at a time: the middleware, the refresh and
\* the logout only take keys away, and a new token has an identifier of its own.
THEOREM RevocationIsFinal == Spec => RevokedStaysRevoked
<1>1. [Next]_vars => (\A j \in Jtis : Live(j) /\ j \notin jtiKeys => j \notin jtiKeys')
  BY NextKeys DEF OnlyFreshGetKeys, FreshJtis
<1>2. [Next]_vars => [\A j \in Jtis : Live(j) /\ j \notin jtiKeys => j \notin jtiKeys']_vars
  BY <1>1
<1> QED
  BY <1>2, PTL DEF Spec, RevokedStaysRevoked

-----------------------------------------------------------------------------
(* The idle timeout.                                                        *)

\* Requests have the fields of a request; tokens and keys count their ticks.
Shaped ==
    /\ DOMAIN req = Requests
    /\ \A c \in Requests : DOMAIN req[c] = DOMAIN Free
    /\ \A c \in Requests : req[c].op = "login" => req[c].rows \subseteq Jtis
    /\ DOMAIN tokens = Jtis
    /\ \A j \in Jtis : DOMAIN tokens[j] = DOMAIN NoToken /\ tokens[j].exp \in Nat
    /\ idleKeys \in [Jtis -> Nat]

\* The tokens of logins: with their row, or on the way to it.
LoginRows == {j \in Jtis : \E c \in Requests : req[c].op = "login" /\ j \in req[c].rows}

\* What is left of the idle key and what has gone of the token make up at least
\* the idle timeout, as long as the token is not revoked.
IdleAccounts(j) ==
    Live(j) => /\ tokens[j].exp <= AccessTTL
               /\ j \in jtiKeys => tokens[j].exp + IdleTTL <= idleKeys[j] + AccessTTL

IdleInv ==
    /\ Shaped
    /\ \A j \in sessionRows : j \in Jtis /\ Live(j)
    /\ \A j \in sessionRows \cup LoginRows : IdleAccounts(j)

LEMMA IdleInit == Init => IdleInv
  BY DEF Init, IdleInv, Shaped, LoginRows, Free, NoToken

\* A step of c that leaves the tokens alone and stages no token of a login.
Harmless(c) ==
    /\ UNCHANGED TokenVars
    /\ req' = [req EXCEPT ![c] = req'[c]]
    /\ DOMAIN req'[c] = DOMAIN Free
    /\ req'[c].op = "login" => req'[c].rows = {}

LEMMA HarmlessInv ==
  ASSUME IdleInv, NEW c \in Requests, Harmless(c), UNCHANGED sessionRows
  PROVE  IdleInv'
<1>1. \A d \in Requests : d # c => req'[d] = req[d]
  BY DEF Harmless, IdleInv, Shaped
<1>2. Shaped'
  BY <1>1 DEF Harmless, IdleInv, Shaped, TokenVars
<1>3. LoginRows' \subseteq LoginRows
  BY <1>1 DEF Harmless, LoginRows
<1> QED
  BY <1>2, <1>3 DEF Harmless, IdleInv, IdleAccounts, Live, TokenVars

\* Staging columns keeps the fields, the operation and the rows of a request.
LEMMA StagedShape ==
  ASSUME NEW r, DOMAIN r = DOMAIN Free, NEW u, NEW new
  PROVE  /\ DOMAIN Staged(r, u, new) = DOMAIN Free
         /\ Staged(r, u, new).op = r.op /\ Staged(r, u, new).rows = r.rows
  BY DEF Staged, Free

\* A handler whose request goes on or ends, and is not a login.
LEMMA StepHarmless ==
  ASSUME IdleInv, NEW c \in Requests, NEW r, DOMAIN r = DOMAIN Free, r.op # "login",
         Step(c, r), UNCHANGED TokenVars
  PROVE  Harmless(c)
  BY DEF Step, Harmless, IdleInv, Shaped

LEMMA DropHarmless ==
  ASSUME IdleInv, NEW c \in Requests, Drop(c), UNCHANGED TokenVars
  PROVE  Harmless(c)
<1>1. Free.op # "login"
  BY DEF Free
<1> QED
  BY <1>1, StepHarmless DEF Drop

LEMMA StageUpdateHarmless ==
  ASSUME IdleInv, NEW c \in Requests, NEW u, NEW new, req[c].op # "login",
         StageUpdate(c, u, new), UNCHANGED TokenVars
  PROVE  Harmless(c)
<1>1. DOMAIN req[c] = DOMAIN Free
  BY DEF IdleInv, Shaped
<1> QED
  BY <1>1, StagedShape, StepHarmless DEF StageUpdate

LEMMA StageCreateHarmless ==
  ASSUME IdleInv, NEW c \in Requests, NEW new, NEW created, req[c].op # "login",
         StageCreate(c, new, created)
  PROVE  Harmless(c)
<1> DEFINE r == [req[c] EXCEPT !.pc = "commit", !.targets = created, !.new = new, !.cols = Columns]
<1>1. DOMAIN req[c] = DOMAIN Free
  BY DEF IdleInv, Shaped
<1>2. DOMAIN r = DOMAIN Free /\ r.op = req[c].op
  BY <1>1 DEF Free
<1>3. Step(c, r) /\ UNCHANGED TokenVars
  BY DEF StageCreate, Edits, TokenVars
<1> QED
  BY <1>2, <1>3, StepHarmless

LEMMA PeopleHarmless ==
  ASSUME IdleInv, NEW c \in Requests, ManagePeople(c)
  PROVE  Harmless(c)
<1>1. UNCHANGED TokenVars
  BY PeopleLeaveTokens
<1>2. ASSUME NEW u \in Users, NEW d \in Departments \cup {None}, AssignDepartment(c, u, d)
      PROVE  Harmless(c)
  BY <1>1, <1>2, StageUpdateHarmless DEF AssignDepartment, MayEdit, At
<1>3. ASSUME NEW u \in Users, NEW chosen \in SUBSET Departments, NEW first \in Departments \cup {None},
             AssignUserDepartments(c, u, first, chosen)
      PROVE  Harmless(c)
  <2> DEFINE r == Staged(req[c], u, [users[u] EXCEPT !.department_id = first])
             l == [r EXCEPT !.links = [gone |-> users[u].departments, add |-> chosen]]
  <2>1. DOMAIN r = DOMAIN Free /\ r.op = req[c].op
    BY StagedShape DEF IdleInv, Shaped
  <2>2. DOMAIN l = DOMAIN Free /\ l.op = req[c].op
    <3> HIDE DEF r
    <3> QED BY <2>1 DEF Free
  <2>3. Step(c, l) /\ req[c].op # "login"
    BY <1>3 DEF AssignUserDepartments, MayEdit, At
  <2> QED
    BY <1>1, <2>2, <2>3, StepHarmless
<1>4. ASSUME NEW u \in Users, NEW e \in Emails \cup {None}, UpdateUser(c, u, e)
      PROVE  Harmless(c)
  BY <1>1, <1>4, StageUpdateHarmless DEF UpdateUser, MayEdit, At
<1>5. ASSUME NEW u \in Users, NEW r \in ChosenRoles, ChangeUserRole(c, u, r)
      PROVE  Harmless(c)
  BY <1>1, <1>5, StageUpdateHarmless DEF ChangeUserRole, MayEdit, At
<1>6. ASSUME NEW u \in Users, ToggleUserActive(c, u)
      PROVE  Harmless(c)
  BY <1>1, <1>6, StageUpdateHarmless DEF ToggleUserActive, MayEdit, At
<1>7. ASSUME NEW u \in Users, ForceLogout(c, u) \/ DeleteAgent(c)
      PROVE  Harmless(c)
  BY <1>1, <1>7, DropHarmless DEF ForceLogout, DeleteAgent
<1>8. ASSUME NEW u \in Users, NEW p \in Passwords, ResetUserPassword(c, u, p)
      PROVE  Harmless(c)
  BY <1>1, <1>8, StageUpdateHarmless DEF ResetUserPassword, MayEdit, At
<1>9. ASSUME NEW u \in Users, NEW p \in Passwords, NEW e \in Emails \cup {None},
             CreateAgent(c, u, p, e) \/ \E r \in ChosenRoles : CreateUser(c, u, r, p, e)
      PROVE  Harmless(c)
  BY <1>9, StageCreateHarmless DEF CreateAgent, CreateUser, At
<1>10. ASSUME NEW sheet \in SUBSET Users, ImportAgents(c, sheet)
       PROVE  Harmless(c)
  BY <1>10, StageCreateHarmless DEF ImportAgents, At
<1>11. CASE DeleteAgent(c)
  BY <1>1, <1>11, DropHarmless DEF DeleteAgent
<1> QED
  BY <1>2, <1>3, <1>4, <1>5, <1>6, <1>7, <1>8, <1>9, <1>10, <1>11 DEF ManagePeople

LEMMA GrantsHarmless ==
  ASSUME IdleInv, NEW c \in Requests, ManageGrants(c)
  PROVE  Harmless(c)
<1>1. UNCHANGED TokenVars
  BY GrantsLeaveTokens
<1>2. ASSUME NEW r \in Roles, ResetRolePermissions(c, r)
      PROVE  Harmless(c)
  BY <1>1, <1>2, DropHarmless DEF ResetRolePermissions
<1>3. ASSUME NEW r \in Roles, NEW k \in TogglePerms, TogglePermission(c, r, k)
      PROVE  Harmless(c)
  <2> DEFINE t == [req[c] EXCEPT !.pc = "commit",
                       !.cell = [role |-> r, key |-> k, was |-> overrides[r][k],
                                 value |-> ToggledRow(overrides[r][k], r, k)]]
  <2>1. DOMAIN req[c] = DOMAIN Free
    BY DEF IdleInv, Shaped
  <2>2. DOMAIN t = DOMAIN Free /\ t.op = req[c].op
    BY <2>1 DEF Free
  <2>3. Step(c, t) /\ req[c].op # "login"
    BY <1>3 DEF TogglePermission, At
  <2> QED
    BY <1>1, <2>2, <2>3, StepHarmless
<1> QED
  BY <1>2, <1>3 DEF ManageGrants

LEMMA ProfileHarmless ==
  ASSUME IdleInv, NEW c \in Requests, EditProfile(c)
  PROVE  Harmless(c)
<1>1. UNCHANGED TokenVars
  BY ProfileLeavesTokens
<1>2. CASE TwofaSetup(c) \/ TwofaVerify(c) \/ TwofaDisable(c)
  BY <1>1, <1>2, StageUpdateHarmless DEF TwofaSetup, TwofaVerify, TwofaDisable, At
<1>3. ASSUME NEW p \in Passwords, NEW q \in Passwords, ChangePassword(c, p, q)
      PROVE  Harmless(c)
  BY <1>1, <1>3, StageUpdateHarmless DEF ChangePassword, At
<1> QED
  BY <1>2, <1>3 DEF EditProfile

\* A login that arrives has no token yet.
LEMMA ArriveHarmless ==
  ASSUME IdleInv, NEW c \in Requests, Arrive(c)
  PROVE  Harmless(c)
<1>1. UNCHANGED TokenVars
  BY ArrivalsLeaveTokens
<1>2. ASSUME NEW u \in Users, NEW p \in Passwords, Login(c, u, p)
      PROVE  Harmless(c)
  <2> DEFINE r == Staged(Free, u, [users[u] EXCEPT !.is_online = TRUE])
             l == [r EXCEPT !.op = "login", !.pc = "issue", !.by = u, !.role = users[u].role]
  <2>1. DOMAIN r = DOMAIN Free /\ r.rows = {}
    BY StagedShape DEF Free
  <2>2. DOMAIN l = DOMAIN Free /\ l.rows = {}
    <3> HIDE DEF r
    <3> QED BY <2>1 DEF Free
  <2>3. req' = [req EXCEPT ![c] = l]
    BY <1>2 DEF Login, Step
  <2> QED
    <3> HIDE DEF l
    <3> QED BY <1>1, <2>2, <2>3 DEF Harmless, IdleInv, Shaped
<1>3. ASSUME NEW j \in Jtis, Refresh(c, j)
      PROVE  Harmless(c)
  <2> DEFINE r == [Free EXCEPT !.op = "refresh", !.pc = "user", !.tok = j, !.by = tokens[j].user]
  <2>1. DOMAIN r = DOMAIN Free /\ r.op # "login"
    BY DEF Free
  <2>2. Step(c, r)
    BY <1>3 DEF Refresh
  <2> QED
    BY <1>1, <2>1, <2>2, StepHarmless
<1>4. ASSUME NEW j \in Jtis, NEW op \in Handlers, Present(c, op, j)
      PROVE  Harmless(c)
  <2> DEFINE r == [Free EXCEPT !.op = op, !.pc = "idle", !.tok = j,
                               !.by = tokens[j].user, !.role = tokens[j].role]
  <2>1. DOMAIN r = DOMAIN Free /\ r.op # "login"
    BY <1>4 DEF Free, Present
  <2>2. Step(c, r)
    BY <1>4 DEF Present
  <2> QED
    BY <1>1, <2>1, <2>2, StepHarmless
<1> QED
  BY <1>2, <1>3, <1>4 DEF Arrive

\* The middleware sets an idle key to its full time or leaves it away.
LEMMA CheckIdleInv ==
  ASSUME IdleInv, NEW c \in Requests, CheckIdle(c)
  PROVE  IdleInv'
<1> DEFINE j == req[c].tok
           h == [req[c] EXCEPT !.pc = "handler"]
<1>1. Step(c, h) \/ Drop(c)
  BY DEF CheckIdle
<1>2. DOMAIN h = DOMAIN Free /\ h.op = req[c].op /\ h.rows = req[c].rows
  BY DEF IdleInv, Shaped, Free
<1>3. /\ DOMAIN req' = Requests
      /\ \A d \in Requests \ {c} : req'[d] = req[d]
      /\ DOMAIN req'[c] = DOMAIN Free
      /\ req'[c].op = "login" => req[c].op = "login" /\ req'[c].rows = req[c].rows
  <2> HIDE DEF h
  <2>1. Free.op # "login"
    BY DEF Free
  <2> QED
    BY <1>1, <1>2, <2>1 DEF Step, Drop, IdleInv, Shaped
<1>4. LoginRows' \subseteq LoginRows
  BY <1>3 DEF LoginRows
<1>5. UNCHANGED <<tokens, sessionRows>> /\ jtiKeys' \subseteq jtiKeys
  BY DEF CheckIdle
<1>6. /\ idleKeys' \in [Jtis -> Nat]
      /\ \A k \in Jtis : idleKeys'[k] = idleKeys[k] \/ idleKeys'[k] = IdleTTL
  BY AccountsAssumption DEF CheckIdle, TouchIdle, IdleInv, Shaped
<1>7. Shaped'
  BY <1>3, <1>5, <1>6 DEF IdleInv, Shaped
<1>8. ASSUME NEW k \in Jtis, IdleAccounts(k)
      PROVE  IdleAccounts(k)'
  <2>1. tokens[k].exp \in Nat /\ idleKeys[k] \in Nat
    BY DEF IdleInv, Shaped
  <2> QED
    BY <1>5, <1>6, <1>8, <2>1, AccountsAssumption DEF IdleAccounts, Live
<1> QED
  BY <1>4, <1>5, <1>7, <1>8 DEF IdleInv, LoginRows, Live

\* The token a login is given starts with its full time, as its idle key does;
\* no token of another login has its identifier.
LEMMA IssueLoginInv ==
  ASSUME IdleInv, NEW c \in Requests, IssueLogin(c)
  PROVE  IdleInv'
<1> DEFINE h == [req[c] EXCEPT !.pc = "commit", !.rows = {NewAccess}]
<1>1. NewAccess \in FreshJtis /\ NewRefresh \in FreshJtis /\ NewAccess # NewRefresh
  BY FreshPair DEF IssueLogin
<1>2. NewAccess \in Jtis /\ NewRefresh \in Jtis
  BY <1>1 DEF FreshJtis
<1>3. \A k \in sessionRows \cup LoginRows : k \in Jtis /\ k # NewAccess /\ k # NewRefresh
  BY <1>1 DEF IdleInv, LoginRows, FreshJtis
<1>4. DOMAIN h = DOMAIN Free /\ h.op = "login" /\ h.rows = {NewAccess}
  BY DEF IssueLogin, IdleInv, Shaped, Free
<1>5. req' = [req EXCEPT ![c] = h]
  BY DEF IssueLogin, Step
<1>6. LoginRows' \subseteq LoginRows \cup {NewAccess}
  <2> HIDE DEF h
  <2> QED BY <1>4, <1>5 DEF LoginRows, IdleInv, Shaped
<1>7. /\ tokens' = [tokens EXCEPT ![NewAccess] = create_access_token(req[c].by, req[c].role),
                                  ![NewRefresh] = create_refresh_token(req[c].by)]
      /\ jtiKeys' = jtiKeys \cup {NewAccess, NewRefresh}
      /\ idleKeys' = [idleKeys EXCEPT ![NewAccess] = IdleTTL]
      /\ sessionRows' = sessionRows
  BY DEF IssueLogin, IssueTokens
<1>8. /\ DOMAIN tokens' = Jtis
      /\ \A k \in Jtis \ {NewAccess, NewRefresh} : tokens'[k] = tokens[k]
      /\ tokens'[NewAccess] = create_access_token(req[c].by, req[c].role)
      /\ tokens'[NewRefresh] = create_refresh_token(req[c].by)
  BY <1>1, <1>2, <1>7 DEF IdleInv, Shaped
<1>9. /\ idleKeys' \in [Jtis -> Nat] /\ idleKeys'[NewAccess] = IdleTTL
      /\ \A k \in Jtis \ {NewAccess} : idleKeys'[k] = idleKeys[k]
  BY <1>2, <1>7, AccountsAssumption DEF IdleInv, Shaped
<1>10. \A k \in Jtis : DOMAIN tokens'[k] = DOMAIN NoToken /\ tokens'[k].exp \in Nat
  BY <1>8, AccountsAssumption
  DEF IdleInv, Shaped, create_access_token, create_refresh_token, NoToken
<1>11. Shaped'
  <2> HIDE DEF h
  <2> QED BY <1>2, <1>4, <1>5, <1>8, <1>9, <1>10 DEF IdleInv, Shaped
<1>12. ASSUME NEW k \in {NewAccess} PROVE IdleAccounts(k)'
  BY <1>8, <1>9, AccountsAssumption DEF IdleAccounts, create_access_token
<1>13. \A k \in sessionRows \cup LoginRows : IdleAccounts(k)'
  BY <1>3, <1>7, <1>8, <1>9 DEF IdleInv, IdleAccounts, Live
<1>14. \A k \in sessionRows' : k \in Jtis /\ Live(k)'
  BY <1>3, <1>7, <1>8 DEF IdleInv, Live
<1> QED
  BY <1>6, <1>7, <1>11, <1>12, <1>13, <1>14 DEF IdleInv

\* The tokens of a refresh are of no login.
LEMMA IssueRefreshInv ==
  ASSUME IdleInv, NEW c \in Requests, IssueRefresh(c)
  PROVE  IdleInv'
<1>1. NewAccess \in FreshJtis /\ NewRefresh \in FreshJtis /\ NewAccess # NewRefresh
  BY FreshPair DEF IssueRefresh
<1>2. NewAccess \in Jtis /\ NewRefresh \in Jtis
  BY <1>1 DEF FreshJtis
<1>3. \A k \in sessionRows \cup LoginRows : k \in Jtis /\ k # NewAccess /\ k # NewRefresh
  BY <1>1 DEF IdleInv, LoginRows, FreshJtis
<1>4. /\ DOMAIN req' = Requests /\ req'[c] = Free
      /\ \A d \in Requests \ {c} : req'[d] = req[d]
  BY DEF IssueRefresh, Drop, Step, IdleInv, Shaped
<1>5. Free.op # "login"
  BY DEF Free
<1>6. LoginRows' \subseteq LoginRows
  BY <1>4, <1>5 DEF LoginRows
<1>7. /\ tokens' = [tokens EXCEPT ![NewAccess] = create_access_token(req[c].by, req[c].role),
                                  ![NewRefresh] = create_refresh_token(req[c].by)]
      /\ jtiKeys' = (jtiKeys \ {req[c].tok}) \cup {NewAccess, NewRefresh}
      /\ idleKeys' = idleKeys /\ sessionRows' = sessionRows
  BY DEF IssueRefresh, IssueTokens
<1>8. /\ DOMAIN tokens' = Jtis
      /\ \A k \in Jtis \ {NewAccess, NewRefresh} : tokens'[k] = tokens[k]
      /\ tokens'[NewAccess] = create_access_token(req[c].by, req[c].role)
      /\ tokens'[NewRefresh] = create_refresh_token(req[c].by)
  BY <1>1, <1>2, <1>7 DEF IdleInv, Shaped
<1>9. \A k \in Jtis : DOMAIN tokens'[k] = DOMAIN NoToken /\ tokens'[k].exp \in Nat
  BY <1>8, AccountsAssumption
  DEF IdleInv, Shaped, create_access_token, create_refresh_token, NoToken
<1>10. Shaped'
  BY <1>4, <1>5, <1>7, <1>8, <1>9 DEF IdleInv, Shaped
<1>11. \A k \in sessionRows \cup LoginRows : IdleAccounts(k)'
  BY <1>3, <1>7, <1>8 DEF IdleInv, IdleAccounts, Live
<1>12. \A k \in sessionRows' : k \in Jtis /\ Live(k)'
  BY <1>3, <1>7, <1>8 DEF IdleInv, Live
<1> QED
  BY <1>6, <1>7, <1>10, <1>11, <1>12 DEF IdleInv

LEMMA LogoutInv ==
  ASSUME IdleInv, NEW c \in Requests, Logout(c)
  PROVE  IdleInv'
<1> DEFINE u == req[c].by
           j == req[c].tok
           r == Staged(req[c], u, [users[u] EXCEPT !.is_online = FALSE])
           l == [r EXCEPT !.rows = RowsOf(u)]
<1>1. DOMAIN r = DOMAIN Free /\ r.op = "logout"
  BY StagedShape DEF Logout, IdleInv, Shaped
<1>2. DOMAIN l = DOMAIN Free /\ l.op = "logout"
  <2> HIDE DEF r
  <2> QED BY <1>1 DEF Free
<1>3. req' = [req EXCEPT ![c] = l]
  BY DEF Logout, Step
<1>4. LoginRows' \subseteq LoginRows
  <2> HIDE DEF l
  <2> QED BY <1>2, <1>3 DEF LoginRows, IdleInv, Shaped
<1>5. /\ jtiKeys' = jtiKeys \ {j} /\ idleKeys' = [idleKeys EXCEPT ![j] = 0]
      /\ UNCHANGED <<tokens, sessionRows>>
  BY DEF Logout
<1>6. Shaped'
  <2> HIDE DEF l
  <2> QED BY <1>2, <1>3, <1>5 DEF IdleInv, Shaped
<1>7. \A k \in Jtis : IdleAccounts(k) => IdleAccounts(k)'
  BY <1>5 DEF IdleInv, Shaped, IdleAccounts, Live
<1> QED
  BY <1>4, <1>5, <1>6, <1>7 DEF IdleInv, LoginRows, Live

\* A commit gives rows to the tokens of its login that still live.
LEMMA CommitAccountsInv ==
  ASSUME IdleInv, NEW c \in Requests, Commit(c)
  PROVE  IdleInv'
<1>1. /\ DOMAIN req' = Requests /\ req'[c] = Free
      /\ \A d \in Requests \ {c} : req'[d] = req[d]
  BY DEF Commit, Drop, Step, IdleInv, Shaped
<1>2. Free.op # "login"
  BY DEF Free
<1>3. LoginRows' \subseteq LoginRows
  BY <1>1, <1>2 DEF LoginRows
<1>4. UNCHANGED TokenVars
  BY DEF Commit, TokenVars
<1>5. \A j \in sessionRows' : j \in Jtis /\ Live(j) /\ j \in sessionRows \cup LoginRows
  BY DEF Commit, IdleInv, Shaped, LoginRows
<1>6. Shaped'
  BY <1>1, <1>2, <1>4 DEF TokenVars, IdleInv, Shaped
<1> QED
  BY <1>3, <1>4, <1>5, <1>6 DEF TokenVars, IdleInv, IdleAccounts, Live

LEMMA ProceedInv ==
  ASSUME IdleInv, NEW c \in Requests, Proceed(c)
  PROVE  IdleInv'
<1>1. CASE Refuse(c) \/ Rollback(c)
  BY <1>1, DropHarmless, HarmlessInv DEF Refuse, Rollback, TokenVars
<1>2. CASE ReadRefresher(c)
  <2> DEFINE row == users[req[c].by]
             h == [req[c] EXCEPT !.pc = "issue", !.role = row.role]
  <2>1. UNCHANGED <<sessionRows, TokenVars>>
    BY <1>2 DEF ReadRefresher, TokenVars
  <2>2. CASE Drop(c)
    BY <2>1, <2>2, DropHarmless, HarmlessInv DEF TokenVars
  <2>3. CASE Step(c, h)
    <3>1. DOMAIN h = DOMAIN Free /\ h.op = req[c].op /\ h.rows = req[c].rows
      BY DEF IdleInv, Shaped, Free
    <3>2. \A d \in Requests : /\ DOMAIN req'[d] = DOMAIN Free
                              /\ req'[d].op = req[d].op /\ req'[d].rows = req[d].rows
      <4> HIDE DEF h
      <4> QED BY <2>3, <3>1 DEF Step, IdleInv, Shaped
    <3>3. DOMAIN req' = Requests
      BY <2>3 DEF Step, IdleInv, Shaped
    <3> QED
      BY <2>1, <3>2, <3>3 DEF TokenVars, IdleInv, Shaped, LoginRows, IdleAccounts, Live
  <2> QED
    BY <1>2, <2>2, <2>3 DEF ReadRefresher
<1> QED
  BY <1>1, <1>2, CheckIdleInv, IssueLoginInv, IssueRefreshInv, LogoutInv, CommitAccountsInv
  DEF Proceed

\* A tick takes one from the token and at most one from its idle key.
LEMMA TickInv ==
  ASSUME IdleInv, Tick
  PROVE  IdleInv'
<1> DEFINE alive == {j \in Jtis : tokens[j].exp > 1}
<1>1. /\ DOMAIN tokens' = Jtis
      /\ \A j \in alive : tokens'[j] = [tokens[j] EXCEPT !.exp = tokens[j].exp - 1]
      /\ \A j \in Jtis \ alive : tokens'[j] = NoToken
  BY DEF Tick
<1>2. \A j \in Jtis : tokens[j].exp \in Nat /\ DOMAIN tokens[j] = DOMAIN NoToken
  BY DEF IdleInv, Shaped
<1>3. \A j \in alive : tokens'[j].exp = tokens[j].exp - 1 /\ DOMAIN tokens'[j] = DOMAIN NoToken
  BY <1>1, <1>2 DEF NoToken
<1>4. \A j \in Jtis \ alive : tokens'[j].exp = 0
  BY <1>1 DEF NoToken
<1>5. \A j \in Jtis : tokens'[j].exp \in Nat /\ DOMAIN tokens'[j] = DOMAIN NoToken
  BY <1>1, <1>2, <1>3, <1>4
<1>6. /\ idleKeys' \in [Jtis -> Nat]
      /\ \A j \in alive : idleKeys'[j] = IF idleKeys[j] > 0 THEN idleKeys[j] - 1 ELSE 0
  BY DEF Tick, IdleInv, Shaped
<1>7. Shaped'
  BY <1>1, <1>5, <1>6 DEF Tick, IdleInv, Shaped
<1>8. sessionRows' = sessionRows \cap alive /\ jtiKeys' = jtiKeys \cap alive /\ UNCHANGED req
  BY DEF Tick
<1>9. ASSUME NEW j \in Jtis, IdleAccounts(j)
      PROVE  IdleAccounts(j)'
  <2>1. SUFFICES ASSUME Live(j)'
        PROVE  /\ tokens'[j].exp <= AccessTTL
               /\ j \in jtiKeys' => tokens'[j].exp + IdleTTL <= idleKeys'[j] + AccessTTL
    BY DEF IdleAccounts
  <2>2. j \in alive /\ tokens'[j].exp = tokens[j].exp - 1 /\ Live(j)
    BY <2>1, <1>2, <1>3, <1>4 DEF Live
  <2>3. idleKeys[j] \in Nat /\ AccessTTL \in Nat /\ IdleTTL \in Nat /\ IdleTTL <= AccessTTL
    BY AccountsAssumption DEF IdleInv, Shaped
  <2> QED
    BY <2>2, <2>3, <1>2, <1>6, <1>8, <1>9 DEF IdleAccounts
<1>10. \A j \in sessionRows' : j \in Jtis /\ Live(j)'
  BY <1>2, <1>3, <1>8 DEF Live
<1>11. LoginRows' = LoginRows
  BY <1>8 DEF LoginRows
<1> QED
  BY <1>7, <1>8, <1>9, <1>10, <1>11 DEF IdleInv, LoginRows

LEMMA IdleNext == IdleInv /\ [Next]_vars => IdleInv'
<1> SUFFICES ASSUME IdleInv, [Next]_vars PROVE IdleInv'
  OBVIOUS
<1>1. CASE UNCHANGED vars
  BY <1>1 DEF vars, IdleInv, Shaped, LoginRows, IdleAccounts, Live
<1>2. ASSUME NEW c \in Requests, Arrive(c) \/ ManagePeople(c) \/ ManageGrants(c) \/ EditProfile(c)
      PROVE  IdleInv'
  <2>1. UNCHANGED sessionRows
    BY <1>2, ArrivalsLeaveTokens, PeopleLeaveTokens, GrantsLeaveTokens, ProfileLeavesTokens
  <2>2. Harmless(c)
    BY <1>2, ArriveHarmless, PeopleHarmless, GrantsHarmless, ProfileHarmless
  <2> QED
    BY <2>1, <2>2, HarmlessInv
<1> QED
  BY <1>1, <1>2, TickInv, ProceedInv DEF Next

\* A token of a login is revoked by the middleware only when at least the idle
\* timeout has gone since the login, for any lives of tokens and keys and any
\* requests in between: idle key and age of the token make up the timeout until
\* the token is revoked or runs out.
THEOREM LoginsOutlastIdle == Spec => LoginOutlastsIdle
<1>1. IdleInv /\ [Next]_vars =>
        [\A c \in Requests : CheckIdle(c) =>
            \A j \in (jtiKeys \ jtiKeys') \cap sessionRows : AccessTTL - tokens[j].exp >= IdleTTL]_vars
  <2> SUFFICES ASSUME IdleInv, NEW c \in Requests, CheckIdle(c),
                      NEW j \in (jtiKeys \ jtiKeys') \cap sessionRows
               PROVE  AccessTTL - tokens[j].exp >= IdleTTL
    OBVIOUS
  <2>1. j = req[c].tok /\ idleKeys[j] = 0
    BY DEF CheckIdle
  <2>2. j \in Jtis /\ tokens[j].exp + IdleTTL <= idleKeys[j] + AccessTTL /\ tokens[j].exp \in Nat
    BY DEF IdleInv, Shaped, IdleAccounts
  <2> QED
    BY <2>1, <2>2, AccountsAssumption
<1> QED
  BY <1>1, IdleInit, IdleNext, PTL DEF Spec, LoginOutlastsIdle

-----------------------------------------------------------------------------
(* Pages and routes.                                                        *)

\* Whatever rows role_permissions holds, what a page shows and what its route
\* checks are the same but for the manager's two keys, although one is computed
\* from the defaults and the rows of a role at once and the other looks one key
\* up (get_effective_permissions_for_role, check_permission).
THEOREM PagesAndRoutesAgree == Spec => []PagesMatchRoutes
<1>1. PagesMatchRoutes
  <2> SUFFICES ASSUME NEW r \in Roles, NEW k \in Keys,
                      ~(r = "manager" /\ k \in {"manager.view", "manager.settings"})
               PROVE  k \in effective_permissions(overrides, r, TRUE) <=> check_permission(overrides, r, k)
    BY DEF PagesMatchRoutes
  <2>1. k \notin HARDCODED_DENIED
    BY DEF HARDCODED_DENIED, Keys, DEFAULT_ROLE_PERMISSIONS
  <2> QED
    BY <2>1 DEF effective_permissions, get_effective_permissions_for_role, check_permission
<1> QED
  BY <1>1, PTL

-----------------------------------------------------------------------------
(* Requests served one after the other, and the types of all of them.       *)

\* No slot but one: every request ends before the next arrives.
OneAtATime == \A c, d \in Requests : c = d

\* What every committed row of users keeps.
RowOK(row) ==
  /\ row.totp_enabled => row.totp_secret
  /\ ~row.exists => row.role # "admin"

\* What the commit of r may do to the row of u.
EditOK(u, r) ==
  LET row == Installed(users[u], r)
  IN  /\ RowOK(row)
      /\ r.role # "admin" /\ u # r.by /\ row # users[u] => "admin" \notin {users[u].role, row.role}

\* A click brings the value of the cell it read, flipped.
CellOK(r) ==
  \E role \in Roles, key \in Keys :
      r.cell = [role |-> role, key |-> key, was |-> overrides[role][key],
                value |-> ToggledRow(overrides[role][key], role, key)]

\* A login has staged its update before it is issued its tokens.
Armed(r) == r.pc = "commit" \/ (r.pc = "issue" /\ r.op = "login")

\* A request that has arrived is somebody's, and what it staged on the rows as
\* they are is sound.
Known(r) ==
  /\ r \in Request
  /\ r.pc # "free" => r.by \in Users
  /\ r.pc = "user" => r.op = "refresh"
  /\ r.pc \notin {"issue", "commit"} => r.targets = {}

RowsOK == \A u \in Users : RowOK(users[u])

StagedOK(r) ==
  /\ Armed(r) => \A u \in r.targets : EditOK(u, r)
  /\ r.pc = "commit" /\ r.op = "toggle_permission" => CellOK(r)

\* The types of the variables, as one piece with the fields of requests and tokens.
Typed == TypeOK /\ IdleInv /\ \A c \in Requests : Known(req[c])

LEMMA FreeIsKnown == Known(Free) /\ StagedOK(Free) /\ NoUser \in UserRow
<1>1. NoUser \in UserRow
  BY DEF NoUser, UserRow, Roles
<1> QED
  BY <1>1 DEF Free, NoLinks, Known, StagedOK, Armed, Request

LEMMA Setting ==
  ASSUME Typed
  PROVE  /\ users \in [Users -> UserRow] /\ overrides \in Overrides
         /\ \A u \in Users : users[u] \in UserRow
         /\ \A c \in Requests : req[c] \in Request /\ Known(req[c])
         /\ req \in [Requests -> Request]
         /\ DOMAIN tokens = Jtis /\ \A j \in Jtis : tokens[j] \in Token \cup {NoToken}
         /\ DOMAIN idleKeys = Jtis /\ \A j \in Jtis : idleKeys[j] \in 0..IdleTTL
<1>1. DOMAIN tokens = Jtis /\ DOMAIN idleKeys = Jtis
  BY DEF Typed, IdleInv, Shaped
<1> QED
  BY <1>1 DEF Typed, TypeOK

\* A column has its new value once the update is installed, whether it is among
\* those the UPDATE names or not.
LEMMA StagedRow ==
  ASSUME Typed, NEW r \in Request, NEW u \in Users, NEW new \in UserRow
  PROVE  /\ Staged(r, u, new) \in Request
         /\ Staged(r, u, new).pc = "commit" /\ Staged(r, u, new).targets = {u}
         /\ Staged(r, u, new).op = r.op /\ Staged(r, u, new).by = r.by
         /\ Staged(r, u, new).role = r.role /\ Staged(r, u, new).cell = r.cell
         /\ \A col \in Columns : Installed(users[u], Staged(r, u, new))[col] = new[col]
         /\ Staged(r, u, new).links = r.links
<1> DEFINE cols == Changed(users[u], new)
           val == [col \in DOMAIN new |-> IF col \in cols THEN new[col] ELSE NoUser[col]]
<1>1. users[u] \in UserRow
  BY Setting
<1>2. cols \subseteq Columns /\ \A col \in Columns : col \in cols <=> users[u][col] # new[col]
  BY DEF Changed
<1>3. val \in UserRow
  BY FreeIsKnown DEF UserRow
<1>4. /\ DOMAIN new = DOMAIN NoUser /\ DOMAIN users[u] = DOMAIN NoUser
      /\ Columns \subseteq DOMAIN NoUser /\ "departments" \notin Columns
  BY <1>1 DEF UserRow, NoUser, Columns
<1>5. \A col \in Columns : col \in cols => val[col] = new[col]
  BY <1>4
<1> HIDE DEF cols, val
<1> DEFINE s == Staged(r, u, new)
<1>6. s = [r EXCEPT !.pc = "commit", !.targets = {u}, !.cols = cols, !.new = val]
  BY DEF Staged, cols, val
<1>7. /\ DOMAIN r = DOMAIN Free /\ DOMAIN s = DOMAIN Free
      /\ s.pc = "commit" /\ s.targets = {u} /\ s.cols = cols /\ s.new = val
      /\ s.op = r.op /\ s.by = r.by /\ s.role = r.role /\ s.cell = r.cell /\ s.links = r.links
      /\ s.tok = r.tok /\ s.rows = r.rows
  BY <1>6 DEF Request, Free
<1>9. s \in Request
  <2>1. s.targets \in SUBSET Users /\ s.cols \in SUBSET Columns /\ s.new \in UserRow
    BY <1>2, <1>3, <1>7
  <2>2. s = [op |-> r.op, pc |-> "commit", tok |-> r.tok, by |-> r.by, role |-> r.role,
             targets |-> {u}, cols |-> cols, new |-> val, links |-> r.links, rows |-> r.rows,
             cell |-> r.cell]
    BY <1>6 DEF Request
  <2> QED
    BY <1>7, <2>1, <2>2 DEF Request
<1> HIDE DEF s
<1>8. ASSUME NEW col \in Columns
      PROVE  Installed(users[u], s)[col] = new[col]
  <2>1. col # "departments" /\ col \in DOMAIN users[u]
    BY <1>4
  <2>2. Installed(users[u], s)[col] = IF col \in s.cols THEN s.new[col] ELSE users[u][col]
    BY <2>1 DEF Installed
  <2> QED
    BY <1>2, <1>5, <1>7, <2>2
<1> QED
  BY <1>7, <1>8, <1>9 DEF s

\* Only what the columns say matters to a row, not the links, tokens and cells a
\* request stages beside them.
LEMMA EditStaged ==
  ASSUME Typed, NEW r \in Request, NEW u \in Users, NEW new \in UserRow, NEW s,
         s.cols = Staged(r, u, new).cols, s.new = Staged(r, u, new).new,
         RowOK(new),
         s.role # "admin" /\ u # s.by => users[u].role # "admin" /\ new.role # "admin"
  PROVE  EditOK(u, s)
<1> DEFINE row == Installed(users[u], s)
<1>1. users[u] \in UserRow
  BY Setting
<1>2. DOMAIN users[u] = DOMAIN NoUser /\ Columns \subseteq DOMAIN NoUser /\ "departments" \notin Columns
  BY <1>1 DEF UserRow, NoUser, Columns
<1>3. {"totp_enabled", "totp_secret", "exists", "role"} \subseteq Columns
  BY DEF Columns, NoUser
<1>4. \A col \in Columns : row[col] = Installed(users[u], Staged(r, u, new))[col]
  BY <1>2 DEF Installed
<1>5. \A col \in Columns : row[col] = new[col]
  BY <1>4, StagedRow
<1>6. /\ row.totp_enabled = new.totp_enabled /\ row.totp_secret = new.totp_secret
      /\ row.exists = new.exists /\ row.role = new.role
  BY <1>3, <1>5
<1> HIDE DEF row
<1>7. RowOK(row)
  BY <1>6 DEF RowOK
<1>8. s.role # "admin" /\ u # s.by => "admin" \notin {users[u].role, row.role}
  BY <1>6
<1> QED
  BY <1>7, <1>8 DEF EditOK, row

\* The next state of a request, and all that changes.
Moves(c) ==
  \E r : Step(c, r) /\ Known(r) /\ (RowsOK /\ StagedOK(req[c]) => StagedOK(r))

LEMMA DropMoves ==
  ASSUME NEW c \in Requests, Drop(c)
  PROVE  Moves(c)
  BY FreeIsKnown DEF Drop, Moves

LEMMA UpdateMoves ==
  ASSUME Typed, NEW c \in Requests, NEW u \in Users, NEW new \in UserRow,
         StageUpdate(c, u, new), req[c].pc = "handler", req[c].op # "toggle_permission",
         RowsOK => RowOK(new),
         req[c].role # "admin" /\ u # req[c].by => users[u].role # "admin" /\ new.role # "admin"
  PROVE  Moves(c)
<1> DEFINE s == Staged(req[c], u, new)
<1>1. req[c] \in Request /\ req[c].by \in Users
  BY Setting DEF Known
<1>2. /\ s \in Request /\ s.pc = "commit" /\ s.targets = {u} /\ s.op = req[c].op
      /\ s.by = req[c].by /\ s.role = req[c].role
  BY <1>1, StagedRow
<1>3. RowsOK => EditOK(u, s)
  BY <1>1, <1>2, EditStaged
<1>4. Step(c, s)
  BY DEF StageUpdate
<1> HIDE DEF s
<1>5. Known(s) /\ (RowsOK => StagedOK(s))
  BY <1>1, <1>2, <1>3 DEF Known, StagedOK
<1> QED
  BY <1>4, <1>5 DEF Moves

LEMMA CreateStaged ==
  ASSUME NEW r \in Request, NEW new, NEW created, NEW cols, NEW s,
         s = [r EXCEPT !.pc = "commit", !.targets = created, !.new = new, !.cols = cols]
  PROVE  s = [op |-> r.op, pc |-> "commit", tok |-> r.tok, by |-> r.by, role |-> r.role,
              targets |-> created, cols |-> cols, new |-> new, links |-> r.links,
              rows |-> r.rows, cell |-> r.cell]
  BY DEF Request

LEMMA CreateMoves ==
  ASSUME Typed, NEW c \in Requests, NEW new \in UserRow, NEW created \in SUBSET Users,
         StageCreate(c, new, created), req[c].pc = "handler", req[c].op # "toggle_permission",
         RowOK(new),
         req[c].role # "admin" =>
            new.role # "admin" /\ (RowsOK => \A u \in created : users[u].role # "admin")
  PROVE  Moves(c)
<1> DEFINE r == req[c]
           s == [r EXCEPT !.pc = "commit", !.targets = created, !.new = new, !.cols = Columns]
<1>1. r \in Request /\ r.by \in Users
  BY Setting DEF Known
<1>2. s = [op |-> r.op, pc |-> "commit", tok |-> r.tok, by |-> r.by, role |-> r.role,
           targets |-> created, cols |-> Columns, new |-> new, links |-> r.links,
           rows |-> r.rows, cell |-> r.cell]
  BY <1>1, CreateStaged
<1>3. Step(c, s) /\ r.pc = "handler" /\ r.op # "toggle_permission"
  BY DEF StageCreate
<1> HIDE DEF s, r
<1>4. s \in Request
  BY <1>1, <1>2 DEF Request
<1>5. Known(s)
  BY <1>1, <1>2, <1>4 DEF Known
<1>6. ASSUME NEW u \in created, RowsOK
      PROVE  EditOK(u, s)
  <2> DEFINE row == Installed(users[u], s)
  <2>1. users[u] \in UserRow
    BY Setting
  <2>2. DOMAIN users[u] = DOMAIN NoUser /\ Columns \subseteq DOMAIN NoUser /\ "departments" \notin Columns
    BY <2>1 DEF UserRow, NoUser, Columns
  <2>3. {"totp_enabled", "totp_secret", "exists", "role"} \subseteq Columns
    BY DEF Columns, NoUser
  <2>4. \A col \in Columns : row[col] = new[col]
    BY <1>2, <2>2 DEF Installed
  <2>5. /\ row.totp_enabled = new.totp_enabled /\ row.totp_secret = new.totp_secret
        /\ row.exists = new.exists /\ row.role = new.role
    BY <2>3, <2>4
  <2> HIDE DEF row
  <2>6. RowOK(row)
    BY <2>5 DEF RowOK
  <2>7. s.role # "admin" => "admin" \notin {users[u].role, row.role}
    BY <1>2, <1>6, <2>5 DEF r
  <2> QED
    BY <2>6, <2>7 DEF EditOK, row
<1>7. RowsOK => StagedOK(s)
  BY <1>2, <1>3, <1>6 DEF StagedOK
<1> QED
  BY <1>3, <1>5, <1>7 DEF Moves

LEMMA NewUserRow ==
  ASSUME NEW role \in Roles, NEW password \in Passwords \cup {None}, NEW email \in Emails \cup {None}
  PROVE  /\ NewUser(role, password, email) \in UserRow
         /\ RowOK(NewUser(role, password, email))
         /\ NewUser(role, password, email).role = role
  BY DEF NewUser, NoUser, UserRow, RowOK, Roles

LEMMA PeopleMove ==
  ASSUME Typed, NEW c \in Requests, ManagePeople(c)
  PROVE  Moves(c)
<1> USE DEF At
<1>1. \A u \in Users : users[u] \in UserRow
  BY Setting
<1>2. ASSUME NEW u \in Users, NEW d \in Departments \cup {None}, AssignDepartment(c, u, d)
      PROVE  Moves(c)
  <2> DEFINE new == [users[u] EXCEPT !.department_id = d]
  <2>1. /\ new \in UserRow /\ new.role = users[u].role /\ new.exists = users[u].exists
        /\ new.totp_enabled = users[u].totp_enabled /\ new.totp_secret = users[u].totp_secret
    BY <1>1 DEF UserRow
  <2>2. /\ StageUpdate(c, u, new) /\ req[c].pc = "handler" /\ req[c].op = "assign_department"
        /\ users[u].role = "admin" => req[c].role = "admin"
    BY <1>2 DEF AssignDepartment, MayEdit
  <2> HIDE DEF new
  <2>3. RowsOK => RowOK(new)
    BY <2>1 DEF RowsOK, RowOK
  <2> QED
    BY <2>1, <2>2, <2>3, UpdateMoves
<1>3. ASSUME NEW u \in Users, NEW chosen \in SUBSET Departments, NEW first \in Departments \cup {None},
             AssignUserDepartments(c, u, first, chosen)
      PROVE  Moves(c)
  <2> DEFINE new == [users[u] EXCEPT !.department_id = first]
             r == Staged(req[c], u, new)
             links == [gone |-> users[u].departments, add |-> chosen]
             s == [r EXCEPT !.links = links]
  <2>1. /\ new \in UserRow /\ new.role = users[u].role /\ new.exists = users[u].exists
        /\ new.totp_enabled = users[u].totp_enabled /\ new.totp_secret = users[u].totp_secret
        /\ users[u].departments \in SUBSET Departments
    BY <1>1 DEF UserRow
  <2>2. /\ Step(c, s) /\ req[c].pc = "handler" /\ req[c].op = "assign_user_departments"
        /\ users[u].role = "admin" => req[c].role = "admin"
    BY <1>3 DEF AssignUserDepartments, MayEdit
  <2>3. req[c] \in Request /\ req[c].by \in Users
    BY <2>2, Setting DEF Known
  <2> HIDE DEF new
  <2>4. /\ r \in Request /\ r.pc = "commit" /\ r.targets = {u} /\ r.op = req[c].op
        /\ r.by = req[c].by /\ r.role = req[c].role
    BY <2>1, <2>3, StagedRow
  <2>5. RowsOK => RowOK(new)
    BY <2>1 DEF RowsOK, RowOK
  <2>6. links \in [gone : SUBSET Departments, add : SUBSET Departments]
    BY <2>1
  <2> HIDE DEF r, links
  <2>7. s = [op |-> r.op, pc |-> r.pc, tok |-> r.tok, by |-> r.by, role |-> r.role,
             targets |-> r.targets, cols |-> r.cols, new |-> r.new, links |-> links,
             rows |-> r.rows, cell |-> r.cell]
    BY <2>4 DEF Request
  <2> HIDE DEF s
  <2>8. s \in Request
    BY <2>4, <2>6, <2>7 DEF Request
  <2>9. /\ s.pc = "commit" /\ s.targets = {u} /\ s.op = req[c].op /\ s.by = req[c].by
        /\ s.role = req[c].role /\ s.cols = r.cols /\ s.new = r.new
    BY <2>4, <2>7
  <2>10. RowsOK => EditOK(u, s)
    BY <2>1, <2>2, <2>3, <2>5, <2>9, EditStaged DEF r
  <2>11. Known(s) /\ (RowsOK => StagedOK(s))
    BY <2>2, <2>3, <2>8, <2>9, <2>10 DEF Known, StagedOK
  <2> QED
    BY <2>2, <2>11 DEF Moves
<1>4. ASSUME NEW u \in Users, NEW e \in Emails \cup {None}, UpdateUser(c, u, e)
      PROVE  Moves(c)
  <2> DEFINE new == [users[u] EXCEPT !.email = e]
  <2>1. /\ new \in UserRow /\ new.role = users[u].role /\ new.exists = users[u].exists
        /\ new.totp_enabled = users[u].totp_enabled /\ new.totp_secret = users[u].totp_secret
    BY <1>1 DEF UserRow
  <2>2. /\ StageUpdate(c, u, new) /\ req[c].pc = "handler" /\ req[c].op = "update_user"
        /\ users[u].role = "admin" => req[c].role = "admin"
    BY <1>4 DEF UpdateUser, MayEdit
  <2> HIDE DEF new
  <2>3. RowsOK => RowOK(new)
    BY <2>1 DEF RowsOK, RowOK
  <2> QED
    BY <2>1, <2>2, <2>3, UpdateMoves
<1>5. ASSUME NEW u \in Users, NEW role \in ChosenRoles, ChangeUserRole(c, u, role)
      PROVE  Moves(c)
  <2> DEFINE new == [users[u] EXCEPT !.role = role]
  <2>1. role \in Roles
    BY AccountsAssumption
  <2>2. /\ new \in UserRow /\ new.role = role /\ new.exists = users[u].exists
        /\ new.totp_enabled = users[u].totp_enabled /\ new.totp_secret = users[u].totp_secret
    BY <1>1, <2>1 DEF UserRow
  <2>3. /\ StageUpdate(c, u, new) /\ req[c].pc = "handler" /\ req[c].op = "change_user_role"
        /\ users[u].role = "admin" => req[c].role = "admin"
        /\ role = "admin" => req[c].role = "admin"
        /\ users[u].exists
    BY <1>5 DEF ChangeUserRole, MayEdit
  <2> HIDE DEF new
  <2>4. RowsOK => RowOK(new)
    BY <2>2, <2>3 DEF RowsOK, RowOK
  <2> QED
    BY <2>2, <2>3, <2>4, UpdateMoves
<1>6. ASSUME NEW u \in Users, ToggleUserActive(c, u)
      PROVE  Moves(c)
  <2> DEFINE new == [users[u] EXCEPT !.is_active = ~@]
  <2>1. /\ new \in UserRow /\ new.role = users[u].role /\ new.exists = users[u].exists
        /\ new.totp_enabled = users[u].totp_enabled /\ new.totp_secret = users[u].totp_secret
    BY <1>1 DEF UserRow
  <2>2. /\ StageUpdate(c, u, new) /\ req[c].pc = "handler" /\ req[c].op = "toggle_user_active"
        /\ users[u].role = "admin" => req[c].role = "admin"
    BY <1>6 DEF ToggleUserActive, MayEdit
  <2> HIDE DEF new
  <2>3. RowsOK => RowOK(new)
    BY <2>1 DEF RowsOK, RowOK
  <2> QED
    BY <2>1, <2>2, <2>3, UpdateMoves
<1>7. ASSUME NEW u \in Users, ForceLogout(c, u) \/ DeleteAgent(c)
      PROVE  Moves(c)
  BY <1>7, DropMoves DEF ForceLogout, DeleteAgent
<1>8. ASSUME NEW u \in Users, NEW p \in Passwords, ResetUserPassword(c, u, p)
      PROVE  Moves(c)
  <2> DEFINE new == [users[u] EXCEPT !.password = p]
  <2>1. /\ new \in UserRow /\ new.role = users[u].role /\ new.exists = users[u].exists
        /\ new.totp_enabled = users[u].totp_enabled /\ new.totp_secret = users[u].totp_secret
    BY <1>1 DEF UserRow
  <2>2. /\ StageUpdate(c, u, new) /\ req[c].pc = "handler" /\ req[c].op = "reset_user_password"
        /\ users[u].role = "admin" => req[c].role = "admin"
    BY <1>8 DEF ResetUserPassword, MayEdit
  <2> HIDE DEF new
  <2>3. RowsOK => RowOK(new)
    BY <2>1 DEF RowsOK, RowOK
  <2> QED
    BY <2>1, <2>2, <2>3, UpdateMoves
<1>9. ASSUME NEW u \in Users, NEW p \in Passwords, NEW e \in Emails \cup {None},
             CreateAgent(c, u, p, e)
      PROVE  Moves(c)
  <2> DEFINE new == NewUser("employee", p, e)
  <2>1. new \in UserRow /\ RowOK(new) /\ new.role = "employee"
    BY NewUserRow DEF Roles
  <2>2. /\ StageCreate(c, new, {u}) /\ req[c].pc = "handler" /\ req[c].op = "create_agent"
        /\ req[c].role = "admin"
    BY <1>9 DEF CreateAgent, CanBegin
  <2> HIDE DEF new
  <2> QED
    BY <2>1, <2>2, CreateMoves
<1>10. ASSUME NEW u \in Users, NEW p \in Passwords, NEW e \in Emails \cup {None}, NEW r \in ChosenRoles,
              CreateUser(c, u, r, p, e)
       PROVE  Moves(c)
  <2> DEFINE new == NewUser(r, p, e)
  <2>1. new \in UserRow /\ RowOK(new) /\ new.role = r
    BY NewUserRow, AccountsAssumption
  <2>2. /\ StageCreate(c, new, {u}) /\ req[c].pc = "handler" /\ req[c].op = "create_user"
        /\ r = "admin" => req[c].role = "admin"
        /\ ~users[u].exists
    BY <1>10 DEF CreateUser
  <2>3. RowsOK => users[u].role # "admin"
    BY <2>2 DEF RowsOK, RowOK
  <2> HIDE DEF new
  <2> QED
    BY <2>1, <2>2, <2>3, CreateMoves
<1>11. ASSUME NEW sheet \in SUBSET Users, ImportAgents(c, sheet)
       PROVE  Moves(c)
  <2> DEFINE new == NewUser("employee", None, None)
  <2>1. new \in UserRow /\ RowOK(new) /\ new.role = "employee"
    BY NewUserRow DEF Roles
  <2>2. /\ StageCreate(c, new, sheet) /\ req[c].pc = "handler" /\ req[c].op = "import_agents"
        /\ req[c].role = "admin"
    BY <1>11 DEF ImportAgents, CanBegin
  <2> HIDE DEF new
  <2> QED
    BY <2>1, <2>2, CreateMoves
<1>12. CASE DeleteAgent(c)
  BY <1>12, DropMoves DEF DeleteAgent
<1> QED
  BY <1>2, <1>3, <1>4, <1>5, <1>6, <1>7, <1>8, <1>9, <1>10, <1>11, <1>12 DEF ManagePeople

LEMMA GrantsMove ==
  ASSUME Typed, NEW c \in Requests, NEW role \in Roles, NEW key \in TogglePerms,
         TogglePermission(c, role, key)
  PROVE  Moves(c)
<1> DEFINE r == req[c]
           was == overrides[role][key]
           cell == [role |-> role, key |-> key, was |-> was, value |-> ToggledRow(was, role, key)]
           s == [r EXCEPT !.pc = "commit", !.cell = cell]
<1>1. r \in Request /\ r.by \in Users /\ r.pc = "handler" /\ r.op = "toggle_permission" /\ Step(c, s)
  BY Setting DEF Known, TogglePermission, At
<1>2. key \in Keys /\ was \in Override
  BY AccountsAssumption, Setting DEF Overrides
<1>3. ToggledRow(was, role, key) \in Override
  BY <1>2 DEF ToggledRow, Override
<1>4. /\ cell \in [role : Roles, key : Keys, was : Override, value : Override]
      /\ \E o \in Roles, k \in Keys :
            cell = [role |-> o, key |-> k, was |-> overrides[o][k],
                    value |-> ToggledRow(overrides[o][k], o, k)]
  BY <1>2, <1>3
<1> HIDE DEF r, cell
<1>9. s = [r EXCEPT !.pc = "commit", !.cell = cell]
  OBVIOUS
<1> HIDE DEF s
<1>5. s = [op |-> r.op, pc |-> "commit", tok |-> r.tok, by |-> r.by, role |-> r.role,
           targets |-> r.targets, cols |-> r.cols, new |-> r.new, links |-> r.links,
           rows |-> r.rows, cell |-> cell]
  BY <1>1, <1>9 DEF Request
<1>6. s \in Request
  BY <1>1, <1>4, <1>5 DEF Request
<1>7. Known(s) /\ CellOK(s)
  BY <1>1, <1>4, <1>5, <1>6 DEF Known, CellOK
<1>8. s.targets = {}
  BY <1>1, <1>5, Setting DEF Known, r
<1> QED
  BY <1>1, <1>7, <1>8 DEF Moves, StagedOK, r

LEMMA ProfileMoves ==
  ASSUME Typed, NEW c \in Requests, EditProfile(c)
  PROVE  Moves(c)
<1> DEFINE u == req[c].by
<1> USE DEF At
<1>1. u \in Users /\ users[u] \in UserRow /\ req[c].pc = "handler"
  BY Setting DEF Known, EditProfile, TwofaSetup, TwofaVerify, TwofaDisable, ChangePassword
<1>2. CASE TwofaSetup(c)
  <2> DEFINE new == [users[u] EXCEPT !.totp_secret = TRUE]
  <2>1. /\ new \in UserRow /\ new.role = users[u].role /\ new.exists = users[u].exists
        /\ new.totp_secret
    BY <1>1 DEF UserRow
  <2>2. StageUpdate(c, u, new) /\ req[c].op = "twofa_setup"
    BY <1>2 DEF TwofaSetup
  <2> HIDE DEF new
  <2>3. RowsOK => RowOK(new)
    BY <1>1, <2>1 DEF RowsOK, RowOK
  <2> QED
    BY <1>1, <2>1, <2>2, <2>3, UpdateMoves
<1>3. CASE TwofaVerify(c)
  <2> DEFINE new == [users[u] EXCEPT !.totp_enabled = TRUE]
  <2>1. /\ new \in UserRow /\ new.role = users[u].role /\ new.exists = users[u].exists
        /\ new.totp_secret = users[u].totp_secret
    BY <1>1 DEF UserRow
  <2>2. StageUpdate(c, u, new) /\ req[c].op = "twofa_verify" /\ users[u].totp_secret
    BY <1>3 DEF TwofaVerify
  <2> HIDE DEF new
  <2>3. RowsOK => RowOK(new)
    BY <1>1, <2>1, <2>2 DEF RowsOK, RowOK
  <2> QED
    BY <1>1, <2>1, <2>2, <2>3, UpdateMoves
<1>4. CASE TwofaDisable(c)
  <2> DEFINE new == [users[u] EXCEPT !.totp_enabled = FALSE, !.totp_secret = FALSE]
  <2>1. /\ new \in UserRow /\ new.role = users[u].role /\ new.exists = users[u].exists
        /\ ~new.totp_enabled
    BY <1>1 DEF UserRow
  <2>2. StageUpdate(c, u, new) /\ req[c].op = "twofa_disable"
    BY <1>4 DEF TwofaDisable
  <2> HIDE DEF new
  <2>3. RowsOK => RowOK(new)
    BY <1>1, <2>1 DEF RowsOK, RowOK
  <2> QED
    BY <1>1, <2>1, <2>2, <2>3, UpdateMoves
<1>5. ASSUME NEW p \in Passwords, NEW q \in Passwords, ChangePassword(c, p, q)
      PROVE  Moves(c)
  <2> DEFINE new == [users[u] EXCEPT !.password = q]
  <2>1. /\ new \in UserRow /\ new.role = users[u].role /\ new.exists = users[u].exists
        /\ new.totp_enabled = users[u].totp_enabled /\ new.totp_secret = users[u].totp_secret
    BY <1>1 DEF UserRow
  <2>2. StageUpdate(c, u, new) /\ req[c].op = "change_password"
    BY <1>5 DEF ChangePassword
  <2> HIDE DEF new
  <2>3. RowsOK => RowOK(new)
    BY <1>1, <2>1 DEF RowsOK, RowOK
  <2> QED
    BY <1>1, <2>1, <2>2, <2>3, UpdateMoves
<1> QED
  BY <1>2, <1>3, <1>4, <1>5 DEF EditProfile

LEMMA NoLinksLink == NoLinks \in [gone : SUBSET Departments, add : SUBSET Departments]
  BY DEF NoLinks

LEMMA ArriveMoves ==
  ASSUME Typed, NEW c \in Requests, Arrive(c)
  PROVE  Moves(c)
<1>1. ASSUME NEW u \in Users, NEW p \in Passwords, Login(c, u, p)
      PROVE  Moves(c)
  <2> DEFINE new == [users[u] EXCEPT !.is_online = TRUE]
             r == Staged(Free, u, new)
             s == [r EXCEPT !.op = "login", !.pc = "issue", !.by = u, !.role = users[u].role]
  <2>1. users[u] \in UserRow /\ users[u].role \in Roles
    BY Setting DEF UserRow
  <2>2. /\ new \in UserRow /\ new.role = users[u].role /\ new.exists = users[u].exists
        /\ new.totp_enabled = users[u].totp_enabled /\ new.totp_secret = users[u].totp_secret
    BY <2>1 DEF UserRow
  <2>3. Step(c, s) /\ "login" \in Handlers
    BY <1>1 DEF Login
  <2> HIDE DEF new
  <2>4. Free \in Request /\ r \in Request /\ r.targets = {u}
    BY <2>2, FreeIsKnown, StagedRow DEF Known
  <2>5. RowsOK => RowOK(new)
    BY <2>2 DEF RowsOK, RowOK
  <2>6. s = [r EXCEPT !.op = "login", !.pc = "issue", !.by = u, !.role = users[u].role]
    OBVIOUS
  <2>7. r.cols = Staged(Free, u, new).cols /\ r.new = Staged(Free, u, new).new
    OBVIOUS
  <2> HIDE DEF s, r
  <2>8. s = [op |-> "login", pc |-> "issue", tok |-> r.tok, by |-> u, role |-> users[u].role,
             targets |-> r.targets, cols |-> r.cols, new |-> r.new, links |-> r.links,
             rows |-> r.rows, cell |-> r.cell]
    BY <2>4, <2>6 DEF Request
  <2>9. s \in Request
    BY <2>1, <2>3, <2>4, <2>8 DEF Request
  <2>10. RowsOK => EditOK(u, s)
    BY <2>2, <2>4, <2>5, <2>7, <2>8, EditStaged
  <2>11. Known(s) /\ (RowsOK => StagedOK(s))
    BY <2>4, <2>8, <2>9, <2>10 DEF Known, StagedOK
  <2> QED
    BY <2>3, <2>11 DEF Moves
<1>2. ASSUME NEW j \in Jtis, Live(j)
      PROVE  tokens[j] \in Token
  <2>1. tokens[j] \in Token \cup {NoToken} /\ NoToken.exp = 0
    BY Setting DEF NoToken
  <2> QED
    BY <1>2, <2>1 DEF Live
<1>3. ASSUME NEW j \in Jtis, Refresh(c, j)
      PROVE  Moves(c)
  <2> DEFINE s == [Free EXCEPT !.op = "refresh", !.pc = "user", !.tok = j, !.by = tokens[j].user]
  <2>1. Step(c, s) /\ "refresh" \in Handlers /\ tokens[j].user \in Users
    BY <1>2, <1>3 DEF Refresh, Token
  <2>5. s = [Free EXCEPT !.op = "refresh", !.pc = "user", !.tok = j, !.by = tokens[j].user]
    OBVIOUS
  <2> HIDE DEF s
  <2>2. s = [op |-> "refresh", pc |-> "user", tok |-> j, by |-> tokens[j].user, role |-> None,
             targets |-> {}, cols |-> {}, new |-> NoUser, links |-> NoLinks, rows |-> {},
             cell |-> None]
    BY <2>5 DEF Free
  <2>3. s \in Request
    <3>1. NoUser \in UserRow /\ {} \in SUBSET Users /\ {} \in SUBSET Columns /\ {} \in SUBSET Jtis
      BY FreeIsKnown
    <3> QED
      BY <2>1, <2>2, <3>1, NoLinksLink DEF Request
  <2>4. Known(s) /\ StagedOK(s)
    BY <2>1, <2>2, <2>3 DEF Known, StagedOK, Armed
  <2> QED
    BY <2>1, <2>4 DEF Moves
<1>4. ASSUME NEW j \in Jtis, NEW op \in Handlers, Present(c, op, j)
      PROVE  Moves(c)
  <2> DEFINE s == [Free EXCEPT !.op = op, !.pc = "idle", !.tok = j, !.by = tokens[j].user,
                               !.role = tokens[j].role]
  <2>1. Step(c, s) /\ tokens[j].user \in Users /\ tokens[j].role \in Roles \cup {None}
    BY <1>2, <1>4 DEF Present, Token
  <2>5. s = [Free EXCEPT !.op = op, !.pc = "idle", !.tok = j, !.by = tokens[j].user,
                               !.role = tokens[j].role]
    OBVIOUS
  <2> HIDE DEF s
  <2>2. s = [op |-> op, pc |-> "idle", tok |-> j, by |-> tokens[j].user, role |-> tokens[j].role,
             targets |-> {}, cols |-> {}, new |-> NoUser, links |-> NoLinks, rows |-> {},
             cell |-> None]
    BY <2>5 DEF Free
  <2>3. s \in Request
    <3>1. NoUser \in UserRow /\ {} \in SUBSET Users /\ {} \in SUBSET Columns /\ {} \in SUBSET Jtis
      BY FreeIsKnown
    <3> QED
      BY <2>1, <2>2, <3>1, NoLinksLink DEF Request
  <2>4. Known(s) /\ StagedOK(s)
    BY <2>1, <2>2, <2>3 DEF Known, StagedOK, Armed
  <2> QED
    BY <2>1, <2>4 DEF Moves
<1> QED
  BY <1>1, <1>3, <1>4 DEF Arrive

\* A login carries what it staged past the issuing of its tokens.
LEMMA IssueLoginMoves ==
  ASSUME Typed, NEW c \in Requests, IssueLogin(c)
  PROVE  Moves(c)
<1> DEFINE r == req[c]
           s == [r EXCEPT !.pc = "commit", !.rows = {NewAccess}]
<1>1. /\ r \in Request /\ r.by \in Users /\ r.pc = "issue" /\ r.op = "login" /\ Step(c, s)
      /\ NewAccess \in Jtis
  BY Setting, FreshPair DEF Known, IssueLogin, FreshJtis
<1>2. s = [r EXCEPT !.pc = "commit", !.rows = {NewAccess}]
  OBVIOUS
<1> HIDE DEF s, r
<1>3. s = [op |-> r.op, pc |-> "commit", tok |-> r.tok, by |-> r.by, role |-> r.role,
           targets |-> r.targets, cols |-> r.cols, new |-> r.new, links |-> r.links,
           rows |-> {NewAccess}, cell |-> r.cell]
  BY <1>1, <1>2 DEF Request
<1>4. s \in Request
  BY <1>1, <1>3 DEF Request
<1>5. Known(s)
  BY <1>1, <1>3, <1>4 DEF Known
<1>6. ASSUME NEW u \in r.targets, EditOK(u, r)
      PROVE  EditOK(u, s)
  <2>1. s.cols = r.cols /\ s.new = r.new /\ s.links = r.links /\ s.by = r.by /\ s.role = r.role
    BY <1>3
  <2> QED
    BY <1>6, <2>1 DEF EditOK, Installed
<1>7. StagedOK(r) => StagedOK(s)
  BY <1>1, <1>3, <1>6 DEF StagedOK, Armed
<1> QED
  BY <1>1, <1>5, <1>7 DEF Moves, r

LEMMA LogoutMoves ==
  ASSUME Typed, NEW c \in Requests, Logout(c)
  PROVE  Moves(c)
<1> DEFINE u == req[c].by
           new == [users[u] EXCEPT !.is_online = FALSE]
           r == Staged(req[c], u, new)
           s == [r EXCEPT !.rows = RowsOf(u)]
<1>1. /\ req[c] \in Request /\ u \in Users /\ users[u] \in UserRow /\ req[c].op = "logout"
      /\ Step(c, s)
  BY Setting DEF Known, Logout
<1>2. /\ new \in UserRow /\ new.role = users[u].role /\ new.exists = users[u].exists
      /\ new.totp_enabled = users[u].totp_enabled /\ new.totp_secret = users[u].totp_secret
  BY <1>1 DEF UserRow
<1>3. RowsOf(u) \subseteq Jtis
  BY DEF RowsOf, Typed, TypeOK
<1> HIDE DEF new
<1>4. /\ r \in Request /\ r.pc = "commit" /\ r.targets = {u} /\ r.op = "logout"
      /\ r.by = u /\ r.role = req[c].role
  BY <1>1, <1>2, StagedRow
<1>5. RowsOK => RowOK(new)
  BY <1>1, <1>2 DEF RowsOK, RowOK
<1>6. s = [r EXCEPT !.rows = RowsOf(u)] /\ r = Staged(req[c], u, new)
  OBVIOUS
<1> HIDE DEF s, r
<1>7. s = [op |-> r.op, pc |-> r.pc, tok |-> r.tok, by |-> r.by, role |-> r.role,
           targets |-> r.targets, cols |-> r.cols, new |-> r.new, links |-> r.links,
           rows |-> RowsOf(u), cell |-> r.cell]
  BY <1>4, <1>6 DEF Request
<1>8. s \in Request
  BY <1>3, <1>4, <1>7 DEF Request
<1>9. RowsOK => EditOK(u, s)
  BY <1>1, <1>2, <1>4, <1>5, <1>6, <1>7, EditStaged
<1>10. Known(s) /\ (RowsOK => StagedOK(s))
  BY <1>1, <1>4, <1>7, <1>8, <1>9 DEF Known, StagedOK
<1> QED
  BY <1>1, <1>10 DEF Moves

LEMMA ProceedMoves ==
  ASSUME Typed, NEW c \in Requests, Proceed(c)
  PROVE  Moves(c)
<1> DEFINE r == req[c]
<1>1. r \in Request /\ Known(r)
  BY Setting
<1>2. CASE CheckIdle(c)
  <2> DEFINE s == [r EXCEPT !.pc = "handler"]
  <2>1. r.pc = "idle" /\ (Drop(c) \/ Step(c, s))
    BY <1>2 DEF CheckIdle
  <2>2. s = [r EXCEPT !.pc = "handler"]
    OBVIOUS
  <2> HIDE DEF s, r
  <2>3. s = [op |-> r.op, pc |-> "handler", tok |-> r.tok, by |-> r.by, role |-> r.role,
             targets |-> r.targets, cols |-> r.cols, new |-> r.new, links |-> r.links,
             rows |-> r.rows, cell |-> r.cell]
    BY <1>1, <2>2 DEF Request
  <2>4. s \in Request
    BY <1>1, <2>3 DEF Request
  <2>5. Known(s) /\ StagedOK(s)
    BY <1>1, <2>1, <2>3, <2>4 DEF Known, StagedOK, Armed
  <2> QED
    BY <2>1, <2>5, DropMoves DEF Moves
<1>3. CASE ReadRefresher(c)
  <2> DEFINE role == users[r.by].role
             s == [r EXCEPT !.pc = "issue", !.role = role]
  <2>1. r.pc = "user" /\ (Drop(c) \/ Step(c, s))
    BY <1>3 DEF ReadRefresher
  <2>2. r.by \in Users /\ r.op = "refresh" /\ r.targets = {}
    BY <1>1, <2>1 DEF Known
  <2>3. role \in Roles
    BY <2>2, Setting DEF UserRow
  <2>4. s = [r EXCEPT !.pc = "issue", !.role = role]
    OBVIOUS
  <2> HIDE DEF s, r, role
  <2>5. s = [op |-> r.op, pc |-> "issue", tok |-> r.tok, by |-> r.by, role |-> role,
             targets |-> r.targets, cols |-> r.cols, new |-> r.new, links |-> r.links,
             rows |-> r.rows, cell |-> r.cell]
    BY <1>1, <2>4 DEF Request
  <2>6. s \in Request
    BY <1>1, <2>3, <2>5 DEF Request
  <2>7. Known(s) /\ StagedOK(s)
    BY <2>2, <2>5, <2>6 DEF Known, StagedOK, Armed
  <2> QED
    BY <2>1, <2>7, DropMoves DEF Moves
<1>4. CASE IssueRefresh(c) \/ Refuse(c) \/ Commit(c) \/ Rollback(c)
  BY <1>4, DropMoves DEF IssueRefresh, Refuse, Commit, Rollback
<1> QED
  BY <1>2, <1>3, <1>4, IssueLoginMoves, LogoutMoves DEF Proceed

\* Every step but that of the clock is of one request.
LEMMA StepMoves ==
  ASSUME Typed, NEW c \in Requests,
         Proceed(c) \/ Arrive(c) \/ ManagePeople(c) \/ ManageGrants(c) \/ EditProfile(c)
  PROVE  Moves(c)
<1>1. ASSUME NEW r \in Roles, ResetRolePermissions(c, r)
      PROVE  Moves(c)
  BY <1>1, DropMoves DEF ResetRolePermissions
<1>2. CASE ManageGrants(c)
  BY <1>1, <1>2, GrantsMove DEF ManageGrants
<1> QED
  BY <1>2, ProceedMoves, ArriveMoves, PeopleMove, ProfileMoves

LEMMA InstalledType ==
  ASSUME NEW row \in UserRow, NEW r \in Request
  PROVE  Installed(row, r) \in UserRow
<1> DEFINE value(col) == CASE col = "departments" -> (row.departments \ r.links.gone) \cup r.links.add
                           [] col \in r.cols     -> r.new[col]
                           [] OTHER              -> row[col]
<1>1. DOMAIN row = DOMAIN NoUser /\ "departments" \notin r.cols /\ r.new \in UserRow
  BY DEF UserRow, NoUser, Request, Columns
<1>2. value("departments") \in SUBSET Departments
  <2>1. row.departments \in SUBSET Departments /\ r.links.add \in SUBSET Departments
    BY DEF UserRow, Request
  <2>2. value("departments") = (row.departments \ r.links.gone) \cup r.links.add
    BY <1>1
  <2> QED
    BY <2>1, <2>2
<1>3. \A col : col # "departments" => value(col) = IF col \in r.cols THEN r.new[col] ELSE row[col]
  OBVIOUS
<1> HIDE DEF value
<1>4. Installed(row, r) = [col \in DOMAIN row |-> value(col)]
  BY DEF Installed, value
<1>5. Installed(row, r) = [col \in DOMAIN NoUser |-> value(col)]
  BY <1>1, <1>4
<1> QED
  BY <1>1, <1>2, <1>3, <1>5 DEF UserRow, NoUser

\* What a step of one request may write: the rows only at its commit, the
\* permissions at its commit or a reset, after either of which it is over.
LEMMA StepWrites ==
  ASSUME NEW c \in Requests,
         Proceed(c) \/ Arrive(c) \/ ManagePeople(c) \/ ManageGrants(c) \/ EditProfile(c)
  PROVE  \/ UNCHANGED <<users, overrides>>
         \/ Commit(c)
         \/ \E role \in Roles : ResetRolePermissions(c, role)
<1>1. Proceed(c) => Commit(c) \/ UNCHANGED <<users, overrides>>
  BY DEF Proceed, CheckIdle, ReadRefresher, IssueLogin, IssueRefresh, Logout, Refuse, Rollback
<1>2. Arrive(c) => UNCHANGED <<users, overrides>>
  BY DEF Arrive, Login, Refresh, Present
<1>3. ManagePeople(c) => UNCHANGED <<users, overrides>>
  BY DEF ManagePeople, AssignDepartment, AssignUserDepartments, UpdateUser, ChangeUserRole,
     ToggleUserActive, ForceLogout, ResetUserPassword, CreateAgent, CreateUser, ImportAgents,
     DeleteAgent, Edits, StageCreate
<1>4. EditProfile(c) => UNCHANGED <<users, overrides>>
  BY DEF EditProfile, TwofaSetup, TwofaVerify, TwofaDisable, ChangePassword, Edits
<1>5. ManageGrants(c) => \/ UNCHANGED <<users, overrides>>
                         \/ \E role \in Roles : ResetRolePermissions(c, role)
  BY DEF ManageGrants, TogglePermission, Edits
<1> QED
  BY <1>1, <1>2, <1>3, <1>4, <1>5

LEMMA CommitTypes ==
  ASSUME Typed, NEW c \in Requests, Commit(c)
  PROVE  users' \in [Users -> UserRow] /\ overrides' \in Overrides
<1> DEFINE r == req[c]
<1>1. r \in Request /\ overrides \in Overrides
  BY Setting
<1>2. \A u \in Users : Installed(users[u], r) \in UserRow /\ users[u] \in UserRow
  BY <1>1, Setting, InstalledType
<1>3. /\ users' = [u \in Users |-> IF u \in r.targets THEN Installed(users[u], r) ELSE users[u]]
      /\ overrides' = IF r.cell = None THEN overrides
                      ELSE [overrides EXCEPT ![r.cell.role][r.cell.key] = r.cell.value]
  BY DEF Commit
<1>4. r.cell = None \/ r.cell \in [role : Roles, key : Keys, was : Override, value : Override]
  BY <1>1 DEF Request
<1> HIDE DEF r
<1>5. users' \in [Users -> UserRow]
  BY <1>2, <1>3
<1>6. overrides' \in Overrides
  BY <1>1, <1>3, <1>4 DEF Overrides
<1> QED
  BY <1>5, <1>6

\* The tokens and keys of Redis keep their types.
LEMMA TokenTypes ==
  ASSUME Typed, [Next]_vars
  PROVE  /\ sessionRows' \subseteq Jtis /\ jtiKeys' \subseteq Jtis
         /\ \A j \in Jtis : tokens'[j] \in Token \cup {NoToken} /\ idleKeys'[j] \in 0..IdleTTL
<1> DEFINE Goal == /\ sessionRows' \subseteq Jtis /\ jtiKeys' \subseteq Jtis
                   /\ \A j \in Jtis : tokens'[j] \in Token \cup {NoToken} /\ idleKeys'[j] \in 0..IdleTTL
<1>1. /\ sessionRows \subseteq Jtis /\ jtiKeys \subseteq Jtis
      /\ DOMAIN tokens = Jtis /\ \A j \in Jtis : tokens[j] \in Token \cup {NoToken}
      /\ DOMAIN idleKeys = Jtis /\ \A j \in Jtis : idleKeys[j] \in 0..IdleTTL
      /\ IdleTTL \in Nat /\ AccessTTL \in Nat /\ RefreshTTL \in Nat /\ IdleTTL \in 0..IdleTTL
      /\ 0 \in 0..IdleTTL
  BY Setting, AccountsAssumption DEF Typed, TypeOK
<1>2. CASE Tick
  <2> DEFINE alive == {j \in Jtis : tokens[j].exp > 1}
  <2>1. ASSUME NEW j \in Jtis
        PROVE  tokens'[j] \in Token \cup {NoToken}
    <3>1. CASE j \in alive
      <4>1. tokens[j] \in Token
        BY <1>1, <3>1 DEF NoToken
      <4>2. tokens'[j] = [tokens[j] EXCEPT !.exp = @ - 1]
        BY <1>2, <3>1 DEF Tick
      <4>3. tokens[j].exp - 1 \in Nat
        BY <3>1, <4>1 DEF Token
      <4> QED
        BY <4>1, <4>2, <4>3 DEF Token
    <3>2. CASE j \notin alive
      BY <1>2, <3>2 DEF Tick
    <3> QED
      BY <3>1, <3>2
  <2>2. \A j \in Jtis : idleKeys'[j] \in 0..IdleTTL
    BY <1>1, <1>2 DEF Tick
  <2> QED
    BY <1>1, <1>2, <2>1, <2>2 DEF Tick
<1>3. CASE UNCHANGED vars
  BY <1>1, <1>3 DEF vars
<1>4. ASSUME NEW c \in Requests, Arrive(c) \/ ManagePeople(c) \/ ManageGrants(c) \/ EditProfile(c)
      PROVE  Goal
  <2>1. UNCHANGED <<sessionRows, TokenVars>>
    BY <1>4, ArrivalsLeaveTokens, PeopleLeaveTokens, GrantsLeaveTokens, ProfileLeavesTokens
  <2> QED
    BY <1>1, <2>1 DEF TokenVars
<1>5. ASSUME NEW c \in Requests, CheckIdle(c) \/ ReadRefresher(c) \/ Logout(c) \/ Refuse(c)
                                 \/ Commit(c) \/ Rollback(c)
      PROVE  Goal
  <2>1. req[c].rows \subseteq Jtis
    BY Setting DEF Request
  <2>2. UNCHANGED tokens /\ jtiKeys' \subseteq jtiKeys /\ sessionRows' \subseteq sessionRows \cup req[c].rows
    BY <1>5 DEF CheckIdle, ReadRefresher, Logout, Refuse, Commit, Rollback
  <2>3. \A j \in Jtis : idleKeys'[j] \in {idleKeys[j], 0, IdleTTL}
    BY <1>1, <1>5 DEF CheckIdle, TouchIdle, ReadRefresher, Logout, Refuse, Commit, Rollback
  <2> QED
    BY <1>1, <2>1, <2>2, <2>3
<1>6. ASSUME NEW c \in Requests, IssueLogin(c) \/ IssueRefresh(c)
      PROVE  Goal
  <2>1. NewAccess \in Jtis /\ NewRefresh \in Jtis /\ NewAccess # NewRefresh
    BY <1>6, FreshPair DEF IssueLogin, IssueRefresh, FreshJtis
  <2>2. req[c].by \in Users /\ req[c].role \in Roles \cup {None}
    BY <1>6, Setting DEF Known, IssueLogin, IssueRefresh, Request
  <2>3. /\ create_access_token(req[c].by, req[c].role) \in Token
        /\ create_refresh_token(req[c].by) \in Token
    BY <1>1, <2>2 DEF create_access_token, create_refresh_token, Token
  <2>4. \A j \in Jtis : tokens'[j] \in {tokens[j], create_access_token(req[c].by, req[c].role),
                                        create_refresh_token(req[c].by)}
    BY <1>1, <1>6 DEF IssueLogin, IssueRefresh, IssueTokens
  <2>5. /\ sessionRows' = sessionRows /\ jtiKeys' \subseteq jtiKeys \cup {NewAccess, NewRefresh}
        /\ idleKeys' = idleKeys \/ idleKeys' = [idleKeys EXCEPT ![NewAccess] = IdleTTL]
    BY <1>6 DEF IssueLogin, IssueRefresh
  <2>6. \A j \in Jtis : idleKeys'[j] \in {idleKeys[j], IdleTTL}
    BY <1>1, <2>5
  <2> QED
    BY <1>1, <2>1, <2>3, <2>4, <2>5, <2>6
<1> QED
  BY <1>2, <1>3, <1>4, <1>5, <1>6 DEF Next, Proceed

LEMMA TypedNext == Typed /\ [Next]_vars => Typed'
<1> SUFFICES ASSUME Typed, [Next]_vars PROVE Typed'
  OBVIOUS
<1>1. IdleInv'
  BY IdleNext DEF Typed
<1>2. /\ users \in [Users -> UserRow] /\ overrides \in Overrides
      /\ req \in [Requests -> Request] /\ \A d \in Requests : Known(req[d])
  BY Setting
<1>3. CASE Tick \/ UNCHANGED vars
  <2>1. UNCHANGED <<users, overrides, req>>
    BY <1>3 DEF Tick, vars
  <2> QED
    BY <1>1, <1>2, <2>1, TokenTypes DEF Typed, TypeOK
<1>4. ASSUME NEW c \in Requests,
             Proceed(c) \/ Arrive(c) \/ ManagePeople(c) \/ ManageGrants(c) \/ EditProfile(c)
      PROVE  Typed'
  <2>1. PICK r : Step(c, r) /\ Known(r)
    BY <1>4, StepMoves DEF Moves
  <2>2. req' \in [Requests -> Request] /\ \A d \in Requests : Known(req'[d])
    BY <1>2, <2>1 DEF Step, Known
  <2>3. users' \in [Users -> UserRow] /\ overrides' \in Overrides
    <3>1. CASE UNCHANGED <<users, overrides>>
      BY <1>2, <3>1
    <3>2. CASE \E role \in Roles : ResetRolePermissions(c, role)
      BY <1>2, <3>2 DEF ResetRolePermissions, Overrides, Override
    <3> QED
      BY <1>4, <3>1, <3>2, StepWrites, CommitTypes
  <2> QED
    BY <1>1, <2>2, <2>3, TokenTypes DEF Typed, TypeOK
<1> QED
  BY <1>3, <1>4 DEF Next

LEMMA TypedInit == Init => Typed
<1> SUFFICES ASSUME Init PROVE Typed
  OBVIOUS
<1>1. users \in [Users -> UserRow]
  BY SeedsAreRows DEF Init
<1>2. overrides \in Overrides
  BY DEF Init, NoOverrides, Overrides, Override
<1>3. req \in [Requests -> Request] /\ \A c \in Requests : req[c] = Free
  BY FreeIsKnown DEF Init, Known
<1>4. /\ sessionRows \subseteq Jtis /\ jtiKeys \subseteq Jtis
      /\ \A j \in Jtis : tokens[j] \in Token \cup {NoToken} /\ idleKeys[j] \in 0..IdleTTL
  BY AccountsAssumption DEF Init
<1> QED
  BY <1>1, <1>2, <1>3, <1>4, IdleInit, FreeIsKnown DEF Typed, TypeOK

\* Rows, permissions, tokens, keys and what requests stage are well typed in
\* every reachable state, for any number of requests: a commit writes values of
\* the columns it names and nothing else (SQLAlchemy's UPDATE), and a token is
\* always of a user (create_access_token, create_refresh_token).
THEOREM AccountsTyped == Spec => []TypeOK
<1>1. Typed => TypeOK
  BY DEF Typed
<1> QED
  BY <1>1, TypedInit, TypedNext, PTL DEF Spec

\* With one request at a time what it staged is still about the rows as they are.
SerialInv == Typed /\ RowsOK /\ \A c \in Requests : StagedOK(req[c])

LEMMA SerialNext ==
  ASSUME OneAtATime, SerialInv, [Next]_vars
  PROVE  SerialInv'
<1>1. Typed /\ Typed' /\ req \in [Requests -> Request]
  BY TypedNext, Setting DEF SerialInv
<1>2. CASE Tick \/ UNCHANGED vars
  <2>1. UNCHANGED <<users, overrides, req>>
    BY <1>2 DEF Tick, vars
  <2>2. RowsOK'
    BY <2>1 DEF SerialInv, RowsOK
  <2>3. ASSUME NEW c \in Requests PROVE StagedOK(req[c])'
    BY <2>1 DEF SerialInv, StagedOK, EditOK, CellOK
  <2> QED
    BY <1>1, <2>2, <2>3 DEF SerialInv
<1>3. ASSUME NEW c \in Requests,
             Proceed(c) \/ Arrive(c) \/ ManagePeople(c) \/ ManageGrants(c) \/ EditProfile(c)
      PROVE  SerialInv'
  <2>1. PICK r : Step(c, r) /\ Known(r) /\ (RowsOK /\ StagedOK(req[c]) => StagedOK(r))
    BY <1>1, <1>3, StepMoves DEF Moves
  <2>2. req'[c] = r /\ \A d \in Requests : d = c
    BY <1>1, <2>1 DEF Step, OneAtATime
  <2>3. StagedOK(r)
    BY <2>1 DEF SerialInv
  <2>4. CASE UNCHANGED <<users, overrides>>
    <3>1. RowsOK'
      BY <2>4 DEF SerialInv, RowsOK
    <3>2. StagedOK(req[c])'
      BY <2>2, <2>3, <2>4 DEF StagedOK, EditOK, CellOK
    <3> QED
      BY <1>1, <2>2, <3>1, <3>2 DEF SerialInv
  <2>5. CASE Commit(c) \/ \E role \in Roles : ResetRolePermissions(c, role)
    <3>1. req'[c] = Free
      BY <1>1, <2>5 DEF Commit, ResetRolePermissions, Drop, Step
    <3>2. StagedOK(req[c])'
      BY <3>1 DEF StagedOK, Armed, Free
    <3>3. ASSUME NEW u \in Users PROVE RowOK(users'[u])
      <4>1. RowOK(users[u])
        BY DEF SerialInv, RowsOK
      <4>2. users'[u] = users[u] \/ (Commit(c) /\ u \in req[c].targets
                                     /\ users'[u] = Installed(users[u], req[c]))
        BY <2>5 DEF Commit, ResetRolePermissions
      <4>3. Commit(c) => Armed(req[c])
        BY DEF Commit, Armed
      <4>4. Commit(c) /\ u \in req[c].targets => EditOK(u, req[c])
        BY <4>3 DEF SerialInv, StagedOK
      <4> QED
        BY <4>1, <4>2, <4>4 DEF EditOK
    <3> QED
      BY <1>1, <2>2, <3>2, <3>3 DEF SerialInv, RowsOK
  <2> QED
    BY <1>3, <2>4, <2>5, StepWrites
<1> QED
  BY <1>2, <1>3 DEF Next

LEMMA SerialInit == Init => SerialInv
<1> SUFFICES ASSUME Init PROVE SerialInv
  OBVIOUS
<1>1. RowsOK
  <2> SUFFICES ASSUME NEW u \in Users PROVE RowOK(users[u])
    BY DEF RowsOK
  <2>1. /\ users[u].totp_enabled => users[u].totp_secret
        /\ ~users[u].exists => users[u] = NoUser
    <3>1. users \in InitialUsers
      BY DEF Init
    <3> QED
      BY <3>1, SeedsAreRows, Zenon
  <2>2. NoUser.role # "admin"
    BY DEF NoUser
  <2> QED
    BY <2>1, <2>2 DEF RowOK
<1>2. \A c \in Requests : StagedOK(req[c])
  BY FreeIsKnown DEF Init
<1> QED
  BY <1>1, <1>2, TypedInit DEF SerialInv

\* With one request at a time no order of setup, verify and disable leaves an
\* account that asks for a code nobody can give (twofa_verify looks for the
\* secret, twofa_disable clears both columns), and no other page of the manager or
\* the supervisor touches one of the two.
THEOREM SecondFactorsUsable == OneAtATime /\ Spec => []SecondFactorUsable
<1>1. SerialInv => SecondFactorUsable
  BY DEF SerialInv, RowsOK, RowOK, SecondFactorUsable
<1> SUFFICES ASSUME OneAtATime PROVE Spec => []SecondFactorUsable
  OBVIOUS
<1>2. SerialInv /\ [Next]_vars => SerialInv'
  BY SerialNext
<1> QED
  BY <1>1, <1>2, SerialInit, PTL DEF Spec

\* With one request at a time nobody but an administrator makes, changes or
\* unmakes an administrator, by any of the nine handlers that write users: the
\* guard of each is kept until its commit.
THEOREM AdminsAreGuarded == OneAtATime /\ Spec => AdminsGuarded
<1> SUFFICES ASSUME OneAtATime PROVE Spec => AdminsGuarded
  OBVIOUS
<1>1. SerialInv /\ [Next]_vars => SerialInv'
  BY SerialNext
<1>2. SerialInv /\ [Next]_vars =>
        [\A c \in Requests : Commit(c) /\ req[c].role # "admin" =>
            \A u \in Users \ {req[c].by} : users'[u] # users[u] =>
                "admin" \notin {users[u].role, users'[u].role}]_vars
  <2> SUFFICES ASSUME SerialInv, NEW c \in Requests, Commit(c), req[c].role # "admin",
                      NEW u \in Users \ {req[c].by}, users'[u] # users[u]
               PROVE  "admin" \notin {users[u].role, users'[u].role}
    OBVIOUS
  <2>1. u \in req[c].targets /\ users'[u] = Installed(users[u], req[c])
    BY DEF Commit
  <2>2. EditOK(u, req[c])
    BY <2>1 DEF SerialInv, StagedOK, Armed, Commit
  <2> QED
    BY <2>1, <2>2 DEF EditOK
<1> QED
  BY <1>1, <1>2, SerialInit, PTL DEF Spec, AdminsGuarded

\* A flipped row flips what is in force, whether there was a row or the default.
LEMMA ToggleFlips ==
  ASSUME NEW o \in Overrides, NEW role \in Roles, NEW key \in Keys, NEW p,
         p[role][key] = ToggledRow(o[role][key], role, key),
         \A r \in Roles, k \in Keys : r # role \/ k # key => p[r][k] = o[r][k]
  PROVE  /\ effective_matrix(o, role, key) # effective_matrix(p, role, key)
         /\ \A r \in Roles, k \in Keys : r # role \/ k # key =>
                effective_matrix(p, r, k) = effective_matrix(o, r, k)
<1> DEFINE new == ToggledRow(o[role][key], role, key)
<1>1. o[role][key] \in {"none", "granted", "denied"}
  BY DEF Overrides, Override
<1>2. /\ o[role][key] = "granted" => new = "denied"
      /\ o[role][key] = "denied" => new = "granted"
      /\ o[role][key] = "none" /\ role \in DEFAULT_ROLE_PERMISSIONS[key] => new = "denied"
      /\ o[role][key] = "none" /\ role \notin DEFAULT_ROLE_PERMISSIONS[key] => new = "granted"
  BY DEF ToggledRow
<1>3. p[role][key] = new
  OBVIOUS
<1> HIDE DEF new
<1>4. effective_matrix(o, role, key) # effective_matrix(p, role, key)
  BY <1>1, <1>2, <1>3 DEF effective_matrix, Merged
<1>5. \A r \in Roles, k \in Keys : r # role \/ k # key =>
          effective_matrix(p, r, k) = effective_matrix(o, r, k)
  BY DEF effective_matrix, Merged
<1> QED
  BY <1>4, <1>5

\* With one request at a time a click on a cell of the permissions page changes
\* that cell and no other, whatever rows and defaults there are: the row is
\* flipped, or inserted as the opposite of the default (manager_toggle_permission).
THEOREM TogglesFlipOne == OneAtATime /\ Spec => ToggleFlipsOne
<1> SUFFICES ASSUME OneAtATime PROVE Spec => ToggleFlipsOne
  OBVIOUS
<1>1. SerialInv /\ [Next]_vars => SerialInv'
  BY SerialNext
<1>2. SerialInv /\ [Next]_vars =>
        [\A c \in Requests : Commit(c) /\ req[c].op = "toggle_permission" =>
            Cardinality({p \in Roles \X Keys :
              effective_matrix(overrides, p[1], p[2]) # effective_matrix(overrides', p[1], p[2])}) = 1]_vars
  <2> SUFFICES ASSUME SerialInv, NEW c \in Requests, Commit(c), req[c].op = "toggle_permission"
               PROVE  Cardinality({p \in Roles \X Keys : effective_matrix(overrides, p[1], p[2])
                                        # effective_matrix(overrides', p[1], p[2])}) = 1
    OBVIOUS
  <2> DEFINE flipped == {p \in Roles \X Keys : effective_matrix(overrides, p[1], p[2])
                                        # effective_matrix(overrides', p[1], p[2])}
  <2>1. overrides \in Overrides
    BY Setting DEF SerialInv
  <2>2. CellOK(req[c])
    BY DEF SerialInv, StagedOK, Commit
  <2>3. PICK role \in Roles, key \in Keys :
          req[c].cell = [role |-> role, key |-> key, was |-> overrides[role][key],
                         value |-> ToggledRow(overrides[role][key], role, key)]
    BY <2>2 DEF CellOK
  <2>4. /\ overrides[role][key] \in Override
        /\ ToggledRow(overrides[role][key], role, key) \in Override
    BY <2>1 DEF Overrides, Override, ToggledRow
  <2>5. req[c].cell # None
    BY <2>3, <2>4, NoneIsNoCell
  <2>6. overrides' = [overrides EXCEPT ![role][key] = ToggledRow(overrides[role][key], role, key)]
    BY <2>3, <2>5 DEF Commit
  <2>7. /\ effective_matrix(overrides, role, key) # effective_matrix(overrides', role, key)
        /\ \A r \in Roles, k \in Keys : r # role \/ k # key =>
              effective_matrix(overrides', r, k) = effective_matrix(overrides, r, k)
    <3>1. /\ overrides'[role][key] = ToggledRow(overrides[role][key], role, key)
          /\ \A r \in Roles, k \in Keys : r # role \/ k # key => overrides'[r][k] = overrides[r][k]
      BY <2>1, <2>6 DEF Overrides
    <3> QED
      BY <2>1, <3>1, ToggleFlips
  <2>8. flipped = {<<role, key>>}
    BY <2>7
  <2>9. Cardinality({<<role, key>>}) = 1
    BY FS_Singleton
  <2> HIDE DEF flipped
  <2>10. Cardinality(flipped) = Cardinality({<<role, key>>})
    BY <2>8
  <2> QED
    BY <2>9, <2>10 DEF flipped
<1> QED
  BY <1>1, <1>2, SerialInit, PTL DEF Spec, ToggleFlipsOne
=============================================================================
