---------------------------- MODULE AccountsProps ----------------------------
(***************************************************************************)
(* What should hold of Accounts.                                            *)
(***************************************************************************)
EXTENDS Accounts

-----------------------------------------------------------------------------
(* Whatever the requests do to each other.                                  *)

\* A token whose jti key is gone, by logout, rotation or the idle timeout, is
\* never accepted again (AuthMiddleware.dispatch, logout, refresh).
RevokedStaysRevoked ==
    [][\A j \in Jtis : Live(j) /\ j \notin jtiKeys => j \notin jtiKeys']_vars

\* Rights settle: once the row of a user stays as it is, every access token of
\* his that Redis still knows comes to tell the role of the row, and a
\* deactivated user comes to have none (refresh reads the row again).
Standing(j) == Live(j) /\ tokens[j].kind = "access" /\ j \in jtiKeys
RightsSettle ==
    \A u \in Users, r \in Roles, b \in BOOLEAN :
        <>[](users[u].role = r /\ users[u].is_active = b) =>
            <>[](\A j \in Jtis : Standing(j) /\ tokens[j].user = u => tokens[j].role = r /\ b)

\* "if idle key expired, user was inactive for 10 min -> revoke": a token of a
\* login that the middleware revokes was issued at least that long ago, where Redis
\* keeps the idle key for its time.  A token of a refresh has no idle key, and its
\* first use revokes it; so has a refresh token, if it is presented.
LoginOutlastsIdle ==
    [][\A c \in Requests : CheckIdle(c) =>
          \A j \in (jtiKeys \ jtiKeys') \cap sessionRows : AccessTTL - tokens[j].exp >= IdleTTL]_vars

-----------------------------------------------------------------------------
(* When requests are served one after the other.                            *)

\* "Only admin can modify admin users" (app/api/manager.py): no account gains,
\* keeps or loses the administrator's role in a commit of anybody else, but
\* for his own profile.
AdminsGuarded ==
    [][\A c \in Requests : Commit(c) /\ req[c].role # "admin" =>
          \A u \in Users \ {req[c].by} : users'[u] # users[u] =>
              "admin" \notin {users[u].role, users'[u].role}]_vars

\* A second factor that is asked for can be given: no order of setup, verify
\* and disable locks the user out (app/api/profile.py, login).
SecondFactorUsable == \A u \in Users : users[u].totp_enabled => users[u].totp_secret

\* The templates show a page of the manager's or anybody's if and only if its
\* route lets the role in, but for the two keys a manager cannot lose.
PagesMatchRoutes ==
    \A r \in Roles, k \in Keys :
        ~(r = "manager" /\ k \in {"manager.view", "manager.settings"}) =>
            (k \in effective_permissions(overrides, r, TRUE) <=> check_permission(overrides, r, k))

\* A click on a cell of the permissions page changes what the page shows there
\* and nothing else (manager_toggle_permission).
ToggleFlipsOne ==
    [][\A c \in Requests : Commit(c) /\ req[c].op = "toggle_permission" =>
          Cardinality({p \in Roles \X Keys :
              effective_matrix(overrides, p[1], p[2]) # effective_matrix(overrides', p[1], p[2])}) = 1]_vars
=============================================================================
