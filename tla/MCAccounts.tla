------------------------------ MODULE MCAccounts ------------------------------
(***************************************************************************)
(* Small instances of Accounts.                                             *)
(***************************************************************************)
EXTENDS AccountsProps

CONSTANTS root, boss, p1, p2, d1, d2, mail

Seeded(role) == [NoUser EXCEPT !.exists = TRUE, !.role = role, !.password = p1]
SeedOf(u, team) == CASE u = root -> Seeded("admin") [] u \in team -> Seeded("manager") [] OTHER -> NoUser

\* With the manager, and before he has an account.
OneSeed  == {[u \in Users |-> SeedOf(u, {boss})]}
TwoSeeds == {[u \in Users |-> SeedOf(u, team)] : team \in {{}, {boss}}}
PageHandlers == AllHandlers \ {"refresh"}

SessionHandlers == {"login", "refresh", "logout", "change_user_role", "toggle_user_active"}
=============================================================================
