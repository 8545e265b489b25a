----------------------------- MODULE Permissions -----------------------------
(***************************************************************************)
(* Who may do what: the default grants of each role, the overriding rows of *)
(* role_permissions, and the three places that combine the two: the check   *)
(* every route runs, the set the middleware hands to the templates, and the *)
(* matrix of the manager's permissions page.                                *)
(***************************************************************************)

Roles == {"employee", "supervisor", "manager", "admin"}

\* Roles that hold a permission unless a row of role_permissions says otherwise.
DEFAULT_ROLE_PERMISSIONS ==
    LET supervisors == {"supervisor", "manager", "admin"}
        managers    == {"manager", "admin"}
    IN  [p \in {"dashboard.view", "tickets.view", "tickets.create", "tickets.edit",
                "tickets.delete", "supervisor.view", "supervisor.team", "manager.view",
                "manager.settings", "admin.view", "kb.view", "kb.edit", "reports.view"} |->
            CASE p \in {"supervisor.view", "supervisor.team", "kb.edit", "reports.view"} -> supervisors
              [] p \in {"tickets.delete", "manager.view", "manager.settings"} -> managers
              [] p = "admin.view" -> {"admin"}
              [] OTHER -> Roles]

Keys == DOMAIN DEFAULT_ROLE_PERMISSIONS

HARDCODED_DENIED == {"audit_log.delete", "admin_root.disable"}

\* A row of role_permissions for a role and a key, or none: UNIQUE(role, key).
Override  == {"none", "granted", "denied"}
Overrides == [Roles -> [Keys -> Override]]
NoOverrides == [r \in Roles |-> [k \in Keys |-> "none"]]

\* The default of a role, overridden by a row if there is one.
Merged(overrides, role, key) ==
    \/ overrides[role][key] = "granted"
    \/ overrides[role][key] = "none" /\ role \in DEFAULT_ROLE_PERMISSIONS[key]

\* What a route asks: the manager keeps the two keys of his own pages.
check_permission(overrides, role, key) ==
    /\ key \notin HARDCODED_DENIED
    /\ \/ role = "admin"
       \/ role = "manager" /\ key \in {"manager.view", "manager.settings"}
       \/ key \in Keys /\ Merged(overrides, role, key)

AnyRowGrants(overrides, role) ==
    {k \in Keys : role = "admin" \/ overrides[role][k] # "none" \/ role \in DEFAULT_ROLE_PERMISSIONS[k]}

\* What the templates show, and what they show when the database is away.
get_effective_permissions_for_role(overrides, role) ==
    {k \in Keys : role = "admin" \/ Merged(overrides, role, k)}
get_default_permissions_for_role(role) ==
    {k \in Keys : role = "admin" \/ role \in DEFAULT_ROLE_PERMISSIONS[k]}
effective_permissions(overrides, role, database_up) ==
    IF database_up THEN get_effective_permissions_for_role(overrides, role)
                   ELSE get_default_permissions_for_role(role)

\* The cell of the permissions page.
effective_matrix(overrides, role, key) == Merged(overrides, role, key)

ToggledOnce(override, role, key) ==
    CASE override = "granted" -> "denied" [] override \in {"denied", "none"} -> "granted"

\* A click on a cell: flip the row, or insert the opposite of the default.
ToggledRow(override, role, key) ==
    CASE override = "granted" -> "denied"
      [] override = "denied"  -> "granted"
      [] override = "none"    -> IF role \in DEFAULT_ROLE_PERMISSIONS[key] THEN "denied" ELSE "granted"
=============================================================================
