-------------------------------- MODULE MCPages --------------------------------
(***************************************************************************)
(* Small instances of Pages.                                                *)
(***************************************************************************)
EXTENDS PagesProps

CONSTANTS x1, x2, n1, n2, v1, v2, s1, s2, s3

Mix(area, room, rows) == [area |-> area, room |-> room, rows |-> rows]

\* Two requests at a time everywhere; two articles with one request, for the
\* articles shown beside another.
Areas == {Mix("forms", 2, 3), Mix("themes", 2, 2), Mix("kb", 2, 1), Mix("kb", 1, 2),
          Mix("directory", 2, 1), Mix("settings", 2, 3),
          Mix("reports", 2, 0), Mix("month", 1, 0), Mix("viewers", 0, 0), Mix("notes", 2, 0)}
OnlyReports == {Mix("reports", 1, 0)}

\* Every list but the portal's may leave an article out.
Limits == [list \in {"kb_home", "portal_kb_home", "search", "related"} |->
              IF list = "portal_kb_home" THEN 2 ELSE 1]

\* An agent with two pages and another with one.
Pages3 == (s1 :> v1) @@ (s2 :> v1) @@ (s3 :> v2)

Emp(code, n) == [code |-> code, employee_id |-> n]

\* A branch with its employee and one of another branch; two branches, and one
\* employee twice.
Books == {[branches |-> <<x1>>, employees |-> <<Emp(x1, n1), Emp(x2, n2)>>],
          [branches |-> <<x2, x1>>, employees |-> <<Emp(x2, n1), Emp(x2, n1)>>]}
=============================================================================
