------------------------------ MODULE PageRequest ------------------------------
(***************************************************************************)
(* A request of a management page: it reads rows, decides, stages what its  *)
(* session would write and commits it.  A session writes the columns that   *)
(* differ from what it read, under the row's key, whatever the row has      *)
(* become; it takes no lock between its SELECT and its commit.              *)
(*                                                                          *)
(* The pages share no table but the audit log, so each behaviour exercises  *)
(* one area (page.area), with room for page.room requests at a time and     *)
(* page.rows rows in its largest table.                                     *)
(***************************************************************************)
EXTENDS Integers, Sequences, FiniteSets, TLC

CONSTANTS
    Slots,   \* bound: requests at a time
    Mixes,   \* the areas that are exercised, with their bounds
    None

VARIABLES
    page,    \* the area of this behaviour
    req      \* what each request has read and staged

ASSUME PageRequestAssumption ==
    \A m \in Mixes : m.area \in STRING /\ m.room \in Nat /\ m.rows \in Nat

\* A row under its key, and columns laid over a row: the operators :> and @@ of TLC,
\* which the provers do not know.
Only(key, row) == [k \in {key} |-> row]
Over(new, row) ==
    [col \in DOMAIN new \cup DOMAIN row |-> IF col \in DOMAIN new THEN new[col] ELSE row[col]]

Free == [op |-> "none"]
Busy(c) == req[c] # Free

PageInit == page \in Mixes /\ req = [c \in Slots |-> Free]

\* alone: no other request has committed since this one began.
Begin(c, r) ==
    /\ ~Busy(c) /\ Cardinality({d \in Slots : Busy(d)}) < page.room
    /\ req' = [req EXCEPT ![c] = Over([alone |-> TRUE], r)]
    /\ UNCHANGED page

Goto(c, r) == req' = [req EXCEPT ![c] = Over(r, @)] /\ UNCHANGED page

Overlapped(d) == IF Busy(d) THEN [req[d] EXCEPT !.alone = FALSE] ELSE Free

\* A commit that took no step before it, the commit of c, and its rollback.
Interrupt == req' = [d \in Slots |-> Overlapped(d)] /\ UNCHANGED page
Finish(c) == req' = [d \in Slots |-> IF d = c THEN Free ELSE Overlapped(d)] /\ UNCHANGED page
Rollback(c) == req' = [req EXCEPT ![c] = Free] /\ UNCHANGED page

\* A request that ends in this step.
Ends(c) == Busy(c) /\ req'[c] = Free

-----------------------------------------------------------------------------
(* What a session stages: for some keys, the columns to write.              *)

Nothing == [k \in {} |-> None]
AllColumns(row, new) == Over(new, row)
NetChange(row, new) == [col \in {k \in DOMAIN new : new[k] # row[k]} |-> new[col]]

\* The table after the staged columns are written.
Written(table, stage) ==
    [k \in DOMAIN table |-> IF k \in DOMAIN stage THEN Over(stage[k], table[k]) ELSE table[k]]

StagedColumns(stage, col) == {stage[k][col] : k \in {k \in DOMAIN stage : col \in DOMAIN stage[k]}}
=============================================================================
