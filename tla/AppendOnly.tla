----------------------------- MODULE AppendOnly -----------------------------
(***************************************************************************)
(* What the store promises of each of its evidence tables (ADR 0003): a    *)
(* row is added under a new identifier, and no row is ever changed or      *)
(* removed.                                                                *)
(***************************************************************************)
CONSTANTS
  Id,  \* the identifiers of the table
  Row  \* what a row may hold

VARIABLE
  rows \* the table: a function from the identifiers stored to their rows

Init == rows = [i \in {} |-> {}]

Append(i, row) ==
  /\ i \notin DOMAIN rows
  /\ rows' = [j \in DOMAIN rows \cup {i} |-> IF j = i THEN row ELSE rows[j]]

Next == \E i \in Id, row \in Row : Append(i, row)

Spec == Init /\ [][Next]_rows
=============================================================================
