--------------------------------- MODULE Payload ---------------------------------
(***************************************************************************)
(* What the payload of an approval request does to the live tables.        *)
(*                                                                         *)
(* A payload is a list of writes. A write names a row and gives values to  *)
(* some of its columns, the others stay: a day of a proposed schedule gives *)
(* all of them (ON CONFLICT DO UPDATE SET ... = EXCLUDED...), a proposed    *)
(* service update those that are not null (COALESCE($n, column)).          *)
(***************************************************************************)
EXTENDS Integers, Sequences

CONSTANTS
    Columns,
    Values,     \* what a payload may give to a column
    Refused     \* the values that a column's type or CHECK does not accept

\* The columns that a payload writes, with their values.
Diff == UNION {[columns -> Values] : columns \in SUBSET Columns}

Acceptable(diff) == \A column \in DOMAIN diff : diff[column] \notin Refused

\* A mutated form of Merge: a column the payload leaves out becomes 0.
Replace(content, diff) ==
    [column \in Columns |-> IF column \in DOMAIN diff THEN diff[column] ELSE 0]

Merge(content, diff) ==
    [column \in Columns |->
        IF column \in DOMAIN diff THEN diff[column] ELSE content[column]]

\* The i-th write is the last of the first n to set that column of that row.
SetsLast(writes, n, row, column, i) ==
    /\ i \in 1 .. n
    /\ writes[i].row = row /\ column \in DOMAIN writes[i].diff
    /\ \A j \in (i + 1) .. n :
          ~(writes[j].row = row /\ column \in DOMAIN writes[j].diff)

\* The row as the first n writes leave it.
RowAfter(writes, n, row, content) ==
    [column \in Columns |->
        IF \E i \in 1 .. n : SetsLast(writes, n, row, column, i)
        THEN writes[CHOOSE i \in 1 .. n : SetsLast(writes, n, row, column, i)].diff[column]
        ELSE content[column]]
=============================================================================
