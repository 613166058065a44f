-------------------------------- MODULE Rows --------------------------------
(***************************************************************************)
(* A database table is a function from the primary keys in use to rows.    *)
(***************************************************************************)
EXTENDS Integers, Functions

IsTable(table, Row) == table \in [DOMAIN table -> Row]

\* The table with a row added (or, for a key in use, replaced).
Insert(table, key, row) ==
  [k \in DOMAIN table \cup {key} |-> IF k = key THEN row ELSE table[k]]

\* The table without the rows whose keys are in keys.
Delete(table, keys) == Restrict(table, DOMAIN table \ keys)

Empty == [k \in {} |-> k]

\* orderBy id desc: the first row of a query over the keys in ids.
IsLatest(id, ids) == id \in ids /\ \A other \in ids : other <= id

\* Two rows that follow one another in id order.
Adjacent(i, j, ids) ==
  /\ i \in ids /\ j \in ids /\ i < j
  /\ \A k \in ids : k <= i \/ j <= k
=============================================================================
