----------------------------- MODULE RowsProofs -----------------------------
(* What the table operators of Rows return, for the proofs about modules   *)
(* that keep their state in tables.                                        *)
EXTENDS Rows, TLAPS

\* An insert adds one key, sets its row and leaves the other rows alone.
LEMMA InsertRows ==
  ASSUME NEW table, NEW key, NEW row
  PROVE  /\ DOMAIN Insert(table, key, row) = DOMAIN table \cup {key}
         /\ Insert(table, key, row)[key] = row
         /\ \A k \in DOMAIN table : k # key => Insert(table, key, row)[k] = table[k]
BY DEF Insert

\* An insert of a well-typed row keeps the table well-typed.
LEMMA InsertTyped ==
  ASSUME NEW Row, NEW table, IsTable(table, Row), NEW key, NEW row \in Row
  PROVE  IsTable(Insert(table, key, row), Row)
BY DEF Insert, IsTable

\* A delete removes the given keys and leaves the other rows alone.
LEMMA DeleteRows ==
  ASSUME NEW table, NEW keys
  PROVE  /\ DOMAIN Delete(table, keys) = DOMAIN table \ keys
         /\ \A k \in DOMAIN table \ keys : Delete(table, keys)[k] = table[k]
BY DEF Delete, Restrict

\* A delete keeps the table well-typed.
LEMMA DeleteTyped ==
  ASSUME NEW Row, NEW table, IsTable(table, Row), NEW keys
  PROVE  IsTable(Delete(table, keys), Row)
BY DEF Delete, IsTable, Restrict

\* The empty table has no rows and every type.
LEMMA EmptyTable ==
  ASSUME NEW Row
  PROVE  DOMAIN Empty = {} /\ IsTable(Empty, Row)
BY DEF Empty, IsTable

\* Without its latest key, a set of keys has the one before as its latest.
LEMMA BeforeLatest ==
  ASSUME NEW ids \in SUBSET Int, NEW i, NEW latest,
         IsLatest(latest, ids), Adjacent(i, latest, ids)
  PROVE  IsLatest(i, ids \ {latest})
BY DEF IsLatest, Adjacent
=============================================================================
