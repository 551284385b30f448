--------------------------- MODULE ReadCommitted ---------------------------
(***************************************************************************)
(* Tables and transactions of PostgreSQL at its default isolation level,   *)
(* READ COMMITTED, as far as the handlers rely on them.  A table is a       *)
(* function from row ids to rows; None stands for "no such row".  An open   *)
(* transaction keeps what it has written aside until it commits; Same marks *)
(* a row it has not touched.  A statement sees the committed rows with the  *)
(* transaction's own writes laid over them, and nothing of the others'.     *)
(***************************************************************************)
CONSTANTS None, Same

\* What a transaction that has written `writes' sees of a table.
View(rows, writes) ==
  [i \in DOMAIN rows |-> IF writes[i] = Same THEN rows[i] ELSE writes[i]]

\* The writes of a transaction that replaces the rows in `ids', each by New(i).
Write(writes, ids, New(_)) ==
  [i \in DOMAIN writes |-> IF i \in ids THEN New(i) ELSE writes[i]]

\* A row in the sense of SELECT: neither absent nor merely untouched.
IsRow(row) == row # None /\ row # Same
=============================================================================
