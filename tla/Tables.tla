------------------------------- MODULE Tables -------------------------------
(***************************************************************************)
(* The tables of the database (apps/api/prisma/schema.prisma) as functions *)
(* from the keys of their rows to the rows, and the statements of the      *)
(* Prisma client that add rows to them.                                    *)
(***************************************************************************)

Empty == [x \in {} |-> 0]

\* The tables with rows in T for some of the keys in S.
PartialOn(S, T) == UNION {[D -> T] : D \in SUBSET S}

\* create, or update when the key has a row.
Put(table, key, row) ==
    [k \in DOMAIN table \cup {key} |-> IF k = key THEN row ELSE table[k]]

\* createMany: the rows are added to those of the table.
Merge(rows, table) ==
    [k \in DOMAIN rows \cup DOMAIN table |-> IF k \in DOMAIN rows THEN rows[k] ELSE table[k]]

=============================================================================
