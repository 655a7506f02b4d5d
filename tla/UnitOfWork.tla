------------------------------- MODULE UnitOfWork -------------------------------
(*******************************************************************************)
(* How one request reads and writes database rows.                             *)
(*                                                                             *)
(* Every request handler runs in one AsyncSession (core/database.py, get_db):  *)
(* it is committed when the handler returns and rolled back when it raises.    *)
(* The engine sets no isolation level, so MySQL 8 runs the transaction at      *)
(* REPEATABLE READ: the first plain SELECT (the token lookup of the            *)
(* authentication dependency) takes a snapshot and every later plain SELECT    *)
(* reads that snapshot, while SELECT ... FOR UPDATE and UPDATE act on the      *)
(* latest committed row.  No model has a version column, so an UPDATE is never *)
(* refused because the row changed since it was read.                          *)
(*                                                                             *)
(* The unit of work writes a column only if the value assigned by the handler  *)
(* differs from the value it loaded.  Two overlapping requests therefore leave *)
(* a row in which the columns of both are mixed.                               *)
(*******************************************************************************)

\* The row after a transaction that loaded the row as snap, left it as new in
\* its session, and flushes while the latest committed version is cur.
Flush(cur, snap, new) ==
    [c \in DOMAIN cur |-> IF new[c] = snap[c] THEN cur[c] ELSE new[c]]

\* The same for the rows of a table.
FlushRows(cur, snap, new) == [r \in DOMAIN cur |-> Flush(cur[r], snap[r], new[r])]

=================================================================================
