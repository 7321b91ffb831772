--------------------------- MODULE VersionBatches ---------------------------
(***************************************************************************)
(* VersionTree for a store with transactions: the collection grows by the  *)
(* rows of one transaction at a time, each of which is a step of the       *)
(* version tree on the rows before it.  What is never committed is never   *)
(* part of the collection.                                                 *)
(***************************************************************************)
EXTENDS VersionTree

(* row is the first version of an entity that is not in rows, or the next  *)
(* version or the tombstone of a live document of rows.                    *)
Grows(rows, row) ==
  \/ /\ \A i \in DOMAIN rows : rows[i].entity # row.entity
     /\ row = FirstVersion(row.entity, row.value, row.creator)
  \/ \E i \in DOMAIN rows :
       /\ ~rows[i].deleted
       /\ row.entity = rows[i].entity
       /\ row.version = rows[i].version + 1
       /\ row.creator = rows[i].creator
       /\ row.deleted => row.value = rows[i].value

GrownFrom(n, rows) ==
  \A i \in n + 1 .. Len(rows) : Grows(SubSeq(rows, 1, i - 1), rows[i])

BatchInit == GrownFrom(0, docs)

CommitBatch ==
  /\ Len(docs) < Len(docs')
  /\ SubSeq(docs', 1, Len(docs)) = docs
  /\ GrownFrom(Len(docs), docs')

BatchSpec == BatchInit /\ [][CommitBatch]_docs
=============================================================================
