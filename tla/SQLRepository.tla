--------------------------- MODULE SQLRepository ----------------------------
(***************************************************************************)
(* SQLRepository (adapters/persistence/db/sql_repository.py): the versions *)
(* of an entity are rows of a table, read and inserted through the session *)
(* of the request, which commits or rolls back as a whole.                 *)
(*                                                                         *)
(* A write selects the latest row, builds the next version in memory and   *)
(* inserts it, in statements of their own.  No constraint makes            *)
(* (entity_id, record_version) unique, so two sessions may both insert the *)
(* successor of one row.  The row that was inserted is selected again and  *)
(* validated by the document model, which refuses the text that the table  *)
(* keeps for an array.                                                     *)
(***************************************************************************)
EXTENDS Integers, Sequences

CONSTANTS
  Sessions,  \* requests, each with a session; also the user of each
  Entities,  \* the uuids that uuid4() may return
  Values,    \* contents of the schema's own fields
  NoValue,   \* None: a field submitted as null
  Arrays,    \* the contents in which some field is an array
  Backends,  \* what the databases do: snapshot, aborts (see below)
  MaxRows    \* bound of the model: a commit that would exceed it only fails

(* What is assumed of them, by the modules that instantiate this one.      *)
Parameters ==
  /\ Arrays \subseteq Values
  /\ Backends \subseteq [snapshot : BOOLEAN, aborts : BOOLEAN]
  /\ MaxRows \in Nat

VARIABLES
  backend,   \* snapshot: a session reads as of its first statement;
             \* aborts: after an error, a transaction can only be rolled back
  table,     \* the committed rows
  view,      \* session -> how many of them its first statement saw
  own,       \* session -> the rows it has inserted and not committed
  draft,     \* session -> << >>, or the row about to be inserted
  aborted,   \* session -> the database only waits for the rollback
  raced      \* history: entities on which read-modify-writes overlapped

vars == <<backend, table, view, own, draft, aborted, raced>>

NotBegun == -1

Payloads == Values \cup {NoValue}

Row == [entity : Entities, version : Nat \ {0}, value : Payloads,
        deleted : BOOLEAN, creator : Sessions, editor : Sessions]

-----------------------------------------------------------------------------
(* Reads.                                                                  *)

Sees(s) == IF backend.snapshot /\ view[s] # NotBegun THEN view[s] ELSE Len(table)

(* What a statement of session s works on.                                 *)
Rows(s) == SubSeq(table, 1, Sees(s)) \o own[s]

VersionsIn(rows, e) == {i \in DOMAIN rows : rows[i].entity = e}

(* ORDER BY record_version DESC LIMIT 1, and max(record_version): of equal *)
(* versions any may come first.                                            *)
LatestIn(rows, e) ==
  {i \in VersionsIn(rows, e) :
     \A j \in VersionsIn(rows, e) : rows[j].version <= rows[i].version}

(* get_by_entity_id: what it may return, None apart.                       *)
GetsIn(rows, e) == {i \in LatestIn(rows, e) : ~rows[i].deleted}

(* _to_result: the document model refuses a string where it wants a list.  *)
Validates(row) == row.value \notin Arrays

-----------------------------------------------------------------------------
(* Building rows.                                                          *)

FirstVersion(e, v, user) ==
  [entity |-> e, version |-> 1, value |-> v, deleted |-> FALSE,
   creator |-> user, editor |-> user]

(* The submitted value is compared with the column: an array never equals  *)
(* the text that is stored for it.                                         *)
HasChanged(row, item) == item.value # row.value \/ item.value \in Arrays

(* Mutant of Accepts: tombstones are updated.                              *)
MutAcceptsDeleted(row, item) == item.op = "update" => HasChanged(row, item)

Accepts(row, item) ==
  /\ ~row.deleted
  /\ item.op = "update" => HasChanged(row, item)

(* Mutant of NextVersion: a tombstone keeps the number of the last row.    *)
MutTombstoneKeepsNumber(row, item, user) ==
  [row EXCEPT
     !.version = IF item.op = "delete" THEN @ ELSE @ + 1,
     !.value   = IF item.op = "update" /\ item.value # NoValue
                 THEN item.value ELSE @,
     !.deleted = item.op = "delete",
     !.editor  = user]

(* A null is not applied.                                                  *)
NextVersion(row, item, user) ==
  [row EXCEPT
     !.version = @ + 1,
     !.value   = IF item.op = "update" /\ item.value # NoValue
                 THEN item.value ELSE @,
     !.deleted = item.op = "delete",
     !.editor  = user]

(* Rows of e that other sessions have inserted, or are about to.           *)
PendingElsewhere(s, e) ==
  \E t \in Sessions \ {s} :
    \/ VersionsIn(own[t], e) # {}
    \/ VersionsIn(draft[t], e) # {}

(* Rows of e committed since the snapshot of s.                            *)
StaleFor(s, e) == \E i \in Sees(s) + 1 .. Len(table) : table[i].entity = e

Unused(e) ==
  /\ VersionsIn(table, e) = {}
  /\ \A t \in Sessions : VersionsIn(own[t], e) = {}

-----------------------------------------------------------------------------
EmptySession(s) ==
  /\ view[s] = NotBegun
  /\ own[s] = << >> /\ draft[s] = << >>
  /\ ~aborted[s]

(* A database with a history, or a new one.                                *)
Init ==
  /\ backend \in Backends
  /\ table \in {<< >>} \cup
       {<<FirstVersion(e, v, u)>> : e \in Entities, v \in Values \ Arrays, u \in Sessions}
  /\ view = [s \in Sessions |-> NotBegun]
  /\ own = [s \in Sessions |-> << >>]
  /\ draft = [s \in Sessions |-> << >>]
  /\ aborted = [s \in Sessions |-> FALSE]
  /\ raced = {}

(* A statement runs: it fixes the snapshot, and fails once the transaction *)
(* is aborted.                                                             *)
Executes(s) ==
  /\ ~aborted[s]
  /\ view' = [view EXCEPT ![s] = Sees(s)]

(* create: insert, flush and select of the new row.                        *)
Create(s, v) ==
  /\ draft[s] = << >>
  /\ Executes(s)
  /\ \E e \in Entities :
       /\ Unused(e)
       /\ own' = [own EXCEPT ![s] = Append(@, FirstVersion(e, v, s))]
  /\ UNCHANGED <<backend, table, draft, aborted, raced>>

(* get_by_entity_id and the lists change nothing but the snapshot.         *)
Select(s) ==
  /\ draft[s] = << >>
  /\ Executes(s)
  /\ UNCHANGED <<backend, table, own, draft, aborted, raced>>

(* update_by_entity_id, delete_by_entity_id: the select of the latest row  *)
(* finds nothing, a tombstone or nothing to change: None.                  *)
SelectNone(s, item) ==
  /\ Select(s)
  /\ \/ LatestIn(Rows(s), item.entity) = {}
     \/ \E i \in LatestIn(Rows(s), item.entity) : ~Accepts(Rows(s)[i], item)

(* ... or the row from which the next version is built.                    *)
SelectLatest(s, item) ==
  /\ draft[s] = << >>
  /\ Executes(s)
  /\ \E i \in LatestIn(Rows(s), item.entity) :
       /\ Accepts(Rows(s)[i], item)
       /\ draft' = [draft EXCEPT ![s] = <<NextVersion(Rows(s)[i], item, s)>>]
  /\ raced' = IF PendingElsewhere(s, item.entity) \/ StaleFor(s, item.entity)
              THEN raced \cup {item.entity} ELSE raced
  /\ UNCHANGED <<backend, table, own, aborted>>

(* Insert, flush and select of the new version.                            *)
InsertDraft(s) ==
  /\ draft[s] # << >>
  /\ Executes(s)
  /\ own' = [own EXCEPT ![s] = @ \o draft[s]]
  /\ draft' = [draft EXCEPT ![s] = << >>]
  /\ UNCHANGED <<backend, table, aborted, raced>>

(* A statement raises: a lost connection, a lock, a value that does not    *)
(* fit its column.                                                         *)
Fail(s) ==
  /\ draft' = [draft EXCEPT ![s] = << >>]
  /\ aborted' = [aborted EXCEPT ![s] = backend.aborts \/ aborted[s]]
  /\ UNCHANGED <<backend, table, view, own, raced>>

Closed(s) ==
  /\ view' = [view EXCEPT ![s] = NotBegun]
  /\ own' = [own EXCEPT ![s] = << >>]
  /\ draft' = [draft EXCEPT ![s] = << >>]
  /\ aborted' = [aborted EXCEPT ![s] = FALSE]

(* session.commit().  The commit of an aborted transaction is a rollback,  *)
(* and raises nothing.                                                     *)
Commit(s) ==
  /\ draft[s] = << >>
  /\ aborted[s] \/ Len(table) + Len(own[s]) <= MaxRows
  /\ table' = IF aborted[s] THEN table ELSE table \o own[s]
  /\ Closed(s)
  /\ UNCHANGED <<backend, raced>>

(* session.rollback(), after an exception in the request or in the commit; *)
(* also what the database does when the connection is gone.                *)
Rollback(s) ==
  /\ Closed(s)
  /\ UNCHANGED <<backend, table, raced>>

Item == [op : {"update"}, entity : Entities, value : Payloads]
        \cup [op : {"delete"}, entity : Entities, value : {NoValue}]

Next ==
  \E s \in Sessions :
    \/ \E v \in Payloads : Create(s, v)
    \/ Select(s)
    \/ \E item \in Item : SelectNone(s, item) \/ SelectLatest(s, item)
    \/ InsertDraft(s)
    \/ Fail(s)
    \/ Commit(s)
    \/ Rollback(s)

Spec == Init /\ [][Next]_vars

-----------------------------------------------------------------------------
TypeOK ==
  /\ backend \in Backends
  /\ table \in Seq(Row)
  /\ view \in [Sessions -> Int]
  /\ own \in [Sessions -> Seq(Row)]
  /\ draft \in [Sessions -> Seq(Row)]
  /\ aborted \in [Sessions -> BOOLEAN]
  /\ raced \subseteq Entities
  /\ \A s \in Sessions :
       /\ Len(draft[s]) <= 1
       /\ view[s] \in NotBegun .. Len(table)
       /\ view[s] = NotBegun => own[s] = << >>

(* Versions of an entity are unique as long as no two read-modify-writes   *)
(* on it overlapped, whatever the isolation level: neither a rollback nor  *)
(* a snapshot taken too early makes a number be used twice.                *)
LinearUnlessRaced ==
  \A i, j \in DOMAIN table :
    /\ table[i].entity = table[j].entity
    /\ table[i].version = table[j].version
    /\ table[i].entity \notin raced
    => i = j

(* The promise of the table: it grows by whole transactions, every row of  *)
(* which is the successor of a committed row or of one of its own.         *)
Tree == INSTANCE VersionBatches WITH Users <- Sessions, docs <- table, GivenIds <- {}
ImplementsTree == Tree!BatchSpec
=============================================================================
