--------------------------- MODULE VersionedCRUD ---------------------------
(***************************************************************************)
(* VersionedMongoCRUD (adapters/persistence/db/generic_crud.py): documents *)
(* are never changed in place; every write reads the latest version of an  *)
(* entity, builds the next one in memory and inserts it.  The read and the *)
(* insert are separate database calls (two awaits), no index makes         *)
(* (entity_id, record_version) unique, and any number of coroutines and    *)
(* worker processes run the methods on the same collection.                *)
(*                                                                         *)
(* A client is one coroutine running one method at a time: it scans the    *)
(* items of its call (one find_one each), collects the documents to insert *)
(* and inserts them.  create, update_by_entity_id and delete_by_entity_id  *)
(* are the calls with one item.  An insert_many is not atomic: the         *)
(* server stores its documents one after the other, and an error leaves a  *)
(* prefix behind.                                                          *)
(***************************************************************************)
EXTENDS Naturals, Sequences

CONSTANTS
  Clients,   \* coroutines; also the user_id they write with
  Entities,  \* values of entity_id
  GivenIds,  \* those that callers of create choose; uuid4() returns the others
  Values,    \* contents of the schema's own fields
  NoValue,   \* None
  MaxBatch,  \* longest items list of a bulk call
  MaxDocs    \* bound of the model: size at which inserts only fail

ASSUME MaxBatchAssumption == MaxBatch \in Nat \ {0}
ASSUME MaxDocsAssumption  == MaxDocs \in Nat
ASSUME GivenIdsAssumption == GivenIds \subseteq Entities

VARIABLES
  docs,      \* the collection: a sequence of documents, in insertion order
  pc,        \* where each client is in its call
  todo,      \* items of the call that are not yet read
  batch,     \* insert_dicts: documents built and not yet inserted
  raced      \* history: entities on which two read-modify-writes overlapped,
             \* or that were created although they were there

vars == <<docs, pc, todo, batch, raced>>

Payloads == Values \cup {NoValue}

Document == [entity : Entities, version : Nat \ {0}, value : Payloads,
             deleted : BOOLEAN, creator : Clients, editor : Clients]

(* An item of an update or delete call.  value = NoValue in an update is a *)
(* field submitted with an explicit null, or one of the protected fields.  *)
Item == [op : {"update", "delete"}, entity : Entities, value : Payloads]

UpTo(n, S) == UNION {[1 .. k -> S] : k \in 1 .. n}

-----------------------------------------------------------------------------
(* Reads.                                                                  *)

VersionsOf(e) == {i \in DOMAIN docs : docs[i].entity = e}

(* find_one(sort record_version desc): with equal versions the server may  *)
(* answer with any of them.                                                *)
LatestAmong(S) ==
  {i \in S : \A j \in S : docs[j].version <= docs[i].version}

Latest(e) == LatestAmong(VersionsOf(e))

(* get_by_entity_id: the positions of the documents it may return; empty   *)
(* when only None can be returned.                                         *)
Gets(e) == {i \in Latest(e) : ~docs[i].deleted}

(* list_latest_active and count_active, of the documents that match the    *)
(* caller's filter: it is applied to every stored version BEFORE they are  *)
(* grouped by entity; the group's first document is dropped when it is a   *)
(* tombstone.                                                              *)
Lists(e, matching) ==
  {i \in LatestAmong(VersionsOf(e) \cap matching) : ~docs[i].deleted}

-----------------------------------------------------------------------------
(* Building the documents to insert.                                       *)

(* has_changed: some submitted field differs from the stored one.          *)
HasChanged(doc, item) == item.value # doc.value

(* Mutant of Accepts: deleted_at is not looked at.                         *)
MutAcceptsDeleted(doc, item) ==
  item.op = "update" => HasChanged(doc, item)

Accepts(doc, item) ==
  /\ ~doc.deleted
  /\ item.op = "update" => HasChanged(doc, item)

(* Mutants of NextVersion: created_by is stamped on every write; the       *)
(* version is copied with the rest.                                        *)
MutNextRecreates(doc, item, user) ==
  [doc EXCEPT
     !.version = @ + 1,
     !.value   = IF item.op = "update" /\ item.value # NoValue
                 THEN item.value ELSE @,
     !.deleted = item.op = "delete",
     !.creator = user,
     !.editor  = user]

MutNextKeepsNumber(doc, item, user) ==
  [doc EXCEPT
     !.value   = IF item.op = "update" /\ item.value # NoValue
                 THEN item.value ELSE @,
     !.deleted = item.op = "delete",
     !.editor  = user]

(* Protected fields and nulls are not applied; the rest is copied over.    *)
NextVersion(doc, item, user) ==
  [doc EXCEPT
     !.version = @ + 1,
     !.value   = IF item.op = "update" /\ item.value # NoValue
                 THEN item.value ELSE @,
     !.deleted = item.op = "delete",
     !.editor  = user]

FirstVersion(e, v, user) ==
  [entity |-> e, version |-> 1, value |-> v, deleted |-> FALSE,
   creator |-> user, editor |-> user]

(* Positions of the documents of e that client d has built.                *)
Pending(d, e) == {k \in DOMAIN batch[d] : batch[d][k].entity = e}

(* Neither a stored entity nor one being created.                          *)
Unused(e) ==
  /\ VersionsOf(e) = {}
  /\ \A d \in Clients : Pending(d, e) = {}

(* uuid4() never repeats, nor meets an id that somebody chose.             *)
NewId(e) == e \notin GivenIds /\ Unused(e)

-----------------------------------------------------------------------------

Init ==
  /\ docs  = << >>
  /\ pc    = [c \in Clients |-> "idle"]
  /\ todo  = [c \in Clients |-> << >>]
  /\ batch = [c \in Clients |-> << >>]
  /\ raced = {}

(* Mutant of StartCreate: one uuid4() for all the items of a bulk_create.  *)
MutCreateSharesId(c) ==
  /\ pc[c] = "idle"
  /\ \E values \in UpTo(MaxBatch, Payloads), e \in Entities :
       /\ NewId(e)
       /\ batch' = [batch EXCEPT ![c] =
            [k \in DOMAIN values |-> FirstVersion(e, values[k], c)]]
  /\ pc' = [pc EXCEPT ![c] = "insert"]
  /\ UNCHANGED <<docs, todo, raced>>

(* create, bulk_create: a uuid4() per item, version 1, no read.            *)
StartCreate(c) ==
  /\ pc[c] = "idle"
  /\ \E values \in UpTo(MaxBatch, Payloads) :
       \E fresh \in [DOMAIN values -> Entities] :
         /\ \A k \in DOMAIN values : NewId(fresh[k])
         /\ \A k, l \in DOMAIN values : fresh[k] = fresh[l] => k = l
         /\ batch' = [batch EXCEPT ![c] =
              [k \in DOMAIN values |-> FirstVersion(fresh[k], values[k], c)]]
  /\ pc' = [pc EXCEPT ![c] = "insert"]
  /\ UNCHANGED <<docs, todo, raced>>

(* create with an entity_id: nobody looks whether the entity is there.     *)
StartCreateAs(c) ==
  /\ pc[c] = "idle"
  /\ \E e \in GivenIds, v \in Payloads :
       /\ batch' = [batch EXCEPT ![c] = <<FirstVersion(e, v, c)>>]
       /\ raced' = IF Unused(e) THEN raced ELSE raced \cup {e}
  /\ pc' = [pc EXCEPT ![c] = "insert"]
  /\ UNCHANGED <<docs, todo>>

(* update_by_entity_id, bulk_update.                                       *)
StartUpdate(c) ==
  /\ pc[c] = "idle"
  /\ \E items \in UpTo(MaxBatch, {i \in Item : i.op = "update"}) :
       todo' = [todo EXCEPT ![c] = items]
  /\ pc' = [pc EXCEPT ![c] = "scan"]
  /\ UNCHANGED <<docs, batch, raced>>

(* delete_by_entity_id, bulk_delete.                                       *)
StartDelete(c) ==
  /\ pc[c] = "idle"
  /\ \E items \in UpTo(MaxBatch, {i \in Item : i.op = "delete" /\ i.value = NoValue}) :
       todo' = [todo EXCEPT ![c] = items]
  /\ pc' = [pc EXCEPT ![c] = "scan"]
  /\ UNCHANGED <<docs, batch, raced>>

(* Mutant of Advance: insert_many runs on an empty list.                   *)
MutAdvanceInsertsNothing(c) ==
  /\ todo' = [todo EXCEPT ![c] = Tail(@)]
  /\ pc'   = [pc EXCEPT ![c] = IF Tail(todo[c]) # << >> THEN "scan" ELSE "insert"]

(* The loop goes on to the next item; after the last one the call inserts  *)
(* what it collected, or returns.                                          *)
Advance(c) ==
  /\ todo' = [todo EXCEPT ![c] = Tail(@)]
  /\ pc'   = [pc EXCEPT ![c] = IF Tail(todo[c]) # << >> THEN "scan"
                               ELSE IF batch'[c] # << >> THEN "insert"
                               ELSE "idle"]

(* Not found, deleted or unchanged: the item's result is None.             *)
SkipItem(c) ==
  /\ pc[c] = "scan"
  /\ LET item == Head(todo[c]) IN
       \/ Latest(item.entity) = {}
       \/ \E i \in Latest(item.entity) : ~Accepts(docs[i], item)
  /\ batch' = batch
  /\ Advance(c)
  /\ UNCHANGED <<docs, raced>>

(* The next version is built from the document just read.                  *)
BuildItem(c) ==
  /\ pc[c] = "scan"
  /\ LET item == Head(todo[c]) IN
       \E i \in Latest(item.entity) :
         /\ Accepts(docs[i], item)
         /\ batch' = [batch EXCEPT ![c] = Append(@, NextVersion(docs[i], item, c))]
         /\ raced' = IF \E d \in Clients : Pending(d, item.entity) # {}
                     THEN raced \cup {item.entity} ELSE raced
  /\ Advance(c)
  /\ UNCHANGED docs

(* Mutant of InsertNext: the parent is replaced instead of kept.           *)
MutInsertInPlace(c) ==
  LET h == Head(batch[c])
      parents == {i \in VersionsOf(h.entity) : docs[i].version + 1 = h.version}
  IN  /\ pc[c] = "insert"
      /\ Len(docs) < MaxDocs
      /\ docs' = IF parents = {} THEN Append(docs, h)
                 ELSE [docs EXCEPT ![CHOOSE i \in parents : TRUE] = h]
      /\ batch' = [batch EXCEPT ![c] = Tail(@)]
      /\ pc'    = [pc EXCEPT ![c] = IF Tail(batch[c]) = << >> THEN "idle" ELSE "insert"]
      /\ UNCHANGED <<todo, raced>>

(* insert_one, or the next document of an insert_many.                     *)
InsertNext(c) ==
  /\ pc[c] = "insert"
  /\ Len(docs) < MaxDocs
  /\ docs'  = Append(docs, Head(batch[c]))
  /\ batch' = [batch EXCEPT ![c] = Tail(@)]
  /\ pc'    = [pc EXCEPT ![c] = IF Tail(batch[c]) = << >> THEN "idle" ELSE "insert"]
  /\ UNCHANGED <<todo, raced>>

(* A driver error, or the death of the worker: the exception leaves the    *)
(* method and what was not inserted is gone.                               *)
Fail(c) ==
  /\ pc[c] # "idle"
  /\ pc'    = [pc EXCEPT ![c] = "idle"]
  /\ todo'  = [todo EXCEPT ![c] = << >>]
  /\ batch' = [batch EXCEPT ![c] = << >>]
  /\ UNCHANGED <<docs, raced>>

Next ==
  \E c \in Clients :
    \/ StartCreate(c)
    \/ StartCreateAs(c)
    \/ StartUpdate(c)
    \/ StartDelete(c)
    \/ SkipItem(c)
    \/ BuildItem(c)
    \/ InsertNext(c)
    \/ Fail(c)

Spec == Init /\ [][Next]_vars

-----------------------------------------------------------------------------
TypeOK ==
  /\ docs \in Seq(Document)
  /\ pc \in [Clients -> {"idle", "scan", "insert"}]
  /\ todo \in [Clients -> Seq(Item)]
  /\ batch \in [Clients -> Seq(Document)]
  /\ raced \subseteq Entities
  /\ \A c \in Clients :
       /\ pc[c] = "scan"   <=> todo[c] # << >>
       /\ pc[c] = "insert" => batch[c] # << >>
       /\ pc[c] = "idle"   => batch[c] = << >>

(* d may be the version that doc was built from: same entity and creation  *)
(* metadata, one version earlier, live, and a tombstone keeps its contents. *)
IsParent(d, doc) ==
  /\ d.entity = doc.entity
  /\ d.version + 1 = doc.version
  /\ d.creator = doc.creator
  /\ ~d.deleted
  /\ doc.deleted => doc.value = d.value

(* No gap and no orphan: whatever fails or overlaps, every stored version  *)
(* above 1 is preceded in the collection by the live version it was built  *)
(* from.                                                                   *)
Lineage ==
  \A i \in DOMAIN docs :
    docs[i].version > 1 => \E j \in 1 .. (i - 1) : IsParent(docs[j], docs[i])

(* Entities that a caller created under an id of its own while others      *)
(* wrote them, or although they were there.                                *)
Reused == GivenIds \cap raced

(* An entity is created once, however many creates run at a time.          *)
OneRoot ==
  \A i, j \in DOMAIN docs :
    /\ docs[i].entity = docs[j].entity
    /\ docs[i].version = 1
    /\ docs[j].version = 1
    /\ docs[i].entity \notin Reused
    => i = j

(* created_at and created_by never change (docs/schemas.md:67): all the    *)
(* versions of an entity agree on them, even those of racing writers,      *)
(* unless a caller created an entity that was there over again.            *)
SameCreator ==
  \A i, j \in DOMAIN docs :
    docs[i].entity = docs[j].entity /\ docs[i].entity \notin Reused
    => docs[i].creator = docs[j].creator

(* Versions of an entity are unique as long as no two read-modify-writes   *)
(* on it overlapped: the only way to a duplicated record_version is two    *)
(* writers, or two items of one batch, between a read and its insert, or a *)
(* create under the id of an entity that is there.                         *)
LinearUnlessRaced ==
  \A i, j \in DOMAIN docs :
    /\ docs[i].entity = docs[j].entity
    /\ docs[i].version = docs[j].version
    /\ docs[i].entity \notin raced
    => i = j

(* Once a delete is stored and no writes of the entity overlapped, reads   *)
(* by id answer None, for good, and nothing is about to be inserted.       *)
DeletedIsFinalUnlessRaced ==
  \A i \in DOMAIN docs :
    docs[i].deleted /\ docs[i].entity \notin raced
    => /\ Gets(docs[i].entity) = {}
       /\ \A d \in Clients : Pending(d, docs[i].entity) = {}

(* The promise of the collection.                                          *)
Tree == INSTANCE VersionTree WITH Users <- Clients
ImplementsTree == Tree!Spec

-----------------------------------------------------------------------------
(* What the documentation says and the code does not keep.                 *)

(* docs/schemas.md:66: record_version is a monotonically incrementing      *)
(* counter that increments on each update, so no two versions share one.   *)
VersionsUnique ==
  \A i, j \in DOMAIN docs :
    docs[i].entity = docs[j].entity /\ docs[i].version = docs[j].version => i = j

(* tests/test_schema_contracts.py:201: after a DELETE, GET returns 404.    *)
DeletedIsFinal ==
  \A i \in DOMAIN docs : docs[i].deleted => Gets(docs[i].entity) = {}

(* generic_crud.py:168: "Lists the latest active versions of documents".   *)
(* A list filtered by updated_by shows an entity only as it is now.        *)
ListShowsLatest ==
  \A e \in Entities, u \in Clients :
    Lists(e, {i \in DOMAIN docs : docs[i].editor = u}) \subseteq Gets(e)
=============================================================================
