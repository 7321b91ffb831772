---------------------------- MODULE VersionTree ----------------------------
(***************************************************************************)
(* What a versioned collection promises, whatever the interleaving of its  *)
(* writers: an append-only collection in which every document is either    *)
(* the first version of an entity nobody has seen, or the next version of  *)
(* a LIVE document that is already stored, from which it inherits the      *)
(* entity and the creation metadata.  The versions of an entity form a     *)
(* tree: the promise does not say that the tree is a line, and an entity   *)
(* whose id its creators choose may have several roots.                    *)
(*                                                                         *)
(* src/slip_stream/core/domain/base.py:14 "every write creates a new       *)
(* document version - no in-place mutations".                              *)
(***************************************************************************)
EXTENDS Naturals, Sequences

CONSTANTS
  Users,     \* who may write: created_by, updated_by, deleted_by
  Entities,  \* values of entity_id
  Payloads,  \* abstract contents of the schema's own fields
  GivenIds   \* entity_ids that callers of create choose

VARIABLE
  docs       \* the collection, in insertion order

FirstVersion(e, v, u) ==
  [entity |-> e, version |-> 1, value |-> v, deleted |-> FALSE,
   creator |-> u, editor |-> u]

Init == docs = << >>

AddRoot(e, v, u) ==
  /\ e \in GivenIds \/ \A i \in DOMAIN docs : docs[i].entity # e
  /\ docs' = Append(docs, FirstVersion(e, v, u))

(* A new version of the live document docs[p], written by u.               *)
AddVersion(p, v, u) ==
  /\ ~docs[p].deleted
  /\ docs' = Append(docs, [docs[p] EXCEPT !.version = @ + 1, !.value = v,
                                          !.editor = u])

(* A tombstone keeps the contents of the document it deletes.              *)
AddTombstone(p, u) ==
  /\ ~docs[p].deleted
  /\ docs' = Append(docs, [docs[p] EXCEPT !.version = @ + 1, !.editor = u,
                                          !.deleted = TRUE])

(* Nothing happens to the collection but that a document is stored.        *)
Next ==
  /\ docs' # docs
  /\ \E u \in Users :
       \/ \E e \in Entities, v \in Payloads : AddRoot(e, v, u)
       \/ \E p \in DOMAIN docs, v \in Payloads : AddVersion(p, v, u)
       \/ \E p \in DOMAIN docs : AddTombstone(p, u)

Spec == Init /\ [][Next]_docs
=============================================================================
