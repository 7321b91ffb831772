------------------------ MODULE VersionedCRUD_proofs ------------------------
(* Proofs about VersionedCRUD, for every set of clients, entities and      *)
(* contents and for every bound.                                           *)
EXTENDS VersionedCRUD, TLAPS

(* A document waiting to be inserted is a next version of a document that  *)
(* is already stored ...                                                   *)
PendingHasParent ==
  \A c \in Clients : \A k \in DOMAIN batch[c] :
    batch[c][k].version > 1 => \E j \in DOMAIN docs : IsParent(docs[j], batch[c][k])

(* ... or a first version, of an entity that appears nowhere else unless   *)
(* its creators chose its id.                                              *)
PendingIsFirst ==
  \A c \in Clients : \A k \in DOMAIN batch[c] :
    batch[c][k].version = 1 =>
      ~batch[c][k].deleted /\ batch[c][k].creator = batch[c][k].editor

PendingRootIsAlone ==
  \A c \in Clients : \A k \in DOMAIN batch[c] :
    batch[c][k].version = 1 /\ batch[c][k].entity \notin Reused =>
      /\ VersionsOf(batch[c][k].entity) = {}
      /\ \A d \in Clients : \A l \in DOMAIN batch[d] :
           batch[d][l].entity = batch[c][k].entity => d = c /\ l = k

(* While the writes of an entity do not overlap, at most one document of   *)
(* it is waiting, and its version is above every stored one.               *)
PendingIsNextUnlessRaced ==
  \A c \in Clients : \A k \in DOMAIN batch[c] :
    batch[c][k].entity \notin raced =>
      /\ \A i \in VersionsOf(batch[c][k].entity) : docs[i].version < batch[c][k].version
      /\ \A d \in Clients : \A l \in DOMAIN batch[d] :
           batch[d][l].entity = batch[c][k].entity => d = c /\ l = k

(* A stored tombstone of such an entity is its last version, and nothing   *)
(* is waiting.                                                             *)
TombstoneIsLastUnlessRaced ==
  \A i \in DOMAIN docs :
    docs[i].deleted /\ docs[i].entity \notin raced
    => /\ \A j \in VersionsOf(docs[i].entity) : docs[j].version <= docs[i].version
       /\ \A d \in Clients : Pending(d, docs[i].entity) = {}

StoreInv   == Lineage /\ OneRoot /\ SameCreator
PendingInv == PendingHasParent /\ PendingIsFirst /\ PendingRootIsAlone
RaceInv    == LinearUnlessRaced /\ PendingIsNextUnlessRaced /\ TombstoneIsLastUnlessRaced

IInv == TypeOK /\ StoreInv /\ PendingInv /\ RaceInv

-----------------------------------------------------------------------------
(* Sequences.                                                              *)

(* Appending adds one element at the end and keeps the others in place.    *)
LEMMA AppendFacts ==
  ASSUME NEW S, NEW s \in Seq(S), NEW x \in S
  PROVE  /\ Append(s, x) \in Seq(S)
         /\ Append(s, x) # << >>
         /\ Len(Append(s, x)) = Len(s) + 1
         /\ DOMAIN Append(s, x) = DOMAIN s \cup {Len(s) + 1}
         /\ \A i \in DOMAIN s : i # Len(s) + 1 /\ Append(s, x)[i] = s[i]
         /\ Append(s, x)[Len(s) + 1] = x
OBVIOUS

(* The tail of a sequence holds its elements but the first, one place down. *)
LEMMA TailFacts ==
  ASSUME NEW S, NEW s \in Seq(S), s # << >>
  PROVE  /\ Head(s) \in S
         /\ Head(s) = s[1]
         /\ 1 \in DOMAIN s
         /\ Tail(s) \in Seq(S)
         /\ \A i \in DOMAIN Tail(s) : /\ i + 1 \in DOMAIN s
                                    /\ i + 1 # 1
                                    /\ Tail(s)[i] = s[i + 1]
OBVIOUS

-----------------------------------------------------------------------------
(* Types.                                                                  *)

(* A built document is a document.                                         *)
LEMMA NextVersionType ==
  ASSUME NEW doc \in Document, NEW item \in Item, NEW user \in Clients
  PROVE  NextVersion(doc, item, user) \in Document
<1>1. \A n \in Nat \ {0}, v \in Payloads, del \in BOOLEAN :
        [doc EXCEPT !.version = n, !.value = v, !.deleted = del, !.editor = user]
          \in Document
  BY DEF Document
<1>2. (item.op = "delete") \in BOOLEAN
  OBVIOUS
<1>3. (IF item.op = "update" /\ item.value # NoValue THEN item.value ELSE doc.value)
        \in Payloads
  BY DEF Document, Item
<1>4. doc.version + 1 \in Nat \ {0}
  BY DEF Document
<1> QED BY <1>1, <1>2, <1>3, <1>4 DEF NextVersion

LEMMA FirstVersionType ==
  ASSUME NEW e \in Entities, NEW v \in Payloads, NEW user \in Clients
  PROVE  FirstVersion(e, v, user) \in Document
BY SMT DEF FirstVersion, Document

(* A first version is live, and its creator is its editor.                 *)
LEMMA FirstVersionFacts ==
  ASSUME NEW e, NEW v, NEW user
  PROVE  LET d == FirstVersion(e, v, user)
         IN  /\ d.entity = e /\ d.version = 1
             /\ ~d.deleted
             /\ d.creator = d.editor
<1>1. ~FirstVersion(e, v, user).deleted
  BY Zenon DEF FirstVersion
<1>2. /\ FirstVersion(e, v, user).entity = e /\ FirstVersion(e, v, user).version = 1
      /\ FirstVersion(e, v, user).creator = FirstVersion(e, v, user).editor
  BY DEF FirstVersion
<1> QED BY <1>1, <1>2

LEMMA LatestIsStored ==
  ASSUME NEW e, NEW i \in Latest(e)
  PROVE  i \in DOMAIN docs /\ docs[i].entity = e
         /\ \A j \in VersionsOf(e) : docs[j].version <= docs[i].version
BY DEF Latest, LatestAmong, VersionsOf

LEMMA StoredType ==
  ASSUME TypeOK, NEW i \in DOMAIN docs
  PROVE  docs[i] \in Document /\ docs[i].version \in Nat \ {0}
<1>1. docs[i] \in Document
  BY DEF TypeOK
<1> QED BY <1>1 DEF Document

(* A batch of n first versions is a nonempty sequence of documents.        *)
LEMMA CreateType ==
  ASSUME NEW user \in Clients,
         NEW values \in UpTo(MaxBatch, Payloads),
         NEW fresh \in [DOMAIN values -> Entities],
         NEW b,
         b = [k \in DOMAIN values |-> FirstVersion(fresh[k], values[k], user)]
  PROVE  b \in Seq(Document) /\ b # << >>
<1>1. PICK n \in 1 .. MaxBatch : values \in [1 .. n -> Payloads]
  BY DEF UpTo
<1>2. \A k \in 1 .. n : b[k] \in Document
  BY <1>1, FirstVersionType
<1>3. b \in [1 .. n -> Document] /\ n \in Nat \ {0}
  BY <1>1, <1>2, MaxBatchAssumption
<1>4. b \in Seq(Document)
  BY <1>3
<1>5. b # << >>
  BY <1>3
<1> QED BY <1>4, <1>5

LEMMA ItemsType ==
  ASSUME NEW S, NEW T, S \subseteq T, NEW items \in UpTo(MaxBatch, S)
  PROVE  items \in Seq(T) /\ items # << >>
<1>1. PICK n \in 1 .. MaxBatch : items \in [1 .. n -> S]
  BY DEF UpTo
<1>2. items \in [1 .. n -> T] /\ n \in Nat \ {0}
  BY <1>1, MaxBatchAssumption
<1> QED BY <1>2

LEMMA TypeInit == Init => TypeOK
BY SMT DEF Init, TypeOK, Document, Item

(* Leaving an item: the rest of the call stays well-typed when the client's *)
(* batch does.                                                             *)
LEMMA AdvanceType ==
  ASSUME TypeOK, NEW c \in Clients, pc[c] = "scan", Advance(c),
         batch' \in [Clients -> Seq(Document)],
         \A d \in Clients \ {c} : batch'[d] = batch[d],
         UNCHANGED <<docs>>, raced' \subseteq Entities
  PROVE  TypeOK'
<1> USE DEF TypeOK
<1>1. todo[c] \in Seq(Item) /\ todo[c] # << >>
  OBVIOUS
<1>2. Tail(todo[c]) \in Seq(Item)
  BY <1>1
<1>3. todo' \in [Clients -> Seq(Item)] /\ pc' \in [Clients -> {"idle", "scan", "insert"}]
  BY <1>2 DEF Advance
<1>4. ASSUME NEW d \in Clients
      PROVE  /\ pc'[d] = "scan"   <=> todo'[d] # << >>
             /\ pc'[d] = "insert" => batch'[d] # << >>
             /\ pc'[d] = "idle"   => batch'[d] = << >>
  <2>1. CASE d = c
    BY <2>1 DEF Advance
  <2>2. CASE d # c
    BY <2>2 DEF Advance
  <2> QED BY <2>1, <2>2
<1> QED BY <1>3, <1>4

LEMMA TypeStep == TypeOK /\ [Next]_vars => TypeOK'
<1> SUFFICES ASSUME TypeOK, [Next]_vars PROVE TypeOK'
  OBVIOUS
<1> USE DEF TypeOK
<1>1. ASSUME NEW c \in Clients, StartCreate(c) PROVE TypeOK'
  <2>1. PICK values \in UpTo(MaxBatch, Payloads) :
          \E fresh \in [DOMAIN values -> Entities] :
            batch' = [batch EXCEPT ![c] =
              [k \in DOMAIN values |-> FirstVersion(fresh[k], values[k], c)]]
    BY <1>1 DEF StartCreate
  <2>2. PICK fresh \in [DOMAIN values -> Entities] :
          batch' = [batch EXCEPT ![c] =
            [k \in DOMAIN values |-> FirstVersion(fresh[k], values[k], c)]]
    BY <2>1
  <2> DEFINE b == [k \in DOMAIN values |-> FirstVersion(fresh[k], values[k], c)]
  <2>3. b \in Seq(Document) /\ b # << >>
    BY CreateType
  <2> HIDE DEF b
  <2>4. batch' = [batch EXCEPT ![c] = b]
    BY <2>2 DEF b
  <2> QED BY <1>1, <2>3, <2>4 DEF StartCreate
<1>0. ASSUME NEW c \in Clients, StartCreateAs(c) PROVE TypeOK'
  <2>1. PICK e \in GivenIds, v \in Payloads :
          /\ batch' = [batch EXCEPT ![c] = <<FirstVersion(e, v, c)>>]
          /\ raced' \subseteq raced \cup {e}
    BY <1>0 DEF StartCreateAs
  <2>2. e \in Entities
    BY GivenIdsAssumption
  <2> DEFINE b == <<FirstVersion(e, v, c)>>
  <2>3. b \in Seq(Document) /\ b # << >>
    BY <2>2, FirstVersionType
  <2> HIDE DEF b
  <2>4. batch' = [batch EXCEPT ![c] = b] /\ raced' \subseteq Entities
    BY <2>1, <2>2 DEF b
  <2> QED BY <1>0, <2>3, <2>4 DEF StartCreateAs
<1>2. ASSUME NEW c \in Clients, StartUpdate(c) PROVE TypeOK'
  <2>1. PICK items \in UpTo(MaxBatch, {i \in Item : i.op = "update"}) :
          todo' = [todo EXCEPT ![c] = items]
    BY <1>2 DEF StartUpdate
  <2>2. items \in Seq(Item) /\ items # << >>
    BY ItemsType
  <2> QED BY <1>2, <2>1, <2>2 DEF StartUpdate
<1>3. ASSUME NEW c \in Clients, StartDelete(c) PROVE TypeOK'
  <2>1. PICK items \in UpTo(MaxBatch, {i \in Item : i.op = "delete" /\ i.value = NoValue}) :
          todo' = [todo EXCEPT ![c] = items]
    BY <1>3 DEF StartDelete
  <2>2. items \in Seq(Item) /\ items # << >>
    BY ItemsType
  <2> QED BY <1>3, <2>1, <2>2 DEF StartDelete
<1>4. ASSUME NEW c \in Clients, SkipItem(c) PROVE TypeOK'
  BY <1>4, AdvanceType DEF SkipItem
<1>5. ASSUME NEW c \in Clients, BuildItem(c) PROVE TypeOK'
  <2>1. Head(todo[c]) \in Item
    BY <1>5 DEF BuildItem
  <2>2. PICK i \in Latest(Head(todo[c]).entity) :
          batch' = [batch EXCEPT ![c] = Append(@, NextVersion(docs[i], Head(todo[c]), c))]
    BY <1>5 DEF BuildItem
  <2>3. docs[i] \in Document
    BY LatestIsStored
  <2>4. NextVersion(docs[i], Head(todo[c]), c) \in Document
    BY <2>1, <2>3, NextVersionType
  <2>5. batch' \in [Clients -> Seq(Document)] /\ \A d \in Clients \ {c} : batch'[d] = batch[d]
    BY <2>2, <2>4
  <2>6. raced' \subseteq Entities
    BY <1>5, <2>1 DEF BuildItem, Item
  <2> QED BY <1>5, <2>5, <2>6, AdvanceType DEF BuildItem
<1>6. ASSUME NEW c \in Clients, InsertNext(c) PROVE TypeOK'
  <2>1. Head(batch[c]) \in Document /\ Tail(batch[c]) \in Seq(Document)
    BY <1>6 DEF InsertNext
  <2>2. docs' \in Seq(Document)
    BY <1>6, <2>1 DEF InsertNext
  <2> QED BY <1>6, <2>1, <2>2 DEF InsertNext
<1>7. ASSUME NEW c \in Clients, Fail(c) PROVE TypeOK'
  BY <1>7 DEF Fail
<1>8. CASE UNCHANGED vars
  BY <1>8 DEF vars
<1> QED BY <1>0, <1>1, <1>2, <1>3, <1>4, <1>5, <1>6, <1>7, <1>8 DEF Next

(* Every reachable state is well-typed: a client that inserts has          *)
(* something to insert, an idle one holds nothing back.                    *)
THEOREM TypeCorrect == Spec => []TypeOK
BY TypeInit, TypeStep, PTL DEF Spec

-----------------------------------------------------------------------------
(* The inductive invariant, one action at a time.                          *)

LEMMA IInvInit == Init => IInv
<1> SUFFICES ASSUME Init PROVE IInv
  OBVIOUS
<1>1. TypeOK
  BY TypeInit
<1>2. DOMAIN docs = {} /\ \A c \in Clients : DOMAIN batch[c] = {}
  BY DEF Init
<1> QED
  BY <1>1, <1>2 DEF IInv, StoreInv, PendingInv, RaceInv, Lineage, OneRoot, SameCreator,
     PendingHasParent, PendingIsFirst, PendingRootIsAlone, LinearUnlessRaced, PendingIsNextUnlessRaced,
     TombstoneIsLastUnlessRaced

(* A step that leaves the collection, the batches and the history alone.   *)
LEMMA QuietStep ==
  ASSUME IInv, TypeOK', UNCHANGED <<docs, batch, raced>>
  PROVE  IInv'
<1>1. StoreInv'
  BY DEF IInv, StoreInv, Lineage, OneRoot, SameCreator, Reused, IsParent
<1>2. PendingInv'
  BY DEF IInv, PendingInv, PendingHasParent, PendingIsFirst, PendingRootIsAlone, Reused, VersionsOf, IsParent
<1>3. RaceInv'
  BY DEF IInv, RaceInv, LinearUnlessRaced, PendingIsNextUnlessRaced,
     TombstoneIsLastUnlessRaced, VersionsOf, Pending
<1> QED BY <1>1, <1>2, <1>3 DEF IInv

(* A failed call only forgets documents.                                   *)
LEMMA FailStep ==
  ASSUME IInv, TypeOK', NEW c \in Clients, Fail(c)
  PROVE  IInv'
<1>1. \A d \in Clients : \A k \in DOMAIN batch'[d] :
        k \in DOMAIN batch[d] /\ batch'[d][k] = batch[d][k]
  BY DEF Fail, IInv, TypeOK
<1>2. UNCHANGED <<docs, raced>>
  BY DEF Fail
<1>3. StoreInv'
  BY <1>2 DEF IInv, StoreInv, Lineage, OneRoot, SameCreator, Reused, IsParent
<1>4. PendingHasParent'
  BY <1>1, <1>2 DEF IInv, PendingInv, PendingHasParent, IsParent
<1>5. PendingIsFirst' /\ PendingRootIsAlone'
  BY <1>1, <1>2 DEF IInv, PendingInv, PendingIsFirst, PendingRootIsAlone, Reused, VersionsOf
<1>6. LinearUnlessRaced'
  BY <1>2 DEF IInv, RaceInv, LinearUnlessRaced
<1>7. PendingIsNextUnlessRaced'
  BY <1>1, <1>2 DEF IInv, RaceInv, PendingIsNextUnlessRaced, VersionsOf
<1>8. TombstoneIsLastUnlessRaced'
  BY <1>1, <1>2 DEF IInv, RaceInv, TombstoneIsLastUnlessRaced, VersionsOf, Pending
<1> QED BY <1>3, <1>4, <1>5, <1>6, <1>7, <1>8 DEF IInv, PendingInv, RaceInv

(* create: the new documents are first versions of unused entities.        *)
LEMMA CreateStep ==
  ASSUME IInv, TypeOK', NEW c \in Clients, StartCreate(c)
  PROVE  IInv'
<1>1. UNCHANGED <<docs, raced>> /\ batch[c] = << >>
  BY DEF StartCreate, IInv, TypeOK
<1>0. PICK values \in UpTo(MaxBatch, Payloads) :
        \E fresh \in [DOMAIN values -> Entities] :
          /\ \A k \in DOMAIN values : NewId(fresh[k])
          /\ \A k, l \in DOMAIN values : fresh[k] = fresh[l] => k = l
          /\ batch' = [batch EXCEPT ![c] =
               [k \in DOMAIN values |-> FirstVersion(fresh[k], values[k], c)]]
  BY DEF StartCreate
<1>2. PICK fresh \in [DOMAIN values -> Entities] :
        /\ \A k \in DOMAIN values : NewId(fresh[k])
        /\ \A k, l \in DOMAIN values : fresh[k] = fresh[l] => k = l
        /\ batch' = [batch EXCEPT ![c] =
             [k \in DOMAIN values |-> FirstVersion(fresh[k], values[k], c)]]
  BY <1>0
<1>3. /\ DOMAIN batch'[c] = DOMAIN values
      /\ \A k \in DOMAIN values : batch'[c][k] = FirstVersion(fresh[k], values[k], c)
      /\ \A d \in Clients \ {c} : batch'[d] = batch[d]
  BY <1>2 DEF IInv, TypeOK
<1>4. \A k \in DOMAIN values :
        /\ batch'[c][k].entity = fresh[k] /\ batch'[c][k].version = 1
        /\ ~batch'[c][k].deleted /\ batch'[c][k].creator = batch'[c][k].editor
  BY <1>3, FirstVersionFacts
<1>5. \A k \in DOMAIN values :
        /\ VersionsOf(fresh[k]) = {}
        /\ \A d \in Clients : \A l \in DOMAIN batch[d] : batch[d][l].entity # fresh[k]
  BY <1>2 DEF NewId, Unused, Pending
<1>6. StoreInv'
  BY <1>1 DEF IInv, StoreInv, Lineage, OneRoot, SameCreator, Reused, IsParent
<1>7. PendingHasParent'
  <2> SUFFICES ASSUME NEW d \in Clients, NEW k \in DOMAIN batch'[d], batch'[d][k].version > 1
               PROVE  \E j \in DOMAIN docs' : IsParent(docs'[j], batch'[d][k])
    BY DEF PendingHasParent, IsParent
  <2>1. d # c
    BY <1>3, <1>4
  <2> QED BY <2>1, <1>1, <1>3 DEF IInv, PendingInv, PendingHasParent, IsParent
<1>8. \A d, f \in Clients : \A k \in DOMAIN batch'[d], l \in DOMAIN batch'[f] :
        batch'[d][k].entity = batch'[f][l].entity /\ (d = c \/ f = c) => d = f /\ k = l
  BY <1>2, <1>3, <1>4, <1>5
<1>13. PendingIsFirst'
  BY <1>3, <1>4 DEF IInv, PendingInv, PendingIsFirst
<1>9. PendingRootIsAlone'
  <2> SUFFICES ASSUME NEW d \in Clients, NEW k \in DOMAIN batch'[d], batch'[d][k].version = 1,
                      batch'[d][k].entity \notin Reused
               PROVE  /\ VersionsOf(batch'[d][k].entity) = {}
                      /\ \A f \in Clients : \A l \in DOMAIN batch'[f] :
                           batch'[f][l].entity = batch'[d][k].entity => f = d /\ l = k
    BY <1>1 DEF PendingRootIsAlone, VersionsOf, Reused
  <2>1. CASE d = c
    BY <2>1, <1>3, <1>4, <1>5, <1>8
  <2>2. CASE d # c
    <3>1. batch'[d] = batch[d]
      BY <2>2, <1>3
    <3>2. VersionsOf(batch'[d][k].entity) = {}
      BY <3>1 DEF IInv, PendingInv, PendingRootIsAlone
    <3>3. ASSUME NEW f \in Clients, NEW l \in DOMAIN batch'[f],
                 batch'[f][l].entity = batch'[d][k].entity
          PROVE  f = d /\ l = k
      <4>1. CASE f = c
        BY <4>1, <3>3, <1>8
      <4>2. CASE f # c
        BY <4>2, <3>1, <3>3, <1>3 DEF IInv, PendingInv, PendingRootIsAlone
      <4> QED BY <4>1, <4>2
    <3> QED BY <3>2, <3>3
  <2> QED BY <2>1, <2>2
<1>10. LinearUnlessRaced'
  BY <1>1 DEF IInv, RaceInv, LinearUnlessRaced
<1>11. PendingIsNextUnlessRaced'
  <2> SUFFICES ASSUME NEW d \in Clients, NEW k \in DOMAIN batch'[d],
                      batch'[d][k].entity \notin raced
               PROVE  /\ \A i \in VersionsOf(batch'[d][k].entity) :
                           docs[i].version < batch'[d][k].version
                      /\ \A f \in Clients : \A l \in DOMAIN batch'[f] :
                           batch'[f][l].entity = batch'[d][k].entity => f = d /\ l = k
    BY <1>1 DEF PendingIsNextUnlessRaced, VersionsOf
  <2>1. CASE d = c
    BY <2>1, <1>3, <1>4, <1>5, <1>8
  <2>2. CASE d # c
    BY <2>2, <1>3, <1>8 DEF IInv, RaceInv, PendingIsNextUnlessRaced
  <2> QED BY <2>1, <2>2
<1>12. TombstoneIsLastUnlessRaced'
  <2> SUFFICES ASSUME NEW i \in DOMAIN docs, docs[i].deleted, docs[i].entity \notin raced
               PROVE  /\ \A j \in VersionsOf(docs[i].entity) : docs[j].version <= docs[i].version
                      /\ \A d \in Clients : \A l \in DOMAIN batch'[d] :
                           batch'[d][l].entity # docs[i].entity
    BY <1>1 DEF TombstoneIsLastUnlessRaced, VersionsOf, Pending
  <2>1. i \in VersionsOf(docs[i].entity)
    BY DEF VersionsOf
  <2> QED BY <2>1, <1>3, <1>4, <1>5 DEF IInv, RaceInv, TombstoneIsLastUnlessRaced, Pending
<1> QED BY <1>6, <1>7, <1>9, <1>10, <1>11, <1>12, <1>13 DEF IInv, PendingInv, RaceInv

(* create with an entity_id: a first version too, of any entity with a     *)
(* chosen id; from then on the entity counts as raced if it was in use.    *)
LEMMA CreateAsStep ==
  ASSUME IInv, TypeOK', NEW c \in Clients, StartCreateAs(c)
  PROVE  IInv'
<1>1. UNCHANGED docs /\ batch[c] = << >>
  BY DEF StartCreateAs, IInv, TypeOK
<1>2. PICK e \in GivenIds, v \in Payloads :
        /\ batch' = [batch EXCEPT ![c] = <<FirstVersion(e, v, c)>>]
        /\ raced' = IF Unused(e) THEN raced ELSE raced \cup {e}
  BY DEF StartCreateAs
<1> DEFINE new == FirstVersion(e, v, c)
<1>3. new.entity = e /\ new.version = 1 /\ ~new.deleted /\ new.creator = new.editor
  BY FirstVersionFacts
<1> HIDE DEF new
<1>4. batch'[c] = <<new>> /\ \A d \in Clients \ {c} : batch'[d] = batch[d]
  BY <1>2 DEF IInv, TypeOK, new
(* Every document of the new batches is new or was there, at its place.    *)
<1>5. \A d \in Clients : \A k \in DOMAIN batch'[d] :
        \/ d = c /\ k = 1 /\ batch'[d][k] = new
        \/ d # c /\ k \in DOMAIN batch[d] /\ batch'[d][k] = batch[d][k]
  BY <1>4
<1>6. e \notin raced' => /\ VersionsOf(e) = {}
                        /\ \A d \in Clients : \A k \in DOMAIN batch[d] : batch[d][k].entity # e
  BY <1>2 DEF Unused, Pending
<1>7. raced \subseteq raced' /\ Reused \subseteq Reused' /\ (e \notin Reused' => e \notin raced')
  BY <1>2 DEF Reused
<1>8. StoreInv'
  BY <1>1, <1>7 DEF IInv, StoreInv, Lineage, OneRoot, SameCreator, IsParent
<1>9. PendingHasParent' /\ PendingIsFirst'
  BY <1>1, <1>3, <1>5 DEF IInv, PendingInv, PendingHasParent, PendingIsFirst, IsParent
(* Unless it counts as raced, nothing else of an entity waits with new.    *)
<1>10. ASSUME NEW d \in Clients, NEW k \in DOMAIN batch'[d],
              NEW f \in Clients, NEW l \in DOMAIN batch'[f],
              batch'[f][l].entity = batch'[d][k].entity, d = c \/ f = c,
              batch'[d][k].entity \notin raced'
       PROVE  f = d /\ l = k
  BY <1>3, <1>5, <1>6, <1>10
<1>11. PendingRootIsAlone'
  <2> SUFFICES ASSUME NEW d \in Clients, NEW k \in DOMAIN batch'[d], batch'[d][k].version = 1,
                      batch'[d][k].entity \notin Reused'
               PROVE  /\ VersionsOf(batch'[d][k].entity) = {}
                      /\ \A f \in Clients : \A l \in DOMAIN batch'[f] :
                           batch'[f][l].entity = batch'[d][k].entity => f = d /\ l = k
    BY <1>1 DEF PendingRootIsAlone, VersionsOf
  <2>1. CASE d = c
    <3>1. batch'[d][k].entity = e /\ e \notin raced'
      BY <2>1, <1>3, <1>5, <1>7
    <3> QED BY <2>1, <3>1, <1>6, <1>10
  <2>2. CASE d # c
    <3>1. /\ k \in DOMAIN batch[d] /\ batch'[d][k] = batch[d][k]
          /\ batch[d][k].entity \notin Reused
      BY <2>2, <1>5, <1>7
    <3>2. /\ VersionsOf(batch[d][k].entity) = {}
          /\ \A f \in Clients : \A l \in DOMAIN batch[f] :
               batch[f][l].entity = batch[d][k].entity => f = d /\ l = k
      BY <2>2, <3>1 DEF IInv, PendingInv, PendingRootIsAlone
    <3>3. batch[d][k].entity # e
      <4> SUFFICES ASSUME batch[d][k].entity = e PROVE FALSE
        OBVIOUS
      <4>1. e \notin raced'
        BY <3>1, <1>7
      <4> QED BY <4>1, <3>1, <1>6
    <3> QED BY <3>1, <3>2, <3>3, <1>3, <1>5
  <2> QED BY <2>1, <2>2
<1>12. LinearUnlessRaced'
  BY <1>1, <1>7 DEF IInv, RaceInv, LinearUnlessRaced
<1>13. PendingIsNextUnlessRaced'
  <2> SUFFICES ASSUME NEW d \in Clients, NEW k \in DOMAIN batch'[d],
                      batch'[d][k].entity \notin raced'
               PROVE  /\ \A i \in VersionsOf(batch'[d][k].entity) :
                           docs[i].version < batch'[d][k].version
                      /\ \A f \in Clients : \A l \in DOMAIN batch'[f] :
                           batch'[f][l].entity = batch'[d][k].entity => f = d /\ l = k
    BY <1>1 DEF PendingIsNextUnlessRaced, VersionsOf
  <2>1. CASE d = c
    <3>1. VersionsOf(batch'[d][k].entity) = {}
      BY <2>1, <1>3, <1>5, <1>6
    <3> QED BY <2>1, <3>1, <1>10
  <2>2. CASE d # c
    <3>1. /\ k \in DOMAIN batch[d] /\ batch'[d][k] = batch[d][k]
          /\ batch[d][k].entity \notin raced
      BY <2>2, <1>5, <1>7
    <3>2. /\ \A i \in VersionsOf(batch[d][k].entity) : docs[i].version < batch[d][k].version
          /\ \A f \in Clients : \A l \in DOMAIN batch[f] :
               batch[f][l].entity = batch[d][k].entity => f = d /\ l = k
      BY <3>1 DEF IInv, RaceInv, PendingIsNextUnlessRaced
    <3>3. ASSUME NEW f \in Clients, NEW l \in DOMAIN batch'[f],
                 batch'[f][l].entity = batch'[d][k].entity
          PROVE  f = d /\ l = k
      <4>1. CASE f = c
        BY <4>1, <3>3, <1>10
      <4>2. CASE f # c
        BY <4>2, <3>1, <3>2, <3>3, <1>5
      <4> QED BY <4>1, <4>2
    <3> QED BY <3>1, <3>2, <3>3
  <2> QED BY <2>1, <2>2
<1>14. TombstoneIsLastUnlessRaced'
  <2> SUFFICES ASSUME NEW i \in DOMAIN docs, docs[i].deleted, docs[i].entity \notin raced'
               PROVE  /\ \A j \in VersionsOf(docs[i].entity) : docs[j].version <= docs[i].version
                      /\ \A d \in Clients : \A l \in DOMAIN batch'[d] :
                           batch'[d][l].entity # docs[i].entity
    BY <1>1 DEF TombstoneIsLastUnlessRaced, VersionsOf, Pending
  <2>1. i \in VersionsOf(docs[i].entity) /\ docs[i].entity \notin raced
    BY <1>7 DEF VersionsOf
  <2>2. docs[i].entity # e
    BY <2>1, <1>6
  <2>3. /\ \A j \in VersionsOf(docs[i].entity) : docs[j].version <= docs[i].version
        /\ \A d \in Clients : \A l \in DOMAIN batch[d] : batch[d][l].entity # docs[i].entity
    BY <2>1 DEF IInv, RaceInv, TombstoneIsLastUnlessRaced, Pending
  <2> QED BY <2>2, <2>3, <1>3, <1>5
<1> QED BY <1>8, <1>9, <1>11, <1>12, <1>13, <1>14 DEF IInv, PendingInv, RaceInv

(* update, delete: the new document is the next version of a stored one.   *)
LEMMA BuildStep ==
  ASSUME IInv, TypeOK', NEW c \in Clients, BuildItem(c)
  PROVE  IInv'
<1> DEFINE item == Head(todo[c])
           e    == item.entity
           n    == Len(batch[c]) + 1
<1>1. item \in Item /\ UNCHANGED docs
  BY DEF BuildItem, IInv, TypeOK
<1>2. PICK i \in Latest(e) :
        /\ Accepts(docs[i], item)
        /\ batch' = [batch EXCEPT ![c] = Append(@, NextVersion(docs[i], item, c))]
        /\ raced' = IF \E d \in Clients : Pending(d, e) # {}
                    THEN raced \cup {e} ELSE raced
  BY DEF BuildItem
<1> DEFINE new == NextVersion(docs[i], item, c)
<1>3. /\ i \in DOMAIN docs /\ docs[i].entity = e /\ docs[i] \in Document /\ ~docs[i].deleted
      /\ \A j \in VersionsOf(e) : docs[j].version <= docs[i].version
      /\ i \in VersionsOf(e)
  BY <1>2, LatestIsStored DEF IInv, TypeOK, Accepts, VersionsOf
<1>4. new \in Document
  BY <1>1, <1>3, NextVersionType
<1>5. new.version = docs[i].version + 1 /\ new.entity = e /\ IsParent(docs[i], new)
  <2>1. new.version = docs[i].version + 1 /\ new.entity = e /\ new.creator = docs[i].creator
    BY <1>3 DEF NextVersion, Document
  <2>2. new.deleted = (item.op = "delete")
    BY <1>3 DEF NextVersion, Document
  <2>3. item.op = "delete" => new.value = docs[i].value
    BY <1>3 DEF NextVersion, Document
  <2> QED BY <2>1, <2>2, <2>3, <1>3 DEF IsParent
<1> HIDE DEF new
<1>6. /\ batch'[c] = Append(batch[c], new)
      /\ DOMAIN batch'[c] = DOMAIN batch[c] \cup {n}
      /\ batch'[c][n] = new
      /\ \A k \in DOMAIN batch[c] : k # n /\ batch'[c][k] = batch[c][k]
      /\ \A d \in Clients \ {c} : batch'[d] = batch[d]
  <2>1. batch'[c] = Append(batch[c], new) /\ \A d \in Clients \ {c} : batch'[d] = batch[d]
    BY <1>2 DEF IInv, TypeOK, new
  <2>2. batch[c] \in Seq(Document)
    BY DEF IInv, TypeOK
  <2> QED BY <2>1, <2>2, <1>4, AppendFacts
<1> HIDE DEF n
(* Every document of the new batches is new or was there, at its place.    *)
<1>7. \A d \in Clients : \A k \in DOMAIN batch'[d] :
        \/ d = c /\ k = n /\ batch'[d][k] = new
        \/ k \in DOMAIN batch[d] /\ batch'[d][k] = batch[d][k]
  BY <1>6
<1>8. e \notin raced' => \A d \in Clients : \A k \in DOMAIN batch[d] : batch[d][k].entity # e
  BY <1>2 DEF Pending
<1>9. raced \subseteq raced'
  BY <1>2
<1>10. StoreInv'
  BY <1>1, <1>9 DEF IInv, StoreInv, Lineage, OneRoot, SameCreator, Reused, IsParent
<1>16. PendingIsFirst'
  <2>1. new.version # 1
    BY <1>3, <1>5 DEF Document
  <2> QED BY <2>1, <1>7 DEF IInv, PendingInv, PendingIsFirst
<1>11. PendingHasParent'
  BY <1>1, <1>3, <1>5, <1>7 DEF IInv, PendingInv, PendingHasParent, IsParent
<1>12. PendingRootIsAlone'
  <2> SUFFICES ASSUME NEW d \in Clients, NEW k \in DOMAIN batch'[d], batch'[d][k].version = 1,
                      batch'[d][k].entity \notin Reused
               PROVE  /\ VersionsOf(batch'[d][k].entity) = {}
                      /\ \A f \in Clients : \A l \in DOMAIN batch'[f] :
                           batch'[f][l].entity = batch'[d][k].entity => f = d /\ l = k
    BY <1>1, <1>9 DEF PendingRootIsAlone, VersionsOf, Reused
  <2>1. new.version # 1
    BY <1>3, <1>5 DEF Document
  <2>2. k \in DOMAIN batch[d] /\ batch'[d][k] = batch[d][k]
    BY <2>1, <1>7
  <2>3. /\ VersionsOf(batch[d][k].entity) = {}
        /\ \A f \in Clients : \A l \in DOMAIN batch[f] :
             batch[f][l].entity = batch[d][k].entity => f = d /\ l = k
    BY <2>2 DEF IInv, PendingInv, PendingRootIsAlone
  <2>4. batch[d][k].entity # e
    BY <2>3, <1>3
  <2>5. ASSUME NEW f \in Clients, NEW l \in DOMAIN batch'[f],
               batch'[f][l].entity = batch'[d][k].entity
        PROVE  f = d /\ l = k
    BY <2>2, <2>3, <2>4, <2>5, <1>5, <1>7
  <2> QED BY <2>2, <2>3, <2>5
<1>13. LinearUnlessRaced'
  BY <1>1, <1>9 DEF IInv, RaceInv, LinearUnlessRaced
<1>14. PendingIsNextUnlessRaced'
  <2> SUFFICES ASSUME NEW d \in Clients, NEW k \in DOMAIN batch'[d],
                      batch'[d][k].entity \notin raced'
               PROVE  /\ \A j \in VersionsOf(batch'[d][k].entity) :
                           docs[j].version < batch'[d][k].version
                      /\ \A f \in Clients : \A l \in DOMAIN batch'[f] :
                           batch'[f][l].entity = batch'[d][k].entity => f = d /\ l = k
    BY <1>1 DEF PendingIsNextUnlessRaced, VersionsOf
  <2>1. CASE d = c /\ k = n
    <3>1. batch'[d][k] = new /\ e \notin raced'
      BY <2>1, <1>5, <1>6
    <3>2. \A j \in VersionsOf(e) : docs[j].version < new.version
      <4> SUFFICES ASSUME NEW j \in VersionsOf(e) PROVE docs[j].version < new.version
        OBVIOUS
      <4>1. docs[j].version \in Nat /\ docs[i].version \in Nat
        BY <1>3, StoredType DEF VersionsOf, IInv
      <4> QED BY <4>1, <1>3, <1>5
    <3> QED BY <2>1, <3>1, <3>2, <1>5, <1>7, <1>8
  <2>2. CASE ~(d = c /\ k = n)
    <3>1. k \in DOMAIN batch[d] /\ batch'[d][k] = batch[d][k]
      BY <2>2, <1>7
    <3>2. batch[d][k].entity # e
      BY <3>1, <1>8
    <3>3. batch[d][k].entity \notin raced
      BY <3>1, <1>9
    <3>4. /\ \A j \in VersionsOf(batch[d][k].entity) : docs[j].version < batch[d][k].version
          /\ \A f \in Clients : \A l \in DOMAIN batch[f] :
               batch[f][l].entity = batch[d][k].entity => f = d /\ l = k
      BY <3>1, <3>3 DEF IInv, RaceInv, PendingIsNextUnlessRaced
    <3> QED BY <3>1, <3>2, <3>4, <1>5, <1>7
  <2> QED BY <2>1, <2>2
<1>15. TombstoneIsLastUnlessRaced'
  <2> SUFFICES ASSUME NEW t \in DOMAIN docs, docs[t].deleted, docs[t].entity \notin raced'
               PROVE  /\ \A j \in VersionsOf(docs[t].entity) : docs[j].version <= docs[t].version
                      /\ \A d \in Clients : \A l \in DOMAIN batch'[d] :
                           batch'[d][l].entity # docs[t].entity
    BY <1>1 DEF TombstoneIsLastUnlessRaced, VersionsOf, Pending
  <2>1. /\ \A j \in VersionsOf(docs[t].entity) : docs[j].version <= docs[t].version
        /\ \A d \in Clients : \A l \in DOMAIN batch[d] : batch[d][l].entity # docs[t].entity
    BY <1>9 DEF IInv, RaceInv, TombstoneIsLastUnlessRaced, Pending
  <2>2. docs[t].entity # e
    <3> SUFFICES ASSUME docs[t].entity = e PROVE FALSE
      OBVIOUS
    <3>1. t \in VersionsOf(e)
      BY DEF VersionsOf
    <3>2. docs[t].version \in Nat /\ docs[i].version \in Nat
      BY <1>3, StoredType DEF IInv
    <3>3. docs[t].version = docs[i].version
      BY <3>1, <3>2, <2>1, <1>3
    <3>4. i = t
      BY <3>3, <1>3, <1>9 DEF IInv, RaceInv, LinearUnlessRaced
    <3> QED BY <3>4, <1>3
  <2> QED BY <2>1, <2>2, <1>5, <1>7
<1> QED BY <1>10, <1>11, <1>12, <1>13, <1>14, <1>15, <1>16 DEF IInv, PendingInv, RaceInv

(* insert_one, insert_many: the first waiting document is stored.          *)
LEMMA InsertStep ==
  ASSUME IInv, TypeOK', NEW c \in Clients, InsertNext(c)
  PROVE  IInv'
<1> DEFINE h == batch[c][1]
           m == Len(docs) + 1
<1>1. docs \in Seq(Document) /\ batch[c] \in Seq(Document) /\ batch[c] # << >>
  BY DEF IInv, TypeOK, InsertNext
<1>2. /\ h \in Document /\ 1 \in DOMAIN batch[c]
      /\ \A k \in DOMAIN batch'[c] : /\ k + 1 \in DOMAIN batch[c] /\ k + 1 # 1
                                   /\ batch'[c][k] = batch[c][k + 1]
      /\ \A d \in Clients \ {c} : batch'[d] = batch[d]
  <2>1. batch'[c] = Tail(batch[c]) /\ \A d \in Clients \ {c} : batch'[d] = batch[d]
    BY DEF InsertNext, IInv, TypeOK
  <2> QED BY <2>1, <1>1, TailFacts
<1>3. /\ docs' = Append(docs, h)
      /\ DOMAIN docs' = DOMAIN docs \cup {m}
      /\ docs'[m] = h
      /\ \A i \in DOMAIN docs : i # m /\ docs'[i] = docs[i]
  <2>1. docs' = Append(docs, h)
    BY <1>1, TailFacts DEF InsertNext
  <2> QED BY <2>1, <1>1, <1>2, AppendFacts
<1>4. raced' = raced /\ Reused' = Reused
  BY DEF InsertNext, Reused
<1>5. m \in Nat /\ DOMAIN docs = 1 .. (m - 1)
  BY <1>1
<1>6. h.version \in Nat /\ h.version # 0
  BY <1>2 DEF Document
(* A document still waiting was waiting before, and is not h.              *)
<1> DEFINE was(d, k) == IF d = c THEN k + 1 ELSE k
<1>7. \A d \in Clients : \A k \in DOMAIN batch'[d] :
        /\ was(d, k) \in DOMAIN batch[d]
        /\ batch'[d][k] = batch[d][was(d, k)]
        /\ ~(d = c /\ was(d, k) = 1)
  BY <1>2
<1>8. \A d, f \in Clients : \A k \in DOMAIN batch'[d], l \in DOMAIN batch'[f] :
        d = f /\ was(d, k) = was(f, l) => k = l
  <2>1. \A d \in Clients : \A k \in DOMAIN batch'[d] : k \in Nat
    BY DEF TypeOK
  <2> QED BY <2>1
<1> HIDE DEF h, m, was
<1>9. h.version = 1 /\ h.entity \notin Reused =>
        /\ \A i \in DOMAIN docs : docs[i].entity # h.entity
        /\ \A d \in Clients : \A k \in DOMAIN batch[d] :
             batch[d][k].entity = h.entity => d = c /\ k = 1
  BY <1>2 DEF h, IInv, PendingInv, PendingIsFirst, PendingRootIsAlone, Reused, VersionsOf
<1>10. h.version # 1 => \E j \in DOMAIN docs : IsParent(docs[j], h)
  BY <1>2, <1>6 DEF h, IInv, PendingInv, PendingHasParent
<1>11. h.entity \notin raced =>
         /\ \A i \in DOMAIN docs : docs[i].entity = h.entity => docs[i].version < h.version
         /\ \A d \in Clients : \A k \in DOMAIN batch[d] :
              batch[d][k].entity = h.entity => d = c /\ k = 1
  BY <1>2 DEF h, IInv, RaceInv, PendingIsNextUnlessRaced, VersionsOf
<1>12. Lineage'
  <2> SUFFICES ASSUME NEW i \in DOMAIN docs', docs'[i].version > 1
               PROVE  \E j \in 1 .. (i - 1) : IsParent(docs'[j], docs'[i])
    BY DEF Lineage, IsParent
  <2>1. CASE i = m
    <3>1. PICK j \in DOMAIN docs : IsParent(docs[j], h)
      BY <2>1, <1>3, <1>6, <1>10
    <3> QED BY <2>1, <3>1, <1>3, <1>5
  <2>2. CASE i \in DOMAIN docs
    <3>1. PICK j \in 1 .. (i - 1) : IsParent(docs[j], docs[i])
      BY <2>2, <1>3 DEF IInv, StoreInv, Lineage
    <3>2. j \in DOMAIN docs
      BY <2>2, <3>1, <1>5
    <3> QED BY <2>2, <3>1, <3>2, <1>3
  <2> QED BY <2>1, <2>2, <1>3
<1>13. OneRoot'
  BY <1>3, <1>4, <1>9 DEF IInv, StoreInv, OneRoot
<1>14. h.entity \notin Reused =>
         \A i \in DOMAIN docs : docs[i].entity = h.entity => docs[i].creator = h.creator
  BY <1>9, <1>10 DEF IInv, StoreInv, SameCreator, IsParent
<1>15. SameCreator'
  BY <1>3, <1>4, <1>14 DEF IInv, StoreInv, SameCreator
<1>16. PendingHasParent'
  <2> SUFFICES ASSUME NEW d \in Clients, NEW k \in DOMAIN batch'[d], batch'[d][k].version > 1
               PROVE  \E j \in DOMAIN docs' : IsParent(docs'[j], batch'[d][k])
    BY DEF PendingHasParent, IsParent
  <2>1. PICK j \in DOMAIN docs : IsParent(docs[j], batch'[d][k])
    BY <1>7 DEF IInv, PendingInv, PendingHasParent
  <2> QED BY <2>1, <1>3
<1>21. PendingIsFirst'
  BY <1>7 DEF IInv, PendingInv, PendingIsFirst
<1>17. PendingRootIsAlone'
  <2> SUFFICES ASSUME NEW d \in Clients, NEW k \in DOMAIN batch'[d], batch'[d][k].version = 1,
                      batch'[d][k].entity \notin Reused
               PROVE  /\ \A i \in DOMAIN docs' : docs'[i].entity # batch'[d][k].entity
                      /\ \A f \in Clients : \A l \in DOMAIN batch'[f] :
                           batch'[f][l].entity = batch'[d][k].entity => f = d /\ l = k
    BY <1>4 DEF PendingRootIsAlone, VersionsOf
  <2>1. /\ \A i \in DOMAIN docs : docs[i].entity # batch'[d][k].entity
        /\ \A f \in Clients : \A l \in DOMAIN batch[f] :
             batch[f][l].entity = batch'[d][k].entity => f = d /\ l = was(d, k)
    BY <1>7 DEF IInv, PendingInv, PendingRootIsAlone, VersionsOf
  <2>2. h.entity # batch'[d][k].entity
    BY <2>1, <1>2, <1>7 DEF h
  <2>3. ASSUME NEW f \in Clients, NEW l \in DOMAIN batch'[f],
               batch'[f][l].entity = batch'[d][k].entity
        PROVE  f = d /\ l = k
    BY <2>1, <2>3, <1>7, <1>8
  <2> QED BY <2>1, <2>2, <2>3, <1>3
<1>18. LinearUnlessRaced'
  <2> SUFFICES ASSUME NEW i \in DOMAIN docs', NEW j \in DOMAIN docs',
                      docs'[i].entity = docs'[j].entity, docs'[i].version = docs'[j].version,
                      docs'[i].entity \notin raced
               PROVE  i = j
    BY <1>4 DEF LinearUnlessRaced
  <2>1. \A k \in DOMAIN docs : docs[k].version \in Nat
    BY StoredType DEF IInv
  <2>2. CASE i = m \/ j = m
    BY <2>1, <2>2, <1>3, <1>6, <1>11
  <2>3. CASE i # m /\ j # m
    BY <2>3, <1>3 DEF IInv, RaceInv, LinearUnlessRaced
  <2> QED BY <2>2, <2>3
<1>19. PendingIsNextUnlessRaced'
  <2> SUFFICES ASSUME NEW d \in Clients, NEW k \in DOMAIN batch'[d],
                      batch'[d][k].entity \notin raced
               PROVE  /\ \A i \in DOMAIN docs' : docs'[i].entity = batch'[d][k].entity
                           => docs'[i].version < batch'[d][k].version
                      /\ \A f \in Clients : \A l \in DOMAIN batch'[f] :
                           batch'[f][l].entity = batch'[d][k].entity => f = d /\ l = k
    BY <1>4 DEF PendingIsNextUnlessRaced, VersionsOf
  <2>1. /\ \A i \in DOMAIN docs : docs[i].entity = batch'[d][k].entity
             => docs[i].version < batch'[d][k].version
        /\ \A f \in Clients : \A l \in DOMAIN batch[f] :
             batch[f][l].entity = batch'[d][k].entity => f = d /\ l = was(d, k)
    BY <1>7 DEF IInv, RaceInv, PendingIsNextUnlessRaced, VersionsOf
  <2>2. h.entity # batch'[d][k].entity
    BY <2>1, <1>2, <1>7 DEF h
  <2>3. ASSUME NEW f \in Clients, NEW l \in DOMAIN batch'[f],
               batch'[f][l].entity = batch'[d][k].entity
        PROVE  f = d /\ l = k
    BY <2>1, <2>3, <1>7, <1>8
  <2> QED BY <2>1, <2>2, <2>3, <1>3
<1>20. TombstoneIsLastUnlessRaced'
  <2> SUFFICES ASSUME NEW t \in DOMAIN docs', docs'[t].deleted, docs'[t].entity \notin raced
               PROVE  /\ \A j \in DOMAIN docs' : docs'[j].entity = docs'[t].entity
                           => docs'[j].version <= docs'[t].version
                      /\ \A d \in Clients : \A l \in DOMAIN batch'[d] :
                           batch'[d][l].entity # docs'[t].entity
    BY <1>4 DEF TombstoneIsLastUnlessRaced, VersionsOf, Pending
  <2>1. CASE t = m
    <3>1. \A j \in DOMAIN docs : docs[j].version \in Nat
      BY StoredType DEF IInv
    <3>2. \A j \in DOMAIN docs' : docs'[j].entity = h.entity => docs'[j].version <= h.version
      BY <2>1, <3>1, <1>3, <1>6, <1>11
    <3>3. \A d \in Clients : \A l \in DOMAIN batch'[d] : batch'[d][l].entity # h.entity
      BY <2>1, <1>3, <1>7, <1>11
    <3> QED BY <2>1, <3>2, <3>3, <1>3
  <2>2. CASE t # m
    <3>1. t \in DOMAIN docs /\ docs'[t] = docs[t]
      BY <2>2, <1>3
    <3>2. /\ \A j \in DOMAIN docs : docs[j].entity = docs[t].entity
               => docs[j].version <= docs[t].version
          /\ \A d \in Clients : \A l \in DOMAIN batch[d] : batch[d][l].entity # docs[t].entity
      BY <3>1 DEF IInv, RaceInv, TombstoneIsLastUnlessRaced, VersionsOf, Pending
    <3>3. h.entity # docs[t].entity
      BY <3>2, <1>2 DEF h
    <3> QED BY <3>1, <3>2, <3>3, <1>3, <1>7
  <2> QED BY <2>1, <2>2
<1> QED BY <1>12, <1>13, <1>15, <1>16, <1>17, <1>18, <1>19, <1>20, <1>21
        DEF IInv, StoreInv, PendingInv, RaceInv

LEMMA IInvStep == IInv /\ [Next]_vars => IInv'
<1> SUFFICES ASSUME IInv, [Next]_vars PROVE IInv'
  OBVIOUS
<1>1. TypeOK'
  BY TypeStep DEF IInv
<1>2. ASSUME NEW c \in Clients, StartCreate(c) PROVE IInv'
  BY <1>1, <1>2, CreateStep
<1>10. ASSUME NEW c \in Clients, StartCreateAs(c) PROVE IInv'
  BY <1>1, <1>10, CreateAsStep
<1>3. ASSUME NEW c \in Clients, StartUpdate(c) PROVE IInv'
  BY <1>1, <1>3, QuietStep DEF StartUpdate
<1>4. ASSUME NEW c \in Clients, StartDelete(c) PROVE IInv'
  BY <1>1, <1>4, QuietStep DEF StartDelete
<1>5. ASSUME NEW c \in Clients, SkipItem(c) PROVE IInv'
  BY <1>1, <1>5, QuietStep DEF SkipItem
<1>6. ASSUME NEW c \in Clients, BuildItem(c) PROVE IInv'
  BY <1>1, <1>6, BuildStep
<1>7. ASSUME NEW c \in Clients, InsertNext(c) PROVE IInv'
  BY <1>1, <1>7, InsertStep
<1>8. ASSUME NEW c \in Clients, Fail(c) PROVE IInv'
  BY <1>1, <1>8, FailStep
<1>9. CASE UNCHANGED vars
  BY <1>1, <1>9, QuietStep DEF vars
<1> QED BY <1>2, <1>3, <1>4, <1>5, <1>6, <1>7, <1>8, <1>9, <1>10 DEF Next

LEMMA Invariance == Spec => []IInv
BY IInvInit, IInvStep, PTL DEF Spec

-----------------------------------------------------------------------------
(* The properties.                                                         *)

(* Every stored version above 1 was built from a live stored version,      *)
(* whatever overlaps and whatever fails.                                   *)
THEOREM LineageCorrect == Spec => []Lineage
<1>1. IInv => Lineage
  BY DEF IInv, StoreInv
<1> QED BY <1>1, Invariance, PTL

(* An entity has one first version, and all its versions agree on who      *)
(* created it, unless somebody who chose its id created it over again.     *)
THEOREM CreationCorrect == Spec => [](OneRoot /\ SameCreator)
<1>1. IInv => OneRoot /\ SameCreator
  BY DEF IInv, StoreInv
<1> QED BY <1>1, Invariance, PTL

(* Two documents share an entity and a version only if the entity's        *)
(* read-modify-writes overlapped.                                          *)
THEOREM LinearCorrect == Spec => []LinearUnlessRaced
<1>1. IInv => LinearUnlessRaced
  BY DEF IInv, RaceInv
<1> QED BY <1>1, Invariance, PTL

(* Without an overlap a delete is final: get_by_entity_id answers None.    *)
THEOREM DeletedIsFinalCorrect == Spec => []DeletedIsFinalUnlessRaced
<1>1. IInv => DeletedIsFinalUnlessRaced
  <2> SUFFICES ASSUME IInv, NEW i \in DOMAIN docs, docs[i].deleted,
                      docs[i].entity \notin raced
               PROVE  /\ Gets(docs[i].entity) = {}
                      /\ \A d \in Clients : Pending(d, docs[i].entity) = {}
    BY DEF DeletedIsFinalUnlessRaced
  <2>1. /\ \A j \in VersionsOf(docs[i].entity) : docs[j].version <= docs[i].version
        /\ \A d \in Clients : Pending(d, docs[i].entity) = {}
    BY DEF IInv, RaceInv, TombstoneIsLastUnlessRaced
  <2>2. ASSUME NEW l \in Latest(docs[i].entity) PROVE docs[l].deleted
    <3>1. /\ l \in DOMAIN docs /\ docs[l].entity = docs[i].entity
          /\ docs[i].version <= docs[l].version
      BY <2>2, LatestIsStored DEF VersionsOf
    <3>2. docs[l].version <= docs[i].version
      BY <2>1, <3>1 DEF VersionsOf
    <3>3. docs[l].version \in Nat /\ docs[i].version \in Nat
      BY <3>1, StoredType DEF IInv
    <3>4. docs[l].version = docs[i].version
      BY <3>1, <3>2, <3>3
    <3> QED BY <3>1, <3>4 DEF IInv, RaceInv, LinearUnlessRaced
  <2> QED BY <2>1, <2>2 DEF Gets
<1> QED BY <1>1, Invariance, PTL

(* The methods implement the append-only version tree: every insert is a   *)
(* first version of a new entity or a next version of a live document.     *)
THEOREM ImplementsTreeCorrect == Spec => ImplementsTree
<1>1. Init => Tree!Init
  BY DEF Init, Tree!Init
<1>2. IInv /\ IInv' /\ [Next]_vars => [Tree!Next]_docs
  <2> SUFFICES ASSUME IInv, IInv', [Next]_vars, docs' # docs PROVE Tree!Next
    OBVIOUS
  <2>1. PICK c \in Clients : InsertNext(c)
    BY DEF Next, vars, StartCreate, StartCreateAs, StartUpdate, StartDelete, SkipItem, BuildItem, Fail
  <2> DEFINE h == batch[c][1]
  <2>2. /\ h \in Document /\ 1 \in DOMAIN batch[c] /\ docs' = Append(docs, h)
    <3>1. batch[c] \in Seq(Document) /\ batch[c] # << >>
      BY <2>1 DEF IInv, TypeOK, InsertNext
    <3> QED BY <2>1, <3>1, TailFacts DEF InsertNext
  <2>3. /\ h.entity \in Entities /\ h.value \in Payloads /\ h.editor \in Clients
        /\ h.version \in Nat \ {0} /\ h.deleted \in BOOLEAN
    BY <2>2 DEF Document
  <2> HIDE DEF h
  <2>4. CASE h.version = 1
    <3>1. /\ ~h.deleted /\ h.creator = h.editor
          /\ h.entity \in GivenIds \/ \A i \in DOMAIN docs : docs[i].entity # h.entity
      BY <2>2, <2>4 DEF h, IInv, PendingInv, PendingIsFirst, PendingRootIsAlone, Reused, VersionsOf
    <3>2. h = FirstVersion(h.entity, h.value, h.editor)
      <4>1. h.deleted = FALSE
        BY <3>1, <2>3
      <4> QED BY <2>2, <2>4, <3>1, <4>1 DEF Document, FirstVersion
    <3>3. Tree!AddRoot(h.entity, h.value, h.editor)
      BY <2>2, <3>1, <3>2 DEF Tree!AddRoot, Tree!FirstVersion, FirstVersion
    <3> QED BY <2>3, <3>3 DEF Tree!Next
  <2>5. CASE h.version # 1
    <3>1. PICK p \in DOMAIN docs : IsParent(docs[p], h)
      BY <2>2, <2>3, <2>5 DEF h, IInv, PendingInv, PendingHasParent
    <3>2. docs[p] \in Document
      BY StoredType DEF IInv
    <3>3. CASE h.deleted
      <4>1. h = [docs[p] EXCEPT !.version = @ + 1, !.editor = h.editor, !.deleted = TRUE]
        BY <2>2, <3>1, <3>2, <3>3 DEF Document, IsParent
      <4>2. Tree!AddTombstone(p, h.editor)
        BY <2>2, <3>1, <4>1 DEF Tree!AddTombstone, IsParent
      <4> QED BY <2>3, <4>2 DEF Tree!Next
    <3>4. CASE ~h.deleted
      <4>1. h = [docs[p] EXCEPT !.version = @ + 1, !.value = h.value, !.editor = h.editor]
        BY <2>2, <3>1, <3>2, <3>4 DEF Document, IsParent
      <4>2. Tree!AddVersion(p, h.value, h.editor)
        BY <2>2, <3>1, <4>1 DEF Tree!AddVersion, IsParent
      <4> QED BY <2>3, <4>2 DEF Tree!Next
    <3> QED BY <3>3, <3>4
  <2> QED BY <2>4, <2>5
<1> QED BY <1>1, <1>2, Invariance, PTL DEF Spec, ImplementsTree, Tree!Spec
=============================================================================
