----------------------- MODULE RequestLifecycle_proofs -----------------------
(***************************************************************************)
(* A request, with its hooks, its audit and its failures, is one of the    *)
(* clients of the repository: every step of RequestLifecycle is a step of  *)
(* VersionedCRUD or leaves the repository alone.  The theorems of          *)
(* VersionedCRUD_proofs therefore hold of the collection while any number  *)
(* of requests run.                                                        *)
(*                                                                         *)
(* What a request is answered and what the audit says follow from an       *)
(* invariant of its own, IInv: by its phase, a context tells how far the   *)
(* request is and how much it may have stored, and every document it has   *)
(* found or reported is in the collection as its item says (ContextInv);   *)
(* the call of the repository under way is the one of its item (CallInv).  *)
(***************************************************************************)
EXTENDS RequestLifecycle, FiniteSetTheorems, TLAPS

LEMMA StepIsCRUD == Next => CRUD!Next \/ UNCHANGED CRUD!vars
<1> SUFFICES ASSUME NEW c \in Clients, Receive(c) \/ Step(c) \/ Die(c)
             PROVE  CRUD!Next \/ UNCHANGED CRUD!vars
  BY DEF Next
<1> USE DEF crudVars, CRUD!vars
<1>1. CASE Receive(c)
  BY <1>1 DEF Receive
<1>2. CASE Hydrate(c) \/ EmitToNobody(c) \/ RunUserHook(c) \/ RunPrecondition(c)
  BY <1>2 DEF Hydrate, EmitToNobody, RunUserHook, RunPrecondition
<1>3. CASE RunAudit(c) \/ CallGet(c) \/ Deliver(c)
  BY <1>3 DEF RunAudit, CallGet, Deliver
<1>4. CASE CallCreate(c)
  BY <1>4 DEF CallCreate, CRUD!Next
<1>5. CASE CallWrite(c)
  BY <1>5 DEF CallWrite, CRUD!Next
<1>6. CASE ServiceReads(c)
  BY <1>6 DEF ServiceReads, CRUD!Next
<1>7. CASE ServiceInserts(c) \/ ReadBack(c)
  BY <1>7 DEF ServiceInserts, ReadBack, CRUD!Next
<1>8. CASE DatabaseFails(c)
  BY <1>8 DEF DatabaseFails, CRUD!Next
<1>9. CASE Die(c)
  BY <1>9 DEF Die, CRUD!Next
<1> QED
  BY <1>1, <1>2, <1>3, <1>4, <1>5, <1>6, <1>7, <1>8, <1>9 DEF Step

(* The requests drive the repository as its own clients do.                *)
LEMMA DrivesCRUD == Spec => CRUD!Spec
<1>1. Init => CRUD!Init
  BY DEF Init
<1>2. [Next]_vars => [CRUD!Next]_(CRUD!vars)
  <2>1. CASE Next
    BY <2>1, StepIsCRUD
  <2>2. CASE UNCHANGED vars
    BY <2>2 DEF vars, CRUD!vars
  <2> QED
    BY <2>1, <2>2
<1> QED
  BY <1>1, <1>2, PTL DEF Spec, CRUD!Spec

-----------------------------------------------------------------------------
(* What VersionedCRUD_proofs shows of the repository, shown of it here.    *)

Repository == INSTANCE VersionedCRUD_proofs WITH MaxBatch <- 1, GivenIds <- {}

LEMMA SameNext == CRUD!Next => Repository!Next
<1> SUFFICES ASSUME NEW c \in Clients,
                    \/ CRUD!StartCreate(c) \/ CRUD!StartCreateAs(c)
                    \/ CRUD!StartUpdate(c) \/ CRUD!StartDelete(c) \/ CRUD!SkipItem(c)
                    \/ CRUD!BuildItem(c) \/ CRUD!InsertNext(c) \/ CRUD!Fail(c)
             PROVE  Repository!Next
  BY DEF CRUD!Next
<1>1. CRUD!StartCreate(c) => Repository!StartCreate(c)
  BY DEF CRUD!StartCreate, Repository!StartCreate, CRUD!UpTo, Repository!UpTo,
         CRUD!Payloads, Repository!Payloads, CRUD!NewId, Repository!NewId,
         CRUD!Unused, Repository!Unused,
         CRUD!VersionsOf, Repository!VersionsOf, CRUD!Pending, Repository!Pending,
         CRUD!FirstVersion, Repository!FirstVersion
<1>8. ~CRUD!StartCreateAs(c)
  BY DEF CRUD!StartCreateAs
<1>2. CRUD!StartUpdate(c) => Repository!StartUpdate(c)
  BY DEF CRUD!StartUpdate, Repository!StartUpdate, CRUD!UpTo, Repository!UpTo,
         CRUD!Item, Repository!Item, CRUD!Payloads, Repository!Payloads
<1>3. CRUD!StartDelete(c) => Repository!StartDelete(c)
  BY DEF CRUD!StartDelete, Repository!StartDelete, CRUD!UpTo, Repository!UpTo,
         CRUD!Item, Repository!Item, CRUD!Payloads, Repository!Payloads
<1>4. CRUD!SkipItem(c) => Repository!SkipItem(c)
  BY DEF CRUD!SkipItem, Repository!SkipItem, CRUD!Latest, Repository!Latest,
         CRUD!LatestAmong, Repository!LatestAmong, CRUD!VersionsOf,
         Repository!VersionsOf, CRUD!Accepts, Repository!Accepts, CRUD!HasChanged,
         Repository!HasChanged, CRUD!Advance, Repository!Advance
<1>5. CRUD!BuildItem(c) => Repository!BuildItem(c)
  BY DEF CRUD!BuildItem, Repository!BuildItem, CRUD!Latest, Repository!Latest,
         CRUD!LatestAmong, Repository!LatestAmong, CRUD!VersionsOf,
         Repository!VersionsOf, CRUD!Accepts, Repository!Accepts, CRUD!HasChanged,
         Repository!HasChanged, CRUD!NextVersion, Repository!NextVersion,
         CRUD!Pending, Repository!Pending, CRUD!Advance, Repository!Advance
<1>6. CRUD!InsertNext(c) => Repository!InsertNext(c)
  BY DEF CRUD!InsertNext, Repository!InsertNext
<1>7. CRUD!Fail(c) => Repository!Fail(c)
  BY DEF CRUD!Fail, Repository!Fail
<1> QED
  BY <1>1, <1>2, <1>3, <1>4, <1>5, <1>6, <1>7, <1>8 DEF Repository!Next

LEMMA SameSpec == CRUD!Spec => Repository!Spec
<1>1. CRUD!Init => Repository!Init
  BY DEF CRUD!Init, Repository!Init
<1>2. [CRUD!Next]_(CRUD!vars) => [Repository!Next]_(Repository!vars)
  BY SameNext DEF CRUD!vars, Repository!vars
<1> QED
  BY <1>1, <1>2, PTL DEF CRUD!Spec, Repository!Spec

(* While any number of requests run, versions are unique and deletes final *)
(* except for the entities on which two writes overlapped.                 *)
THEOREM ServingIsLinear ==
  Spec => [](CRUD!LinearUnlessRaced /\ CRUD!DeletedIsFinalUnlessRaced)
<1>1. /\ Repository!MaxBatchAssumption /\ Repository!MaxDocsAssumption
      /\ Repository!GivenIdsAssumption
  BY MaxDocsAssumption
     DEF Repository!MaxBatchAssumption, Repository!MaxDocsAssumption,
         Repository!GivenIdsAssumption
<1>2. Repository!Spec => []Repository!LinearUnlessRaced
  BY <1>1, Repository!LinearCorrect
<1>3. Repository!Spec => []Repository!DeletedIsFinalUnlessRaced
  BY <1>1, Repository!DeletedIsFinalCorrect
<1>4. Repository!LinearUnlessRaced => CRUD!LinearUnlessRaced
  BY DEF Repository!LinearUnlessRaced, CRUD!LinearUnlessRaced
<1>5. Repository!DeletedIsFinalUnlessRaced => CRUD!DeletedIsFinalUnlessRaced
  BY DEF Repository!DeletedIsFinalUnlessRaced, CRUD!DeletedIsFinalUnlessRaced,
         Repository!Gets, CRUD!Gets, Repository!Latest, CRUD!Latest,
         Repository!LatestAmong, CRUD!LatestAmong, Repository!VersionsOf,
         CRUD!VersionsOf, Repository!Pending, CRUD!Pending
<1> QED
  BY <1>2, <1>3, <1>4, <1>5, DrivesCRUD, SameSpec, PTL
-----------------------------------------------------------------------------
(* The inductive invariant: what a request has done so far, by its phase.  *)
(* The predicates take the collection, so that what is true of a context   *)
(* can be carried to the collection of the next state.                     *)

ItemPhases == {"hydrate", "pre", "call", "service", "readback", "post"}
Outcome == [ok : BOOLEAN, doc : Positions]

(* The handlers and the service run for an item that is there; the answer  *)
(* comes after the last one.                                               *)
Progress(r) ==
  /\ Len(r.results) <= Len(r.items)
  /\ r.phase \in ItemPhases => Len(r.results) < Len(r.items)
  /\ r.phase = "post_bulk" \/ r.status = "ok" => Len(r.results) = Len(r.items)
  /\ r.status # "none" => r.phase = "done"
  /\ r.phase \in {"pre_bulk", "post_bulk"} => r.mode # "single"
  /\ r.mode = "single" => Len(r.items) <= 1

(* Only the service stores, once per item.                                 *)
StoresOnce(r) ==
  /\ r.mode = "single" /\ \/ r.phase \in {"hydrate", "pre", "call", "service"}
                          \/ r.status \in {"not_found", "precondition"}
     => r.wrote = {}
  /\ r.mode # "single" =>
       /\ IsFiniteSet(r.wrote)
       /\ Cardinality(r.wrote) <= Len(r.results) + 1
       /\ r.phase \notin {"readback", "post"} => Cardinality(r.wrote) <= Len(r.results)

(* An atomic request has no error but the one that ended it.               *)
StopsAtError(r) ==
  r.mode = "atomic" =>
    /\ \A k \in DOMAIN r.results : k < Len(r.results) => r.results[k].ok
    /\ r.status = "atomic" <=> \E k \in DOMAIN r.results : ~r.results[k].ok

IsLive(store, e, i) ==
  i \in DOMAIN store /\ store[i].entity = e /\ ~store[i].deleted

AppliedIn(store, e, value, user) ==
  \E i \in DOMAIN store :
    /\ store[i].entity = e
    /\ \/ store[i].deleted
       \/ store[i].value = value
       \/ value = NoValue /\ store[i].version > 1 /\ store[i].editor = user

(* Claim, with the document at a position of the collection.               *)
Stored(store, c, item, d) ==
  /\ item.op = "create" =>
       /\ d \in DOMAIN store
       /\ store[d].version = 1 /\ store[d].creator = c /\ store[d].value = item.value
  /\ item.op \in {"get", "update"} => IsLive(store, item.entity, d)
  /\ item.op = "update" => AppliedIn(store, item.entity, item.value, c)
  /\ item.op = "delete" =>
       \E i \in DOMAIN store : store[i].entity = item.entity /\ store[i].deleted

(* The hydrated document was live, and stays the one of the item.          *)
Hydrated(store, r) ==
  /\ r.phase = "hydrate" => Current(r).op # "create"
  /\ r.phase = "readback" => Current(r).op = "create"
  /\ r.phase \in {"pre", "call", "service", "post"} /\ Current(r).op # "create"
     => IsLive(store, Current(r).entity, r.entity)

Truthful(store, c, r) ==
  \A k \in DOMAIN r.results :
    r.results[k].ok => Stored(store, c, r.items[k], r.results[k].doc)

ContextInv(store, c, r) ==
  /\ r \in Context
  /\ Progress(r)
  /\ StoresOnce(r)
  /\ StopsAtError(r)
  /\ Hydrated(store, r)
  /\ Truthful(store, c, r)
  /\ r.phase \in {"readback", "post"} => Stored(store, c, Current(r), r.result)

(* What is left of it when the item's call is not known to have stored.    *)
Underway(store, c, r) ==
  /\ r \in Context
  /\ Progress(r)
  /\ r.mode # "single" =>
       IsFiniteSet(r.wrote) /\ Cardinality(r.wrote) <= Len(r.results) + 1
  /\ StopsAtError(r)
  /\ Truthful(store, c, r)

(* The call of the repository is about the item, and about nothing else.   *)
Builds(c, item, doc) ==
  /\ item.op = "create" => doc.version = 1 /\ doc.creator = c /\ doc.value = item.value
  /\ item.op = "update" =>
       /\ doc.entity = item.entity /\ ~doc.deleted
       /\ \/ doc.value = item.value
          \/ item.value = NoValue /\ doc.version > 1 /\ doc.editor = c
  /\ item.op = "delete" => doc.entity = item.entity /\ doc.deleted
  /\ item.op # "get"

CallInv(c) ==
  /\ req[c].phase = "service" <=> pc[c] # "idle"
  /\ pc[c] = "scan" =>
       /\ Head(todo[c]) = Current(req[c]) /\ Tail(todo[c]) = << >>
       /\ Current(req[c]).op \in {"update", "delete"}
       /\ batch[c] = << >>
  /\ pc[c] = "insert" =>
       /\ todo[c] = << >>
       /\ Builds(c, Current(req[c]), Head(batch[c])) /\ Tail(batch[c]) = << >>

AuditInv ==
  /\ audit \subseteq Entries
  /\ AuditIsSound

IInv ==
  /\ CRUD!TypeOK
  /\ Len(docs) <= MaxDocs
  /\ req \in [Clients -> Context]
  /\ \A c \in Clients : ContextInv(docs, c, req[c]) /\ CallInv(c)
  /\ AuditInv

-----------------------------------------------------------------------------
(* Contexts: what the functions that move a request on do to its fields.   *)

LEMMA ContextFields ==
  ASSUME NEW r \in Context
  PROVE  /\ r.items \in Seq(Items) /\ r.results \in Seq(Outcome)
         /\ Len(r.items) \in Nat /\ Len(r.results) \in Nat
         /\ DOMAIN r.items = 1 .. Len(r.items)
         /\ DOMAIN r.results = 1 .. Len(r.results)
         /\ r.entity \in Positions /\ r.result \in Positions
         /\ r.mode \in {"single", "bulk", "atomic"} /\ r.status \in Statuses
         /\ r.h \in Nat \ {0} /\ r.wrote \subseteq Positions
<1>1. r.items \in Seq(Items) /\ r.results \in Seq(Outcome)
  BY DEF Context, Outcome
<1>2. /\ r.entity \in Positions /\ r.result \in Positions
      /\ r.mode \in {"single", "bulk", "atomic"} /\ r.status \in Statuses
      /\ r.h \in Nat \ {0} /\ r.wrote \subseteq Positions
  BY DEF Context
<1> QED BY <1>1, <1>2

LEMMA AnswerFacts ==
  ASSUME NEW r \in Context, NEW status \in Statuses
  PROVE  LET s == Answer(r, status)
         IN  /\ s \in Context
             /\ s.phase = "done" /\ s.status = status
             /\ s.mode = r.mode /\ s.items = r.items /\ s.results = r.results
             /\ s.wrote = r.wrote
<1>1. 0 \in Positions /\ 1 \in Nat \ {0}
  BY MaxDocsAssumption DEF Positions
<1> QED BY <1>1 DEF Answer, Context

WithResult(r, x) == [r EXCEPT !.results = Append(@, x)]

LEMMA WithResultFacts ==
  ASSUME NEW r \in Context, NEW x \in Outcome
  PROVE  LET s == WithResult(r, x)
         IN  /\ s \in Context
             /\ s.phase = r.phase /\ s.mode = r.mode /\ s.items = r.items
             /\ s.status = r.status /\ s.wrote = r.wrote
             /\ s.results = Append(r.results, x)
<1>1. r.results \in Seq(Outcome)
  BY ContextFields
<1>2. Append(r.results, x) \in Seq(Outcome)
  BY <1>1
<1>3. \A t \in Seq(Outcome) :
        LET s == [r EXCEPT !.results = t]
        IN  /\ s \in Context
            /\ s.phase = r.phase /\ s.mode = r.mode /\ s.items = r.items
            /\ s.status = r.status /\ s.wrote = r.wrote /\ s.results = t
  BY DEF Context, Outcome
<1> QED BY <1>2, <1>3 DEF WithResult

LEMMA BeginItemFacts ==
  ASSUME NEW r \in Context, NEW s, s = BeginItem(r)
  PROVE  /\ s \in Context
         /\ s.phase = IF Current(r).op = "create" THEN "pre" ELSE "hydrate"
         /\ s.mode = r.mode /\ s.items = r.items /\ s.results = r.results
         /\ s.wrote = r.wrote /\ s.status = r.status
<1> DEFINE p == IF Current(r).op = "create" THEN "pre" ELSE "hydrate"
<1>1. p \in {"pre", "hydrate"}
  OBVIOUS
<1>2. s = [r EXCEPT !.phase = p, !.entity = 0, !.result = 0, !.h = 1]
  BY DEF BeginItem
<1>3. 0 \in Positions /\ 1 \in Nat \ {0}
  BY MaxDocsAssumption DEF Positions
<1> HIDE DEF p
<1>4. s \in Context
  BY <1>1, <1>2, <1>3 DEF Context, Events
<1>5. /\ s.phase = p
      /\ s.mode = r.mode /\ s.items = r.items /\ s.results = r.results
      /\ s.wrote = r.wrote /\ s.status = r.status
  BY <1>2 DEF Context
<1> QED BY <1>4, <1>5 DEF p

LEMMA CurrentFacts ==
  ASSUME NEW r \in Context, Len(r.results) < Len(r.items)
  PROVE  Current(r) \in Items /\ Current(r).op \in {"create", "get", "update", "delete"}
<1>1. Len(r.results) + 1 \in DOMAIN r.items
  BY ContextFields
<1>2. Current(r) \in Items
  BY <1>1, ContextFields DEF Current
<1> QED BY <1>2 DEF Items

-----------------------------------------------------------------------------
(* Between two items.                                                      *)

Between(store, c, r) ==
  /\ r \in Context
  /\ Len(r.results) <= Len(r.items)
  /\ r.mode = "single" => Len(r.items) <= 1
  /\ r.status = "none"
  /\ r.mode # "single" =>
       IsFiniteSet(r.wrote) /\ Cardinality(r.wrote) <= Len(r.results)
  /\ r.mode = "atomic" =>
       \A k \in DOMAIN r.results : k < Len(r.results) => r.results[k].ok
  /\ Truthful(store, c, r)

AllGood(r) == \A k \in DOMAIN r.results : r.results[k].ok

LEMMA FinishItem ==
  ASSUME NEW store, NEW c, NEW r, Underway(store, c, r), r.phase \in ItemPhases,
         NEW x \in Outcome, x.ok => Stored(store, c, Current(r), x.doc)
  PROVE  /\ Between(store, c, WithResult(r, x))
         /\ r.mode = "atomic" => (AllGood(WithResult(r, x)) <=> x.ok)
         /\ WithResult(r, x).mode = r.mode
         /\ WithResult(r, x).items = r.items
         /\ Len(WithResult(r, x).results) = Len(r.results) + 1
<1> DEFINE s == WithResult(r, x)
<1>1. r \in Context
  BY DEF Underway
<1>2. /\ s \in Context
      /\ s.phase = r.phase /\ s.mode = r.mode /\ s.items = r.items
      /\ s.status = r.status /\ s.wrote = r.wrote
      /\ s.results = Append(r.results, x)
  BY <1>1, WithResultFacts
<1> HIDE DEF s
<1>3. /\ Len(s.results) = Len(r.results) + 1 /\ Len(r.results) \in Nat
      /\ DOMAIN r.results = 1 .. Len(r.results) /\ DOMAIN s.results = 1 .. (Len(r.results) + 1)
      /\ \A k \in DOMAIN r.results : s.results[k] = r.results[k]
      /\ s.results[Len(r.results) + 1] = x
  BY <1>1, <1>2, ContextFields
<1>4. /\ Len(r.results) < Len(r.items) /\ Len(r.items) \in Nat
      /\ r.mode = "single" => Len(r.items) <= 1
  BY <1>1, ContextFields DEF Underway, Progress
<1>5. r.status = "none"
  BY DEF Underway, Progress, ItemPhases
<1>6. r.mode # "single" =>
        IsFiniteSet(r.wrote) /\ Cardinality(r.wrote) <= Len(r.results) + 1
  <2>1. SUFFICES ASSUME r.mode # "single"
                 PROVE  IsFiniteSet(r.wrote) /\ Cardinality(r.wrote) <= Len(r.results) + 1
    OBVIOUS
  <2> QED BY <2>1 DEF Underway, StoresOnce
<1>7. r.mode = "atomic" => \A k \in DOMAIN r.results : r.results[k].ok
  BY <1>5 DEF Underway, StopsAtError
<1>8. Truthful(store, c, s)
  <2> SUFFICES ASSUME NEW k \in DOMAIN s.results, s.results[k].ok
               PROVE  Stored(store, c, s.items[k], s.results[k].doc)
    BY DEF Truthful
  <2>1. CASE k \in DOMAIN r.results
    BY <2>1, <1>2, <1>3 DEF Underway, Truthful
  <2>2. CASE k = Len(r.results) + 1
    BY <2>2, <1>2, <1>3 DEF Current
  <2> QED BY <2>1, <2>2, <1>3
<1>9. Between(store, c, s)
  BY <1>2, <1>3, <1>4, <1>5, <1>6, <1>7, <1>8 DEF Between
<1>10. r.mode = "atomic" => (AllGood(s) <=> x.ok)
  BY <1>3, <1>7 DEF AllGood
<1> QED BY <1>2, <1>3, <1>9, <1>10 DEF s

LEMMA AnswerInv ==
  ASSUME NEW store, NEW c, NEW r, Between(store, c, r),
         NEW status \in Statuses \ {"none"},
         r.mode = "atomic" => (status = "atomic" <=> ~AllGood(r)),
         status = "ok" => Len(r.results) = Len(r.items),
         r.mode = "single" /\ status \in {"not_found", "precondition"} => r.wrote = {}
  PROVE  ContextInv(store, c, Answer(r, status)) /\ Answer(r, status).phase = "done"
<1> DEFINE s == Answer(r, status)
<1>1. /\ s \in Context
      /\ s.phase = "done" /\ s.status = status
      /\ s.mode = r.mode /\ s.items = r.items /\ s.results = r.results
      /\ s.wrote = r.wrote
  BY AnswerFacts DEF Between
<1> HIDE DEF s
<1>2. Progress(s) /\ Hydrated(store, s) /\ Truthful(store, c, s)
  BY <1>1 DEF Between, Progress, Hydrated, Truthful, ItemPhases
<1>3. StopsAtError(s)
  BY <1>1 DEF Between, StopsAtError, AllGood
<1>4. StoresOnce(s)
  <2>1. s.mode # "single" =>
          IsFiniteSet(s.wrote) /\ Cardinality(s.wrote) <= Len(s.results)
    BY <1>1 DEF Between
  <2>2. IsFiniteSet(s.wrote) => Cardinality(s.wrote) \in Nat
    BY FS_CardinalityType
  <2>3. Len(s.results) \in Nat
    BY <1>1, ContextFields
  <2> QED BY <1>1, <2>1, <2>2, <2>3 DEF StoresOnce
<1> QED BY <1>1, <1>2, <1>3, <1>4 DEF ContextInv, s

LEMMA NextItemInv ==
  ASSUME NEW store, NEW c, NEW r, Between(store, c, r), r.mode # "single",
         r.mode = "atomic" => AllGood(r)
  PROVE  ContextInv(store, c, NextItem(r)) /\ NextItem(r).phase \in {"post_bulk", "pre", "hydrate"}
<1> DEFINE s == NextItem(r)
<1>1. /\ s \in Context
      /\ s.mode = r.mode /\ s.items = r.items /\ s.results = r.results
      /\ s.wrote = r.wrote /\ s.status = r.status
      /\ IF Len(r.results) = Len(r.items) THEN s.phase = "post_bulk"
         ELSE s.phase = IF Current(r).op = "create" THEN "pre" ELSE "hydrate"
  <2>1. r \in Context
    BY DEF Between
  <2>2. CASE Len(r.results) = Len(r.items)
    <3>1. s = [r EXCEPT !.phase = "post_bulk", !.h = 1]
      BY <2>2 DEF NextItem
    <3> HIDE DEF s
    <3>2. s \in Context
      <4>1. 1 \in Nat \ {0}
        OBVIOUS
      <4> QED BY <2>1, <3>1, <4>1 DEF Context, Events
    <3>3. /\ s.phase = "post_bulk"
          /\ s.mode = r.mode /\ s.items = r.items /\ s.results = r.results
          /\ s.wrote = r.wrote /\ s.status = r.status
      BY <2>1, <3>1 DEF Context
    <3> QED BY <2>2, <3>2, <3>3
  <2>3. CASE Len(r.results) # Len(r.items)
    <3>1. s = BeginItem(r)
      BY <2>3 DEF NextItem
    <3> HIDE DEF s
    <3> QED BY <2>1, <2>3, <3>1, BeginItemFacts
  <2> QED BY <2>2, <2>3
<1>2. Current(s) = Current(r)
  BY <1>1 DEF Current
<1> HIDE DEF s
<1>3. Len(r.results) \in Nat /\ Len(r.items) \in Nat /\ Len(r.results) <= Len(r.items)
  BY ContextFields DEF Between
<1>4. Progress(s)
  BY <1>1, <1>3 DEF Between, Progress, ItemPhases
<1>5. Hydrated(store, s) /\ Truthful(store, c, s)
  BY <1>1, <1>2 DEF Between, Hydrated, Truthful
<1>6. StopsAtError(s)
  BY <1>1 DEF Between, StopsAtError, AllGood
<1>7. StoresOnce(s)
  <2>1. IsFiniteSet(s.wrote) /\ Cardinality(s.wrote) <= Len(s.results)
    BY <1>1 DEF Between
  <2>2. Cardinality(s.wrote) \in Nat
    BY <2>1, FS_CardinalityType
  <2> QED BY <1>1, <1>3, <2>1, <2>2 DEF StoresOnce
<1>8. s.phase \notin {"readback", "post"} /\ s.phase \in {"post_bulk", "pre", "hydrate"}
  BY <1>1
<1> QED BY <1>1, <1>4, <1>5, <1>6, <1>7, <1>8 DEF ContextInv, s
LEMMA ContextIsBetween ==
  ASSUME NEW store, NEW c, NEW r, ContextInv(store, c, r), r.phase # "done",
         r.phase \in {"readback", "post"} => r.mode = "single"
  PROVE  Between(store, c, r) /\ (r.mode = "atomic" => AllGood(r))
<1>1. r.status = "none"
  BY DEF ContextInv, Progress
<1>2. r.mode = "atomic" => AllGood(r)
  BY <1>1 DEF ContextInv, StopsAtError, AllGood
<1>3. r.mode # "single" => IsFiniteSet(r.wrote) /\ Cardinality(r.wrote) <= Len(r.results)
  BY DEF ContextInv, StoresOnce
<1> QED BY <1>1, <1>2, <1>3 DEF ContextInv, Progress, Between, AllGood

LEMMA ContextIsUnderway ==
  ASSUME NEW store, NEW c, NEW r, ContextInv(store, c, r)
  PROVE  Underway(store, c, r)
<1>1. ASSUME r.mode # "single"
      PROVE  IsFiniteSet(r.wrote) /\ Cardinality(r.wrote) <= Len(r.results) + 1
  BY <1>1 DEF ContextInv, StoresOnce
<1> QED BY <1>1 DEF ContextInv, Underway

(* An item raises, whatever its call has stored: the item is over.         *)
LEMMA ItemRaisedInv ==
  ASSUME NEW store, NEW c, NEW r, Underway(store, c, r), r.phase \in ItemPhases,
         NEW status \in Statuses \ {"none", "ok", "atomic"},
         r.mode = "single" /\ status \in {"not_found", "precondition"} => r.wrote = {}
  PROVE  ContextInv(store, c, Raised(r, status)) /\ Raised(r, status).phase # "service"
<1> DEFINE x == [ok |-> FALSE, doc |-> 0]
           s == WithResult(r, x)
<1>1. r.status = "none" /\ r.phase \notin {"pre_bulk", "post_bulk"}
  BY DEF Underway, Progress, ItemPhases
<1>2. CASE r.mode = "single"
  <2>1. Raised(r, status) = Answer(r, status)
    BY <1>2 DEF Raised
  <2>2. Between(store, c, r)
    BY <1>1, <1>2 DEF Underway, Progress, Between
  <2>3. ContextInv(store, c, Answer(r, status)) /\ Answer(r, status).phase = "done"
    BY <1>2, <2>2, AnswerInv
  <2> QED BY <2>1, <2>3
<1>3. CASE r.mode # "single"
  <2>2. x \in Outcome /\ ~x.ok
    BY MaxDocsAssumption DEF Outcome, Positions
  <2>3. Raised(r, status) = IF r.mode = "atomic" THEN Answer(s, "atomic") ELSE NextItem(s)
    BY <1>1, <1>3 DEF Raised, WithResult
  <2> HIDE DEF x
  <2>4. /\ Between(store, c, s) /\ s.mode = r.mode
        /\ r.mode = "atomic" => (AllGood(s) <=> x.ok)
    BY <2>2, FinishItem
  <2> HIDE DEF s
  <2>5. CASE r.mode = "atomic"
    <3>1. ~AllGood(s)
      BY <2>2, <2>4, <2>5
    <3>2. "atomic" \in Statuses \ {"none"}
      BY DEF Statuses
    <3>3. ContextInv(store, c, Answer(s, "atomic")) /\ Answer(s, "atomic").phase = "done"
      BY <2>4, <2>5, <3>1, <3>2, AnswerInv
    <3> QED BY <2>3, <2>5, <3>3
  <2>6. CASE r.mode # "atomic"
    <3>1. ContextInv(store, c, NextItem(s)) /\ NextItem(s).phase \in {"post_bulk", "pre", "hydrate"}
      BY <1>3, <2>4, <2>6, NextItemInv
    <3> QED BY <2>3, <2>6, <3>1
  <2> QED BY <2>5, <2>6
<1> QED BY <1>2, <1>3

LEMMA RaisedInv ==
  ASSUME NEW store, NEW c, NEW r, ContextInv(store, c, r),
         r.phase \in ItemPhases \cup Events,
         NEW status \in Statuses \ {"none", "ok", "atomic"},
         status \in {"not_found", "precondition"} => r.phase \in {"hydrate", "pre"}
  PROVE  ContextInv(store, c, Raised(r, status)) /\ Raised(r, status).phase # "service"
<1>1. r.mode = "single" /\ status \in {"not_found", "precondition"} => r.wrote = {}
  BY DEF ContextInv, StoresOnce
<1>2. CASE r.phase \in ItemPhases
  BY <1>1, <1>2, ContextIsUnderway, ItemRaisedInv
<1>3. CASE r.phase \in {"pre_bulk", "post_bulk"}
  <2>1. Raised(r, status) = Answer(r, status)
    BY <1>3 DEF Raised
  <2>2. Between(store, c, r) /\ (r.mode = "atomic" => AllGood(r))
    BY <1>3, ContextIsBetween
  <2>3. ContextInv(store, c, Answer(r, status)) /\ Answer(r, status).phase = "done"
    BY <1>1, <2>2, AnswerInv
  <2> QED BY <2>1, <2>3
<1> QED BY <1>2, <1>3 DEF ItemPhases, Events

LEMMA ItemDoneInv ==
  ASSUME NEW store, NEW c, NEW r, ContextInv(store, c, r), r.phase = "post"
  PROVE  ContextInv(store, c, ItemDone(r)) /\ ItemDone(r).phase # "service"
<1> DEFINE x == [ok |-> TRUE, doc |-> r.result]
           s == WithResult(r, x)
<1>1. ItemDone(r) = IF r.mode = "single" THEN Answer(s, "ok") ELSE NextItem(s)
  BY DEF ItemDone, WithResult
<1>2. x \in Outcome /\ x.ok /\ x.doc = r.result
  BY ContextFields DEF Outcome, ContextInv
<1> HIDE DEF x
<1>3. /\ Between(store, c, s) /\ s.mode = r.mode
      /\ r.mode = "atomic" => AllGood(s)
      /\ s.items = r.items /\ Len(s.results) = Len(r.results) + 1
  BY <1>2, FinishItem, ContextIsUnderway DEF ItemPhases, ContextInv
<1> HIDE DEF s
<1>4. CASE r.mode = "single"
  <2>1. /\ Len(r.results) \in Nat /\ Len(r.items) \in Nat
        /\ Len(r.results) < Len(r.items) /\ Len(r.items) <= 1
    BY <1>4, ContextFields DEF ContextInv, Progress, ItemPhases
  <2>2. "ok" \in Statuses \ {"none"} /\ Len(s.results) = Len(s.items)
    BY <1>3, <2>1 DEF Statuses
  <2>3. ContextInv(store, c, Answer(s, "ok")) /\ Answer(s, "ok").phase = "done"
    BY <1>3, <1>4, <2>2, AnswerInv
  <2> QED BY <1>1, <1>4, <2>3
<1>5. CASE r.mode # "single"
  <2>1. ContextInv(store, c, NextItem(s)) /\ NextItem(s).phase \in {"post_bulk", "pre", "hydrate"}
    BY <1>3, <1>5, NextItemInv
  <2> QED BY <1>1, <1>5, <2>1
<1> QED BY <1>4, <1>5

LEMMA EmittedInv ==
  ASSUME NEW store, NEW c, NEW r, ContextInv(store, c, r), r.phase \in Events
  PROVE  ContextInv(store, c, Emitted(r)) /\ Emitted(r).phase # "service"
<1>1. CASE r.phase = "pre_bulk"
  <2>1. r.mode # "single"
    BY <1>1 DEF ContextInv, Progress
  <2>2. Between(store, c, r) /\ (r.mode = "atomic" => AllGood(r))
    BY <1>1, ContextIsBetween
  <2> QED BY <1>1, <2>1, <2>2, NextItemInv DEF Emitted
<1>2. CASE r.phase = "pre"
  <2> DEFINE s == [r EXCEPT !.phase = "call"]
  <2>1. Emitted(r) = s
    BY <1>2 DEF Emitted
  <2>2. r \in Context
    BY DEF ContextInv
  <2>3. s \in Context
    BY <2>2 DEF Context
  <2>4. /\ s.phase = "call"
        /\ s.mode = r.mode /\ s.items = r.items /\ s.results = r.results
        /\ s.wrote = r.wrote /\ s.status = r.status /\ s.entity = r.entity
    BY <2>2 DEF Context
  <2>5. Current(s) = Current(r)
    BY <2>4 DEF Current
  <2> HIDE DEF s
  <2>6. Progress(s) /\ Hydrated(store, s) /\ Truthful(store, c, s) /\ StopsAtError(s)
    BY <1>2, <2>4, <2>5
       DEF ContextInv, Progress, ItemPhases, Hydrated, Truthful, StopsAtError
  <2>7. StoresOnce(s)
    BY <1>2, <2>4 DEF ContextInv, StoresOnce
  <2> QED BY <2>1, <2>3, <2>4, <2>6, <2>7 DEF ContextInv
<1>3. CASE r.phase = "post"
  BY <1>3, ItemDoneInv DEF Emitted
<1>4. CASE r.phase = "post_bulk"
  <2>1. Emitted(r) = Answer(r, "ok")
    BY <1>4 DEF Emitted
  <2>2. "ok" \in Statuses \ {"none"} /\ Len(r.results) = Len(r.items)
    BY <1>4 DEF Statuses, ContextInv, Progress
  <2>3. Between(store, c, r) /\ (r.mode = "atomic" => AllGood(r))
    BY <1>4, ContextIsBetween
  <2>4. ContextInv(store, c, Answer(r, "ok")) /\ Answer(r, "ok").phase = "done"
    BY <2>2, <2>3, AnswerInv
  <2> QED BY <2>1, <2>4
<1> QED BY <1>1, <1>2, <1>3, <1>4 DEF Events
LEMMA PassedInv ==
  ASSUME NEW store, NEW c, NEW r, ContextInv(store, c, r), r.phase \in Events
  PROVE  ContextInv(store, c, Passed(r)) /\ Passed(r).phase # "service"
<1>1. CASE r.h = Len(Handlers(r.phase))
  BY <1>1, EmittedInv DEF Passed
<1>2. CASE r.h # Len(Handlers(r.phase))
  <2> DEFINE s == [r EXCEPT !.h = @ + 1]
  <2>1. Passed(r) = s
    BY <1>2 DEF Passed
  <2>2. r \in Context /\ r.h + 1 \in Nat \ {0}
    BY ContextFields DEF ContextInv
  <2>3. s \in Context
    BY <2>2 DEF Context
  <2>4. /\ s.phase = r.phase
        /\ s.mode = r.mode /\ s.items = r.items /\ s.results = r.results
        /\ s.wrote = r.wrote /\ s.status = r.status /\ s.entity = r.entity
        /\ s.result = r.result
    BY <2>2 DEF Context
  <2>5. Current(s) = Current(r)
    BY <2>4 DEF Current
  <2> HIDE DEF s
  <2>6. Progress(s) /\ Hydrated(store, s) /\ Truthful(store, c, s) /\ StopsAtError(s)
    BY <2>4, <2>5
       DEF ContextInv, Progress, ItemPhases, Hydrated, Truthful, StopsAtError
  <2>7. StoresOnce(s)
    BY <2>4 DEF ContextInv, StoresOnce
  <2> QED BY <2>1, <2>3, <2>4, <2>5, <2>6, <2>7 DEF ContextInv, Events
<1> QED BY <1>1, <1>2

(* The service answers, or the document is stored and waits to be read     *)
(* back: what the call has stored is known, and it is the item's.          *)
LEMMA ServedInv ==
  ASSUME NEW store, NEW c, NEW r, ContextInv(store, c, r),
         r.phase \in {"call", "service", "readback"},
         NEW n \in Positions, NEW s \in Context,
         s.phase \in {"readback", "post"},
         s.mode = r.mode, s.items = r.items, s.results = r.results,
         s.status = r.status, s.entity = r.entity,
         \/ s.wrote = r.wrote
         \/ s.wrote = r.wrote \cup {n} /\ r.phase # "readback",
         s.phase = "readback" => Current(r).op = "create",
         Stored(store, c, Current(r), s.result)
  PROVE  ContextInv(store, c, s)
<1>1. r \in Context
  BY DEF ContextInv
<1>2. Current(s) = Current(r)
  BY DEF Current
<1>3. Stored(store, c, Current(s), s.result)
  BY <1>2
<1>4. Progress(s)
  BY DEF ContextInv, Progress, ItemPhases
<1>5. Hydrated(store, s)
  BY <1>2 DEF ContextInv, Hydrated
<1>6. Truthful(store, c, s) /\ StopsAtError(s)
  BY DEF ContextInv, Truthful, StopsAtError
<1>7. StoresOnce(s)
  <2>1. s.status = "none"
    BY DEF ContextInv, Progress
  <2>2. ASSUME s.mode # "single"
        PROVE  IsFiniteSet(s.wrote) /\ Cardinality(s.wrote) <= Len(s.results) + 1
    <3>1. /\ IsFiniteSet(r.wrote) /\ Cardinality(r.wrote) <= Len(r.results) + 1
          /\ r.phase # "readback" => Cardinality(r.wrote) <= Len(r.results)
      BY <2>2 DEF ContextInv, StoresOnce
    <3>2. Cardinality(r.wrote) \in Nat /\ Len(r.results) \in Nat
      BY <1>1, <3>1, FS_CardinalityType, ContextFields
    <3>3. IsFiniteSet(r.wrote \cup {n})
          /\ Cardinality(r.wrote \cup {n}) \in {Cardinality(r.wrote), Cardinality(r.wrote) + 1}
      BY <3>1, FS_AddElement
    <3>4. CASE s.wrote = r.wrote
      BY <3>1, <3>4
    <3>5. CASE s.wrote = r.wrote \cup {n} /\ r.phase # "readback"
      BY <3>1, <3>2, <3>3, <3>5
    <3> QED BY <3>4, <3>5
  <2> QED BY <2>1, <2>2 DEF StoresOnce
<1> QED BY <1>3, <1>4, <1>5, <1>6, <1>7 DEF ContextInv

LEMMA ReturnedFields ==
  ASSUME NEW r \in Context, NEW d \in Positions, NEW s, s = Returned(r, d)
  PROVE  /\ s \in Context /\ s.phase = "post"
         /\ s.mode = r.mode /\ s.items = r.items /\ s.results = r.results
         /\ s.wrote = r.wrote /\ s.status = r.status /\ s.entity = r.entity
         /\ s.result = IF d = 0 /\ Current(r).op = "update" THEN r.entity ELSE d
<1> DEFINE result == IF d = 0 /\ Current(r).op = "update" THEN r.entity ELSE d
<1>1. result \in Positions /\ 1 \in Nat \ {0}
  BY ContextFields
<1>2. s = [r EXCEPT !.phase = "post", !.h = 1, !.result = result]
  BY DEF Returned
<1> HIDE DEF result
<1>3. s \in Context
  BY <1>1, <1>2 DEF Context, Events
<1>4. /\ s.phase = "post"
      /\ s.mode = r.mode /\ s.items = r.items /\ s.results = r.results
      /\ s.wrote = r.wrote /\ s.status = r.status /\ s.entity = r.entity
      /\ s.result = result
  BY <1>2 DEF Context
<1> QED BY <1>3, <1>4 DEF result

LEMMA ReturnedInv ==
  ASSUME NEW store, NEW c, NEW r, ContextInv(store, c, r),
         r.phase \in {"call", "service", "readback"}, NEW d \in Positions,
         Stored(store, c, Current(r),
                IF d = 0 /\ Current(r).op = "update" THEN r.entity ELSE d),
         NEW s, s = Returned(r, d)
  PROVE  ContextInv(store, c, s) /\ s.phase = "post"
<1>1. r \in Context
  BY DEF ContextInv
<1>2. /\ s \in Context /\ s.phase = "post"
      /\ s.mode = r.mode /\ s.items = r.items /\ s.results = r.results
      /\ s.wrote = r.wrote /\ s.status = r.status /\ s.entity = r.entity
      /\ s.result = IF d = 0 /\ Current(r).op = "update" THEN r.entity ELSE d
  BY <1>1, ReturnedFields
<1>3. Stored(store, c, Current(r), s.result)
  BY <1>2
<1> QED BY <1>2, <1>3, ServedInv

(* The document at position n has been stored.                             *)
WithWrote(r, n) == [r EXCEPT !.wrote = @ \cup {n}]

LEMMA WithWroteFields ==
  ASSUME NEW r \in Context, NEW n \in Positions, NEW w, w = WithWrote(r, n)
  PROVE  /\ w \in Context /\ w.phase = r.phase
         /\ w.mode = r.mode /\ w.items = r.items /\ w.results = r.results
         /\ w.wrote = r.wrote \cup {n} /\ w.status = r.status /\ w.entity = r.entity
<1>1. r.wrote \cup {n} \in SUBSET Positions
  BY ContextFields
<1>2. \A t \in SUBSET Positions :
        LET s == [r EXCEPT !.wrote = t]
        IN  /\ s \in Context /\ s.phase = r.phase
            /\ s.mode = r.mode /\ s.items = r.items /\ s.results = r.results
            /\ s.wrote = t /\ s.status = r.status /\ s.entity = r.entity
  BY DEF Context
<1>3. w = [r EXCEPT !.wrote = r.wrote \cup {n}]
  BY DEF WithWrote
<1> QED BY <1>1, <1>2, <1>3

LEMMA InsertedInv ==
  ASSUME NEW store, NEW c, NEW r, ContextInv(store, c, r), r.phase = "service",
         NEW n \in Positions, n # 0, Stored(store, c, Current(r), n),
         NEW s, s = Inserted(WithWrote(r, n), n)
  PROVE  ContextInv(store, c, s) /\ s.phase # "service"
<1> DEFINE w == WithWrote(r, n)
<1>1. r \in Context
  BY DEF ContextInv
<1>2. /\ w \in Context
      /\ w.mode = r.mode /\ w.items = r.items /\ w.results = r.results
      /\ w.wrote = r.wrote \cup {n} /\ w.status = r.status /\ w.entity = r.entity
  BY <1>1, WithWroteFields
<1>3. s = IF Current(w).op = "create"
          THEN [w EXCEPT !.phase = "readback", !.result = n] ELSE Returned(w, n)
  BY DEF Inserted
<1> HIDE DEF w
<1>4. Current(w) = Current(r)
  BY <1>2 DEF Current
<1>5. /\ s \in Context /\ s.phase \in {"readback", "post"}
      /\ s.phase = "readback" => Current(r).op = "create"
      /\ s.mode = r.mode /\ s.items = r.items /\ s.results = r.results
      /\ s.wrote = r.wrote \cup {n} /\ s.status = r.status /\ s.entity = r.entity
      /\ s.result = n
  <2>1. CASE Current(r).op = "create"
    <3>1. s = [w EXCEPT !.phase = "readback", !.result = n]
      BY <1>3, <1>4, <2>1
    <3>2. s \in Context
      BY <1>2, <3>1 DEF Context
    <3>3. /\ s.phase = "readback" /\ s.result = n
          /\ s.mode = w.mode /\ s.items = w.items /\ s.results = w.results
          /\ s.wrote = w.wrote /\ s.status = w.status /\ s.entity = w.entity
      BY <1>2, <3>1 DEF Context
    <3> QED BY <1>2, <2>1, <3>2, <3>3
  <2>2. CASE Current(r).op # "create"
    BY <1>2, <1>3, <1>4, <2>2, ReturnedFields
  <2> QED BY <2>1, <2>2
<1>6. ContextInv(store, c, s)
  BY <1>5, ServedInv
<1> QED BY <1>5, <1>6

(* The answer of the insert is lost.                                       *)
LEMMA LostAnswerInv ==
  ASSUME NEW store, NEW c, NEW r, ContextInv(store, c, r), r.phase = "service",
         NEW n \in Positions, NEW s, s = Raised(WithWrote(r, n), "error")
  PROVE  ContextInv(store, c, s) /\ s.phase # "service"
<1> DEFINE w == WithWrote(r, n)
<1>1. r \in Context
  BY DEF ContextInv
<1>2. /\ w \in Context /\ w.phase = r.phase
      /\ w.mode = r.mode /\ w.items = r.items /\ w.results = r.results
      /\ w.wrote = r.wrote \cup {n} /\ w.status = r.status /\ w.entity = r.entity
  BY <1>1, WithWroteFields
<1> HIDE DEF w
<1>3. ASSUME w.mode # "single"
      PROVE  IsFiniteSet(w.wrote) /\ Cardinality(w.wrote) <= Len(w.results) + 1
  <2>1. IsFiniteSet(r.wrote) /\ Cardinality(r.wrote) <= Len(r.results)
    BY <1>2, <1>3 DEF ContextInv, StoresOnce
  <2>2. Cardinality(r.wrote) \in Nat /\ Len(r.results) \in Nat
    BY <1>1, <2>1, FS_CardinalityType, ContextFields
  <2>3. IsFiniteSet(w.wrote)
        /\ Cardinality(w.wrote) \in {Cardinality(r.wrote), Cardinality(r.wrote) + 1}
    BY <1>2, <2>1, FS_AddElement
  <2> QED BY <1>2, <2>1, <2>2, <2>3
<1>4. Progress(w) /\ StopsAtError(w) /\ Truthful(store, c, w)
  BY <1>2 DEF ContextInv, Progress, StopsAtError, Truthful
<1>5. Underway(store, c, w)
  BY <1>2, <1>3, <1>4 DEF Underway
<1>6. "error" \in Statuses \ {"none", "ok", "atomic"} /\ "error" \notin {"not_found", "precondition"}
  BY DEF Statuses
<1> QED BY <1>2, <1>5, <1>6, ItemRaisedInv DEF ItemPhases, w

-----------------------------------------------------------------------------
(* The collection only grows.                                              *)

Extends(store, more) ==
  \A i \in DOMAIN store : i \in DOMAIN more /\ more[i] = store[i]

LEMMA ContextKept ==
  ASSUME NEW store, NEW more, Extends(store, more), NEW c, NEW r,
         ContextInv(store, c, r)
  PROVE  ContextInv(more, c, r)
<1>1. \A item, d : Stored(store, c, item, d) => Stored(more, c, item, d)
  <2> SUFFICES ASSUME NEW item, NEW d, Stored(store, c, item, d)
               PROVE  Stored(more, c, item, d)
    OBVIOUS
  <2>1. item.op = "create" =>
          /\ d \in DOMAIN more
          /\ more[d].version = 1 /\ more[d].creator = c /\ more[d].value = item.value
    BY DEF Extends, Stored
  <2>2. item.op \in {"get", "update"} => IsLive(more, item.entity, d)
    BY DEF Extends, Stored, IsLive
  <2>3. item.op = "update" => AppliedIn(more, item.entity, item.value, c)
    BY DEF Extends, Stored, AppliedIn
  <2>4. item.op = "delete" =>
          \E i \in DOMAIN more : more[i].entity = item.entity /\ more[i].deleted
    BY DEF Extends, Stored
  <2> QED BY <2>1, <2>2, <2>3, <2>4 DEF Stored
<1>2. Hydrated(more, r)
  BY DEF ContextInv, Hydrated, Extends, IsLive
<1> QED BY <1>1, <1>2 DEF ContextInv, Truthful

LEMMA Grows ==
  ASSUME CRUD!TypeOK, Len(docs) <= MaxDocs, Next
  PROVE  Extends(docs, docs') /\ Len(docs') <= MaxDocs
<1>1. docs \in Seq(CRUD!Document)
  BY DEF CRUD!TypeOK
<1>2. CASE docs' = docs
  BY <1>2 DEF Extends
<1>3. CASE \E x : docs' = Append(docs, x) /\ Len(docs) < MaxDocs
  BY <1>1, <1>3, MaxDocsAssumption DEF Extends
<1>4. docs' = docs \/ \E x : docs' = Append(docs, x) /\ Len(docs) < MaxDocs
  BY StepIsCRUD
     DEF CRUD!Next, CRUD!vars, CRUD!StartCreate, CRUD!StartCreateAs, CRUD!StartUpdate, CRUD!StartDelete,
         CRUD!SkipItem, CRUD!BuildItem, CRUD!InsertNext, CRUD!Fail
<1> QED BY <1>2, <1>3, <1>4

(* The ETag hook only runs before the service, the audit after it.         *)
LEMMA HandlerPlaces ==
  ASSUME NEW event \in Events, NEW h \in Nat \ {0}, h <= Len(Handlers(event))
  PROVE  /\ Handlers(event)[h] = "etag" => event = "pre"
         /\ Handlers(event)[h] = "audit" => event = "post"
<1> DEFINE g == GlobalHandlers[event]
           l == SchemaHandlers[event]
<1>1. g \in Seq(HandlerKinds) /\ l \in Seq(HandlerKinds)
  BY HandlersAssumption
<1>2. \A kind \in Range(g) \cup Range(l) :
        (kind = "etag" => event = "pre") /\ (kind = "audit" => event = "post")
  BY HandlersAssumption
<1>3. Handlers(event) = g \o l
  BY DEF Handlers
<1> HIDE DEF g, l
<1>4. (g \o l)[h] \in Range(g) \cup Range(l)
  <2>1. CASE h <= Len(g)
    <3>1. (g \o l)[h] = g[h] /\ h \in DOMAIN g
      BY <1>1, <2>1
    <3> QED BY <3>1 DEF Range
  <2>2. CASE h > Len(g)
    <3>1. (g \o l)[h] = l[h - Len(g)] /\ h - Len(g) \in DOMAIN l
      BY <1>1, <1>3, <2>2
    <3> QED BY <3>1 DEF Range
  <2>3. h <= Len(g) \/ h > Len(g)
    BY <1>1
  <2> QED BY <2>1, <2>2, <2>3
<1> QED BY <1>2, <1>3, <1>4
-----------------------------------------------------------------------------
(* Steps.                                                                  *)

LEMMA RepositoryTypeStep == CRUD!TypeOK /\ [Next]_vars => CRUD!TypeOK'
<1>1. /\ Repository!MaxBatchAssumption /\ Repository!MaxDocsAssumption
      /\ Repository!GivenIdsAssumption
  BY MaxDocsAssumption
     DEF Repository!MaxBatchAssumption, Repository!MaxDocsAssumption,
         Repository!GivenIdsAssumption
<1>2. Repository!TypeOK /\ [Repository!Next]_(Repository!vars) => Repository!TypeOK'
  BY <1>1, Repository!TypeStep
<1>3. CRUD!TypeOK <=> Repository!TypeOK
  BY DEF CRUD!TypeOK, Repository!TypeOK, CRUD!Document, Repository!Document,
         CRUD!Item, Repository!Item, CRUD!Payloads, Repository!Payloads
<1>4. CRUD!TypeOK' <=> Repository!TypeOK'
  BY DEF CRUD!TypeOK, Repository!TypeOK, CRUD!Document, Repository!Document,
         CRUD!Item, Repository!Item, CRUD!Payloads, Repository!Payloads
<1>5. [Next]_vars => [Repository!Next]_(Repository!vars)
  BY StepIsCRUD, SameNext DEF vars, CRUD!vars, Repository!vars
<1> QED BY <1>2, <1>3, <1>4, <1>5

(* A step of one request disturbs no other.                                *)
LEMMA FrameStep ==
  ASSUME IInv, Next, NEW c \in Clients, NEW s,
         req' = [req EXCEPT ![c] = s],
         \A d \in Clients \ {c} :
           pc'[d] = pc[d] /\ todo'[d] = todo[d] /\ batch'[d] = batch[d],
         ContextInv(docs', c, s), CallInv(c)', AuditInv'
  PROVE  IInv'
<1>1. CRUD!TypeOK'
  BY RepositoryTypeStep DEF IInv
<1>2. Extends(docs, docs') /\ Len(docs') <= MaxDocs
  BY Grows DEF IInv
<1>3. req' \in [Clients -> Context] /\ req'[c] = s
  BY DEF IInv, ContextInv
<1>4. ASSUME NEW d \in Clients PROVE ContextInv(docs', d, req'[d]) /\ CallInv(d)'
  <2>1. CASE d = c
    BY <1>3, <2>1
  <2>2. CASE d # c
    <3>1. req'[d] = req[d]
      BY <2>2 DEF IInv
    <3>2. ContextInv(docs', d, req[d])
      BY <1>2, ContextKept DEF IInv
    <3>3. CallInv(d)
      BY DEF IInv
    <3>4. CallInv(d)'
      BY <2>2, <3>1, <3>3 DEF CallInv
    <3> QED BY <3>1, <3>2, <3>4
  <2> QED BY <2>1, <2>2
<1> QED BY <1>1, <1>2, <1>3, <1>4 DEF IInv

LEMMA AppliedInDocs ==
  \A e, value, user : Applied(e, value, user) <=> AppliedIn(docs, e, value, user)
BY DEF Applied, AppliedIn, CRUD!VersionsOf

(* What an entry says of the collection; AuditIsSound is this of every one. *)
Sound(store, a) ==
  /\ a.op = "create" =>
       \E i \in DOMAIN store :
         /\ store[i].entity = a.entity /\ store[i].version = 1
         /\ store[i].creator = a.user /\ store[i].value = a.value
  /\ a.op = "update" => AppliedIn(store, a.entity, a.value, a.user)
  /\ a.op = "delete" => \E i \in DOMAIN store : store[i].entity = a.entity /\ store[i].deleted

AllSound == \A a \in audit : Sound(docs, a)

LEMMA SoundInDocs == AuditIsSound <=> AllSound
<1>1. ASSUME NEW a
      PROVE  Sound(docs, a) <=>
               /\ a.op = "create" =>
                    \E i \in CRUD!VersionsOf(a.entity) :
                      docs[i].version = 1 /\ docs[i].creator = a.user /\ docs[i].value = a.value
               /\ a.op = "update" => Applied(a.entity, a.value, a.user)
               /\ a.op = "delete" => \E i \in CRUD!VersionsOf(a.entity) : docs[i].deleted
  <2>1. (\E i \in DOMAIN docs :
          /\ docs[i].entity = a.entity /\ docs[i].version = 1
          /\ docs[i].creator = a.user /\ docs[i].value = a.value)
        <=> \E i \in CRUD!VersionsOf(a.entity) :
              docs[i].version = 1 /\ docs[i].creator = a.user /\ docs[i].value = a.value
    BY DEF CRUD!VersionsOf
  <2>2. (\E i \in DOMAIN docs : docs[i].entity = a.entity /\ docs[i].deleted)
        <=> \E i \in CRUD!VersionsOf(a.entity) : docs[i].deleted
    BY DEF CRUD!VersionsOf
  <2>3. Applied(a.entity, a.value, a.user) <=> AppliedIn(docs, a.entity, a.value, a.user)
    BY AppliedInDocs
  <2> QED BY <2>1, <2>2, <2>3, Zenon DEF Sound
<1> QED BY <1>1, Zenon DEF AuditIsSound, AllSound

LEMMA SoundKept ==
  ASSUME NEW store, NEW more, Extends(store, more), NEW a, Sound(store, a)
  PROVE  Sound(more, a)
<1>1. a.op = "create" =>
        \E i \in DOMAIN more :
          /\ more[i].entity = a.entity /\ more[i].version = 1
          /\ more[i].creator = a.user /\ more[i].value = a.value
  BY DEF Sound, Extends
<1>2. a.op = "update" => AppliedIn(more, a.entity, a.value, a.user)
  BY DEF Sound, Extends, AppliedIn
<1>3. a.op = "delete" => \E i \in DOMAIN more : more[i].entity = a.entity /\ more[i].deleted
  BY DEF Sound, Extends
<1> QED BY <1>1, <1>2, <1>3 DEF Sound

(* What was recorded stays true.                                           *)
LEMMA AuditKept ==
  ASSUME IInv, Next, audit' = audit
  PROVE  AuditInv'
<1>1. Extends(docs, docs')
  BY Grows DEF IInv
<1>2. \A a \in audit : Sound(docs, a)
  BY SoundInDocs DEF IInv, AuditInv, AllSound
<1>3. AllSound'
  BY <1>1, <1>2, SoundKept DEF AllSound
<1>4. AuditIsSound'
  BY <1>3, SoundInDocs, PTL
<1> QED BY <1>4 DEF IInv, AuditInv

LEMMA QuietStep ==
  ASSUME IInv, Next, NEW c \in Clients, NEW s,
         UNCHANGED crudVars,
         req' = [req EXCEPT ![c] = s],
         req[c].phase # "service", s.phase # "service",
         ContextInv(docs, c, s), AuditInv'
  PROVE  IInv'
<1>1. UNCHANGED <<docs, pc, todo, batch>>
  BY DEF crudVars
<1>2. req'[c] = s /\ pc[c] = "idle"
  BY DEF IInv, CallInv
<1>3. CallInv(c)'
  BY <1>1, <1>2 DEF CallInv
<1> QED BY <1>1, <1>3, FrameStep

LEMMA IdleInv ==
  ASSUME NEW store, NEW c PROVE ContextInv(store, c, Idle) /\ Idle.phase = "idle"
<1>1. /\ Idle.phase = "idle" /\ Idle.mode = "single" /\ Idle.items = << >>
      /\ Idle.results = << >> /\ Idle.wrote = {} /\ Idle.status = "none"
  BY DEF Idle
<1>2. Idle \in Context
  BY MaxDocsAssumption DEF Idle, Context, Positions, Statuses
<1>3. Progress(Idle) /\ StoresOnce(Idle) /\ StopsAtError(Idle)
  BY <1>1 DEF Progress, StoresOnce, StopsAtError, ItemPhases
<1>4. Hydrated(store, Idle) /\ Truthful(store, c, Idle)
  BY <1>1 DEF Hydrated, Truthful
<1> QED BY <1>1, <1>2, <1>3, <1>4 DEF ContextInv

LEMMA InitInv == Init => IInv
<1> SUFFICES ASSUME Init PROVE IInv
  OBVIOUS
<1>1. CRUD!TypeOK /\ docs = << >>
  BY DEF Init, CRUD!Init, CRUD!TypeOK, CRUD!Document, CRUD!Item
<1>2. Len(docs) <= MaxDocs
  BY <1>1, MaxDocsAssumption
<1>3. ASSUME NEW c \in Clients PROVE ContextInv(docs, c, req[c]) /\ CallInv(c)
  BY IdleInv DEF Init, CRUD!Init, CallInv
<1>4. req \in [Clients -> Context]
  BY IdleInv DEF Init, ContextInv
<1>5. AuditInv
  BY DEF Init, AuditInv, AuditIsSound
<1> QED BY <1>1, <1>2, <1>3, <1>4, <1>5 DEF IInv

(* A new request, before its first item or its pre_bulk handlers.          *)
LEMMA ArrivedInv ==
  ASSUME NEW store, NEW c, NEW mode \in Modes, NEW items \in Seq(Items),
         NEW m \in Positions, mode = "single" => Len(items) = 1,
         NEW s,
         LET r == [Idle EXCEPT !.mode = mode, !.items = items, !.ifMatch = m]
         IN  s = IF mode = "single" THEN BeginItem(r) ELSE [r EXCEPT !.phase = "pre_bulk"]
  PROVE  ContextInv(store, c, s) /\ s.phase # "service"
<1> DEFINE r == [Idle EXCEPT !.mode = mode, !.items = items, !.ifMatch = m]
<1>1. s = IF mode = "single" THEN BeginItem(r) ELSE [r EXCEPT !.phase = "pre_bulk"]
  OBVIOUS
<1>2. r = [Idle EXCEPT !.mode = mode, !.items = items, !.ifMatch = m]
  OBVIOUS
<1>3. Idle \in Context
  BY IdleInv DEF ContextInv
<1> HIDE DEF r
<1>4. r \in Context
  BY <1>2, <1>3, ModesAssumption DEF Context
<1>5. r.mode = mode /\ r.items = items /\ r.results = << >> /\ r.wrote = {} /\ r.status = "none"
  BY <1>2, <1>3 DEF Idle
<1>6. /\ s \in Context
      /\ s.mode = mode /\ s.items = items /\ s.results = << >> /\ s.wrote = {}
      /\ s.status = "none"
      /\ IF mode = "single"
         THEN s.phase = IF Current(r).op = "create" THEN "pre" ELSE "hydrate"
         ELSE s.phase = "pre_bulk"
  <2>1. CASE mode = "single"
    BY <1>1, <1>4, <1>5, <2>1, BeginItemFacts
  <2>2. CASE mode # "single"
    <3>1. s = [r EXCEPT !.phase = "pre_bulk"]
      BY <1>1, <2>2
    <3>2. s \in Context
      BY <1>4, <3>1 DEF Context, Events
    <3>3. /\ s.phase = "pre_bulk" /\ s.mode = r.mode /\ s.items = r.items
          /\ s.results = r.results /\ s.wrote = r.wrote /\ s.status = r.status
      BY <1>4, <3>1 DEF Context
    <3> QED BY <1>5, <2>2, <3>2, <3>3
  <2> QED BY <2>1, <2>2
<1>7. Current(s) = Current(r)
  BY <1>5, <1>6 DEF Current
<1>8. /\ Len(items) \in Nat
      /\ mode = "single" => Len(items) > 0
      /\ mode = "single" => Len(items) <= 1
  <2>1. Len(items) \in Nat
    OBVIOUS
  <2>2. CASE mode = "single"
    <3>1. Len(items) = 1
      BY <2>2
    <3>2. \A n \in Nat : n = 1 => n > 0 /\ n <= 1
      OBVIOUS
    <3> QED BY <2>1, <3>1, <3>2, Zenon
  <2>3. CASE mode # "single"
    BY <2>1, <2>3, Zenon
  <2> QED BY <2>2, <2>3
<1>9. Progress(s)
  <2>1. Len(s.results) = 0 /\ s.items = items
    BY <1>6
  <2>2. Len(s.results) <= Len(s.items) /\ (mode = "single" => Len(s.results) < Len(s.items))
    BY <1>8, <2>1
  <2>3. s.mode = "single" => Len(s.items) <= 1
    <3>1. mode = "single" => Len(items) <= 1
      BY <1>8
    <3>2. s.mode = mode
      BY <1>6
    <3> QED BY <2>1, <3>1, <3>2, Zenon
  <2>4. /\ s.phase \in {"pre_bulk", "pre", "hydrate"}
        /\ IF mode = "single" THEN s.phase \in {"pre", "hydrate"} ELSE s.phase = "pre_bulk"
        /\ s.mode = mode
    BY <1>6
  <2>5. s.status = "none"
    BY <1>6
  <2> QED BY <2>2, <2>3, <2>4, <2>5 DEF Progress, ItemPhases
<1>10. StoresOnce(s)
  <2>1. IsFiniteSet(s.wrote) /\ Cardinality(s.wrote) = 0
    BY <1>6, FS_EmptySet
  <2> QED BY <1>6, <2>1 DEF StoresOnce
<1>11. StopsAtError(s) /\ Hydrated(store, s) /\ Truthful(store, c, s)
  BY <1>6, <1>7 DEF StopsAtError, Hydrated, Truthful
<1>12. s.phase \notin {"readback", "post", "service"}
  BY <1>6
<1> QED BY <1>6, <1>9, <1>10, <1>11, <1>12 DEF ContextInv
LEMMA ReceiveStep ==
  ASSUME IInv, Next, NEW c \in Clients, Receive(c)
  PROVE  IInv'
<1>1. PICK mode \in Modes, op \in Ops :
        \E items \in {<< >>} \cup CRUD!UpTo(IF mode = "single" THEN 1 ELSE MaxItems,
                                            {i \in Items : i.op = op}),
           m \in {0} \cup DOMAIN docs :
          /\ mode # "single" => op # "get"
          /\ mode = "single" => items # << >>
          /\ m # 0 => IfMatch /\ op \in {"update", "delete"}
          /\ LET r == [Idle EXCEPT !.mode = mode, !.items = items, !.ifMatch = m]
             IN  req' = [req EXCEPT ![c] =
                   IF mode = "single" THEN BeginItem(r)
                   ELSE [r EXCEPT !.phase = "pre_bulk"]]
  BY Zenon DEF Receive
<1>2. PICK items \in {<< >>} \cup CRUD!UpTo(IF mode = "single" THEN 1 ELSE MaxItems,
                                            {i \in Items : i.op = op}),
           m \in {0} \cup DOMAIN docs :
          /\ mode = "single" => items # << >>
          /\ LET r == [Idle EXCEPT !.mode = mode, !.items = items, !.ifMatch = m]
             IN  req' = [req EXCEPT ![c] =
                   IF mode = "single" THEN BeginItem(r) ELSE [r EXCEPT !.phase = "pre_bulk"]]
  BY <1>1, Zenon
<1> DEFINE r == [Idle EXCEPT !.mode = mode, !.items = items, !.ifMatch = m]
           s == IF mode = "single" THEN BeginItem(r) ELSE [r EXCEPT !.phase = "pre_bulk"]
<1>3. req' = [req EXCEPT ![c] = s]
  BY <1>2
<1>4. items \in Seq(Items) /\ (mode = "single" => Len(items) = 1)
  <2> DEFINE n == IF mode = "single" THEN 1 ELSE MaxItems
  <2>1. CASE items = << >>
    BY <1>2, <2>1
  <2>2. CASE items \in CRUD!UpTo(n, {i \in Items : i.op = op})
    <3>1. PICK k \in 1 .. n : items \in [1 .. k -> {i \in Items : i.op = op}]
      BY <2>2 DEF CRUD!UpTo
    <3>2. n \in Nat \ {0} /\ (mode = "single" => n = 1)
      BY MaxItemsAssumption
    <3> HIDE DEF n
    <3>3. items \in [1 .. k -> Items] /\ k \in Nat \ {0} /\ (mode = "single" => k = 1)
      BY <3>1, <3>2
    <3> QED BY <3>3
  <2> QED BY <2>1, <2>2
<1>5. m \in Positions
  <2>1. DOMAIN docs = 1 .. Len(docs) /\ Len(docs) \in Nat
    BY DEF IInv, CRUD!TypeOK
  <2> QED BY <2>1, MaxDocsAssumption DEF IInv, Positions
<1>6. ContextInv(docs, c, s) /\ s.phase # "service"
  <2> HIDE DEF s
  <2>1. s = IF mode = "single" THEN BeginItem(r) ELSE [r EXCEPT !.phase = "pre_bulk"]
    BY DEF s
  <2> QED BY <1>4, <1>5, <2>1, ArrivedInv
<1>7. UNCHANGED crudVars /\ req[c].phase # "service" /\ AuditInv'
  BY AuditKept DEF Receive
<1> HIDE DEF s
<1> QED BY <1>3, <1>6, <1>7, QuietStep

LEMMA HydrateStep ==
  ASSUME IInv, Next, NEW c \in Clients, Hydrate(c)
  PROVE  IInv'
<1> DEFINE r == req[c]
<1>1. r.phase = "hydrate" /\ UNCHANGED crudVars /\ audit' = audit /\ r.phase # "service"
  BY DEF Hydrate
<1>2. ContextInv(docs, c, r) /\ r \in Context
  BY DEF IInv, ContextInv
<1>3. AuditInv'
  BY <1>1, AuditKept
<1>4. CASE \E i \in CRUD!Gets(Current(r).entity) :
             req' = [req EXCEPT ![c] = [r EXCEPT !.entity = i, !.phase = "pre"]]
  <2>1. PICK i \in CRUD!Gets(Current(r).entity) :
               req' = [req EXCEPT ![c] = [r EXCEPT !.entity = i, !.phase = "pre"]]
    BY <1>4
  <2> DEFINE s == [r EXCEPT !.entity = i, !.phase = "pre"]
  <2>2. IsLive(docs, Current(r).entity, i)
    BY DEF CRUD!Gets, CRUD!Latest, CRUD!LatestAmong, CRUD!VersionsOf, IsLive
  <2>3. i \in Positions
    <3>1. DOMAIN docs = 1 .. Len(docs) /\ Len(docs) \in Nat /\ Len(docs) <= MaxDocs
      BY DEF IInv, CRUD!TypeOK
    <3> QED BY <2>2, <3>1, MaxDocsAssumption DEF IsLive, Positions
  <2>4. s = [r EXCEPT !.entity = i, !.phase = "pre"] /\ req' = [req EXCEPT ![c] = s]
    BY <2>1
  <2> HIDE DEF s, r
  <2>5. s \in Context
    BY <1>2, <2>3, <2>4 DEF Context, Events
  <2>6. /\ s.phase = "pre" /\ s.entity = i
        /\ s.mode = r.mode /\ s.items = r.items /\ s.results = r.results
        /\ s.wrote = r.wrote /\ s.status = r.status
    BY <1>2, <2>4 DEF Context
  <2>7. Current(s) = Current(r)
    BY <2>6 DEF Current
  <2>8. Progress(s) /\ Hydrated(docs, s) /\ Truthful(docs, c, s) /\ StopsAtError(s)
    BY <1>1, <1>2, <2>2, <2>6, <2>7
       DEF ContextInv, Progress, ItemPhases, Hydrated, Truthful, StopsAtError
  <2>9. StoresOnce(s)
    BY <1>1, <1>2, <2>6 DEF ContextInv, StoresOnce
  <2>10. ContextInv(docs, c, s) /\ s.phase # "service"
    BY <2>5, <2>6, <2>8, <2>9 DEF ContextInv
  <2> QED BY <1>1, <1>3, <2>4, <2>10, QuietStep DEF r
<1>5. CASE req' = [req EXCEPT ![c] = Raised(r, "not_found")]
  <2>1. "not_found" \in Statuses \ {"none", "ok", "atomic"}
    BY DEF Statuses
  <2>2. ContextInv(docs, c, Raised(r, "not_found")) /\ Raised(r, "not_found").phase # "service"
    BY <1>1, <1>2, <2>1, RaisedInv DEF ItemPhases
  <2> QED BY <1>1, <1>3, <1>5, <2>2, QuietStep
<1> QED BY <1>4, <1>5 DEF Hydrate

LEMMA HookStep ==
  ASSUME IInv, Next, NEW c \in Clients,
         EmitToNobody(c) \/ RunUserHook(c) \/ RunPrecondition(c)
  PROVE  IInv'
<1> DEFINE r == req[c]
<1>1. r.phase \in Events /\ UNCHANGED crudVars /\ audit' = audit
  BY DEF EmitToNobody, RunUserHook, RunPrecondition, Handles
<1>2. ContextInv(docs, c, r) /\ r.phase # "service"
  BY <1>1 DEF IInv, Events
<1>3. AuditInv'
  BY <1>1, AuditKept
<1>4. CASE EmitToNobody(c)
  <2>1. req' = [req EXCEPT ![c] = Emitted(r)]
    BY <1>4 DEF EmitToNobody
  <2> QED BY <1>1, <1>2, <1>3, <2>1, EmittedInv, QuietStep
<1>5. ASSUME req' = [req EXCEPT ![c] = Passed(r)] PROVE IInv'
  BY <1>1, <1>2, <1>3, <1>5, PassedInv, QuietStep
<1>6. CASE RunUserHook(c)
  <2>1. CASE req' = [req EXCEPT ![c] = Raised(r, "hook")]
    <3>1. "hook" \in Statuses \ {"none", "ok", "atomic"}
          /\ "hook" \notin {"not_found", "precondition"}
      BY DEF Statuses
    <3>2. ContextInv(docs, c, Raised(r, "hook")) /\ Raised(r, "hook").phase # "service"
      BY <1>1, <1>2, <3>1, RaisedInv
    <3> QED BY <1>1, <1>2, <1>3, <2>1, <3>2, QuietStep
  <2> QED BY <1>5, <1>6, <2>1 DEF RunUserHook
<1>7. CASE RunPrecondition(c)
  <2>1. CASE req' = [req EXCEPT ![c] = Raised(r, "precondition")]
    <3>1. "precondition" \in Statuses \ {"none", "ok", "atomic"}
      BY DEF Statuses
    <3>2. r.h \in Nat \ {0}
      BY <1>2, ContextFields DEF ContextInv
    <3>3. r.phase = "pre"
      BY <1>1, <1>7, <3>2, HandlerPlaces DEF RunPrecondition, Handles
    <3>4. ContextInv(docs, c, Raised(r, "precondition"))
          /\ Raised(r, "precondition").phase # "service"
      BY <1>1, <1>2, <3>1, <3>3, RaisedInv
    <3> QED BY <1>1, <1>2, <1>3, <2>1, <3>4, QuietStep
  <2> QED BY <1>5, <1>7, <2>1 DEF RunPrecondition
<1> QED BY <1>4, <1>6, <1>7
LEMMA AuditStep ==
  ASSUME IInv, Next, NEW c \in Clients, RunAudit(c)
  PROVE  IInv'
<1> DEFINE r == req[c]
           e == AuditEntry(c, r)
           item == Current(r)
<1>1. r.phase \in Events /\ UNCHANGED crudVars /\ docs' = docs
      /\ req' = [req EXCEPT ![c] = Passed(r)]
  BY DEF RunAudit, Handles, crudVars
<1>2. ContextInv(docs, c, r) /\ r.phase # "service" /\ r \in Context
  BY <1>1 DEF IInv, Events, ContextInv
<1>3. r.phase = "post"
  <2>1. r.h \in Nat \ {0}
    BY <1>2, ContextFields
  <2> QED BY <1>1, <2>1, HandlerPlaces DEF RunAudit, Handles
<1>4. /\ Stored(docs, c, item, r.result)
      /\ item \in Items /\ item.op \in {"create", "get", "update", "delete"}
  BY <1>2, <1>3, CurrentFacts DEF ContextInv, Progress, ItemPhases
<1>5. audit' \subseteq audit \cup (IF item.op = "get" THEN {} ELSE {e})
  BY DEF RunAudit
<1>6. /\ e.op = item.op /\ e.user = c /\ e.value = item.value
      /\ e.entity = IF item.op = "create" /\ r.result # 0
                    THEN docs[r.result].entity ELSE item.entity
      /\ e = [op |-> e.op, entity |-> e.entity, user |-> e.user, value |-> e.value]
  BY DEF AuditEntry
<1>7. item.value \in CRUD!Payloads
  BY <1>4 DEF Items, CRUD!Payloads
<1>8. docs \in Seq(CRUD!Document)
  BY DEF IInv, CRUD!TypeOK
<1> HIDE DEF e, item
<1>9. item.op # "get" => e \in Entries /\ Sound(docs, e)
  <2>1. CASE item.op = "create"
    <3>1. /\ r.result \in DOMAIN docs
          /\ docs[r.result].version = 1 /\ docs[r.result].creator = c
          /\ docs[r.result].value = item.value
      BY <1>4, <2>1 DEF Stored
    <3>2. docs[r.result] \in CRUD!Document /\ r.result # 0
      BY <1>8, <3>1
    <3>3. e.entity = docs[r.result].entity /\ e.entity \in Entities
      BY <1>6, <2>1, <3>2 DEF CRUD!Document
    <3>4. e \in Entries
      BY <1>6, <1>7, <2>1, <3>3 DEF Entries
    <3>5. Sound(docs, e)
      BY <1>6, <2>1, <3>1, <3>3 DEF Sound
    <3> QED BY <3>4, <3>5
  <2>2. CASE item.op = "update"
    <3>1. AppliedIn(docs, item.entity, item.value, c)
      BY <1>4, <2>2 DEF Stored
    <3>2. e.entity = item.entity /\ item.entity \in Entities
      BY <1>4, <1>6, <2>2 DEF Items
    <3>3. e \in Entries
      BY <1>6, <1>7, <2>2, <3>2 DEF Entries
    <3>4. Sound(docs, e)
      BY <1>6, <2>2, <3>1, <3>2 DEF Sound
    <3> QED BY <3>3, <3>4
  <2>3. CASE item.op = "delete"
    <3>1. \E i \in DOMAIN docs : docs[i].entity = item.entity /\ docs[i].deleted
      BY <1>4, <2>3 DEF Stored
    <3>2. e.entity = item.entity /\ item.entity \in Entities
      BY <1>4, <1>6, <2>3 DEF Items
    <3>3. e \in Entries
      BY <1>6, <1>7, <2>3, <3>2 DEF Entries
    <3>4. Sound(docs, e)
      BY <1>6, <2>3, <3>1, <3>2 DEF Sound
    <3> QED BY <3>3, <3>4
  <2> QED BY <1>4, <2>1, <2>2, <2>3
<1>10. \A a \in audit : Sound(docs, a) /\ a \in Entries
  BY SoundInDocs DEF IInv, AuditInv, AllSound
<1>11. \A a \in audit' : Sound(docs', a) /\ a \in Entries
  BY <1>1, <1>5, <1>9, <1>10
<1>14. AllSound'
  BY <1>11 DEF AllSound
<1>12. AuditIsSound'
  BY <1>14, SoundInDocs, PTL
<1>13. AuditInv'
  BY <1>11, <1>12 DEF AuditInv
<1> QED BY <1>1, <1>2, <1>13, PassedInv, QuietStep

LEMMA GetStep ==
  ASSUME IInv, Next, NEW c \in Clients, CallGet(c)
  PROVE  IInv'
<1> DEFINE r == req[c]
           s == Returned(r, r.entity)
<1>1. /\ r.phase = "call" /\ Current(r).op = "get"
      /\ req' = [req EXCEPT ![c] = s] /\ UNCHANGED crudVars /\ audit' = audit
  BY DEF CallGet
<1>2. ContextInv(docs, c, r) /\ r \in Context
  BY DEF IInv, ContextInv
<1>3. IsLive(docs, Current(r).entity, r.entity)
  BY <1>1, <1>2 DEF ContextInv, Hydrated
<1>4. Stored(docs, c, Current(r),
             IF r.entity = 0 /\ Current(r).op = "update" THEN r.entity ELSE r.entity)
  BY <1>1, <1>3 DEF Stored
<1>5. r.entity \in Positions
  BY <1>2, ContextFields
<1>6. ContextInv(docs, c, s) /\ s.phase = "post"
  BY <1>1, <1>2, <1>4, <1>5, ReturnedInv
<1>7. AuditInv'
  BY <1>1, AuditKept
<1> HIDE DEF s
<1> QED BY <1>1, <1>6, <1>7, QuietStep

(* The service call begins: only the phase changes.                        *)
LEMMA CallBeginsInv ==
  ASSUME NEW store, NEW c, NEW r, ContextInv(store, c, r), r.phase = "call",
         NEW s, s = [r EXCEPT !.phase = "service"]
  PROVE  ContextInv(store, c, s) /\ s.phase = "service" /\ Current(s) = Current(r)
<1>1. r \in Context
  BY DEF ContextInv
<1>2. s \in Context
  BY <1>1 DEF Context
<1>3. /\ s.phase = "service"
      /\ s.mode = r.mode /\ s.items = r.items /\ s.results = r.results
      /\ s.wrote = r.wrote /\ s.status = r.status /\ s.entity = r.entity
  BY <1>1 DEF Context
<1>4. Current(s) = Current(r)
  BY <1>3 DEF Current
<1>5. Progress(s) /\ Hydrated(store, s) /\ Truthful(store, c, s) /\ StopsAtError(s)
  BY <1>3, <1>4 DEF ContextInv, Progress, ItemPhases, Hydrated, Truthful, StopsAtError
<1>6. StoresOnce(s)
  BY <1>3 DEF ContextInv, StoresOnce
<1> QED BY <1>2, <1>3, <1>4, <1>5, <1>6 DEF ContextInv

LEMMA UpToOne ==
  ASSUME NEW S, NEW items \in CRUD!UpTo(1, S)
  PROVE  /\ items \in [1 .. 1 -> S] /\ items \in Seq(S)
         /\ Head(items) \in S /\ Tail(items) = << >>
<1>1. items \in [1 .. 1 -> S]
  BY DEF CRUD!UpTo
<1>2. \A n \in Nat : items \in [1 .. n -> S] => items \in Seq(S) /\ Len(items) = n
  OBVIOUS
<1>3. items \in Seq(S) /\ Len(items) = 1
  BY <1>1, <1>2
<1>4. Tail(items) \in Seq(S) /\ Len(Tail(items)) = 0 /\ Head(items) \in S
  BY <1>3
<1>5. \A t \in Seq(S) : Len(t) = 0 => t = << >>
  OBVIOUS
<1> QED BY <1>1, <1>3, <1>4, <1>5

LEMMA CallCreateStep ==
  ASSUME IInv, Next, NEW c \in Clients, CallCreate(c)
  PROVE  IInv'
<1> DEFINE r == req[c]
           s == [r EXCEPT !.phase = "service"]
<1>1. /\ r.phase = "call" /\ Current(r).op = "create" /\ req' = [req EXCEPT ![c] = s]
      /\ audit' = audit /\ CRUD!StartCreate(c)
      /\ Head(batch'[c]).value = Current(r).value
  BY DEF CallCreate
<1>2. ContextInv(docs, c, r)
  BY DEF IInv
<1>3. ContextInv(docs, c, s) /\ s.phase = "service" /\ Current(s) = Current(r)
  BY <1>1, <1>2, CallBeginsInv
<1> HIDE DEF s
<1>4. /\ pc[c] = "idle" /\ pc' = [pc EXCEPT ![c] = "insert"]
      /\ docs' = docs /\ todo' = todo
  BY <1>1 DEF CRUD!StartCreate
<1>5. PICK values \in CRUD!UpTo(1, CRUD!Payloads) :
        \E fresh \in [DOMAIN values -> Entities] :
          batch' = [batch EXCEPT ![c] =
            [k \in DOMAIN values |-> CRUD!FirstVersion(fresh[k], values[k], c)]]
  BY <1>1 DEF CRUD!StartCreate
<1>6. PICK fresh \in [DOMAIN values -> Entities] :
        batch' = [batch EXCEPT ![c] =
          [k \in DOMAIN values |-> CRUD!FirstVersion(fresh[k], values[k], c)]]
  BY <1>5
<1>7. DOMAIN values = 1 .. 1
  BY UpToOne
<1>8. /\ batch \in [Clients -> Seq(CRUD!Document)] /\ pc \in [Clients -> {"idle", "scan", "insert"}]
      /\ todo[c] = << >> /\ req \in [Clients -> Context]
  BY <1>4 DEF IInv, CRUD!TypeOK
<1>9. /\ batch'[c] = [k \in 1 .. 1 |-> CRUD!FirstVersion(fresh[k], values[k], c)]
      /\ \A d \in Clients \ {c} : batch'[d] = batch[d]
  BY <1>6, <1>7, <1>8
<1>10. Head(batch'[c]) = CRUD!FirstVersion(fresh[1], values[1], c) /\ Tail(batch'[c]) = << >>
  BY <1>9
<1>11. Head(batch'[c]).version = 1 /\ Head(batch'[c]).creator = c
  BY <1>10 DEF CRUD!FirstVersion
<1>12. /\ \A d \in Clients \ {c} : pc'[d] = pc[d] /\ todo'[d] = todo[d]
       /\ pc'[c] = "insert" /\ todo'[c] = << >> /\ req'[c] = s
  BY <1>1, <1>4, <1>8
<1>13. CallInv(c)'
  BY <1>1, <1>3, <1>10, <1>11, <1>12 DEF CallInv, Builds
<1>14. AuditInv'
  BY <1>1, AuditKept
<1> QED BY <1>1, <1>3, <1>4, <1>9, <1>12, <1>13, <1>14, FrameStep

LEMMA CallWriteStep ==
  ASSUME IInv, Next, NEW c \in Clients, CallWrite(c)
  PROVE  IInv'
<1> DEFINE r == req[c]
           s == [r EXCEPT !.phase = "service"]
<1>1. /\ r.phase = "call" /\ req' = [req EXCEPT ![c] = s]
      /\ audit' = audit
      /\ CRUD!StartUpdate(c) \/ CRUD!StartDelete(c)
      /\ Head(todo'[c]) = Current(r)
  BY DEF CallWrite
<1>2. ContextInv(docs, c, r)
  BY DEF IInv
<1>3. ContextInv(docs, c, s) /\ s.phase = "service" /\ Current(s) = Current(r)
  BY <1>1, <1>2, CallBeginsInv
<1> HIDE DEF s
<1>4. /\ pc[c] = "idle" /\ pc' = [pc EXCEPT ![c] = "scan"]
      /\ docs' = docs /\ batch' = batch
  BY <1>1 DEF CRUD!StartUpdate, CRUD!StartDelete
<1>5. PICK items \in CRUD!UpTo(1, CRUD!Item) : todo' = [todo EXCEPT ![c] = items]
  BY <1>1 DEF CRUD!StartUpdate, CRUD!StartDelete, CRUD!UpTo
<1>6. /\ items \in Seq(CRUD!Item)
      /\ Head(items) \in CRUD!Item /\ Tail(items) = << >>
  BY UpToOne
<1>7. /\ pc \in [Clients -> {"idle", "scan", "insert"}] /\ todo \in [Clients -> Seq(CRUD!Item)]
      /\ batch[c] = << >> /\ req \in [Clients -> Context]
  BY <1>4 DEF IInv, CRUD!TypeOK
<1>8. todo'[c] = items /\ Head(items) \in CRUD!Item /\ Tail(items) = << >>
  BY <1>5, <1>6, <1>7
<1>9. Current(s).op \in {"update", "delete"}
  BY <1>1, <1>3, <1>8 DEF CRUD!Item
<1>10. /\ \A d \in Clients \ {c} : pc'[d] = pc[d] /\ todo'[d] = todo[d] /\ batch'[d] = batch[d]
       /\ pc'[c] = "scan" /\ batch'[c] = << >> /\ req'[c] = s
  BY <1>1, <1>4, <1>5, <1>7
<1>11. CallInv(c)'
  BY <1>1, <1>3, <1>8, <1>9, <1>10 DEF CallInv
<1>12. AuditInv'
  BY <1>1, AuditKept
<1> QED BY <1>1, <1>3, <1>4, <1>10, <1>11, <1>12, FrameStep
(* Among finitely many things with a number, one has the greatest.         *)
LEMMA GreatestExists ==
  ASSUME NEW S, IsFiniteSet(S), S # {}, NEW v, \A i \in S : v[i] \in Nat
  PROVE  \E i \in S : \A j \in S : v[j] <= v[i]
<1> DEFINE Above(i) == {j \in S : v[j] > v[i]}
           T == {Above(i) : i \in S}
<1>1. IsWellFoundedOn(StrictSubsetOrdering(S), FiniteSubsetsOf(S))
  BY FS_StrictSubsetOrderingWellFounded
<1>2. T \subseteq FiniteSubsetsOf(S) /\ T # {}
  <2>1. ASSUME NEW i \in S PROVE Above(i) \in SUBSET S /\ IsFiniteSet(Above(i))
    BY FS_Subset
  <2> QED BY <2>1 DEF FiniteSubsetsOf
<1>3. PICK U \in T : \A V \in T : ~(<<V, U>> \in StrictSubsetOrdering(S))
  <2> HIDE DEF T
  <2> QED BY <1>1, <1>2, WFMin
<1>4. PICK i \in S : U = Above(i)
  OBVIOUS
<1>5. Above(i) = {}
  <2> SUFFICES ASSUME NEW j \in Above(i) PROVE FALSE
    OBVIOUS
  <2>1. j \in S /\ Above(j) \in T /\ Above(j) \subseteq Above(i) /\ j \notin Above(j)
    OBVIOUS
  <2>2. <<Above(j), Above(i)>> \in StrictSubsetOrdering(S)
    BY <2>1 DEF StrictSubsetOrdering
  <2> QED BY <1>3, <1>4, <2>1, <2>2
<1> QED BY <1>5

(* The repository finds a latest version of an entity that is stored.      *)
LEMMA LatestExists ==
  ASSUME docs \in Seq(CRUD!Document), NEW e, CRUD!VersionsOf(e) # {}
  PROVE  CRUD!Latest(e) # {}
<1> DEFINE S == CRUD!VersionsOf(e)
           v == [i \in S |-> docs[i].version]
<1>1. S \subseteq 1 .. Len(docs) /\ Len(docs) \in Nat
  BY DEF CRUD!VersionsOf
<1>2. IsFiniteSet(1 .. Len(docs))
  BY <1>1, FS_Interval
<1>3. IsFiniteSet(S)
  BY <1>1, <1>2, FS_Subset
<1>4. \A i \in S : docs[i] \in CRUD!Document
  BY <1>1
<1>5. \A i \in S : v[i] \in Nat
  BY <1>4 DEF CRUD!Document
<1> HIDE DEF v, S
<1>6. PICK i \in S : \A j \in S : v[j] <= v[i]
  BY <1>3, <1>5, GreatestExists DEF S
<1> QED BY <1>6 DEF CRUD!Latest, CRUD!LatestAmong, S, v

LEMMA ReadStep ==
  ASSUME IInv, Next, NEW c \in Clients, ServiceReads(c)
  PROVE  IInv'
<1> DEFINE r == req[c]
           item == Current(r)
<1>1. r.phase = "service" /\ audit' = audit /\ (CRUD!SkipItem(c) \/ CRUD!BuildItem(c))
  BY DEF ServiceReads
<1>2. ContextInv(docs, c, r) /\ r \in Context
  BY DEF IInv, ContextInv
<1>3. /\ pc[c] = "scan" /\ Head(todo[c]) = item /\ Tail(todo[c]) = << >>
      /\ item.op \in {"update", "delete"} /\ batch[c] = << >>
  BY <1>1 DEF IInv, CallInv, CRUD!SkipItem, CRUD!BuildItem
<1>4. IsLive(docs, item.entity, r.entity)
  BY <1>1, <1>2, <1>3 DEF ContextInv, Hydrated
<1>5. /\ batch \in [Clients -> Seq(CRUD!Document)] /\ pc \in [Clients -> {"idle", "scan", "insert"}]
      /\ todo \in [Clients -> Seq(CRUD!Item)] /\ docs \in Seq(CRUD!Document)
      /\ req \in [Clients -> Context]
  BY DEF IInv, CRUD!TypeOK
<1>6. AuditInv'
  BY <1>1, AuditKept
<1>7. ASSUME CRUD!Advance(c)
      PROVE  /\ todo'[c] = << >>
             /\ pc'[c] = IF batch'[c] # << >> THEN "insert" ELSE "idle"
             /\ \A d \in Clients \ {c} : pc'[d] = pc[d] /\ todo'[d] = todo[d]
  BY <1>3, <1>5, <1>7 DEF CRUD!Advance
<1>8. CASE CRUD!SkipItem(c) /\ req' = [req EXCEPT ![c] = Returned(r, 0)]
  <2> DEFINE s == Returned(r, 0)
  <2>1. req' = [req EXCEPT ![c] = s]
    BY <1>8
  <2>2. docs' = docs /\ batch' = batch /\ CRUD!Advance(c)
    BY <1>8 DEF CRUD!SkipItem
  <2>3. item.op = "delete" =>
          \E i \in DOMAIN docs : docs[i].entity = item.entity /\ docs[i].deleted
    <3>1. CRUD!Latest(item.entity) = {}
          \/ \E i \in CRUD!Latest(item.entity) : ~CRUD!Accepts(docs[i], item)
      BY <1>3, <1>8 DEF CRUD!SkipItem
    <3>2. SUFFICES ASSUME item.op = "delete"
                   PROVE  \E i \in DOMAIN docs :
                            docs[i].entity = item.entity /\ docs[i].deleted
      OBVIOUS
    <3>3. CRUD!Latest(item.entity) # {}
      <4>1. r.entity \in CRUD!VersionsOf(item.entity)
        BY <1>4 DEF IsLive, CRUD!VersionsOf
      <4> QED BY <1>5, <4>1, LatestExists
    <3>4. PICK i \in CRUD!Latest(item.entity) : ~CRUD!Accepts(docs[i], item)
      BY <3>1, <3>3
    <3>5. docs[i].deleted
      BY <3>2, <3>4 DEF CRUD!Accepts
    <3>6. i \in DOMAIN docs /\ docs[i].entity = item.entity
      BY DEF CRUD!Latest, CRUD!LatestAmong, CRUD!VersionsOf
    <3> QED BY <3>5, <3>6
  <2>9. item.op = "update" => AppliedIn(docs, item.entity, item.value, c)
    <3>1. CRUD!Latest(item.entity) = {}
          \/ \E i \in CRUD!Latest(item.entity) : ~CRUD!Accepts(docs[i], item)
      BY <1>3, <1>8 DEF CRUD!SkipItem
    <3>2. SUFFICES ASSUME item.op = "update"
                   PROVE  AppliedIn(docs, item.entity, item.value, c)
      OBVIOUS
    <3>3. CRUD!Latest(item.entity) # {}
      <4>1. r.entity \in CRUD!VersionsOf(item.entity)
        BY <1>4 DEF IsLive, CRUD!VersionsOf
      <4> QED BY <1>5, <4>1, LatestExists
    <3>4. PICK i \in CRUD!Latest(item.entity) : ~CRUD!Accepts(docs[i], item)
      BY <3>1, <3>3
    <3>5. docs[i].deleted \/ docs[i].value = item.value
      BY <3>2, <3>4 DEF CRUD!Accepts, CRUD!HasChanged
    <3>6. i \in DOMAIN docs /\ docs[i].entity = item.entity
      BY DEF CRUD!Latest, CRUD!LatestAmong, CRUD!VersionsOf
    <3> QED BY <3>5, <3>6 DEF AppliedIn
  <2>4. Stored(docs, c, item,
               IF 0 = 0 /\ item.op = "update" THEN r.entity ELSE 0)
    BY <1>3, <1>4, <2>3, <2>9 DEF Stored
  <2>5. 0 \in Positions
    BY MaxDocsAssumption DEF Positions
  <2>6. ContextInv(docs, c, s) /\ s.phase = "post"
    BY <1>1, <1>2, <2>4, <2>5, ReturnedInv
  <2> HIDE DEF s
  <2>7. req'[c] = s /\ pc'[c] = "idle"
    BY <1>3, <1>5, <1>7, <2>1, <2>2
  <2>8. CallInv(c)'
    BY <2>6, <2>7 DEF CallInv
  <2> QED BY <1>6, <1>7, <2>1, <2>2, <2>6, <2>8, FrameStep
<1>9. CASE CRUD!BuildItem(c) /\ req' = req
  <2>1. docs' = docs /\ CRUD!Advance(c)
    BY <1>9 DEF CRUD!BuildItem
  <2>2. PICK i \in CRUD!Latest(item.entity) :
          /\ CRUD!Accepts(docs[i], item)
          /\ batch' = [batch EXCEPT ![c] = Append(@, CRUD!NextVersion(docs[i], item, c))]
    BY <1>3, <1>9 DEF CRUD!BuildItem
  <2> DEFINE doc == CRUD!NextVersion(docs[i], item, c)
  <2>3. i \in DOMAIN docs /\ docs[i].entity = item.entity /\ docs[i] \in CRUD!Document
    BY <1>5 DEF CRUD!Latest, CRUD!LatestAmong, CRUD!VersionsOf
  <2>4. doc.entity = item.entity
    BY <2>3 DEF CRUD!NextVersion, CRUD!Document
  <2>5. doc.deleted = (item.op = "delete")
    BY <2>3 DEF CRUD!NextVersion, CRUD!Document
  <2>13. /\ doc.editor = c
         /\ doc.value = IF item.op = "update" /\ item.value # NoValue
                        THEN item.value ELSE docs[i].value
    BY <2>3 DEF CRUD!NextVersion, CRUD!Document
  <2>14. doc.version > 1
    <3>1. doc.version = docs[i].version + 1
      BY <2>3 DEF CRUD!NextVersion, CRUD!Document
    <3>2. docs[i].version \in Nat \ {0}
      BY <2>3 DEF CRUD!Document
    <3> QED BY <3>1, <3>2
  <2> HIDE DEF doc
  <2>6. batch' = [batch EXCEPT ![c] = Append(<< >>, doc)]
    BY <1>3, <2>2 DEF doc
  <2>7. /\ batch'[c] = Append(<< >>, doc)
        /\ \A d \in Clients \ {c} : batch'[d] = batch[d]
    BY <1>5, <2>6
  <2>8. Head(batch'[c]) = doc /\ Tail(batch'[c]) = << >> /\ batch'[c] # << >>
    BY <2>7
  <2>9. pc'[c] = "insert" /\ todo'[c] = << >> /\ req'[c] = r
    BY <1>7, <1>9, <2>1, <2>8
  <2>10. Builds(c, item, doc)
    BY <1>3, <2>4, <2>5, <2>13, <2>14 DEF Builds
  <2>11. CallInv(c)'
    BY <1>1, <2>8, <2>9, <2>10 DEF CallInv
  <2>12. req' = [req EXCEPT ![c] = r]
    BY <1>5, <1>9
  <2> HIDE DEF r
  <2> QED BY <1>2, <1>6, <1>7, <2>1, <2>7, <2>11, <2>12, FrameStep
<1> QED BY <1>1, <1>8, <1>9 DEF ServiceReads

LEMMA InsertStep ==
  ASSUME IInv, Next, NEW c \in Clients, ServiceInserts(c)
  PROVE  IInv'
<1> DEFINE r == req[c]
           item == Current(r)
           n == Len(docs')
           doc == Head(batch[c])
<1>1. /\ r.phase = "service" /\ audit' = audit /\ CRUD!InsertNext(c)
      /\ \E next \in {Inserted(WithWrote(r, n), n), Raised(WithWrote(r, n), "error")} :
           req' = [req EXCEPT ![c] = next]
  BY Zenon DEF ServiceInserts, WithWrote
<1>15. PICK s : /\ s = Inserted(WithWrote(r, n), n) \/ s = Raised(WithWrote(r, n), "error")
                /\ req' = [req EXCEPT ![c] = s]
  BY <1>1
<1>2. ContextInv(docs, c, r) /\ r \in Context
  BY DEF IInv, ContextInv
<1>3. /\ pc[c] = "insert" /\ todo[c] = << >> /\ Builds(c, item, doc) /\ Tail(batch[c]) = << >>
  BY <1>1 DEF IInv, CallInv, CRUD!InsertNext
<1>4. /\ batch \in [Clients -> Seq(CRUD!Document)] /\ pc \in [Clients -> {"idle", "scan", "insert"}]
      /\ todo \in [Clients -> Seq(CRUD!Item)] /\ docs \in Seq(CRUD!Document)
      /\ req \in [Clients -> Context] /\ batch[c] # << >>
  BY <1>3 DEF IInv, CRUD!TypeOK
<1>5. /\ docs' = Append(docs, doc) /\ todo' = todo
      /\ batch' = [batch EXCEPT ![c] = << >>] /\ pc' = [pc EXCEPT ![c] = "idle"]
  BY <1>1, <1>3 DEF CRUD!InsertNext
<1>6. /\ \A d \in Clients \ {c} : pc'[d] = pc[d] /\ todo'[d] = todo[d] /\ batch'[d] = batch[d]
      /\ pc'[c] = "idle" /\ req'[c] = s
  BY <1>4, <1>5, <1>15
<1>7. AuditInv'
  BY <1>1, AuditKept
<1>8. Extends(docs, docs') /\ Len(docs') <= MaxDocs
  BY Grows DEF IInv
<1>9. ContextInv(docs', c, r)
  BY <1>2, <1>8, ContextKept
<1>10. n \in DOMAIN docs' /\ docs'[n] = doc /\ n # 0 /\ n \in Positions
  <2>1. doc \in CRUD!Document
    BY <1>4
  <2> HIDE DEF doc
  <2>2. n = Len(docs) + 1 /\ docs'[n] = doc /\ n \in DOMAIN docs'
    BY <1>4, <1>5, <2>1
  <2> QED BY <1>4, <1>8, <2>2, MaxDocsAssumption DEF Positions
<1> HIDE DEF n, doc
<1>11. Stored(docs', c, item, n)
  <2>1. item.op = "update" => IsLive(docs', item.entity, n)
                              /\ AppliedIn(docs', item.entity, item.value, c)
    BY <1>3, <1>10 DEF Builds, IsLive, AppliedIn
  <2> QED BY <1>3, <1>10, <2>1 DEF Stored, Builds
<1>13. ContextInv(docs', c, s) /\ s.phase # "service"
  <2> HIDE DEF r, item
  <2>1. r.phase = "service"
    BY <1>1
  <2>2. CASE s = Inserted(WithWrote(r, n), n)
    BY <1>9, <1>10, <1>11, <2>1, <2>2, InsertedInv DEF item
  <2>3. CASE s = Raised(WithWrote(r, n), "error")
    BY <1>9, <1>10, <2>1, <2>3, LostAnswerInv
  <2> QED BY <1>15, <2>2, <2>3
<1>14. CallInv(c)'
  BY <1>6, <1>13 DEF CallInv
<1> QED BY <1>6, <1>7, <1>13, <1>14, <1>15, FrameStep

LEMMA ReadBackStep ==
  ASSUME IInv, Next, NEW c \in Clients, ReadBack(c)
  PROVE  IInv'
<1> DEFINE r == req[c]
           s == Returned(r, r.result)
<1>1. /\ r.phase = "readback" /\ req' = [req EXCEPT ![c] = s]
      /\ UNCHANGED crudVars /\ audit' = audit
  BY DEF ReadBack
<1>2. ContextInv(docs, c, r) /\ r \in Context
  BY DEF IInv, ContextInv
<1>3. Current(r).op = "create" /\ Stored(docs, c, Current(r), r.result)
  BY <1>1, <1>2 DEF ContextInv, Hydrated
<1>4. Stored(docs, c, Current(r),
             IF r.result = 0 /\ Current(r).op = "update" THEN r.entity ELSE r.result)
  BY <1>3
<1>5. r.result \in Positions
  BY <1>2, ContextFields
<1>6. ContextInv(docs, c, s) /\ s.phase = "post"
  BY <1>1, <1>2, <1>4, <1>5, ReturnedInv
<1>7. AuditInv'
  BY <1>1, AuditKept
<1> HIDE DEF s
<1> QED BY <1>1, <1>6, <1>7, QuietStep

(* The call, if there is one, is over and has stored nothing more.         *)
LEMMA CallEndsStep ==
  ASSUME IInv, Next, NEW c \in Clients, NEW s,
         IF pc[c] = "idle" THEN UNCHANGED crudVars ELSE CRUD!Fail(c),
         req' = [req EXCEPT ![c] = s], s.phase # "service",
         ContextInv(docs, c, s), audit' = audit
  PROVE  IInv'
<1>1. /\ pc \in [Clients -> {"idle", "scan", "insert"}]
      /\ batch \in [Clients -> Seq(CRUD!Document)] /\ todo \in [Clients -> Seq(CRUD!Item)]
      /\ req \in [Clients -> Context]
  BY DEF IInv, CRUD!TypeOK
<1>2. /\ docs' = docs /\ pc'[c] = "idle"
      /\ \A d \in Clients \ {c} : pc'[d] = pc[d] /\ todo'[d] = todo[d] /\ batch'[d] = batch[d]
  BY <1>1 DEF crudVars, CRUD!Fail
<1>3. req'[c] = s
  BY <1>1
<1>4. CallInv(c)'
  BY <1>2, <1>3 DEF CallInv
<1>5. AuditInv'
  BY AuditKept
<1> QED BY <1>2, <1>4, <1>5, FrameStep

LEMMA FailureStep ==
  ASSUME IInv, Next, NEW c \in Clients, DatabaseFails(c)
  PROVE  IInv'
<1> DEFINE r == req[c]
<1>1. /\ r.phase \in {"hydrate", "call", "service", "readback"} /\ audit' = audit
      /\ IF pc[c] = "idle" THEN UNCHANGED crudVars ELSE CRUD!Fail(c)
      /\ req' = [req EXCEPT ![c] = Raised(r, "error")]
  BY DEF DatabaseFails
<1>2. ContextInv(docs, c, r)
  BY DEF IInv
<1>3. "error" \in Statuses \ {"none", "ok", "atomic"} /\ "error" \notin {"not_found", "precondition"}
  BY DEF Statuses
<1>4. ContextInv(docs, c, Raised(r, "error")) /\ Raised(r, "error").phase # "service"
  BY <1>1, <1>2, <1>3, RaisedInv DEF ItemPhases
<1> HIDE DEF r
<1> QED BY <1>1, <1>4, CallEndsStep

LEMMA LeaveStep ==
  ASSUME IInv, Next, NEW c \in Clients, Deliver(c) \/ Die(c)
  PROVE  IInv'
<1>1. req' = [req EXCEPT ![c] = Idle] /\ audit' = audit
  BY DEF Deliver, Die
<1>2. ContextInv(docs, c, Idle) /\ Idle.phase # "service"
  BY IdleInv
<1>3. IF pc[c] = "idle" THEN UNCHANGED crudVars ELSE CRUD!Fail(c)
  BY DEF Deliver, Die, IInv, CallInv
<1> QED BY <1>1, <1>2, <1>3, CallEndsStep

LEMMA IInvStep == IInv /\ [Next]_vars => IInv'
<1> SUFFICES ASSUME IInv, [Next]_vars PROVE IInv'
  OBVIOUS
<1>1. CASE UNCHANGED vars
  <2>1. UNCHANGED <<docs, pc, todo, batch, raced, req, audit>>
    BY <1>1 DEF vars
  <2>2. CRUD!TypeOK'
    BY RepositoryTypeStep DEF IInv
  <2>3. AuditIsSound'
    BY <2>1 DEF IInv, AuditInv, AuditIsSound, Applied, CRUD!VersionsOf
  <2> QED BY <2>1, <2>2, <2>3 DEF IInv, AuditInv, CallInv
<1>2. CASE Next
  <2>1. PICK c \in Clients : Receive(c) \/ Step(c) \/ Die(c)
    BY <1>2 DEF Next
  <2> QED BY <1>2, <2>1, ReceiveStep, HydrateStep, HookStep, AuditStep, GetStep,
             CallCreateStep, CallWriteStep, ReadStep, InsertStep, ReadBackStep, FailureStep,
             LeaveStep
          DEF Step
<1> QED BY <1>1, <1>2

LEMMA Invariance == Spec => []IInv
BY InitInv, IInvStep, PTL DEF Spec
-----------------------------------------------------------------------------
(* What the invariant says of the answers.                                 *)

(* The contexts, the audit and the calls are well-formed, and a call of    *)
(* the repository runs exactly while its request is in its service phase.  *)
THEOREM TypeCorrect == Spec => []TypeOK
<1>1. IInv => TypeOK
  BY DEF IInv, TypeOK, CallInv, AuditInv
<1> QED BY <1>1, Invariance, PTL

(* Whatever an item was reported to have done is in the collection, for    *)
(* any number of concurrent requests, any handlers and any failures.       *)
THEOREM SuccessIsStoredCorrect == Spec => []SuccessIsStored
<1>1. IInv => SuccessIsStored
  <2> SUFFICES ASSUME IInv, NEW c \in Clients, NEW k \in DOMAIN req[c].results,
                      req[c].results[k].ok
               PROVE  Claim(c, req[c].items[k], req[c].results[k].doc)
    BY DEF SuccessIsStored
  <2> DEFINE d == req[c].results[k].doc
             item == req[c].items[k]
  <2>1. Stored(docs, c, item, d)
    BY DEF IInv, ContextInv, Truthful
  <2>2. d \in DOMAIN docs => d # 0
    BY DEF IInv, CRUD!TypeOK
  <2> HIDE DEF d, item
  <2>4. item.op = "update" => Applied(item.entity, item.value, c)
    BY <2>1, AppliedInDocs DEF Stored
  <2>3. Claim(c, item, d)
    BY <2>1, <2>2, <2>4 DEF Stored, Claim, IsLive, CRUD!VersionsOf
  <2> QED BY <2>3 DEF d, item
<1> QED BY <1>1, Invariance, PTL

(* A single request that was answered with a 404 or a 412 stored nothing.  *)
THEOREM RejectedWritesNothingCorrect == Spec => []RejectedWritesNothing
<1>1. IInv => RejectedWritesNothing
  BY DEF IInv, ContextInv, StoresOnce, RejectedWritesNothing
<1> QED BY <1>1, Invariance, PTL

(* An audit entry never describes what did not happen.                     *)
THEOREM AuditIsSoundCorrect == Spec => []AuditIsSound
<1>1. IInv => AuditIsSound
  BY DEF IInv, AuditInv
<1> QED BY <1>1, Invariance, PTL

(* A bulk answer accounts for every item, an atomic one up to the error.   *)
THEOREM BulkAccountsCorrect == Spec => []BulkAccounts
<1>1. IInv => BulkAccounts
  <2> SUFFICES ASSUME IInv, NEW c \in Clients
               PROVE  LET r == req[c]
                          good == {k \in DOMAIN r.results : r.results[k].ok}
                      IN  /\ r.phase = "done" /\ r.status = "ok" =>
                               Len(r.results) = Len(r.items)
                          /\ r.mode = "atomic" =>
                               /\ \A k \in DOMAIN r.results :
                                    k < Len(r.results) => k \in good
                               /\ r.status = "atomic" <=> good # DOMAIN r.results
                               /\ r.phase = "done" =>
                                    Cardinality(r.wrote) <= Len(r.results)
    BY DEF BulkAccounts
  <2> DEFINE r == req[c]
             good == {k \in DOMAIN r.results : r.results[k].ok}
  <2>1. Progress(r) /\ StoresOnce(r) /\ StopsAtError(r)
    BY DEF IInv, ContextInv
  <2> HIDE DEF r
  <2>2. r.status = "ok" => Len(r.results) = Len(r.items)
    BY <2>1 DEF Progress
  <2>3. r.mode = "atomic" => \A k \in DOMAIN r.results : k < Len(r.results) => k \in good
    BY <2>1 DEF StopsAtError
  <2>4. r.mode = "atomic" => (r.status = "atomic" <=> good # DOMAIN r.results)
    BY <2>1 DEF StopsAtError
  <2>5. r.mode = "atomic" /\ r.phase = "done" => Cardinality(r.wrote) <= Len(r.results)
    BY <2>1 DEF StoresOnce
  <2> QED BY <2>2, <2>3, <2>4, <2>5 DEF r
<1> QED BY <1>1, Invariance, PTL

-----------------------------------------------------------------------------
(* A request alone on the collection: its calls have one item each, so no  *)
(* document of an entity is waiting while another is built.                *)

Alone == \E x : Clients = {x}

LEMMA NothingRacesAlone == Spec => [](Alone => raced = {})
<1>1. Init => (Alone => raced = {})
  BY DEF Init, CRUD!Init
<1>2. (Alone => raced = {}) /\ IInv /\ [Next]_vars => (Alone => raced = {})'
  <2> SUFFICES ASSUME Alone, raced = {}, IInv, [Next]_vars PROVE raced' = {}
    BY DEF Alone
  <2>1. CASE UNCHANGED vars
    BY <2>1 DEF vars
  <2>2. CASE UNCHANGED crudVars
    BY <2>2 DEF crudVars
  <2>3. ASSUME NEW c \in Clients, ServiceReads(c), CRUD!BuildItem(c) PROVE raced' = {}
    <3>1. pc[c] = "scan"
      BY <2>3 DEF CRUD!BuildItem
    <3>2. batch[c] = << >>
      BY <3>1 DEF IInv, CallInv
    <3>3. \A d \in Clients : \A e : CRUD!Pending(d, e) = {}
      BY <3>2 DEF Alone, CRUD!Pending
    <3>4. raced' = IF \E d \in Clients : CRUD!Pending(d, Head(todo[c]).entity) # {}
                   THEN raced \cup {Head(todo[c]).entity} ELSE raced
      BY <2>3 DEF CRUD!BuildItem
    <3> QED BY <3>3, <3>4
  <2>4. ASSUME NEW c \in Clients, Receive(c) \/ Step(c) \/ Die(c) PROVE raced' = {}
    <3>1. CASE Receive(c) \/ Hydrate(c) \/ EmitToNobody(c) \/ RunUserHook(c)
               \/ RunPrecondition(c) \/ RunAudit(c) \/ CallGet(c) \/ Deliver(c)
               \/ ReadBack(c)
      BY <2>2, <3>1
         DEF Receive, Hydrate, EmitToNobody, RunUserHook, RunPrecondition, RunAudit,
             CallGet, Deliver, ReadBack
    <3>2. CASE CallCreate(c) \/ CallWrite(c) \/ ServiceInserts(c)
      BY <3>2 DEF CallCreate, CallWrite, ServiceInserts, CRUD!StartCreate,
                  CRUD!StartUpdate, CRUD!StartDelete, CRUD!InsertNext
    <3>3. CASE DatabaseFails(c) \/ Die(c)
      BY <2>2, <3>3 DEF DatabaseFails, Die, CRUD!Fail
    <3>4. CASE ServiceReads(c)
      BY <2>3, <3>4 DEF ServiceReads, CRUD!SkipItem
    <3> QED BY <2>4, <3>1, <3>2, <3>3, <3>4 DEF Step
  <2> QED BY <2>1, <2>4 DEF Next
<1> QED BY <1>1, <1>2, Invariance, PTL DEF Spec

(* Bulk or not, a client that is alone never creates a duplicated version. *)
THEOREM AloneIsLinearCorrect ==
  ASSUME IsFiniteSet(Clients)
  PROVE  Spec => []AloneIsLinear
<1>1. (Alone => raced = {}) /\ CRUD!LinearUnlessRaced => AloneIsLinear
  <2>1. Cardinality(Clients) = 1 => Alone
    BY FS_Singleton DEF Alone
  <2> QED BY <2>1 DEF CRUD!LinearUnlessRaced, CRUD!VersionsUnique, AloneIsLinear
<1> QED BY <1>1, NothingRacesAlone, ServingIsLinear, PTL
=============================================================================
