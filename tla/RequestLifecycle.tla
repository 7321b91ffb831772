-------------------------- MODULE RequestLifecycle --------------------------
(***************************************************************************)
(* OperationExecutor (core/operation.py) and the endpoints that call it    *)
(* (adapters/api/endpoint_factory.py): what happens to one request between *)
(* its arrival and its answer, while other requests run.                   *)
(*                                                                         *)
(* An item is hydrated (get_by_entity_id), its pre_* handlers run, the     *)
(* service calls the repository, its post_* handlers run.  Each of them    *)
(* awaits, and the document hydrated at the start is used until the end.   *)
(* A bulk request does this item by item, catches the exceptions of an     *)
(* item and, in atomic mode, stops at the first one.  The repository is    *)
(* VersionedCRUD: a request is one of its clients, and every service call  *)
(* is a call with one item.                                                *)
(*                                                                         *)
(* Handlers are of three kinds: "etag" is the If-Match precondition hook,  *)
(* "audit" the AuditTrail, and "user" any hook, guard or validator of the  *)
(* application, which may raise.                                           *)
(***************************************************************************)
EXTENDS Naturals, Sequences, FiniteSets, Functions

CONSTANTS
  Clients,   \* concurrent requests; also the user that sends each
  Entities, Values, NoValue, MaxDocs,   \* see VersionedCRUD
  Ops,       \* operations the clients send
  Modes,     \* "single", "bulk", "atomic": endpoint and ?atomic=
  IfMatch,   \* whether clients send If-Match headers
  MaxItems,  \* longest body of a bulk request (_BULK_MAX)
  GlobalHandlers, SchemaHandlers  \* event -> handlers, as registered

Events == {"pre_bulk", "pre", "post", "post_bulk"}
HandlerKinds == {"etag", "audit", "user"}

ASSUME MaxDocsAssumption == MaxDocs \in Nat
ASSUME OpsAssumption   == Ops \subseteq {"create", "get", "update", "delete"}
ASSUME ModesAssumption == Modes \subseteq {"single", "bulk", "atomic"}
ASSUME IfMatchAssumption == IfMatch \in BOOLEAN
ASSUME MaxItemsAssumption == MaxItems \in Nat \ {0}
ASSUME HandlersAssumption ==
  /\ GlobalHandlers \in [Events -> Seq(HandlerKinds)]
  /\ SchemaHandlers \in [Events -> Seq(HandlerKinds)]
  /\ \A e \in Events :
       \A kind \in Range(GlobalHandlers[e]) \cup Range(SchemaHandlers[e]) :
         (kind = "etag" => e = "pre") /\ (kind = "audit" => e = "post")

VARIABLES
  docs, pc, todo, batch, raced,   \* the repository, see VersionedCRUD
  req,       \* the RequestContext of each client
  audit      \* the audit collection

crudVars == <<docs, pc, todo, batch, raced>>
vars == <<docs, pc, todo, batch, raced, req, audit>>

CRUD == INSTANCE VersionedCRUD WITH MaxBatch <- 1, GivenIds <- {}

(* A create names no entity.  Only an update carries contents otherwise.   *)
NoEntity == "none"
Items ==
  [op : {"create"}, entity : {NoEntity}, value : CRUD!Payloads]
  \cup [op : {"update"}, entity : Entities, value : CRUD!Payloads]
  \cup [op : {"get", "delete"}, entity : Entities, value : {NoValue}]

(* Positions in docs stand for the documents read or returned; 0 is None.  *)
Idle ==
  [phase   |-> "idle",
   mode    |-> "single",
   items   |-> << >>,
   ifMatch |-> 0,        \* the document whose ETag the If-Match header names
   entity  |-> 0,        \* ctx.entity
   result  |-> 0,        \* ctx.result
   h       |-> 1,        \* next handler of the event being emitted
   results |-> << >>,    \* one per item done: [ok, doc]
   wrote   |-> {},       \* history: documents this request stored
   status  |-> "none"]

-----------------------------------------------------------------------------
(* How a request moves on: functions from a context to the next one.       *)

Current(r) == r.items[Len(r.results) + 1]

(* The endpoint's try/except, or the error handler: of the context only    *)
(* the results are left.                                                   *)
Answer(r, status) ==
  [r EXCEPT !.phase = "done", !.status = status,
            !.entity = 0, !.result = 0, !.h = 1]

BeginItem(r) ==
  [r EXCEPT !.phase  = IF Current(r).op = "create" THEN "pre" ELSE "hydrate",
            !.entity = 0, !.result = 0, !.h = 1]

NextItem(r) ==
  IF Len(r.results) = Len(r.items)
  THEN [r EXCEPT !.phase = "post_bulk", !.h = 1]
  ELSE BeginItem(r)

(* The item's post_* handlers have run.                                    *)
ItemDone(r) ==
  LET s == [r EXCEPT !.results = Append(@, [ok |-> TRUE, doc |-> r.result])]
  IN  IF r.mode = "single" THEN Answer(s, "ok") ELSE NextItem(s)

(* Mutant of Raised: an atomic request goes on after an error.             *)
MutRaisedGoesOn(r, status) ==
  IF r.mode = "single" \/ r.phase \in {"pre_bulk", "post_bulk"}
  THEN Answer(r, status)
  ELSE NextItem([r EXCEPT !.results = Append(@, [ok |-> FALSE, doc |-> 0])])

(* An exception: the endpoint answers with it, but the loop of a bulk      *)
(* request catches what an item raises and, unless atomic, goes on.        *)
Raised(r, status) ==
  LET s == [r EXCEPT !.results = Append(@, [ok |-> FALSE, doc |-> 0])]
  IN  IF r.mode = "single" \/ r.phase \in {"pre_bulk", "post_bulk"}
      THEN Answer(r, status)
      ELSE IF r.mode = "atomic" THEN Answer(s, "atomic") ELSE NextItem(s)

(* All handlers of the event have returned.                                *)
Emitted(r) ==
  CASE r.phase = "pre_bulk"  -> NextItem(r)
    [] r.phase = "pre"       -> [r EXCEPT !.phase = "call"]
    [] r.phase = "post"      -> ItemDone(r)
    [] r.phase = "post_bulk" -> Answer(r, "ok")

(* The service has returned a document, or None: an update then answers    *)
(* with the document hydrated at the start, a delete with nothing.         *)
Returned(r, d) ==
  [r EXCEPT !.phase  = "post",
            !.h      = 1,
            !.result = IF d = 0 /\ Current(r).op = "update" THEN r.entity ELSE d]

(* The document is stored at position n: a create reads it back.           *)
Inserted(r, n) ==
  IF Current(r).op = "create"
  THEN [r EXCEPT !.phase = "readback", !.result = n]
  ELSE Returned(r, n)

-----------------------------------------------------------------------------
Init ==
  /\ CRUD!Init
  /\ req = [c \in Clients |-> Idle]
  /\ audit = {}

(* A request arrives; the items of a bulk request, which may be none,      *)
(* share their operation.                                                  *)
Receive(c) ==
  /\ req[c].phase = "idle"
  /\ \E mode \in Modes, op \in Ops :
       \E items \in {<< >>} \cup CRUD!UpTo(IF mode = "single" THEN 1 ELSE MaxItems,
                                           {i \in Items : i.op = op}),
          m \in {0} \cup DOMAIN docs :
         /\ mode # "single" => op # "get"
         /\ mode = "single" => items # << >>
         /\ m # 0 => IfMatch /\ op \in {"update", "delete"}
         /\ LET r == [Idle EXCEPT !.mode = mode, !.items = items, !.ifMatch = m]
            IN  req' = [req EXCEPT ![c] =
                  IF mode = "single" THEN BeginItem(r)
                  ELSE [r EXCEPT !.phase = "pre_bulk"]]
  /\ UNCHANGED <<crudVars, audit>>

(* Mutant of Hydrate: get_by_entity_id answers with tombstones too.        *)
MutHydrateTombstones(c) ==
  /\ req[c].phase = "hydrate"
  /\ \E i \in CRUD!Latest(Current(req[c]).entity) :
       req' = [req EXCEPT ![c] = [@ EXCEPT !.entity = i, !.phase = "pre"]]
  /\ UNCHANGED <<crudVars, audit>>

(* get_by_entity_id before anything else; not found is a 404, or the       *)
(* item's ValueError.                                                      *)
Hydrate(c) ==
  /\ req[c].phase = "hydrate"
  /\ LET r == req[c]
         e == Current(r).entity
     IN  \/ \E i \in CRUD!Gets(e) :
              req' = [req EXCEPT ![c] = [r EXCEPT !.entity = i, !.phase = "pre"]]
         \/ /\ CRUD!Gets(e) # CRUD!Latest(e) \/ CRUD!Latest(e) = {}
            /\ req' = [req EXCEPT ![c] = Raised(r, "not_found")]
  /\ UNCHANGED <<crudVars, audit>>

-----------------------------------------------------------------------------
(* EventBus.emit: global handlers, then those of the schema, in the order  *)
(* of registration; the first exception ends the emission.                 *)

(* Mutant of Handlers: the hooks of pre_* and post_* are swapped.          *)
MutHandlersSwapped(event) ==
  LET swapped == CASE event = "pre" -> "post" [] event = "post" -> "pre" [] OTHER -> event
  IN  GlobalHandlers[swapped] \o SchemaHandlers[swapped]

Handlers(event) == GlobalHandlers[event] \o SchemaHandlers[event]

(* _compute_etag: the tag of the document at position i.                     *)
ETag(i) == <<docs[i].entity, docs[i].version>>

(* ETagFilter._precondition_hook.                                          *)
PreconditionFails(r) ==
  /\ r.ifMatch # 0
  /\ r.entity # 0
  /\ ETag(r.entity) # ETag(r.ifMatch)

AuditEntry(c, r) ==
  [op     |-> Current(r).op,
   entity |-> IF Current(r).op = "create" /\ r.result # 0
              THEN docs[r.result].entity ELSE Current(r).entity,
   user   |-> c,
   value  |-> Current(r).value]   \* changes: what was asked for

(* Mutant of Passed: the end of the handlers is missed by one.             *)
MutPassedTooFar(r) ==
  IF r.h = Len(Handlers(r.phase)) + 1 THEN Emitted(r) ELSE [r EXCEPT !.h = @ + 1]

Passed(r) ==
  IF r.h = Len(Handlers(r.phase)) THEN Emitted(r) ELSE [r EXCEPT !.h = @ + 1]

EmitToNobody(c) ==
  /\ req[c].phase \in Events
  /\ Handlers(req[c].phase) = << >>
  /\ req' = [req EXCEPT ![c] = Emitted(@)]
  /\ UNCHANGED <<crudVars, audit>>

Handles(c, kind) ==
  /\ req[c].phase \in Events
  /\ req[c].h <= Len(Handlers(req[c].phase))
  /\ Handlers(req[c].phase)[req[c].h] = kind

(* A hook of the application passes or raises.  "hook" is the answer made  *)
(* of its HookError; any other exception only differs in being a 500.      *)
RunUserHook(c) ==
  /\ Handles(c, "user")
  /\ \E next \in {Passed(req[c]), Raised(req[c], "hook")} :
       req' = [req EXCEPT ![c] = next]
  /\ UNCHANGED <<crudVars, audit>>

RunPrecondition(c) ==
  /\ Handles(c, "etag")
  /\ req' = [req EXCEPT ![c] =
       IF PreconditionFails(@) THEN Raised(@, "precondition") ELSE Passed(@)]
  /\ UNCHANGED <<crudVars, audit>>

(* AuditTrail.record swallows the exception of its insert.  It is          *)
(* registered for create, update and delete, and does not look at the      *)
(* result.                                                                 *)
RunAudit(c) ==
  /\ Handles(c, "audit")
  /\ req' = [req EXCEPT ![c] = Passed(@)]
  /\ audit' \in {audit, audit \cup
                   (IF Current(req[c]).op = "get" THEN {}
                    ELSE {AuditEntry(c, req[c])})}
  /\ UNCHANGED crudVars

-----------------------------------------------------------------------------
(* The service call.                                                       *)

(* A get answers with the document hydrated before the hooks.              *)
CallGet(c) ==
  /\ req[c].phase = "call"
  /\ Current(req[c]).op = "get"
  /\ req' = [req EXCEPT ![c] = Returned(@, @.entity)]
  /\ UNCHANGED <<crudVars, audit>>

CallCreate(c) ==
  /\ req[c].phase = "call"
  /\ Current(req[c]).op = "create"
  /\ CRUD!StartCreate(c)
  /\ Head(batch'[c]).value = Current(req[c]).value
  /\ req' = [req EXCEPT ![c].phase = "service"]
  /\ UNCHANGED audit

CallWrite(c) ==
  /\ req[c].phase = "call"
  /\ CRUD!StartUpdate(c) \/ CRUD!StartDelete(c)
  /\ Head(todo'[c]) = Current(req[c])
  /\ req' = [req EXCEPT ![c].phase = "service"]
  /\ UNCHANGED audit

(* The repository reads the latest version: None, or the next version.     *)
ServiceReads(c) ==
  /\ req[c].phase = "service"
  /\ \/ CRUD!SkipItem(c)  /\ req' = [req EXCEPT ![c] = Returned(@, 0)]
     \/ CRUD!BuildItem(c) /\ UNCHANGED req
  /\ UNCHANGED audit

(* The insert is acknowledged, or its answer is lost and the driver raises *)
(* though the document is there.                                           *)
ServiceInserts(c) ==
  /\ req[c].phase = "service"
  /\ CRUD!InsertNext(c)
  /\ LET n == Len(docs')
         r == [req[c] EXCEPT !.wrote = @ \cup {n}]
     IN  \E next \in {Inserted(r, n), Raised(r, "error")} :
           req' = [req EXCEPT ![c] = next]
  /\ UNCHANGED audit

(* create's find_one of the document it has inserted; it fails as a driver *)
(* error does, and so does a document that is not found.                   *)
ReadBack(c) ==
  /\ req[c].phase = "readback"
  /\ req' = [req EXCEPT ![c] = Returned(@, @.result)]
  /\ UNCHANGED <<crudVars, audit>>

(* Mutant of DatabaseFails: the error is logged and None is returned.      *)
MutErrorSwallowed(c) ==
  /\ req[c].phase \in {"call", "service"}
  /\ IF pc[c] = "idle" THEN UNCHANGED crudVars ELSE CRUD!Fail(c)
  /\ req' = [req EXCEPT ![c] = Returned(@, 0)]
  /\ UNCHANGED audit

(* A driver error in the hydration or in the service call, or the          *)
(* RuntimeError of a create that does not find its document.               *)
DatabaseFails(c) ==
  /\ req[c].phase \in {"hydrate", "call", "service", "readback"}
  /\ IF pc[c] = "idle" THEN UNCHANGED crudVars ELSE CRUD!Fail(c)
  /\ req' = [req EXCEPT ![c] = Raised(@, "error")]
  /\ UNCHANGED audit

Deliver(c) ==
  /\ req[c].phase = "done"
  /\ req' = [req EXCEPT ![c] = Idle]
  /\ UNCHANGED <<crudVars, audit>>

(* Mutant of Die: the repository call of a cancelled request goes on.      *)
MutDieHalfway(c) ==
  /\ req[c].phase \notin {"idle", "done"}
  /\ req' = [req EXCEPT ![c] = Idle]
  /\ UNCHANGED <<crudVars, audit>>

(* The worker dies, or the task is cancelled: nobody answers.              *)
Die(c) ==
  /\ req[c].phase \notin {"idle", "done"}
  /\ IF pc[c] = "idle" THEN UNCHANGED crudVars ELSE CRUD!Fail(c)
  /\ req' = [req EXCEPT ![c] = Idle]
  /\ UNCHANGED audit

Step(c) ==
  \/ Hydrate(c)
  \/ EmitToNobody(c)
  \/ RunUserHook(c)
  \/ RunPrecondition(c)
  \/ RunAudit(c)
  \/ CallGet(c)
  \/ CallCreate(c)
  \/ CallWrite(c)
  \/ ServiceReads(c)
  \/ ServiceInserts(c)
  \/ ReadBack(c)
  \/ DatabaseFails(c)
  \/ Deliver(c)

Next == \E c \in Clients : Receive(c) \/ Step(c) \/ Die(c)

Spec == Init /\ [][Next]_vars

(* The event loop runs a coroutine that is ready, every awaited call       *)
(* returns or raises, and so do the application's hooks.                   *)
FairSpec == Spec /\ \A c \in Clients : WF_vars(Step(c))

-----------------------------------------------------------------------------
Statuses == {"none", "ok", "not_found", "hook", "precondition", "error", "atomic"}

Positions == 0 .. MaxDocs

Context ==
  [phase : {"idle", "hydrate", "call", "service", "readback", "done"} \cup Events,
   mode : {"single", "bulk", "atomic"}, items : Seq(Items),
   ifMatch : Positions, entity : Positions, result : Positions, h : Nat \ {0},
   results : Seq([ok : BOOLEAN, doc : Positions]),
   wrote : SUBSET Positions, status : Statuses]

Entries ==
  [op : {"create", "update", "delete"}, entity : Entities \cup {NoEntity},
   user : Clients, value : CRUD!Payloads]

TypeOK ==
  /\ CRUD!TypeOK
  /\ req \in [Clients -> Context]
  /\ \A c \in Clients : req[c].phase = "service" <=> pc[c] # "idle"
  /\ audit \subseteq Entries

(* The changes that a user asked for are in the collection, or came too    *)
(* late for it: some version of the entity shows them (a null is dropped,  *)
(* yet makes a version of the user's), or it has been deleted.             *)
Applied(e, value, user) ==
  \E i \in CRUD!VersionsOf(e) :
    \/ docs[i].deleted
    \/ docs[i].value = value
    \/ value = NoValue /\ docs[i].version > 1 /\ docs[i].editor = user

(* What an item reported as done says of the collection.                   *)
Claim(c, item, d) ==
  /\ item.op = "create" =>
       d # 0 /\ docs[d].version = 1 /\ docs[d].creator = c /\ docs[d].value = item.value
  /\ item.op \in {"get", "update"} =>
       d # 0 /\ docs[d].entity = item.entity /\ ~docs[d].deleted
  /\ item.op = "update" => Applied(item.entity, item.value, c)
  /\ item.op = "delete" =>
       \E i \in CRUD!VersionsOf(item.entity) : docs[i].deleted

(* A success is never empty: a create answers with the stored first        *)
(* version, a get or an update with a stored live version of the entity    *)
(* that was asked for (never a tombstone, though it may be deleted in the  *)
(* meantime); the contents of an update are stored unless the entity was   *)
(* deleted under it; and after a 204 a tombstone of the entity is stored,  *)
(* be it another request's.                                                *)
SuccessIsStored ==
  \A c \in Clients : \A k \in DOMAIN req[c].results :
    req[c].results[k].ok => Claim(c, req[c].items[k], req[c].results[k].doc)

(* A 404 or a 412 of a single request means that it stored nothing: the    *)
(* checks come before the service, wherever the handlers are registered.   *)
RejectedWritesNothing ==
  \A c \in Clients :
    req[c].mode = "single" /\ req[c].status \in {"not_found", "precondition"}
    => req[c].wrote = {}

(* An audit entry never describes what did not happen, though the hook     *)
(* does not look at the service's result (core/audit.py:306, 318): the     *)
(* created entity is stored with that creator and those contents, and a    *)
(* deleted one has a tombstone.  Of an update it may: the changes are      *)
(* stored unless the entity was deleted under the request.                 *)
AuditIsSound ==
  \A a \in audit :
    /\ a.op = "create" =>
         \E i \in CRUD!VersionsOf(a.entity) :
           docs[i].version = 1 /\ docs[i].creator = a.user /\ docs[i].value = a.value
    /\ a.op = "update" => Applied(a.entity, a.value, a.user)
    /\ a.op = "delete" => \E i \in CRUD!VersionsOf(a.entity) : docs[i].deleted

(* A bulk answer accounts for every item.  An atomic one stops at the      *)
(* first error, and no item after it was touched.                          *)
BulkAccounts ==
  \A c \in Clients :
    LET r == req[c]
        good == {k \in DOMAIN r.results : r.results[k].ok}
    IN  /\ r.phase = "done" /\ r.status = "ok" => Len(r.results) = Len(r.items)
        /\ r.mode = "atomic" =>
             /\ \A k \in DOMAIN r.results : k < Len(r.results) => k \in good
             /\ r.status = "atomic" <=> good # DOMAIN r.results
             /\ r.phase = "done" => Cardinality(r.wrote) <= Len(r.results)

(* The executor's bulk update reads, writes and awaits item by item: alone *)
(* on the collection, it never creates the duplicated versions that the    *)
(* repository's own bulk_update does.                                      *)
AloneIsLinear == Cardinality(Clients) = 1 => CRUD!VersionsUnique

(* Every request that does not lose its worker is answered.                *)
Answered ==
  \A c \in Clients : req[c].phase # "idle" ~> req[c].phase = "idle"

-----------------------------------------------------------------------------
(* What the documentation says and the code does not keep.                 *)

(* adapters/api/filters/etag.py:5: "If-Match on PATCH/DELETE -> 412": what *)
(* a conditional request writes is the successor of the version it names,  *)
(* and the only one.                                                       *)
ConditionalWriteIsNext ==
  \A c \in Clients : \A i \in req[c].wrote :
    req[c].mode = "single" /\ req[c].ifMatch # 0 =>
      ~\E j \in DOMAIN docs :
        /\ j < i
        /\ docs[j].entity = docs[i].entity
        /\ docs[j].version > docs[req[c].ifMatch].version

(* adapters/api/endpoint_factory.py:527: atomic is "All-or-nothing mode".  *)
AtomicIsAllOrNothing ==
  \A c \in Clients : req[c].status = "atomic" => req[c].wrote = {}

(* docs/events.md:115: in post_update, result is the "updated doc".        *)
UpdateAnswerShowsUpdate ==
  \A c \in Clients :
    LET r == req[c]
    IN  r.phase = "post" /\ Current(r).op = "update" /\ Current(r).value # NoValue
        => docs[r.result].value = Current(r).value

(* docs/events.md:176: a HookError that a client sees as such came from a  *)
(* pre_* hook, and "the service never runs".                               *)
HookErrorMeansNotRun ==
  \A c \in Clients :
    req[c].mode = "single" /\ req[c].status = "hook" => req[c].wrote = {}

(* core/audit.py:3: an entry says "what changed": the contents that it     *)
(* names are those of some version.                                        *)
AuditedIsChanged ==
  \A a \in audit :
    a.op = "update" =>
      \E i \in CRUD!VersionsOf(a.entity) :
        a.value = NoValue \/ docs[i].value = a.value

(* core/audit.py:3: "Automatically records every CRUD operation".          *)
AuditIsComplete ==
  \A c \in Clients :
    req[c].status = "ok" =>
      \A i \in req[c].wrote :
        \E a \in audit : a.entity = docs[i].entity /\ a.user = c
=============================================================================
