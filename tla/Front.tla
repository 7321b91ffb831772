------------------------------- MODULE Front --------------------------------
(***************************************************************************)
(* An application from its start (app.py, lifespan) to its answers: the    *)
(* declarations merged into the registration of a schema and the event     *)
(* bus, the filter chain around every request (filters/middleware.py), the *)
(* REST endpoints (endpoint_factory.py), the GraphQL resolvers             *)
(* (graphql_factory.py) and the executor that both share (operation.py).   *)
(*                                                                         *)
(* One request is served at a time, while others may write the entity that *)
(* requests are about; a client keeps what it is answered and may present  *)
(* its tag, or "*", in If-None-Match of any other request.  The schema,    *)
(* "own", has one entity that requests name, and a list; what is stored,   *)
(* and by whom, is the subject of RequestLifecycle.                        *)
(***************************************************************************)
EXTENDS Filters, FiniteSetsExt

CONSTANTS
  Versions,     \* versions of the schema
  Apps,         \* applications explored: see App
  Requests      \* application -> the requests explored: see Request

INSTANCE Overrides

App ==
  [declared    : Seq(Declarations),
   controllers : SUBSET Ops,                        \* handlers of its controllers module
   filters     : SUBSET FilterNames,
   prefix      : Seq(STRING) \ {<< >>},             \* api_prefix, in its parts
   fields      : SUBSET Fields,                     \* of the documents of the schema
   rules       : [Roles -> (SUBSET Fields) \cup {None}]] \* role_field_rules of the schema

(* "resolver" is the version of a versioned GraphQL resolver; REST has     *)
(* none.  GraphQL is also served over a socket, the headers of which are   *)
(* those of its handshake.                                                 *)
Request ==
  [front     : {"rest", "graphql"},
   socket    : BOOLEAN,
   op        : Ops \cup {"health"},
   method    : {"GET", "POST", "PATCH", "DELETE"},
   header    : Versions \cup {None},                \* X-Schema-Version
   resolver  : Versions \cup {None},
   accept    : {"json", "yaml", "other"},
   fields    : (SUBSET Fields) \cup {None},         \* ?fields=
   token     : Roles \cup {None},
   body      : {"ok", "large", "malformed"},
   condition : {None}]                              \* If-None-Match: see AskAgain

ASSUME AppsAssumption ==
  /\ Apps \subseteq App
  /\ \A a \in Apps : Requests[a] \subseteq
       {r \in Request : /\ r.front = "rest" => ~r.socket /\ r.resolver = None
                        /\ r.method = "GET" => r.op \in {"get", "list", "health"}}
  /\ DOMAIN SchemaFields \subseteq Versions
  /\ None \notin Versions \cup Nat
ASSUME BoundsAssumption == RecordVersions # << >>

VARIABLES
  app,       \* which application it is
  overrides, \* EntityRegistration.handler_overrides
  bus,       \* EventBus._handlers
  chain,     \* FilterChain._filters
  entity,    \* the latest document of the entity, 0 once it is deleted
  others,    \* whether another entity exists
  phase,     \* "starting", "idle", or what becomes of the request
  q,         \* the request
  at,        \* the filter, or the step of the operation, whose turn it is
  hook,      \* the hook of that step whose turn it is
  ctx,       \* FilterContext of the request
  found,     \* the hydrated entity: a document, or None
  resp,      \* the response on its way
  held,      \* history: the last tagged answer the client has, and its request
  answer,    \* history: resp, as it is without If-None-Match
  passed,    \* history: the hooks that let the request pass, in order
  ran        \* history: << >>, or what was run: a handler, or None, the service

startup == <<app, overrides, bus, chain>>
stored  == <<entity, others>>
request == <<q, ctx>>
place   == <<at, hook>>
history == <<held, answer, passed, ran>>
vars == <<startup, stored, phase, request, place, found, resp, history>>

-----------------------------------------------------------------------------
(* Start.                                                                  *)

(* init_container, apply, add_filters; the routes follow.                  *)
Lifespan ==
  /\ phase = "starting"
  /\ overrides' = ApplyHandlers(ControllerHandlers(app.controllers), app.declared)
  /\ bus' = ApplyHooks(NoHooks, app.declared)
  /\ chain' = Sorted(app.filters)
  /\ phase' = "idle"
  /\ UNCHANGED <<app, stored, request, place, found, resp, history>>

-----------------------------------------------------------------------------
(* Requests.                                                               *)

NoRequest == [op |-> "none"]

(* The chain is a BaseHTTPMiddleware: what comes over a socket passes by.  *)
Arrives(r) ==
  /\ phase = "idle"
  /\ phase' = "down"
  /\ q' = r
  /\ ctx' = FreshContext
  /\ at' = IF r.socket THEN Len(chain) + 1 ELSE 1
  /\ hook' = 1
  /\ found' = None /\ resp' = None /\ answer' = None
  /\ passed' = << >> /\ ran' = << >>
  /\ UNCHANGED <<startup, stored>>

(* A client of which nothing is kept.                                      *)
Ask ==
  /\ \E r \in Requests[app] : Arrives(r)
  /\ held' = None

(* One presents the tag it has, with whatever it asks for, or "*".         *)
AskAgain ==
  /\ \E r \in Requests[app], tag \in {AnyTag} \cup IF held = None THEN {} ELSE {held.resp.tag} :
       r.method = "GET" /\ Arrives([r EXCEPT !.condition = tag])
  /\ UNCHANGED held

Answers(r) ==
  /\ phase' = "up" /\ resp' = r /\ answer' = r
  /\ at' = IF q.socket THEN 0 ELSE Len(chain)

(* process_request, filter by filter: a short circuit goes up through all  *)
(* filters, with a context of its own.                                     *)
FilterRequest ==
  /\ phase = "down" /\ at <= Len(chain)
  /\ \E o \in RequestOutcomes(chain[at], q, ctx) :
       CASE o.kind = "goes" -> /\ ctx' = o.ctx
                               /\ at' = at + 1
                               /\ UNCHANGED <<phase, resp, answer>>
         [] o.kind = "circuit" -> Answers(Refusal(o.status)) /\ ctx' = FreshContext
         [] o.kind = "raises" -> /\ phase' = "sent"
                                 /\ resp' = Refusal(o.status)
                                 /\ UNCHANGED <<ctx, at, answer>>
  /\ UNCHANGED <<startup, stored, q, hook, found, held, passed, ran>>

-----------------------------------------------------------------------------
(* Endpoints and resolvers.                                                *)

IsBulk(op) == op \in BulkOps
ItemOp(op) == CASE op = "bulk_create" -> "create" [] op = "bulk_update" -> "update"
                [] op = "bulk_delete" -> "delete" [] OTHER -> op

Event(when, op) == [when |-> when, op |-> op]
Run == [when |-> "run"]

(* execute_*; a bulk operation is about one item.                          *)
Steps(op) ==
  LET item == <<Event("pre", ItemOp(op)), Run, Event("post", ItemOp(op))>>
  IN  IF IsBulk(op) THEN <<Event("pre", op)>> \o item \o <<Event("post", op)>> ELSE item

(* from_request and _build_graphql_context: the version of the resolver    *)
(* counts for more than the header's.                                      *)
Context ==
  [version |-> IF q.front = "graphql" /\ q.resolver # None THEN q.resolver ELSE q.header,
   header  |-> q.header,
   channel |-> q.front]

Success(op) == CASE op = "create" -> 201 [] op = "delete" -> 204 [] OTHER -> 200

(* What the response_model lets through.                                   *)
Shape(op) == CASE op = "list" -> "list" [] op \in {"create", "get", "update"} -> "entity"
               [] OTHER -> "other"

(* A GraphQL answer is an object of data and errors, always a 200.         *)
Ok(result) ==
  IF q.front = "graphql" THEN FromEndpoint(200, Data("other", result, app.fields))
  ELSE FromEndpoint(Success(q.op), Data(Shape(q.op), result, app.fields))

NotOk(status) ==
  IF q.front = "graphql" THEN FromEndpoint(200, Data("other", 0, {}))
  ELSE FromEndpoint(status, Data("error", 0, {}))

Hydrates == q.op \in (IF q.front = "rest" THEN {"get", "update", "delete"} ELSE {"get", "delete"})

(* The latest document is that with the highest record_version, of several *)
(* any.                                                                    *)
Latest == {n \in 1 .. entity : RecordVersions[n] = RecordVersions[entity]}

(* The entity is hydrated; without it no event is emitted.                 *)
Endpoint ==
  /\ phase = "down" /\ at > Len(chain)
  /\ \/ /\ q.op = "health"
        /\ Answers(FromEndpoint(200, Data("other", 0, {})))
        /\ UNCHANGED <<hook, found>>
     \/ /\ q.op # "health" /\ Hydrates /\ entity = 0
        /\ Answers(NotOk(404))
        /\ UNCHANGED <<hook, found>>
     \/ /\ q.op # "health" /\ (Hydrates => entity # 0)
        /\ found' \in IF Hydrates THEN Latest ELSE {None}
        /\ phase' = "steps" /\ at' = 1 /\ hook' = 1
        /\ UNCHANGED <<resp, answer>>
  /\ UNCHANGED <<startup, stored, request, held, passed, ran>>

Hooks == Emitted(bus, Steps(q.op)[at])

InHooks == phase = "steps" /\ at <= Len(Steps(q.op)) /\ Steps(q.op)[at] # Run

(* A hook that lets the request pass, or whose scope it is not in.         *)
HookPasses ==
  /\ InHooks
  /\ hook <= Len(Hooks)
  /\ hook' = hook + 1
  /\ LET i == Hooks[hook]
     IN  passed' = IF Fires(app.declared[i], Context) THEN Append(passed, i) ELSE passed
  /\ UNCHANGED <<startup, stored, phase, request, at, found, resp, held, answer, ran>>

(* The entity of an item is hydrated once the batch's own event is over.   *)
EmitEnds ==
  /\ InHooks
  /\ hook > Len(Hooks)
  /\ at' = IF q.op \in {"bulk_update", "bulk_delete"} /\ at = 1 /\ entity = 0 THEN 5 ELSE at + 1
  /\ hook' = 1
  /\ UNCHANGED <<startup, stored, phase, request, found, resp, history>>

(* An item that fails is a result; the batch goes on, unless it is atomic. *)
OfItem == IsBulk(q.op) /\ at \in 2 .. 4

Fails(status) ==
  \/ OfItem /\ at' = 5 /\ hook' = 1 /\ UNCHANGED <<phase, resp, answer>>
  \/ Answers(NotOk(status)) /\ UNCHANGED hook

(* A HookError; what else a hook may raise is a 500 that no filter sees.   *)
HookFails ==
  /\ InHooks
  /\ hook <= Len(Hooks)
  /\ Fires(app.declared[Hooks[hook]], Context)
  /\ \/ Fails(403)
     \/ /\ q.front = "rest" /\ ~OfItem
        /\ phase' = "sent"
        /\ resp' = Refusal(500)
        /\ UNCHANGED <<place, answer>>
  /\ UNCHANGED <<startup, stored, request, found, held, passed, ran>>

(* The next document of the entity.                                        *)
Later == IF entity \in 1 .. Len(RecordVersions) - 1 THEN {entity + 1} ELSE {}

(* What the services store.                                                *)
Service ==
  CASE ItemOp(q.op) = "create" -> others' = TRUE /\ UNCHANGED entity
    [] ItemOp(q.op) = "update" ->
         /\ entity' \in {entity} \cup Later
         /\ UNCHANGED others
    [] ItemOp(q.op) = "delete" -> entity' = 0 /\ UNCHANGED others
    [] OTHER -> UNCHANGED stored

(* What the answer to q may show of it.                                    *)
Results ==
  CASE q.op = "update" /\ entity' # entity -> {entity'}
    [] q.op = "list" -> {<<n, others>> : n \in IF entity = 0 THEN {0} ELSE Latest}
    [] OTHER         -> {found}

(* The handler is run, or else the service.  A handler is taken at its     *)
(* word to return what the service would; what it writes counts among the  *)
(* others' writes.                                                         *)
RunOperation ==
  /\ phase = "steps" /\ at <= Len(Steps(q.op)) /\ Steps(q.op)[at] = Run
  /\ LET handler == Chosen(overrides, q.op, Context.version, Context.channel)
     IN  /\ ran' = <<handler>>
         /\ IF handler = None THEN Service ELSE UNCHANGED stored
  /\ found' \in Results
  /\ at' = at + 1 /\ hook' = 1
  /\ UNCHANGED <<startup, phase, request, resp, held, answer, passed>>

OperationEnds ==
  /\ phase = "steps" /\ at > Len(Steps(q.op))
  /\ Answers(Ok(found))
  /\ UNCHANGED <<startup, stored, request, hook, found, held, passed, ran>>

-----------------------------------------------------------------------------
(* Responses.                                                              *)

(* process_response, filter by filter.                                     *)
FilterResponse ==
  /\ phase = "up" /\ at > 0
  /\ resp' = OnResponse(chain[at], app, q, ctx, resp)
  /\ answer' = OnResponse(chain[at], app, q, [ctx EXCEPT !.condition = None], answer)
  /\ at' = at - 1
  /\ UNCHANGED <<startup, stored, phase, request, hook, found, held, passed, ran>>

Send ==
  /\ phase = "up" /\ at = 0
  /\ phase' = "sent"
  /\ UNCHANGED <<startup, stored, request, place, found, resp, history>>

(* A client keeps what it gets a tag with.                                 *)
Receive ==
  /\ phase = "sent"
  /\ phase' = "idle"
  /\ held' = IF q.method = "GET" /\ resp.status = 200 /\ resp.tag # None
             THEN [q |-> q, resp |-> resp] ELSE held
  /\ UNCHANGED <<startup, stored, request, place, found, resp, answer, passed, ran>>

(* Other requests, and handlers.                                           *)
OthersWrite ==
  /\ phase # "starting"
  /\ \/ /\ entity # 0
        /\ entity' \in {0} \cup Later
        /\ UNCHANGED others
     \/ ~others /\ others' = TRUE /\ UNCHANGED entity
  /\ UNCHANGED <<startup, phase, request, place, found, resp, history>>

Init ==
  /\ app \in Apps
  /\ overrides = [k \in Keys |-> None]
  /\ bus = NoHooks
  /\ chain = << >>
  /\ entity = 1 /\ others = FALSE
  /\ phase = "starting"
  /\ q = NoRequest
  /\ at = 1 /\ hook = 1
  /\ ctx = FreshContext
  /\ found = None /\ resp = None
  /\ held = None /\ answer = None /\ passed = << >> /\ ran = << >>

Next ==
  \/ Lifespan
  \/ Ask \/ AskAgain \/ FilterRequest
  \/ Endpoint \/ HookPasses \/ EmitEnds \/ HookFails \/ RunOperation \/ OperationEnds
  \/ FilterResponse \/ Send \/ Receive
  \/ OthersWrite

Spec == Init /\ [][Next]_vars

-----------------------------------------------------------------------------
(* The version that the client asks for: of a versioned resolver, else of  *)
(* the header.                                                             *)
Asked == IF q.resolver # None THEN q.resolver ELSE q.header

InScope(d) == d.version \in {None, Asked} /\ d.channel \in {"*", q.front}

Specificity(d) == (IF d.channel = "*" THEN 0 ELSE 2) + (IF d.version = None THEN 0 ELSE 1)

Handlers(op) ==
  {i \in DOMAIN app.declared :
     app.declared[i].kind = "handler" /\ app.declared[i].op = op /\ InScope(app.declared[i])}

(* The last of the most specific declarations; the controllers module      *)
(* comes after them, and the service last.                                 *)
Best(op) ==
  LET most == {i \in Handlers(op) : \A j \in Handlers(op) :
                 Specificity(app.declared[i]) >= Specificity(app.declared[j])}
  IN  CASE most # {} -> Max(most)
        [] OTHER     -> IF op \in app.controllers THEN 0 ELSE None

(* Of all the handlers that are declared for an operation, the one that    *)
(* runs is the most specific that fits the request's channel and version,  *)
(* whatever the order of the declarations, the keys they end up under and  *)
(* the front end the request came through.                                 *)
MostSpecificRuns ==
  ran # << >> /\ q.op \notin {"bulk_update", "bulk_delete"} =>
    ran[1] = IF q.op = "bulk_create" /\ Best(q.op) = None THEN Best("create") ELSE Best(q.op)

(* No operation runs, and no item of a batch, that a guard declared for    *)
(* its operation, channel and version has not let pass, on no front end;   *)
(* nor, of what comes over HTTP, that authentication or the policy has     *)
(* not.                                                                    *)
NothingRunsUnguarded ==
  ran # << >> =>
    /\ "auth" \in app.filters /\ ~q.socket => ctx.user # None
    /\ "rego" \in app.filters /\ ~q.socket => ctx.admitted
    /\ \A i \in DOMAIN app.declared :
         LET d == app.declared[i]
         IN  d.kind = "guard" /\ d.op \in {q.op, ItemOp(q.op)} /\ InScope(d)
               => \E n \in DOMAIN passed : passed[n] = i

Successful(r) == r.status \in {200, 201}

(* The values that a REST client sees are of the fields it asked for and,  *)
(* where the path names the schema, of those its role may see: no other    *)
(* filter, order of filters, envelope, format or version brings the value  *)
(* of another field back.  Names may come back, with null (nulls); what    *)
(* looks like an envelope is left out.                                     *)
ShowsWhatIsAllowed ==
  LET user  == IF "auth" \in app.filters THEN q.token ELSE None
      sees(f) == f = None \/ resp.data.fields \subseteq f
  IN  phase = "sent" /\ Successful(resp) /\ q.front = "rest" /\ q.op # "health"
        /\ "projection" \in app.filters /\ ~({"data", "meta"} \subseteq app.fields) =>
          /\ user # None /\ ProjectionSchema(Path(app, q)) = "own" => sees(app.rules[user])
          /\ sees(q.fields)

(* What a tag stands for, besides the documents: of an entity it is the    *)
(* number of the document, the same whatever is shown of it; of a list it  *)
(* covers the fields.  Neither covers the format and the version.          *)
SameView(r, s) ==
  /\ r.header = s.header /\ r.accept = s.accept
  /\ r.op = "get" => r.fields = s.fields /\ r.token = s.token

(* A client that presents a tag and is told "not modified" had it of the   *)
(* same operation, of a document of the same record_version or of the very *)
(* same documents, though the tag was of a request for other fields,       *)
(* another format or version, or by another role; and what it has is what  *)
(* it would be sent now, field by field, if it asks for the same view.     *)
NotModifiedIsTrue ==
  LET now == answer.data
      had == held.resp.data
  IN  phase = "sent" /\ resp.status = 304 /\ q.condition # AnyTag =>
        /\ held # None /\ held.q.op = q.op
        /\ IF q.op = "list" THEN now.version = had.version
           ELSE RecordVersions[now.version] = RecordVersions[had.version]
        /\ SameView(q, held.q) => now = [had EXCEPT !.version = now.version]

-----------------------------------------------------------------------------
(* What the documentation says and the code does not keep.                 *)

(* filters/middleware.py:25: the chain is run "around every request".      *)
(* What comes over a socket, as GraphQL may, is authenticated by no filter *)
(* and shown to no policy.                                                 *)
EveryRequestIsFiltered ==
  ran # << >> => /\ "auth" \in app.filters => ctx.user # None
                 /\ "rego" \in app.filters => ctx.admitted

(* docs/filters.md:173: "restricts fields per role per schema".  It does   *)
(* where the name of the schema is the third part of the path, and not of  *)
(* a document with fields "data" and "meta".                               *)
RoleRestricts ==
  phase = "sent" /\ Successful(resp) /\ q.op \in {"get", "list"} /\ q.front = "rest"
    /\ {"auth", "projection"} \subseteq app.filters /\ app.rules[q.token] # None
    => resp.data.fields \subseteq app.rules[q.token]

(* filters/etag.py:37: "Not Modified" is for a matching If-None-Match.  An *)
(* entity's tag matches in another version, format or projection and for   *)
(* another document of the same record_version, and "*" matches what one   *)
(* has never had.                                                          *)
NotModifiedIsHeld ==
  phase = "sent" /\ resp.status = 304 => held # None /\ answer.data = held.resp.data

(* filters/schema_version.py:5: a client speaking an older schema version  *)
(* "always receives a structurally valid payload".  Where the filter finds *)
(* no schema, as for GraphQL, it returns the response whose stream it has  *)
(* read: the client gets no body.                                          *)
ValidPayload ==
  phase = "sent" /\ "version" \in app.filters /\ q.header \in DOMAIN SchemaFields
    /\ Successful(resp) => Readable(resp)

(* filters/etag.py:39: an ETag is set "for all successful non-204          *)
(* responses".  There is none in an envelope, though the filter's place is *)
(* said to be "before envelope" (etag.py:11); without one, the body of     *)
(* what is no entity and no list is lost, as in ValidPayload.              *)
SuccessIsTagged ==
  phase = "sent" /\ "etag" \in app.filters /\ Successful(resp) => resp.tag # None

(* registry.py:130: guards run before validators and transforms.  Hooks of *)
(* all schemas run before those of the schema, whatever their kind.        *)
Kind(n) == HookKinds[app.declared[passed[n]].kind]
GuardsFirst ==
  \A m, n \in DOMAIN passed :
    m < n /\ app.declared[passed[m]].op = app.declared[passed[n]].op /\ Kind(m) <= 3
      => Kind(m) <= Kind(n)

(* registry.py:166: a handler "replaces the default service for that       *)
(* operation".  A batch of updates or deletions runs the service.          *)
HandlerReplacesService ==
  ran = <<None>> => Best(q.op) = None

(* docs/filters.md:240: short circuits pass the response filters "for      *)
(* content negotiation".  They do with a context that accepts JSON.        *)
ShortCircuitNegotiated ==
  phase = "sent" /\ resp.status = 401 /\ "negotiation" \in app.filters
    => resp.data.format = q.accept
=============================================================================
