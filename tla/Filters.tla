------------------------------ MODULE Filters -------------------------------
(***************************************************************************)
(* The filters of adapters/api/filters and what each does to a request and *)
(* to a response; the rate limit filter has a module of its own.  A        *)
(* request goes through a chain in ascending, its response in descending   *)
(* order.                                                                  *)
(*                                                                         *)
(* A response is its status and its representation of the data: the shape  *)
(* of the JSON value, which document of the entity it shows, with which    *)
(* fields and which other names that only have a null, whether it is in an *)
(* envelope, and the format.  "body" says how it can be read: the "stream" *)
(* that the endpoint answers with can be read once and is "spent" then, a  *)
(* response built by a filter is a "buffer".                               *)
(***************************************************************************)
EXTENDS Naturals, Sequences, FiniteSets

CONSTANTS
  Roles,        \* roles of users
  Fields,       \* fields of a document
  SchemaFields, \* version of the schema -> its properties
  RecordVersions, \* the record_version of each document of the entity, in
                  \* the order of their insertion: two writers that race
                  \* give one number twice (VersionedCRUD)
  None

ASSUME FieldsAssumption ==
  /\ {"entity_id", "record_version"} \subseteq Fields
  /\ \A v \in DOMAIN SchemaFields : SchemaFields[v] \subseteq Fields
ASSUME NumbersAssumption == RecordVersions \in Seq(Nat)
ASSUME RolesAssumption == None \notin Roles
ASSUME NoneAssumption == \A fields \in SUBSET Fields : fields # None

Order ==
  [headers |-> 0, rego |-> 3, version |-> 5, auth |-> 10, negotiation |-> 50,
   etag |-> 85, envelope |-> 90, projection |-> 95]

FilterNames == DOMAIN Order

(* FilterChain.add_filters.                                                *)
Sorted(filters) ==
  [n \in 1 .. Cardinality(filters) |->
     CHOOSE f \in filters : Cardinality({g \in filters : Order[g] < Order[f]}) = n - 1]

(* FilterContext and the extras the filters below leave in it.             *)
FreshContext ==
  [user |-> None, accept |-> "json", version |-> None, fields |-> None,
   condition |-> None, admitted |-> FALSE]

-----------------------------------------------------------------------------
(* The path of a request, and the name of the schema that filters find in  *)
(* it: "own", that of the documents, if the prefix of the application is   *)
(* one that they count on.                                                 *)

Path(app, q) ==
  IF q.op = "health" THEN <<"health">>
  ELSE IF q.front = "graphql" THEN <<"graphql">>
  ELSE app.prefix \o CASE q.op \in {"get", "update", "delete"} -> <<"own", "id">>
                       [] q.op \in {"create", "list"}          -> <<"own">>
                       [] OTHER                                -> <<"own", "bulk">>

(* FieldProjectionFilter._extract_schema_name.                             *)
ProjectionSchema(path) == IF Len(path) >= 3 THEN path[3] ELSE None

(* SchemaVersionFilter._extract_schema_name.                               *)
VersionSchema(path) ==
  IF Len(path) >= 3 /\ path[1] = "api" THEN path[3] ELSE path[1]

-----------------------------------------------------------------------------
(* on_request: the outcomes are contexts, or the status of a short circuit *)
(* or, as authenticate and the parsers may raise, of an error.             *)

Goes(ctx) == [kind |-> "goes", ctx |-> ctx]
ShortCircuit(status) == [kind |-> "circuit", status |-> status]
Raises == [kind |-> "raises", status |-> 500]

(* evaluate: a decision, or PolicyEvaluationError.                         *)
PolicyOutcomes(q, ctx) ==
  IF q.op = "health" THEN {Goes(ctx)}
  ELSE {Goes([ctx EXCEPT !.admitted = TRUE]), ShortCircuit(403), ShortCircuit(503)}

NegotiationOutcomes(q, ctx) ==
  CASE q.body = "large"     -> {ShortCircuit(413)}
    [] q.body = "malformed" -> {Raises}
    [] OTHER                -> {Goes([ctx EXCEPT !.accept = q.accept])}

RequestOutcomes(f, q, ctx) ==
  CASE f = "rego"        -> PolicyOutcomes(q, ctx)
    [] f = "auth"        -> {IF q.token = None THEN ShortCircuit(401)
                             ELSE Goes([ctx EXCEPT !.user = q.token])}
    [] f = "version"     -> {Goes([ctx EXCEPT !.version = q.header])}
    [] f = "negotiation" -> NegotiationOutcomes(q, ctx)
    [] f = "etag"        -> {Goes([ctx EXCEPT !.condition = q.condition])}
    [] f = "projection"  -> {Goes([ctx EXCEPT !.fields = q.fields])}
    [] OTHER             -> {Goes(ctx)}

-----------------------------------------------------------------------------
(* Responses.                                                              *)

Data(shape, version, fields) ==
  [shape |-> shape, version |-> version, fields |-> fields, nulls |-> {}, wrapped |-> FALSE,
   format |-> "json"]

FromEndpoint(status, data) ==
  [status |-> status, body |-> IF status = 204 THEN "none" ELSE "stream", data |-> data,
   tag |-> None, secured |-> FALSE]

(* JSONResponse of the middleware: a detail.                               *)
Refusal(status) ==
  [FromEndpoint(status, Data("error", 0, {})) EXCEPT !.body = "buffer"]

Failed(resp) == resp.status >= 400 \/ resp.status = 204
Readable(resp) == resp.body \in {"stream", "buffer"}

(* _read_body takes all of a stream.                                       *)
Spend(resp) == IF resp.body = "stream" THEN [resp EXCEPT !.body = "spent"] ELSE resp

Rebuilt(resp, data) == [resp EXCEPT !.body = "buffer", !.data = data]

(* The answer to a batch, to GraphQL or of health is no document: of it,   *)
(* "other", a selection of names of fields leaves nothing.                 *)
Show(data, fields) ==
  [data EXCEPT !.fields = IF data.shape = "other" THEN {} ELSE @ \cap fields]

(* A document with these fields is taken for an envelope.                  *)
LooksWrapped(data) == data.shape # "other" /\ {"data", "meta"} \subseteq data.fields

(* Mutant of Allowed: what the query asks for replaces what the role may   *)
(* see.                                                                    *)
MutAllowed(role, asked) == IF asked = None THEN role ELSE asked

(* The fields a role may see and those that were asked for; None is all.   *)
Allowed(role, asked) ==
  IF role = None THEN asked
  ELSE IF asked = None THEN role ELSE role \cap asked

(* role_field_rules of the schema, for authenticated users.                *)
RoleFields(app, q, ctx) ==
  IF ctx.user = None \/ ProjectionSchema(Path(app, q)) # "own" THEN None ELSE app.rules[ctx.user]

Project(app, q, ctx, resp) ==
  LET fields == Allowed(RoleFields(app, q, ctx), ctx.fields)
  IN  IF Failed(resp) \/ fields = None \/ ~Readable(resp) THEN resp
      ELSE IF resp.data.format # "json" THEN Spend(resp)
      ELSE Rebuilt(resp, IF LooksWrapped(resp.data) THEN resp.data ELSE Show(resp.data, fields))

Envelop(resp) ==
  IF Failed(resp) \/ ~Readable(resp) THEN resp
  ELSE IF resp.data.format # "json" THEN Spend(resp)
  ELSE Rebuilt(resp, [resp.data EXCEPT !.wrapped = TRUE])

(* If-None-Match: *                                                        *)
AnyTag == [of |-> "any", version |-> << >>, fields |-> {}]

ASSUME AnyTagAssumption == AnyTag # None

(* Mutant of EntityTag: the tag of an entity is its id.                    *)
MutEntityTag(data) == [of |-> "entity", version |-> <<0>>, fields |-> {}]

(* What a create answers, None, is another entity.                         *)
EntityTag(data) ==
  [of |-> "entity", fields |-> {},
   version |-> IF data.version = None THEN << >> ELSE <<RecordVersions[data.version]>>]

(* _compute_etag: of an entity its id and record_version, of a list a hash *)
(* of the body.                                                            *)
ComputeEtag(data) ==
  IF data.wrapped \/ data.format # "json" THEN None
  ELSE IF data.shape = "entity" /\ {"entity_id", "record_version"} \subseteq data.fields
  THEN EntityTag(data)
  ELSE IF data.shape = "list"
  THEN [of |-> "list", version |-> data.version, fields |-> data.fields]
  ELSE None

Tag(q, ctx, resp) ==
  LET etag == ComputeEtag(resp.data)
  IN  IF Failed(resp) \/ ~Readable(resp) THEN resp
      ELSE IF etag = None THEN Spend(resp)
      ELSE IF q.method = "GET" /\ ctx.condition \in {etag, AnyTag}
      THEN [resp EXCEPT !.status = 304, !.body = "none", !.tag = etag, !.secured = FALSE]
      ELSE [Rebuilt(resp, resp.data) EXCEPT !.tag = etag]

(* What is neither JSON, YAML nor XML is "other".                          *)
Negotiate(ctx, resp) ==
  IF ctx.accept = "json" \/ ~Readable(resp) THEN resp
  ELSE IF resp.data.format # "json" \/ ctx.accept = "other" THEN Spend(resp)
  ELSE Rebuilt(resp, [resp.data EXCEPT !.format = ctx.accept])

(* _project_item: the names of the schema, with null for what is absent.   *)
Fit(data, fields) ==
  LET shown == Show(data, fields)
  IN  [shown EXCEPT !.nulls = fields \ shown.fields]

(* Of what is taken for an envelope its field "data" is fitted.            *)
FitVersion(app, q, ctx, resp) ==
  IF ctx.version = None \/ Failed(resp) \/ ~Readable(resp) THEN resp
  ELSE IF \/ resp.data.format # "json"
          \/ VersionSchema(Path(app, q)) # "own" \/ ctx.version \notin DOMAIN SchemaFields
  THEN Spend(resp)
  ELSE Rebuilt(resp, IF LooksWrapped(resp.data) /\ ~resp.data.wrapped /\ resp.data.shape = "entity"
                     THEN resp.data ELSE Fit(resp.data, SchemaFields[ctx.version]))

(* on_response.                                                            *)
OnResponse(f, app, q, ctx, resp) ==
  CASE f = "projection"  -> Project(app, q, ctx, resp)
    [] f = "envelope"    -> Envelop(resp)
    [] f = "etag"        -> Tag(q, ctx, resp)
    [] f = "negotiation" -> Negotiate(ctx, resp)
    [] f = "version"     -> FitVersion(app, q, ctx, resp)
    [] f = "headers"     -> [resp EXCEPT !.secured = TRUE]
    [] OTHER             -> resp
=============================================================================
