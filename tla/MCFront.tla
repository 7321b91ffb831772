------------------------------ MODULE MCFront -------------------------------
(* Applications with handlers, with hooks and with filters: a schema in    *)
(* two versions, of which the registry knows the older, v1.                *)
EXTENDS Front, TLC

CONSTANTS v1, v2, staff, guest

MCFields == {"entity_id", "record_version", "name", "cost", "data", "meta"}
Plain    == MCFields \ {"data", "meta"}
MCSchemaFields == [v \in {v1} |-> {"entity_id", "record_version", "name"}]

(* The second and the third document of the entity are of a race.          *)
MCRecordVersions == <<1, 2, 2>>

NoRules == [r \in Roles |-> None]
MCRules == [NoRules EXCEPT ![guest] = MCFields \ {"cost"}]

UpTo(n, S) == UNION {[1 .. k -> S] : k \in 0 .. n}

Bare ==
  [declared |-> << >>, controllers |-> {}, filters |-> {}, prefix |-> <<"api", "v1">>,
   fields |-> Plain, rules |-> NoRules]

(* Three handlers of create, of every scope of v1 and REST; or up to two   *)
(* of create or of its batch, with a controllers module or without.        *)
Handler(ops) ==
  [kind : {"handler"}, op : ops, version : {None, v1}, channel : {"*", "rest"}, schema : {"own"}]
HandlerApps ==
  {[Bare EXCEPT !.declared = d] : d \in [1 .. 3 -> Handler({"create"})]}
  \cup {[Bare EXCEPT !.declared = d, !.controllers = c] :
          d \in UpTo(2, Handler({"create", "bulk_create"})), c \in SUBSET {"create"}}

(* A guard of every scope, alone or after another hook or a handler.       *)
Guard ==
  [kind : {"guard"}, op : {"update", "delete"}, version : {None, v1},
   channel : {"*", "rest", "graphql"}, schema : {"own", "*"}]
Unscoped(kinds, op, schemas) ==
  [kind : kinds, op : {op}, version : {None}, channel : {"*"}, schema : schemas]
Another ==
  Unscoped({"before", "on"}, "update", {"own", "*"}) \cup Unscoped({"handler"}, "bulk_update", {"own"})
HookApps ==
  {[Bare EXCEPT !.declared = d, !.controllers = {"update"}, !.filters = {"version"}] :
     d \in {<<g>> : g \in Guard} \cup {<<h, g>> : g \in Guard, h \in Another}}

(* Chains of filters.                                                      *)
Admits == {"headers", "rego", "auth"}
Shows  == {"projection", "envelope", "etag", "negotiation", "version"}
FilterSets ==
  {Admits, Admits \cup Shows, Shows} \cup {Shows \ {f} : f \in Shows \ {"envelope"}}
Filtered(filters) == [Bare EXCEPT !.filters = filters, !.rules = MCRules]
FilterApps == {Filtered(s) : s \in FilterSets}

(* Filters that look at the path, under other prefixes; and documents that *)
(* look like envelopes.                                                    *)
Projecting == {"auth", "projection", "version"}
PathApps ==
  {[Filtered(Projecting) EXCEPT !.prefix = p] : p \in {<<"svc">>, <<"svc", "v1">>}}
  \cup {[Filtered(Projecting) EXCEPT !.fields = MCFields]}

(* All filters that tags meet: in an envelope nothing is tagged.           *)
TagApps == {Filtered({"auth"} \cup (Shows \ {"envelope"}))}

MCApps == HandlerApps \cup HookApps \cup FilterApps \cup PathApps \cup TagApps

-----------------------------------------------------------------------------
Method(op) ==
  CASE op \in {"get", "list", "health"}  -> "GET"
    [] op \in {"create", "bulk_create"}  -> "POST"
    [] op \in {"update", "bulk_update"}  -> "PATCH"
    [] op \in {"delete", "bulk_delete"}  -> "DELETE"

Rest(op) ==
  [front |-> "rest", socket |-> FALSE, op |-> op, method |-> Method(op), header |-> None, resolver |-> None,
   accept |-> "json", fields |-> None, token |-> None, body |-> "ok",
   condition |-> None]
GraphQL(op) == [Rest(op) EXCEPT !.front = "graphql", !.method = "POST"]
Socket(op)  == [GraphQL(op) EXCEPT !.socket = TRUE]

(* The ways to ask for a version.                                          *)
Versioned(rest, graphql) ==
  {[Rest(o) EXCEPT !.header = h] : o \in rest, h \in {None, v1, v2}}
  \cup {[g EXCEPT !.header = h, !.resolver = r] :
          g \in {GraphQL(o) : o \in graphql} \cup {Socket(o) : o \in graphql \cap {"update"}},
          h \in {None, v2}, r \in {None, v1}}

(* What the filters of an application look at.                             *)
Users(filters)   == IF "auth" \in filters THEN Roles ELSE {None}
Tokens(filters)  == Users(filters) \cup {None}
FieldsAsked(filters)  == IF "projection" \in filters
                         THEN {None, Plain \ {"name"}} ELSE {None}
Headers(filters) == IF "version" \in filters THEN {None, v1} ELSE {None}
Accepts(filters) == IF "negotiation" \in filters THEN {"json", "yaml"} ELSE {"json"}

Reads(s) ==
  {[Rest(o) EXCEPT !.token = t, !.fields = f, !.header = h, !.accept = a] :
     o \in {"get", "list"}, t \in Users(s), f \in FieldsAsked(s), h \in Headers(s), a \in Accepts(s)}
Others(s) ==
  {[r EXCEPT !.token = t] :
     r \in {Rest("health"), [GraphQL("get") EXCEPT !.header = v1], Socket("get"), Rest("delete"),
            [Rest("get") EXCEPT !.accept = "other"],
            [Rest("create") EXCEPT !.body = "malformed"], [Rest("create") EXCEPT !.body = "large"]},
     t \in Tokens(s)}

(* Those that depart from the plainest of requests in up to n respects.    *)
Departing(n, requests) ==
  {r \in requests :
     Cardinality({k \in 1 .. 4 :
       <<r.token = guest, r.fields # None, r.header # None, r.accept # "json">>[k]}) <= n}

MCRequests ==
  [a \in MCApps |->
    CASE a \in FilterApps -> Departing(2, Reads(a.filters)) \cup Others(a.filters)
      [] a \in PathApps -> Reads(a.filters) \cup {Rest("bulk_create"), Socket("get")}
      [] a \in TagApps -> {r \in Departing(1, Reads(a.filters)) :
                            IF r.op = "list" THEN r.header = None /\ r.accept = "json" /\ r.fields = None
                            ELSE r.token = staff}
      [] a \in HookApps -> Versioned({"update", "delete", "bulk_update", "bulk_delete"},
                                     {"update", "delete"})
      [] OTHER -> Versioned({"create", "bulk_create"}, {"create"})]
=============================================================================
