----------------------------- MODULE Overrides ------------------------------
(***************************************************************************)
(* What an application declares about a schema, and what becomes of it:    *)
(* the decorators of SlipStreamRegistry and its apply (registry.py), the   *)
(* handlers of a controllers module (container.py), the choice of the      *)
(* handler of an operation (core/operation.py) and the order of the hooks  *)
(* (core/events.py).                                                       *)
(*                                                                         *)
(* A function is named by its position in the sequence of declarations; a  *)
(* function of the controllers module is 0.  The declarations are of one   *)
(* schema, "own", or, hooks only, of all schemas, "*".                     *)
(***************************************************************************)
EXTENDS Naturals, Sequences, FiniteSets

CONSTANTS
  Versions,  \* versions of the schema
  None

BulkOps == {"bulk_create", "bulk_update", "bulk_delete"}
Ops == {"create", "get", "list", "update", "delete"} \cup BulkOps
Channels == {"rest", "graphql"}
HookKinds == [guard |-> 1, validate |-> 2, before |-> 3, after |-> 4, on |-> 5]

Declarations ==
  [kind    : {"handler", "guard", "validate", "before", "after", "on"},
   op      : Ops,
   version : Versions \cup {None},
   channel : Channels \cup {"*"},
   schema  : {"own", "*"}]

(* _build_override_key.                                                    *)
Key(op, version, channel) == [op |-> op, version |-> version, channel |-> channel]

Keys == {Key(o, v, c) : o \in Ops, v \in Versions \cup {None}, c \in Channels \cup {"*"}}

(* _resolve_entity: what the controllers module defines.                   *)
ControllerHandlers(ops) ==
  [k \in Keys |-> IF k.version = None /\ k.channel = "*" /\ k.op \in ops
                  THEN 0 ELSE None]

(* apply, step 1: the handlers replace one another, the last one stays.    *)
ApplyHandlers(overrides, declared) ==
  [k \in Keys |->
     LET own == {i \in DOMAIN declared :
                   /\ declared[i].kind = "handler"
                   /\ Key(declared[i].op, declared[i].version, declared[i].channel) = k}
     IN  IF own = {} THEN overrides[k] ELSE CHOOSE i \in own : \A j \in own : j <= i]

(* @on names its event; here it hooks post_*.                              *)
EventOf(d) == [when |-> IF d.kind \in {"after", "on"} THEN "post" ELSE "pre",
               op   |-> d.op]
Events == [when : {"pre", "post"}, op : Ops]
NoHooks == [e \in Events |-> [s \in {"own", "*"} |-> << >>]]

(* Kind by kind, and those of a kind in the order of their declaration.    *)
Precedes(declared, i, j) ==
  LET m == HookKinds[declared[i].kind]
      n == HookKinds[declared[j].kind]
  IN  m < n \/ (m = n /\ i < j)

HooksOf(declared, event, schema) ==
  {i \in DOMAIN declared : /\ declared[i].kind # "handler"
                           /\ EventOf(declared[i]) = event
                           /\ declared[i].schema = schema}

(* apply, steps 2 to 4: EventBus.register.                                 *)
ApplyHooks(bus, declared) ==
  [e \in Events |-> [s \in {"own", "*"} |->
     LET hooks == HooksOf(declared, e, s)
     IN  bus[e][s] \o [n \in 1 .. Cardinality(hooks) |->
           CHOOSE i \in hooks : Cardinality({j \in hooks : Precedes(declared, j, i)}) = n - 1]]]

(* EventBus.emit: the hooks of all schemas first.                          *)
Emitted(bus, event) == bus[event]["*"] \o bus[event]["own"]

(* Mutant of Fires: the version of the header counts, not the context's.   *)
MutFires(d, ctx) ==
  /\ d.kind = "on" \/ d.version \in {None, ctx.header}
  /\ d.kind = "on" \/ d.channel \in {"*", ctx.channel}

(* _wrap_version_hook and _wrap_channel_hook; @on takes neither.           *)
Fires(d, ctx) ==
  /\ d.kind = "on" \/ d.version \in {None, ctx.version}
  /\ d.kind = "on" \/ d.channel \in {"*", ctx.channel}

FirstOf(overrides, keys) ==
  LET found == {n \in DOMAIN keys : keys[n] \in Keys /\ overrides[keys[n]] # None}
  IN  IF found = {} THEN None
      ELSE overrides[keys[CHOOSE n \in found : \A m \in found : n <= m]]

(* Mutant of Resolve: a version counts for more than a channel.            *)
MutResolve(overrides, op, version, channel) ==
  FirstOf(overrides,
          (IF version = None THEN << >>
           ELSE <<Key(op, version, channel), Key(op, version, "*")>>)
          \o <<Key(op, None, channel), Key(op, None, "*")>>)

(* _resolve_handler_override.                                              *)
Resolve(overrides, op, version, channel) ==
  FirstOf(overrides,
          IF version = None
          THEN <<Key(op, None, channel), Key(op, None, "*")>>
          ELSE <<Key(op, version, channel), Key(op, None, channel),
                 Key(op, version, "*"), Key(op, None, "*")>>)

(* What execute_* calls in place of the service: bulk_create falls back to *)
(* the handler of create, the others take no override.                     *)
Chosen(overrides, op, version, channel) ==
  LET own == Resolve(overrides, op, version, channel)
  IN  CASE op \in {"bulk_update", "bulk_delete"} -> None
        [] op = "bulk_create" /\ own = None -> Resolve(overrides, "create", version, channel)
        [] OTHER -> own
=============================================================================
