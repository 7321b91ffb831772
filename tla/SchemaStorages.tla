--------------------------- MODULE SchemaStorages ---------------------------
(***************************************************************************)
(* Where the schemas of a service come from: the schema directory, the     *)
(* chain of storages (adapters/persistence/schema) of a                    *)
(* CompositeSchemaStorage, and sync_from_storage (core/schema/registry.py) *)
(* which, at every start, pulls from the chain into the registry's memory  *)
(* and pushes back what the chain lacks.                                   *)
(*                                                                         *)
(* A chain is made of "file" (FileSchemaStorage, a directory of versions), *)
(* "mongo" (MongoSchemaStorage, shared with other services) and "http"     *)
(* (HttpSchemaStorage, the vending API of another service behind a cache   *)
(* of its own).  The chain is asked adapter by adapter: an adapter that    *)
(* raises is skipped, what a later one has is saved to the earlier ones.   *)
(* There is one schema; its versions are numbers, in the order of          *)
(* sort_versions: what is not a semantic version comes last.               *)
(***************************************************************************)
EXTENDS Naturals, Sequences, FiniteSets, FiniteSetsExt

CONSTANTS
  Versions,    \* the versions of the schema, in the order of sort_versions
  Semver,      \* those that parse_semver accepts
  Bodies,      \* what a version may say
  Deployments, \* chains explored: see Deployment
  TTL,         \* of the cache, in ticks
  MaxChanges,  \* bound of the model: changes by others, and the application's calls
  MaxTicks,    \* bound of the model: ticks
  MaxFaults,   \* bound of the model: accesses that raise, and crashes
  None

Deployment ==
  [chain   : Seq({"file", "mongo", "http"}),
   through : BOOLEAN,   \* write_through
   shared  : BOOLEAN]   \* the file storage works on the schema directory

ASSUME VersionsAssumption ==
  /\ Versions \subseteq Nat /\ IsFiniteSet(Versions) /\ Semver \subseteq Versions
  /\ \A v \in Semver, w \in Versions \ Semver : v < w
ASSUME BodiesAssumption == None # "torn" /\ Bodies \cap {None, "torn"} = {}
ASSUME DeploymentsAssumption ==
  /\ Deployments \subseteq Deployment
  /\ \A d \in Deployments : d.chain # << >>
ASSUME BoundsAssumption ==
  TTL \in Nat /\ MaxChanges \in Nat /\ MaxTicks \in Nat /\ MaxFaults \in Nat

VARIABLES
  deployment,  \* which of them it is
  flat,        \* schema directory: None or the version and body of the schema's file
  files,       \* "file": version -> None, "torn" or a body
  mongo,       \* "mongo": version -> None or a body
  remote,      \* the registry of the other service: version -> None or a body
  cache,       \* "http": key -> None, or a value and its age
  memory,      \* SchemaRegistry._schemas: version -> None or a body
  phase,       \* of the service
  todo,        \* versions that sync_from_storage has not come to
  call,        \* NoCall, or the call of the chain under way
  changes, ticks, faults,
  past,        \* history: what remote was in this tick and the TTL ticks before
  clean,       \* history: nothing has raised, or changed elsewhere, since the start
  pinned       \* history: version -> body after a clean start, until it is saved anew
               \* or load_latest fills it

others  == <<flat, remote, past, changes, ticks>>
stores  == <<files, mongo, cache>>
service == <<memory, phase, todo, call>>
vars == <<deployment, others, stores, service, faults, clean, pinned>>

-----------------------------------------------------------------------------
Nothing == [v \in Versions |-> None]
Known(schemas) == {v \in Versions : schemas[v] # None}

(* latest_version.                                                         *)
Latest(versions) == Max(versions)

Chain == deployment.chain

Changes == changes < MaxChanges /\ changes' = changes + 1

(* The flat file counts for the file storage if it looks at it.            *)
FlatSeen == deployment.shared /\ flat # None

FileVersions == Known(files) \cup IF FlatSeen THEN {flat.version} ELSE {}

(* FileSchemaStorage.load: the versioned file first; a torn one is None.   *)
FileLoad(v) ==
  IF files[v] # None THEN IF files[v] = "torn" THEN None ELSE files[v]
  ELSE IF FlatSeen /\ flat.version = v THEN flat.body ELSE None

FileHolds == [v \in Versions |-> FileLoad(v)]

LoadLatest(listed, holds) ==
  LET v == Latest(listed)
  IN  IF listed = {} \/ holds[v] = None THEN None ELSE [version |-> v, body |-> holds[v]]

(* What an adapter that lists some versions and holds some bodies says to  *)
(* each question of the port: sets to "names" and "versions"; None if      *)
(* nothing is found.  exists is a load.                                    *)
Says(op, v, listed, holds) ==
  CASE op = "names"    -> IF listed = {} THEN {} ELSE {"schema"}
    [] op = "versions" -> listed
    [] op = "latest"   -> LoadLatest(listed, holds)
    [] OTHER           -> holds[v]

Gathers(op) == op \in {"names", "versions"}
Found(op, r) == IF Gathers(op) THEN r # {} ELSE r # None

RemoteSays(r, op, v) == Says(op, v, Known(r), r)

(* HttpSchemaStorage's cache: an entry per question, of the last TTL       *)
(* ticks.                                                                  *)
Key(op, v) == [of |-> IF op = "exists" THEN "load" ELSE op, version |-> v]
Keys == {Key(op, None) : op \in {"names", "versions", "latest"}}
          \cup {Key("load", v) : v \in Versions}

(* _cache_get deletes what is over the TTL; here Tick does.                *)
Visible(k) == cache[k] # None

Answer(a, op, v) ==
  CASE a = "file"  -> Says(op, v, FileVersions, FileHolds)
    [] a = "mongo" -> Says(op, v, Known(mongo), mongo)
    [] a = "http"  -> IF Visible(Key(op, v)) THEN cache[Key(op, v)].value
                      ELSE RemoteSays(remote, op, v)

(* Mutant of Remembered: every hit makes the entry young again.            *)
MutRememberedAnew(k, value) ==
  IF ~Found(k.of, value) THEN cache
  ELSE [cache EXCEPT ![k] = [value |-> value, age |-> 0]]

(* 404 is not cached; a list of names is, the empty one too.               *)
Remembered(k, value) ==
  IF Visible(k) \/ (~Found(k.of, value) /\ k.of # "names") THEN cache
  ELSE [cache EXCEPT ![k] = [value |-> value, age |-> 0]]

-----------------------------------------------------------------------------
(* Calls of the chain.                                                     *)

NoCall == [op |-> "none"]

Asking(op, v) == [op |-> op, version |-> v, at |-> 1, gathered |-> {}]

Saving(v, b, last) ==
  [op |-> "save", version |-> v, body |-> b, at |-> 1, last |-> last, result |-> b]

Returned(c, r) == [op |-> "returned", version |-> c.version, result |-> r]

Gathered(c, r) == IF Gathers(c.op) THEN c.gathered \cup r ELSE {}

(* No adapter is left to ask, or one is.                                   *)
GoesOn(c, r) ==
  IF c.at < Len(Chain) THEN [c EXCEPT !.at = @ + 1, !.gathered = Gathered(c, r)]
  ELSE Returned(c, IF Gathers(c.op) THEN Gathered(c, r) ELSE None)

(* Mutant of AfterAnswer: what was found is not saved to the earlier ones. *)
MutFoundIsEnough(c, r) ==
  IF Gathers(c.op) \/ r = None THEN GoesOn(c, r) ELSE Returned(c, r)

(* The adapter at c.at has answered r: lists are merged; otherwise the     *)
(* first answer counts, and load and load_latest save it to the adapters   *)
(* before.                                                                 *)
AfterAnswer(c, r) ==
  LET fill(v, b) == [Saving(v, b, c.at - 1) EXCEPT !.result = r, !.op = "fill"]
  IN  IF Gathers(c.op) \/ r = None THEN GoesOn(c, r)
      ELSE IF c.at = 1 \/ c.op = "exists" THEN Returned(c, r)
      ELSE IF c.op = "load" THEN fill(c.version, r) ELSE fill(r.version, r.body)

(* Mutant of AfterSave: one adapter less.                                  *)
MutOneLess(c) ==
  IF c.at >= c.last THEN Returned(c, c.result) ELSE [c EXCEPT !.at = @ + 2]

AfterSave(c) == IF c.at = c.last THEN Returned(c, c.result) ELSE [c EXCEPT !.at = @ + 1]

IsQuestion(c) == c.op \in {"names", "versions", "load", "latest", "exists"}
IsSave(c) == c.op \in {"save", "fill"}

(* The adapter whose turn it is answers.                                   *)
Ask ==
  /\ IsQuestion(call)
  /\ LET a == Chain[call.at]
         r == Answer(a, call.op, call.version)
     IN  /\ call' = AfterAnswer(call, r)
         /\ cache' = IF a = "http" THEN Remembered(Key(call.op, call.version), r) ELSE cache
  /\ pinned' = IF call.op = "latest" /\ IsSave(call')
               THEN [pinned EXCEPT ![call'.version] = None] ELSE pinned
  /\ UNCHANGED <<deployment, others, files, mongo, memory, phase, todo, faults, clean>>

(* It raises, and is skipped.                                              *)
AskFails ==
  /\ IsQuestion(call)
  /\ faults < MaxFaults
  /\ Chain[call.at] # "file"
  /\ faults' = faults + 1
  /\ clean' = FALSE
  /\ call' = AfterAnswer(call, IF Gathers(call.op) THEN {} ELSE None)
  /\ UNCHANGED <<deployment, others, stores, memory, phase, todo, pinned>>

(* It saves; http does nothing.                                            *)
Save ==
  /\ IsSave(call)
  /\ LET a == Chain[call.at]
         v == call.version
     IN  /\ a = "mongo" => v \in Semver
         /\ files' = IF a = "file" THEN [files EXCEPT ![v] = call.body] ELSE files
         /\ mongo' = IF a = "mongo" THEN [mongo EXCEPT ![v] = call.body] ELSE mongo
  /\ call' = AfterSave(call)
  /\ UNCHANGED <<deployment, others, cache, memory, phase, todo, faults, clean, pinned>>

(* The process ends: its memory and its cache are gone.                    *)
Ends ==
  /\ phase' = "down"
  /\ memory' = Nothing
  /\ cache' = [k \in Keys |-> None]
  /\ todo' = {}
  /\ call' = NoCall

(* The save raises: logged, and the end of the call unless write_through,  *)
(* which is the end of a start.  What a file storage was writing is torn.  *)
Torn(c) == {files} \cup IF IsSave(c) /\ Chain[c.at] = "file"
                       THEN {[files EXCEPT ![c.version] = "torn"]} ELSE {}

SaveRaises ==
  /\ IsSave(call)
  /\ Chain[call.at] # "http"
  /\ \/ /\ Chain[call.at] = "mongo" /\ call.version \notin Semver
        /\ UNCHANGED <<files, faults>>
     \/ /\ faults < MaxFaults
        /\ faults' = faults + 1
        /\ files' \in Torn(call)
  /\ IF call.op = "save" /\ ~deployment.through /\ phase # "up"
     THEN Ends
     ELSE /\ call' = IF call.op = "save" /\ ~deployment.through
                     THEN Returned(call, None) ELSE AfterSave(call)
          /\ UNCHANGED <<phase, memory, cache, todo>>
  /\ clean' = FALSE
  /\ UNCHANGED <<deployment, others, mongo, pinned>>

-----------------------------------------------------------------------------
(* A start of the service: lifespan.                                       *)

Calls(c) == call' = c

(* SchemaRegistry loads the directory, sync_from_storage begins.           *)
Start ==
  /\ phase = "down"
  /\ phase' = "names"
  /\ memory' = [v \in Versions |-> IF flat # None /\ flat.version = v THEN flat.body ELSE None]
  /\ clean' = TRUE
  /\ Calls(Asking("names", None))
  /\ UNCHANGED <<deployment, others, stores, todo, faults, pinned>>

(* Then what is in memory is pushed.                                       *)
PushAll == phase' = "push" /\ todo' = Known(memory') /\ Calls(NoCall)

ListVersions ==
  /\ phase = "names" /\ call.op = "returned"
  /\ UNCHANGED memory
  /\ IF call.result = {} THEN PushAll
     ELSE phase' = "versions" /\ Calls(Asking("versions", None)) /\ UNCHANGED todo
  /\ UNCHANGED <<deployment, others, stores, faults, clean, pinned>>

(* The versions that are listed are loaded, one by one.                    *)
Pull(versions) ==
  IF versions = {} THEN PushAll
  ELSE phase' = "pull" /\ todo' = versions /\ Calls(Asking("load", Min(versions)))

ToPull ==
  /\ phase = "versions" /\ call.op = "returned"
  /\ UNCHANGED memory
  /\ Pull(call.result)
  /\ UNCHANGED <<deployment, others, stores, faults, clean, pinned>>

Pulled ==
  /\ phase = "pull" /\ call.op = "returned"
  /\ memory' = IF call.result = None THEN memory
               ELSE [memory EXCEPT ![call.version] = call.result]
  /\ Pull(todo \ {call.version})
  /\ UNCHANGED <<deployment, others, stores, faults, clean, pinned>>

PushNext ==
  /\ phase = "push" /\ call = NoCall
  /\ todo # {}
  /\ \E v \in todo : Calls(Asking("exists", v))
  /\ UNCHANGED <<deployment, others, stores, memory, phase, todo, faults, clean, pinned>>

(* Mutant of Pushed: what the chain lacks is not saved.                    *)
MutPushesNothing ==
  /\ phase = "push" /\ call.op = "returned"
  /\ todo' = todo \ {call.version}
  /\ Calls(NoCall)
  /\ UNCHANGED <<deployment, others, stores, memory, phase, faults, clean, pinned>>

Pushed ==
  /\ phase = "push" /\ call.op = "returned"
  /\ IF call.result = None
     THEN Calls(Saving(call.version, memory[call.version], Len(Chain))) /\ UNCHANGED todo
     ELSE todo' = todo \ {call.version} /\ Calls(NoCall)
  /\ UNCHANGED <<deployment, others, stores, memory, phase, faults, clean, pinned>>

(* The service serves what is in its memory.                               *)
Serve ==
  /\ phase = "push" /\ call = NoCall
  /\ todo = {}
  /\ phase' = "up"
  /\ pinned' = IF clean THEN [v \in Versions |-> IF pinned[v] = None THEN memory[v] ELSE pinned[v]]
               ELSE pinned
  /\ UNCHANGED <<deployment, others, stores, memory, todo, call, faults, clean>>

-----------------------------------------------------------------------------
(* The application uses the chain, too.                                    *)

CallChain ==
  /\ phase = "up" /\ call = NoCall
  /\ Changes
  /\ \/ /\ \/ \E op \in {"load", "exists"}, v \in Versions : Calls(Asking(op, v))
           \/ \E op \in {"latest", "versions"} : Calls(Asking(op, None))
        /\ UNCHANGED pinned
     \/ /\ \E v \in Versions, b \in Bodies :
             /\ Calls(Saving(v, b, Len(Chain)))
             /\ pinned' = [pinned EXCEPT ![v] = None]
  /\ UNCHANGED <<deployment, flat, remote, past, ticks, stores, memory, phase, todo, faults, clean>>

CallReturns ==
  /\ phase = "up" /\ call.op = "returned"
  /\ Calls(NoCall)
  /\ UNCHANGED <<deployment, others, stores, memory, phase, todo, faults, clean, pinned>>

(* It is stopped, for another release.                                     *)
Stop ==
  /\ phase = "up" /\ call = NoCall
  /\ Ends
  /\ UNCHANGED <<deployment, others, files, mongo, faults, clean, pinned>>

(* The service dies in the middle of whatever it does.                    *)
Crash ==
  /\ phase # "down"
  /\ faults < MaxFaults
  /\ faults' = faults + 1
  /\ Ends
  /\ files' \in Torn(call)
  /\ UNCHANGED <<deployment, others, mongo, clean, pinned>>

-----------------------------------------------------------------------------
(* The others.                                                             *)

(* What the storages of a chain hold changes under a start.                *)
Elsewhere(concerns) == clean' = (clean /\ (phase \in {"down", "up"} \/ ~concerns))

EditFlat ==
  /\ Changes
  /\ flat' \in {None} \cup [version : Versions, body : Bodies]
  /\ Elsewhere(deployment.shared)
  /\ UNCHANGED <<deployment, remote, past, ticks, stores, service, faults, pinned>>

(* register_schema and hot reload of the other service.                    *)
Publish ==
  /\ Changes
  /\ remote' \in {Nothing} \cup {[remote EXCEPT ![v] = b] : v \in Versions, b \in Bodies}
  /\ past' = [past EXCEPT ![1] = @ \cup {remote'}]
  /\ Elsewhere(TRUE)
  /\ UNCHANGED <<deployment, flat, ticks, stores, service, faults, pinned>>

OtherSaves ==
  /\ Changes
  /\ \E v \in Semver, b \in Bodies :
       /\ mongo' = [mongo EXCEPT ![v] = b]
       /\ pinned' = [pinned EXCEPT ![v] = None]
  /\ Elsewhere(Chain[1] # "mongo")
  /\ UNCHANGED <<deployment, flat, remote, past, ticks, files, cache, service, faults>>

Tick ==
  /\ ticks < MaxTicks
  /\ ticks' = ticks + 1
  /\ cache' = [k \in Keys |->
                IF ~Visible(k) \/ cache[k].age = TTL THEN None
                ELSE [cache[k] EXCEPT !.age = @ + 1]]
  /\ past' = SubSeq(<<{remote}>> \o past, 1, TTL + 1)
  /\ UNCHANGED <<deployment, flat, remote, changes, files, mongo, service, faults,
                 clean, pinned>>

Init ==
  /\ deployment \in Deployments
  /\ \E f \in {None} \cup [version : Versions, body : Bodies] : flat = f
  /\ files = Nothing
  /\ mongo = Nothing
  /\ remote \in [Versions -> Bodies \cup {None}]
  /\ cache = [k \in Keys |-> None]
  /\ memory = Nothing
  /\ phase = "down"
  /\ todo = {}
  /\ call = NoCall
  /\ changes = 0
  /\ ticks = 0
  /\ faults = 0
  /\ past = [k \in 1 .. TTL + 1 |-> {remote}]
  /\ clean = TRUE
  /\ pinned = Nothing

Next ==
  \/ Ask \/ AskFails \/ Save \/ SaveRaises
  \/ Start \/ ListVersions \/ ToPull \/ Pulled \/ PushNext \/ Pushed \/ Serve
  \/ CallChain \/ CallReturns
  \/ Stop \/ Crash
  \/ EditFlat \/ Publish \/ OtherSaves \/ Tick

Spec == Init /\ [][Next]_vars

-----------------------------------------------------------------------------
Schemas == [Versions -> Bodies \cup {None}]

TypeOK ==
  /\ deployment \in Deployments
  /\ flat \in {None} \cup [version : Versions, body : Bodies]
  /\ files \in [Versions -> Bodies \cup {None, "torn"}]
  /\ mongo \in Schemas /\ remote \in Schemas
  /\ memory \in Schemas /\ pinned \in Schemas
  /\ Known(mongo) \subseteq Semver
  /\ \A k \in Keys : cache[k] # None => cache[k].age \in 0 .. TTL
  /\ phase \in {"down", "names", "versions", "pull", "push", "up"}
  /\ todo \subseteq Versions
  /\ phase = "down" => call = NoCall /\ memory = Nothing
  /\ IsQuestion(call) \/ IsSave(call) => call.at \in 1 .. Len(Chain)
  /\ changes \in 0 .. MaxChanges /\ ticks \in 0 .. MaxTicks /\ faults \in 0 .. MaxFaults
  /\ Len(past) = TTL + 1
  /\ clean \in BOOLEAN

(* What is served from the HTTP cache, the other service has said in the   *)
(* last TTL ticks: no hit, no other question and no failure makes an entry *)
(* live longer.                                                            *)
FreshEnough ==
  \A k \in Keys : Visible(k) =>
    \E r \in UNION {past[n] : n \in DOMAIN past} :
      cache[k].value = RemoteSays(r, k.of, k.version)

WritableFirst == Chain[1] = "mongo" \/ (Chain[1] = "file" /\ ~deployment.shared)

LoadFirst(v) == IF Chain[1] = "file" THEN FileLoad(v) ELSE mongo[v]

(* After a start without failures everything that is served is stored in   *)
(* the first storage: pulled versions are saved there, and what the chain  *)
(* lacked, or a crash had torn, is pushed.                                 *)
ServedIsStored ==
  phase = "up" /\ clean /\ WritableFirst =>
    \A v \in Known(memory) : LoadFirst(v) # None

(* A version that was served after a start without failures is served      *)
(* after every later such start, whatever crashes, edits of the schema     *)
(* directory and changes of the other service come between; with the same  *)
(* body, unless it was saved anew.  A load_latest that meets a torn latest *)
(* version saves what the next storage has, over an older one.             *)
SurvivesRestart ==
  phase = "up" /\ clean /\ Chain[1] = "file" /\ ~deployment.shared =>
    \A v \in Versions : pinned[v] # None => memory[v] = pinned[v]

-----------------------------------------------------------------------------
(* What the documentation says and the code does not keep.                 *)

(* adapters/persistence/schema/composite_storage.py:82 back-fills          *)
(* "earlier adapters that didn't have it": one that raised when it was     *)
(* asked, or that another service has written to since, is overwritten.    *)
Overwrites(old, new) == \E v \in Versions : old[v] \in Bodies /\ new[v] # old[v]
FillsWhatIsMissing ==
  [][call.op = "fill" => ~Overwrites(files, files') /\ ~Overwrites(mongo, mongo')]_vars
=============================================================================
