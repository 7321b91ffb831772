--------------------------- MODULE SchemaWatcher ----------------------------
(***************************************************************************)
(* Hot schema reload: the files of the schema directory, edited by other   *)
(* programs at any time, the SchemaWatcher that polls their fingerprints   *)
(* and debounces a reload per path (core/schema/watcher.py), the           *)
(* SchemaRegistry it updates with its cache of models                      *)
(* (core/schema/registry.py), and the EntityContainer's own cache in front *)
(* of it (container.py).                                                   *)
(*                                                                         *)
(* A schema is its file: the name is the file's stem.  poll_interval and   *)
(* debounce_seconds are free, so a poll and a timer may come in any order. *)
(* A callback of the event loop is one step; what it reads from the disk   *)
(* is one snapshot, except that a file may vanish between glob and stat.   *)
(***************************************************************************)
EXTENDS Naturals, Sequences, FiniteSets

CONSTANTS
  Schemas,    \* names
  Versions,   \* semantic versions, in their order
  Bodies,     \* what a schema file may say
  Refs,       \* name -> the files its $ref pointers name
  Quirks,     \* what else the run lets happen, of AllQuirks
  MaxEdits,   \* bound of the model: changes of the files
  MaxStops,   \* bound of the model: stops of the watcher
  None

(* Quirks: "offline" edits while the watcher does not run, "mtime" kept by *)
(* a write of the same size (rename, archive), "register" calls of         *)
(* register_schema.                                                        *)
AllQuirks == {"offline", "mtime", "register"}

ASSUME SchemasAssumption  == IsFiniteSet(Schemas)
ASSUME VersionsAssumption == Versions \subseteq Nat /\ Versions # {}
ASSUME RefsAssumption     == Refs \in [Schemas -> SUBSET Schemas]
ASSUME QuirksAssumption   == Quirks \subseteq AllQuirks
ASSUME MaxAssumption      == MaxEdits \in Nat /\ MaxStops \in Nat

VARIABLES
  disk,       \* name -> None, or the file: fingerprint, version, body (None: not JSON)
  stamp,      \* the newest fingerprint
  edits,      \* counts the changes of the files
  stops,      \* counts the stops
  running,    \* SchemaWatcher._running
  known,      \* SchemaWatcher._fingerprints: name -> None or a fingerprint
  pending,    \* SchemaWatcher._pending: name -> None or what the timer will do
  schemas,    \* SchemaRegistry._schemas: name -> version -> None or contents
  models,     \* SchemaRegistry._model_cache: the contents they were made from
  pinned,     \* name -> None, or EntityRegistration.version_models, likewise
  news,       \* tasks of on_reload that have not begun, oldest first
  told        \* name -> None or what on_reload was last called with

env      == <<disk, stamp, edits>>
watcher  == <<stops, running, known, pending>>
registry == <<schemas, models, pinned>>
listener == <<news, told>>
vars     == <<env, watcher, registry, listener>>

Vanished == 0        \* (-1, -1): gone between glob and stat

Files == [mark : Nat \ {Vanished}, version : Versions, body : Bodies \cup {None}]

Nothing == [v \in Versions |-> None]

Present == {s \in Schemas : disk[s] # None}
Readable(s) == disk[s] # None /\ disk[s].body # None
Mark(s)  == IF disk[s] = None THEN None ELSE disk[s].mark

Known(s) == {v \in Versions : schemas[s][v] # None}
Latest(s) == CHOOSE v \in Known(s) : \A w \in Known(s) : w <= v

-----------------------------------------------------------------------------
(* What a schema is in memory: its own body and those its pointers brought *)
(* in; RefResolver.resolve brings in all of them, or none when one of the  *)
(* files cannot be read and the raw schema is kept.                        *)
Contents == [own : Bodies, refs : [Schemas -> Bodies \cup {None}]]

ASSUME NoneAssumption ==
  None \notin Bodies \cup Files \cup Contents \cup {"reload", "delete"} /\ None \notin Nat

Raw(b) == [own |-> b, refs |-> [r \in Schemas |-> None]]

(* _load_schema_from_file and _load_schemas, of a readable file.           *)
Loaded(s) ==
  [own |-> disk[s].body,
   refs |-> [r \in Schemas |->
              IF r \in Refs[s] /\ \A q \in Refs[s] : Readable(q)
              THEN disk[r].body ELSE None]]

(* A file changes: a new fingerprint, or with "mtime" an older one.        *)
Marks == {stamp + 1} \cup IF "mtime" \in Quirks THEN 1 .. stamp ELSE {}

Rewritten(s, m, v, b) ==
  /\ edits < MaxEdits
  /\ edits' = edits + 1
  /\ disk' = [disk EXCEPT ![s] = [mark |-> m, version |-> v, body |-> b]]
  /\ stamp' = IF m > stamp THEN m ELSE stamp

-----------------------------------------------------------------------------
(* The application has started: the registry has loaded what can be read   *)
(* of the directory, the watcher is not started yet.                       *)
Init ==
  /\ \E present \in SUBSET Schemas, v \in Versions, b \in Bodies :
       \E torn \in SUBSET present :
         disk = [s \in Schemas |->
                  IF s \notin present THEN None
                  ELSE [mark |-> 1, version |-> v,
                        body |-> IF s \in torn THEN None ELSE b]]
  /\ stamp = 1
  /\ edits = 0
  /\ stops = 0
  /\ running = FALSE
  /\ known = [s \in Schemas |-> None]
  /\ pending = [s \in Schemas |-> None]
  /\ schemas = [s \in Schemas |->
                 [v \in Versions |->
                   IF Readable(s) /\ disk[s].version = v THEN Loaded(s) ELSE None]]
  /\ models = [s \in Schemas |-> Nothing]
  /\ pinned = [s \in Schemas |-> IF Readable(s) THEN Nothing ELSE None]
  /\ news = << >>
  /\ told = [s \in Schemas |-> None]

(* An editor, a deployment: outside the program.                           *)
Edit(s) ==
  /\ running \/ "offline" \in Quirks
  /\ \E m \in Marks, v \in Versions, b \in Bodies \cup {None} : Rewritten(s, m, v, b)
  /\ UNCHANGED <<watcher, registry, listener>>

Remove(s) ==
  /\ running \/ "offline" \in Quirks
  /\ edits < MaxEdits
  /\ disk[s] # None
  /\ edits' = edits + 1
  /\ disk' = [disk EXCEPT ![s] = None]
  /\ UNCHANGED <<stamp, watcher, registry, listener>>

(* open() has failed: the file is as it was.                               *)
NotWritten ==
  /\ edits < MaxEdits
  /\ edits' = edits + 1
  /\ UNCHANGED <<disk, stamp>>

(* register_schema: memory first, then the file; the models stay.  What    *)
(* json.dump cannot write leaves a torn file.                              *)
RegisterSchema(s, v, b) ==
  /\ "register" \in Quirks
  /\ schemas' = [schemas EXCEPT ![s][v] = Raw(b)]
  /\ \/ \E torn \in BOOLEAN, m \in Marks :
          Rewritten(s, m, v, IF torn THEN None ELSE b)
     \/ NotWritten
  /\ UNCHANGED <<watcher, models, pinned, listener>>

(* The model triple get_model_for_version returns, by what it was made of. *)
Made(s, v) == IF models[s][v] # None THEN models[s][v] ELSE schemas[s][v]

(* get_model_for_version; "latest" is the version Latest(s).               *)
GetModel(s, v) ==
  /\ Made(s, v) # None
  /\ models' = [models EXCEPT ![s][v] = Made(s, v)]
  /\ UNCHANGED <<env, watcher, schemas, pinned, listener>>

(* EntityContainer.resolve_version, of a version that is not pinned yet.   *)
ResolveVersion(s, v) ==
  /\ pinned[s] # None
  /\ pinned[s][v] = None
  /\ Made(s, v) # None
  /\ models' = [models EXCEPT ![s][v] = Made(s, v)]
  /\ pinned' = [pinned EXCEPT ![s][v] = Made(s, v)]
  /\ UNCHANGED <<env, watcher, schemas, listener>>

-----------------------------------------------------------------------------
Start ==
  /\ ~running
  /\ running' = TRUE
  /\ known' = [s \in Schemas |-> Mark(s)]
  /\ UNCHANGED <<env, stops, pending, registry, listener>>

(* The pending timers are cancelled; the tasks of on_reload are not.       *)
Stop ==
  /\ running
  /\ stops < MaxStops
  /\ stops' = stops + 1
  /\ running' = FALSE
  /\ pending' = [s \in Schemas |-> None]
  /\ UNCHANGED <<env, known, registry, listener>>

(* Mutant of Poll: a timer that is already pending is left alone.          *)
MutPollKeepsTimer ==
  /\ running
  /\ known' = [s \in Schemas |-> Mark(s)]
  /\ pending' = [s \in Schemas |->
                  IF known'[s] = known[s] \/ pending[s] # None THEN pending[s]
                  ELSE IF known'[s] = None THEN "delete" ELSE "reload"]
  /\ UNCHANGED <<env, stops, running, registry, listener>>

(* One turn of _poll_loop: _check_for_changes against a new snapshot; the  *)
(* files of gone vanish while it is taken.                                 *)
Poll ==
  /\ running
  /\ \E gone \in SUBSET Present :
       /\ edits + Cardinality(gone) <= MaxEdits
       /\ edits' = edits + Cardinality(gone)
       /\ disk' = [s \in Schemas |-> IF s \in gone THEN None ELSE disk[s]]
       /\ known' = [s \in Schemas |-> IF s \in gone THEN Vanished ELSE Mark(s)]
  /\ pending' = [s \in Schemas |->
                  IF known'[s] = known[s] THEN pending[s]
                  ELSE IF known'[s] = None THEN "delete" ELSE "reload"]
  /\ UNCHANGED <<stamp, stops, running, registry, listener>>

(* asyncio.ensure_future(on_reload(...)): a task that has not begun.       *)
TellLater(s) ==
  /\ news' = Append(news, [schema |-> s, version |-> disk[s].version,
                           contents |-> Loaded(s)])
  /\ told' = told

(* Mutant of Reload: register_schema is called, and writes the file back.  *)
MutReloadWritesBack(s) ==
  /\ pending[s] = "reload"
  /\ pending' = [pending EXCEPT ![s] = None]
  /\ Readable(s)
  /\ schemas' = [schemas EXCEPT ![s][disk[s].version] = Loaded(s)]
  /\ disk' = [disk EXCEPT ![s].mark = (@ % 5) + 1]
  /\ UNCHANGED <<stamp, edits, stops, running, known, models, pinned, listener>>

(* Mutant of Reload: a file that is not JSON is loaded as well.            *)
MutReloadUnchecked(s) ==
  /\ pending[s] = "reload"
  /\ pending' = [pending EXCEPT ![s] = None]
  /\ disk[s] # None
  /\ schemas' = [schemas EXCEPT ![s][disk[s].version] = Loaded(s)]
  /\ models' = [models EXCEPT ![s] = Nothing]
  /\ TellLater(s)
  /\ UNCHANGED <<env, stops, running, known, pinned>>

(* Mutant of Reload: the cached models stay.                               *)
MutReloadKeepsModels(s) ==
  /\ pending[s] = "reload"
  /\ pending' = [pending EXCEPT ![s] = None]
  /\ Readable(s)
  /\ schemas' = [schemas EXCEPT ![s][disk[s].version] = Loaded(s)]
  /\ TellLater(s)
  /\ UNCHANGED <<env, stops, running, known, models, pinned>>

(* _fire_reload, _handle_upsert of a file that can be read.                *)
Reload(s) ==
  /\ pending[s] = "reload"
  /\ pending' = [pending EXCEPT ![s] = None]
  /\ Readable(s)
  /\ schemas' = [schemas EXCEPT ![s][disk[s].version] = Loaded(s)]
  /\ models' = [models EXCEPT ![s] = Nothing]
  /\ TellLater(s)
  /\ UNCHANGED <<env, stops, running, known, pinned>>

(* _handle_upsert of a file that is missing or not JSON.                   *)
ReloadUnreadable(s) ==
  /\ pending[s] = "reload"
  /\ pending' = [pending EXCEPT ![s] = None]
  /\ ~Readable(s)
  /\ UNCHANGED <<env, stops, running, known, registry, listener>>

(* _fire_reload, _handle_delete: the name goes with all its versions.      *)
Forget(s) ==
  /\ pending[s] = "delete"
  /\ pending' = [pending EXCEPT ![s] = None]
  /\ schemas' = [schemas EXCEPT ![s] = Nothing]
  /\ models' = IF Known(s) = {} THEN models ELSE [models EXCEPT ![s] = Nothing]
  /\ UNCHANGED <<env, stops, running, known, pinned, listener>>

Hears(n) == told' = [told EXCEPT ![n.schema] =
                      [version |-> n.version, contents |-> n.contents]]

(* Mutant of Tell: the task that was started last begins first.            *)
MutTellNewestFirst ==
  /\ news # << >>
  /\ Hears(news[Len(news)])
  /\ news' = SubSeq(news, 1, Len(news) - 1)
  /\ UNCHANGED <<env, watcher, registry>>

(* The event loop begins its tasks in the order in which they were made;   *)
(* on_reload is the application's and sees its arguments here.             *)
Tell ==
  /\ news # << >>
  /\ Hears(Head(news))
  /\ news' = Tail(news)
  /\ UNCHANGED <<env, watcher, registry>>

Next ==
  \/ \E s \in Schemas :
       \/ Edit(s) \/ Remove(s)
       \/ \E v \in Versions, b \in Bodies : RegisterSchema(s, v, b)
       \/ \E v \in Versions : GetModel(s, v) \/ ResolveVersion(s, v)
       \/ Reload(s) \/ ReloadUnreadable(s) \/ Forget(s)
  \/ Start \/ Stop \/ Poll \/ Tell

Spec == Init /\ [][Next]_vars

(* The event loop runs its tasks and timers; the application starts the    *)
(* watcher.  A poll must happen again and again; no file has to vanish     *)
(* during one, for a poll without that is always possible too.             *)
Fairness ==
  /\ WF_vars(Start)
  /\ WF_vars(Poll)
  /\ WF_vars(Tell)
  /\ \A s \in Schemas : WF_vars(Reload(s) \/ ReloadUnreadable(s) \/ Forget(s))

FairSpec == Spec /\ Fairness

-----------------------------------------------------------------------------
News == [schema : Schemas, version : Versions, contents : Contents]

TypeOK ==
  /\ disk \in [Schemas -> {None} \cup Files]
  /\ stamp \in Nat /\ edits \in 0 .. MaxEdits /\ stops \in 0 .. MaxStops
  /\ running \in BOOLEAN
  /\ known \in [Schemas -> {None} \cup Nat]
  /\ pending \in [Schemas -> {None, "reload", "delete"}]
  /\ schemas \in [Schemas -> [Versions -> {None} \cup Contents]]
  /\ models \in [Schemas -> [Versions -> {None} \cup Contents]]
  /\ pinned \in [Schemas -> {None} \cup [Versions -> {None} \cup Contents]]
  /\ news \in Seq(News)
  /\ told \in [Schemas -> {None} \cup [version : Versions, contents : Contents]]

(* The watcher has nothing left to do for the file.                        *)
Quiet(s) == running /\ pending[s] = None /\ known[s] = Mark(s)

(* The registry holds what the file says, and nothing if it is gone.       *)
Current(s) ==
  /\ disk[s] = None => Known(s) = {}
  /\ Readable(s) => schemas[s][disk[s].version] = Loaded(s)

(* Whatever the order of edits, polls and timers, no change of a file is   *)
(* forgotten: once the watcher is quiet the registry is current, for the   *)
(* fingerprint "catches every write that changes content"                  *)
(* (core/schema/watcher.py:20-21).                                         *)
QuietMeansCurrent == \A s \in Schemas : Quiet(s) => Current(s)

(* No model outlives the schema it was generated from: "stale cached       *)
(* models must be purged" (core/schema/watcher.py:335).                    *)
ModelsAreFresh ==
  \A s \in Schemas, v \in Versions :
    models[s][v] # None => models[s][v] = schemas[s][v]

(* The calls of on_reload are made after the reload that they are about,   *)
(* while more files change and are reloaded or forgotten: whoever has been *)
(* told all there is to tell of a schema knows what lookups of it give.    *)
ToldIsCurrent ==
  \A s \in Schemas :
    /\ told[s] # None /\ Known(s) # {}
    /\ \A i \in DOMAIN news : news[i].schema # s
    => schemas[s][told[s].version] = told[s].contents

(* Every change is eventually in the registry.                             *)
Converges == <>[](\A s \in Schemas : Current(s))

(* Once the files are left alone the reloads end, a reload never causing   *)
(* another one, and all of them have been told.                            *)
Settles == <>[](news = << >> /\ \A s \in Schemas : pending[s] = None)

-----------------------------------------------------------------------------
(* What the documentation says and the code does not keep.                 *)

(* core/schema/watcher.py:117-119: "schema lookups use the latest schema   *)
(* for all subsequent requests".                                           *)
ServesTheFile ==
  \A s \in Schemas :
    Quiet(s) /\ Readable(s) => schemas[s][Latest(s)] = Loaded(s)

(* core/schema/watcher.py:115-119: model generation uses "the latest       *)
(* schema for all subsequent requests", for the container's models too.    *)
PinnedAreFresh ==
  \A s \in Schemas, v \in Versions :
    pinned[s] # None /\ pinned[s][v] # None => pinned[s][v] = schemas[s][v]
=============================================================================
