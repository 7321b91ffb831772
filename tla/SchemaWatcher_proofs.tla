------------------------ MODULE SchemaWatcher_proofs ------------------------
(***************************************************************************)
(* Proofs about SchemaWatcher, for any files, versions and contents, and   *)
(* any order of edits, polls and timers.                                   *)
(*                                                                         *)
(* QuietMeansCurrent is not inductive: it needs that fingerprints are      *)
(* never used twice (MarkInv), and that a file whose fingerprint is not    *)
(* known is either waiting to be forgotten or already is (GoneInv).        *)
(* ToldIsCurrent needs that the last task waiting to tell of a schema is   *)
(* about what is registered (NewsInv).                                     *)
(***************************************************************************)
EXTENDS SchemaWatcher, FiniteSetTheorems, TLAPS

(* Fingerprints known and on the disk are not newer than the stamp.        *)
MarkInv(s) ==
  /\ disk[s] # None => disk[s].mark \in 1 .. stamp
  /\ known[s] # None => known[s] \in 0 .. stamp

GoneInv(s) ==
  /\ pending[s] = "delete" => known[s] = None
  /\ running /\ known[s] = None => pending[s] = "delete"
                                   \/ (pending[s] = None /\ Known(s) = {})

(* Before the watcher has started nothing changes.                         *)
StartInv(s) == ~running => pending[s] = None /\ Current(s)

FileInv(s) == MarkInv(s) /\ GoneInv(s) /\ StartInv(s) /\ (Quiet(s) => Current(s))

IInv == TypeOK /\ \A s \in Schemas : FileInv(s)

-----------------------------------------------------------------------------
LEMMA LoadedType ==
  ASSUME TypeOK, NEW s \in Schemas, Readable(s)
  PROVE  Loaded(s) \in Contents /\ disk[s].version \in Versions
<1>1. disk[s] \in Files /\ disk[s].body # None
  BY DEF TypeOK, Readable
<1>2. disk[s].body \in Bodies /\ disk[s].version \in Versions
  BY <1>1 DEF Files
<1>3. \A r \in Refs[s] : r \in Schemas
  BY RefsAssumption
<1>4. ASSUME NEW r \in Refs[s], \A q \in Refs[s] : Readable(q)
      PROVE  disk[r].body \in Bodies
  <2>1. disk[r] \in Files /\ disk[r].body # None
    BY <1>3, <1>4 DEF TypeOK, Readable
  <2> QED BY <2>1 DEF Files
<1> QED BY <1>2, <1>4 DEF Loaded, Contents

LEMMA MadeType ==
  ASSUME TypeOK, NEW s \in Schemas, NEW v \in Versions
  PROVE  Made(s, v) \in {None} \cup Contents
BY DEF TypeOK, Made

LEMMA RewrittenType ==
  ASSUME TypeOK, NEW s \in Schemas, NEW m \in Marks, NEW v \in Versions,
         NEW b \in Bodies \cup {None}, Rewritten(s, m, v, b)
  PROVE  /\ disk' \in [Schemas -> {None} \cup Files]
         /\ stamp' \in Nat /\ edits' \in 0 .. MaxEdits
<1>1. m \in Nat \ {Vanished}
  BY DEF TypeOK, Marks, Vanished
<1>2. [mark |-> m, version |-> v, body |-> b] \in Files
  BY <1>1 DEF Files
<1>3. disk' \in [Schemas -> {None} \cup Files]
  BY <1>2 DEF TypeOK, Rewritten
<1>4. stamp' \in Nat
  BY <1>1 DEF TypeOK, Rewritten
<1>5. edits' \in 0 .. MaxEdits
  BY MaxAssumption DEF TypeOK, Rewritten
<1> QED BY <1>3, <1>4, <1>5

LEMMA InitType == Init => TypeOK
<1> SUFFICES ASSUME Init PROVE TypeOK
  OBVIOUS
<1>1. disk \in [Schemas -> {None} \cup Files]
  <2>1. PICK present \in SUBSET Schemas, v \in Versions, b \in Bodies :
          \E torn \in SUBSET present :
            disk = [s \in Schemas |->
                     IF s \notin present THEN None
                     ELSE [mark |-> 1, version |-> v,
                           body |-> IF s \in torn THEN None ELSE b]]
    BY DEF Init
  <2>2. PICK torn \in SUBSET present :
          disk = [s \in Schemas |->
                   IF s \notin present THEN None
                   ELSE [mark |-> 1, version |-> v,
                         body |-> IF s \in torn THEN None ELSE b]]
    BY <2>1
  <2>3. \A t \in Bodies \cup {None} : [mark |-> 1, version |-> v, body |-> t] \in Files
    BY DEF Files, Vanished
  <2> QED BY <2>2, <2>3
<1>2. schemas \in [Schemas -> [Versions -> {None} \cup Contents]]
  <2>1. \A q \in Schemas : Readable(q) => disk[q].body \in Bodies
    BY <1>1 DEF Readable, Files
  <2>2. \A s \in Schemas : Readable(s) => Loaded(s) \in Contents
    BY <2>1, RefsAssumption DEF Loaded, Contents
  <2>3. schemas = [s \in Schemas |-> [v \in Versions |->
                    IF Readable(s) /\ disk[s].version = v THEN Loaded(s) ELSE None]]
    BY DEF Init
  <2> QED BY <2>2, <2>3
<1>3. Nothing \in [Versions -> {None} \cup Contents]
  BY DEF Nothing
<1>4. /\ models \in [Schemas -> [Versions -> {None} \cup Contents]]
      /\ pinned \in [Schemas -> {None} \cup [Versions -> {None} \cup Contents]]
      /\ told \in [Schemas -> {None} \cup [version : Versions, contents : Contents]]
      /\ news \in Seq(News)
  BY <1>3 DEF Init
<1>5. stamp \in Nat /\ edits \in 0 .. MaxEdits /\ stops \in 0 .. MaxStops
  BY MaxAssumption DEF Init
<1>6. running \in BOOLEAN
  BY DEF Init
<1>7. /\ known \in [Schemas -> {None} \cup Nat]
      /\ pending \in [Schemas -> {None, "reload", "delete"}]
  BY DEF Init
<1> QED BY <1>1, <1>2, <1>4, <1>5, <1>6, <1>7 DEF TypeOK

LEMMA NextType == TypeOK /\ [Next]_vars => TypeOK'
<1> SUFFICES ASSUME TypeOK, [Next]_vars PROVE TypeOK'
  OBVIOUS
<1> USE DEF env, watcher, registry, listener
<1>1. ASSUME NEW s \in Schemas, Edit(s) PROVE TypeOK'
  <2>1. PICK m \in Marks, v \in Versions, b \in Bodies \cup {None} : Rewritten(s, m, v, b)
    BY <1>1 DEF Edit
  <2>2. /\ disk' \in [Schemas -> {None} \cup Files]
        /\ stamp' \in Nat /\ edits' \in 0 .. MaxEdits
    BY <2>1, RewrittenType
  <2>3. UNCHANGED <<watcher, registry, listener>>
    BY <1>1 DEF Edit
  <2> QED BY <2>2, <2>3 DEF TypeOK
<1>2. ASSUME NEW s \in Schemas, Remove(s) PROVE TypeOK'
  BY <1>2, MaxAssumption DEF Remove, TypeOK
<1>3. ASSUME NEW s \in Schemas, NEW v \in Versions, NEW b \in Bodies, RegisterSchema(s, v, b)
      PROVE  TypeOK'
  <2>1. ASSUME NEW torn \in BOOLEAN, NEW m \in Marks,
               Rewritten(s, m, v, IF torn THEN None ELSE b)
        PROVE  /\ disk' \in [Schemas -> {None} \cup Files]
               /\ stamp' \in Nat /\ edits' \in 0 .. MaxEdits
    BY <2>1, RewrittenType
  <2>2. /\ disk' \in [Schemas -> {None} \cup Files]
        /\ stamp' \in Nat /\ edits' \in 0 .. MaxEdits
    <3>1. CASE NotWritten
      BY <3>1, MaxAssumption DEF NotWritten, TypeOK
    <3> QED BY <1>3, <2>1, <3>1 DEF RegisterSchema
  <2>3. Raw(b) \in Contents
    BY DEF Raw, Contents
  <2>4. schemas' \in [Schemas -> [Versions -> {None} \cup Contents]]
    BY <1>3, <2>3 DEF RegisterSchema, TypeOK
  <2> QED BY <1>3, <2>2, <2>4 DEF RegisterSchema, TypeOK
<1>4. ASSUME NEW s \in Schemas, NEW v \in Versions, GetModel(s, v) PROVE TypeOK'
  <2>1. models' \in [Schemas -> [Versions -> {None} \cup Contents]]
    BY <1>4, MadeType DEF GetModel, TypeOK
  <2> QED BY <1>4, <2>1 DEF GetModel, TypeOK
<1>5. ASSUME NEW s \in Schemas, NEW v \in Versions, ResolveVersion(s, v) PROVE TypeOK'
  <2>1. models' \in [Schemas -> [Versions -> {None} \cup Contents]]
    BY <1>5, MadeType DEF ResolveVersion, TypeOK
  <2>2. pinned' \in [Schemas -> {None} \cup [Versions -> {None} \cup Contents]]
    <3>1. pinned[s] \in [Versions -> {None} \cup Contents]
      BY <1>5 DEF ResolveVersion, TypeOK
    <3>2. [pinned[s] EXCEPT ![v] = Made(s, v)] \in [Versions -> {None} \cup Contents]
      BY <3>1, MadeType
    <3>3. pinned' = [pinned EXCEPT ![s] = [pinned[s] EXCEPT ![v] = Made(s, v)]]
      BY <1>5 DEF ResolveVersion
    <3> QED BY <3>2, <3>3 DEF TypeOK
  <2> QED BY <1>5, <2>1, <2>2 DEF ResolveVersion, TypeOK
<1>6. ASSUME NEW s \in Schemas, Reload(s) PROVE TypeOK'
  <2>1. Loaded(s) \in Contents /\ disk[s].version \in Versions
    BY <1>6, LoadedType DEF Reload
  <2>2. schemas' \in [Schemas -> [Versions -> {None} \cup Contents]]
    BY <1>6, <2>1 DEF Reload, TypeOK
  <2>3. models' \in [Schemas -> [Versions -> {None} \cup Contents]]
    BY <1>6 DEF Reload, TypeOK, Nothing
  <2>4. /\ told' \in [Schemas -> {None} \cup [version : Versions, contents : Contents]]
        /\ news' \in Seq(News)
    <3>1. [schema |-> s, version |-> disk[s].version, contents |-> Loaded(s)] \in News
      BY <2>1 DEF News
    <3> QED BY <1>6, <3>1 DEF Reload, TellLater, TypeOK
  <2>5. pending' \in [Schemas -> {None, "reload", "delete"}]
    BY <1>6 DEF Reload, TypeOK
  <2> QED BY <1>6, <2>2, <2>3, <2>4, <2>5 DEF Reload, TypeOK
<1>7. ASSUME NEW s \in Schemas, ReloadUnreadable(s) PROVE TypeOK'
  BY <1>7 DEF ReloadUnreadable, TypeOK
<1>8. ASSUME NEW s \in Schemas, Forget(s) PROVE TypeOK'
  <2>1. schemas' \in [Schemas -> [Versions -> {None} \cup Contents]]
    BY <1>8 DEF Forget, TypeOK, Nothing
  <2>2. models' \in [Schemas -> [Versions -> {None} \cup Contents]]
    BY <1>8 DEF Forget, TypeOK, Nothing
  <2>3. pending' \in [Schemas -> {None, "reload", "delete"}]
    BY <1>8 DEF Forget, TypeOK
  <2> QED BY <1>8, <2>1, <2>2, <2>3 DEF Forget, TypeOK
<1>9. CASE Start
  <2>1. known' \in [Schemas -> {None} \cup Nat]
    BY <1>9 DEF Start, TypeOK, Mark, Files
  <2> QED BY <1>9, <2>1 DEF Start, TypeOK
<1>10. CASE Stop
  <2>1. stops' \in 0 .. MaxStops
    BY <1>10, MaxAssumption DEF Stop, TypeOK
  <2>2. running' \in BOOLEAN
    BY <1>10 DEF Stop
  <2>3. pending' \in [Schemas -> {None, "reload", "delete"}]
    BY <1>10 DEF Stop
  <2>4. UNCHANGED <<env, known, registry>>
    BY <1>10 DEF Stop
  <2>5. UNCHANGED listener
    BY <1>10 DEF Stop
  <2> QED BY <2>1, <2>2, <2>3, <2>4, <2>5 DEF TypeOK
<1>11. CASE Poll
  <2>1. PICK gone \in SUBSET Present :
          /\ edits + Cardinality(gone) <= MaxEdits
          /\ edits' = edits + Cardinality(gone)
          /\ disk' = [s \in Schemas |-> IF s \in gone THEN None ELSE disk[s]]
          /\ known' = [s \in Schemas |-> IF s \in gone THEN Vanished ELSE Mark(s)]
    BY <1>11 DEF Poll
  <2>2. disk' \in [Schemas -> {None} \cup Files]
    BY <2>1 DEF TypeOK
  <2>3. known' \in [Schemas -> {None} \cup Nat]
    BY <2>1 DEF TypeOK, Mark, Files, Vanished
  <2>4. pending' \in [Schemas -> {None, "reload", "delete"}]
    BY <1>11 DEF Poll, TypeOK
  <2>5. edits' \in 0 .. MaxEdits
    <3>1. Cardinality(gone) \in Nat
      BY SchemasAssumption, FS_Subset, FS_CardinalityType DEF Present
    <3> QED BY <2>1, <3>1, MaxAssumption DEF TypeOK
  <2> QED BY <1>11, <2>2, <2>3, <2>4, <2>5 DEF Poll, TypeOK
<1>12. CASE Tell
  <2>1. Head(news) \in News /\ news' \in Seq(News)
    BY <1>12 DEF Tell, TypeOK
  <2>2. Hears(Head(news))
    BY <1>12 DEF Tell
  <2>3. told' \in [Schemas -> {None} \cup [version : Versions, contents : Contents]]
    BY <2>1, <2>2 DEF Hears, News, TypeOK
  <2>4. UNCHANGED <<env, watcher, registry>>
    BY <1>12 DEF Tell
  <2> QED BY <2>1, <2>3, <2>4 DEF TypeOK
<1>13. CASE UNCHANGED vars
  BY <1>13 DEF vars, TypeOK
<1> QED
  BY <1>1, <1>2, <1>3, <1>4, <1>5, <1>6, <1>7, <1>8, <1>9, <1>10, <1>11, <1>12, <1>13 DEF Next

-----------------------------------------------------------------------------
(* A watcher that is started before the first edit and never stopped, over *)
(* files without pointers to each other.                                   *)
Undisturbed ==
  /\ Quirks = {}
  /\ MaxStops = 0
  /\ \A s \in Schemas : Refs[s] = {}

(* Without pointers a schema in memory depends on its own file alone.      *)
LEMMA LoadedAlone ==
  ASSUME Undisturbed, NEW s \in Schemas, disk'[s] = disk[s]
  PROVE  /\ Loaded(s)' = Loaded(s) /\ Mark(s)' = Mark(s)
         /\ Readable(s)' <=> Readable(s)
BY DEF Undisturbed, Loaded, Mark, Readable

LEMMA InitInv == Undisturbed /\ Init => IInv
<1> SUFFICES ASSUME Undisturbed, Init PROVE IInv
  OBVIOUS
<1>1. TypeOK
  BY InitType
<1> SUFFICES ASSUME NEW s \in Schemas PROVE FileInv(s)
  BY <1>1 DEF IInv
<1>2. disk[s] # None => disk[s].mark = 1 /\ disk[s].version \in Versions
  BY DEF Init
<1>3. MarkInv(s)
  BY <1>2 DEF Init, MarkInv
<1>4. ~running /\ pending[s] = None /\ known[s] = None
  BY DEF Init
<1>5. None # "delete"
  BY NoneAssumption
<1>6. GoneInv(s) /\ ~Quiet(s)
  BY <1>4, <1>5 DEF GoneInv, Quiet
<1>7. Current(s)
  <2>1. schemas[s] = [v \in Versions |->
                       IF Readable(s) /\ disk[s].version = v THEN Loaded(s) ELSE None]
    BY DEF Init
  <2> QED BY <2>1, <1>2 DEF Current, Known, Readable
<1> QED BY <1>3, <1>4, <1>6, <1>7 DEF FileInv, StartInv

(* A file that a step does not touch.                                      *)
LEMMA Untouched ==
  ASSUME Undisturbed, TypeOK, NEW s \in Schemas, FileInv(s),
         disk'[s] = disk[s], known'[s] = known[s], pending'[s] = pending[s],
         schemas'[s] = schemas[s], running' = running, stamp' \in Nat, stamp <= stamp'
  PROVE  FileInv(s)'
<1>1. /\ Loaded(s)' = Loaded(s) /\ Mark(s)' = Mark(s)
      /\ Readable(s)' <=> Readable(s)
  BY LoadedAlone
<1>2. Known(s)' = Known(s)
  BY DEF Known
<1>3. Current(s)' <=> Current(s)
  BY <1>1, <1>2 DEF Current
<1>4. Quiet(s)' <=> Quiet(s)
  BY <1>1 DEF Quiet
<1>5. stamp \in Nat
  BY DEF TypeOK
<1>6. MarkInv(s)'
  BY <1>5 DEF FileInv, MarkInv
<1>7. GoneInv(s)'
  BY <1>2 DEF FileInv, GoneInv
<1>8. StartInv(s)'
  BY <1>3 DEF FileInv, StartInv
<1> QED BY <1>3, <1>4, <1>6, <1>7, <1>8 DEF FileInv

(* The files of every step but Start and Poll: one is touched.             *)
LEMMA OneTouched ==
  ASSUME Undisturbed, IInv, NEW s \in Schemas, FileInv(s)',
         running' = running, known' = known, stamp' \in Nat, stamp <= stamp',
         \A q \in Schemas \ {s} : /\ disk'[q] = disk[q] /\ pending'[q] = pending[q]
                                  /\ schemas'[q] = schemas[q]
  PROVE  \A q \in Schemas : FileInv(q)'
<1> SUFFICES ASSUME NEW q \in Schemas \ {s} PROVE FileInv(q)'
  OBVIOUS
<1>1. TypeOK /\ FileInv(q)
  BY DEF IInv
<1> QED BY <1>1, Untouched

LEMMA EditInv ==
  ASSUME Undisturbed, IInv, NEW s \in Schemas, Edit(s)
  PROVE  \A q \in Schemas : FileInv(q)'
<1>1. PICK m \in Marks, v \in Versions, b \in Bodies \cup {None} : Rewritten(s, m, v, b)
  BY DEF Edit
<1>2. running /\ m = stamp + 1 /\ stamp \in Nat
  BY DEF Edit, Undisturbed, Marks, IInv, TypeOK
<1>3. UNCHANGED <<running, known, pending, schemas>>
  BY DEF Edit, watcher, registry
<1>4. /\ disk'[s] = [mark |-> m, version |-> v, body |-> b]
      /\ \A q \in Schemas \ {s} : disk'[q] = disk[q]
      /\ stamp' = m
  BY <1>1, <1>2 DEF Rewritten, IInv, TypeOK
<1>5. MarkInv(s) /\ GoneInv(s)
  BY DEF IInv, FileInv
<1>6. MarkInv(s)' /\ ~Quiet(s)'
  <2>1. disk'[s] # None
    <3>1. [mark |-> m, version |-> v, body |-> b] \in Files
      BY <1>2 DEF Files, Vanished
    <3> QED BY <1>4, <3>1, NoneAssumption
  <2>2. Mark(s)' = stamp + 1
    BY <1>2, <1>4, <2>1 DEF Mark
  <2>3. known[s] # stamp + 1
    BY <1>2, <1>5, NoneAssumption DEF MarkInv
  <2> QED BY <1>2, <1>3, <1>4, <1>5, <2>2, <2>3 DEF MarkInv, Quiet
<1>7. GoneInv(s)' /\ StartInv(s)'
  BY <1>2, <1>3, <1>5 DEF GoneInv, StartInv, Known
<1>8. FileInv(s)'
  BY <1>6, <1>7 DEF FileInv
<1> QED BY <1>2, <1>3, <1>4, <1>8, OneTouched

LEMMA RemoveInv ==
  ASSUME Undisturbed, IInv, NEW s \in Schemas, Remove(s)
  PROVE  \A q \in Schemas : FileInv(q)'
<1>1. running
  BY DEF Remove, Undisturbed
<1>2. UNCHANGED <<stamp, running, known, pending, schemas>>
  BY DEF Remove, watcher, registry
<1>3. disk'[s] = None /\ \A q \in Schemas \ {s} : disk'[q] = disk[q]
  BY DEF Remove, IInv, TypeOK
<1>4. stamp \in Nat
  BY DEF IInv, TypeOK
<1>5. MarkInv(s) /\ GoneInv(s)
  BY DEF IInv, FileInv
<1>6. Known(s)' = Known(s)
  BY <1>2 DEF Known
<1>7. Quiet(s)' => Current(s)'
  <2> SUFFICES ASSUME Quiet(s)' PROVE Current(s)'
    OBVIOUS
  <2>1. known[s] = None /\ pending[s] = None
    BY <1>2, <1>3 DEF Quiet, Mark
  <2>2. Known(s) = {}
    BY <1>1, <1>5, <2>1, NoneAssumption DEF GoneInv
  <2> QED BY <1>3, <1>6, <2>2 DEF Current, Readable
<1>8. FileInv(s)'
  BY <1>1, <1>2, <1>3, <1>5, <1>6, <1>7 DEF FileInv, MarkInv, GoneInv, StartInv
<1> QED BY <1>2, <1>3, <1>4, <1>8, OneTouched

LEMMA ReloadInv ==
  ASSUME Undisturbed, IInv, NEW s \in Schemas, Reload(s)
  PROVE  \A q \in Schemas : FileInv(q)'
<1>1. UNCHANGED <<disk, stamp, running, known>>
  BY DEF Reload, env
<1>2. pending[s] = "reload" /\ pending'[s] = None /\ Readable(s)
  BY DEF Reload, IInv, TypeOK
<1>3. \A q \in Schemas \ {s} : pending'[q] = pending[q] /\ schemas'[q] = schemas[q]
  BY DEF Reload, IInv, TypeOK
<1>4. MarkInv(s) /\ GoneInv(s) /\ StartInv(s) /\ stamp \in Nat
  BY DEF IInv, FileInv, TypeOK
<1>5. running
  BY <1>2, <1>4, NoneAssumption DEF StartInv
<1>6. known[s] # None
  BY <1>2, <1>4, <1>5, NoneAssumption DEF GoneInv
<1>7. Current(s)'
  <2>1. /\ Loaded(s)' = Loaded(s)
        /\ Readable(s)' <=> Readable(s)
    BY <1>1, LoadedAlone
  <2>2. disk[s].version \in Versions
    BY <1>2, LoadedType DEF IInv
  <2>3. schemas'[s][disk[s].version] = Loaded(s)
    BY <2>2 DEF Reload, IInv, TypeOK
  <2> QED BY <1>1, <1>2, <2>1, <2>3 DEF Current, Readable
<1>8. FileInv(s)'
  BY <1>1, <1>2, <1>4, <1>5, <1>6, <1>7, NoneAssumption DEF FileInv, MarkInv, GoneInv, StartInv
<1> QED BY <1>1, <1>3, <1>4, <1>8, OneTouched

LEMMA ReloadUnreadableInv ==
  ASSUME Undisturbed, IInv, NEW s \in Schemas, ReloadUnreadable(s)
  PROVE  \A q \in Schemas : FileInv(q)'
<1>1. UNCHANGED <<disk, stamp, running, known, schemas>>
  BY DEF ReloadUnreadable, env, registry
<1>2. pending[s] = "reload" /\ pending'[s] = None /\ ~Readable(s)
  BY DEF ReloadUnreadable, IInv, TypeOK
<1>3. \A q \in Schemas \ {s} : pending'[q] = pending[q]
  BY DEF ReloadUnreadable, IInv, TypeOK
<1>4. MarkInv(s) /\ GoneInv(s) /\ StartInv(s) /\ stamp \in Nat
  BY DEF IInv, FileInv, TypeOK
<1>5. running
  BY <1>2, <1>4, NoneAssumption DEF StartInv
<1>6. known[s] # None
  BY <1>2, <1>4, <1>5, NoneAssumption DEF GoneInv
<1>7. Quiet(s)' => Current(s)'
  BY <1>1, <1>2, <1>6 DEF Quiet, Current, Mark, Readable
<1>8. FileInv(s)'
  BY <1>1, <1>2, <1>4, <1>5, <1>6, <1>7, NoneAssumption DEF FileInv, MarkInv, GoneInv, StartInv
<1> QED BY <1>1, <1>3, <1>4, <1>8, OneTouched

LEMMA ForgetInv ==
  ASSUME Undisturbed, IInv, NEW s \in Schemas, Forget(s)
  PROVE  \A q \in Schemas : FileInv(q)'
<1>1. UNCHANGED <<disk, stamp, running, known>>
  BY DEF Forget, env
<1>2. pending[s] = "delete" /\ pending'[s] = None
  BY DEF Forget, IInv, TypeOK
<1>3. \A q \in Schemas \ {s} : pending'[q] = pending[q] /\ schemas'[q] = schemas[q]
  BY DEF Forget, IInv, TypeOK
<1>4. MarkInv(s) /\ GoneInv(s) /\ StartInv(s) /\ stamp \in Nat
  BY DEF IInv, FileInv, TypeOK
<1>5. running /\ known[s] = None
  BY <1>2, <1>4, NoneAssumption DEF StartInv, GoneInv
<1>6. Known(s)' = {}
  <2>1. schemas'[s] = Nothing
    BY DEF Forget, IInv, TypeOK
  <2> QED BY <2>1 DEF Known, Nothing
<1>7. Quiet(s)' => Current(s)'
  <2> SUFFICES ASSUME Quiet(s)' PROVE Current(s)'
    OBVIOUS
  <2>1. Mark(s) = None
    BY <1>1, <1>5 DEF Quiet, Mark
  <2>2. disk[s] = None
    BY <1>4, <2>1, NoneAssumption DEF Mark, MarkInv
  <2> QED BY <1>1, <1>6, <2>2 DEF Current, Readable
<1>8. FileInv(s)'
  BY <1>1, <1>2, <1>4, <1>5, <1>6, <1>7, NoneAssumption DEF FileInv, MarkInv, GoneInv, StartInv
<1> QED BY <1>1, <1>3, <1>4, <1>8, OneTouched

LEMMA StartStepInv ==
  ASSUME Undisturbed, IInv, Start, NEW s \in Schemas
  PROVE  FileInv(s)'
<1>1. UNCHANGED <<disk, stamp, pending, schemas>> /\ ~running /\ running'
  BY DEF Start, env, registry
<1>2. known'[s] = Mark(s)
  BY DEF Start
<1>3. MarkInv(s) /\ GoneInv(s) /\ StartInv(s) /\ stamp \in Nat
  BY DEF IInv, FileInv, TypeOK
<1>4. pending[s] = None /\ Current(s)
  BY <1>1, <1>3 DEF StartInv
<1>5. Current(s)' /\ (known'[s] = None => Known(s)' = {})
  BY <1>1, <1>2, <1>3, <1>4, NoneAssumption DEF Current, Readable, Loaded, Known, Mark, MarkInv
<1>6. MarkInv(s)'
  BY <1>1, <1>2, <1>3 DEF MarkInv, Mark
<1>7. GoneInv(s)' /\ StartInv(s)'
  BY <1>1, <1>4, <1>5, NoneAssumption DEF GoneInv, StartInv
<1> QED BY <1>5, <1>6, <1>7 DEF FileInv

LEMMA PollInv ==
  ASSUME Undisturbed, IInv, Poll, NEW s \in Schemas
  PROVE  FileInv(s)'
<1>1. UNCHANGED <<stamp, running, schemas>> /\ running
  BY DEF Poll, registry
<1>2. PICK gone \in SUBSET Present :
        /\ disk' = [q \in Schemas |-> IF q \in gone THEN None ELSE disk[q]]
        /\ known' = [q \in Schemas |-> IF q \in gone THEN Vanished ELSE Mark(q)]
  BY DEF Poll
<1>3. pending'[s] = IF known'[s] = known[s] THEN pending[s]
                    ELSE IF known'[s] = None THEN "delete" ELSE "reload"
  BY DEF Poll
<1>4. MarkInv(s) /\ GoneInv(s) /\ (Quiet(s) => Current(s)) /\ stamp \in Nat
  BY DEF IInv, FileInv, TypeOK
<1>5. Known(s)' = Known(s)
  BY <1>1 DEF Known
<1>6. None # Vanished
  BY NoneAssumption DEF Vanished
<1>7. MarkInv(s)'
  BY <1>1, <1>2, <1>4, <1>6 DEF MarkInv, Mark, Vanished
<1>8. GoneInv(s)'
  BY <1>1, <1>3, <1>4, <1>5, NoneAssumption DEF GoneInv
<1>9. Quiet(s)' => Current(s)'
  <2> SUFFICES ASSUME Quiet(s)' PROVE Current(s)'
    OBVIOUS
  <2>1. pending'[s] = None /\ known'[s] = Mark(s)'
    BY DEF Quiet
  <2>2. s \notin gone
    BY <1>2, <1>6, <2>1 DEF Mark
  <2>3. disk'[s] = disk[s]
    BY <1>2, <2>2
  <2>4. known'[s] = known[s] /\ pending[s] = None
    BY <1>3, <2>1, NoneAssumption
  <2>5. /\ Loaded(s)' = Loaded(s) /\ Mark(s)' = Mark(s)
        /\ Readable(s)' <=> Readable(s)
    BY <2>3, LoadedAlone
  <2>6. Current(s)
    BY <1>1, <1>4, <2>1, <2>4, <2>5 DEF Quiet
  <2> QED BY <1>1, <1>5, <2>3, <2>5, <2>6 DEF Current
<1>10. StartInv(s)'
  BY <1>1 DEF StartInv
<1> QED BY <1>7, <1>8, <1>9, <1>10 DEF FileInv

(* A step that only looks at the schemas.                                  *)
LEMMA LookInv ==
  ASSUME Undisturbed, IInv, TypeOK', UNCHANGED <<disk, stamp, running, known, pending, schemas>>,
         NEW s \in Schemas
  PROVE  FileInv(s)'
<1>1. TypeOK /\ FileInv(s) /\ stamp \in Nat
  BY DEF IInv, TypeOK
<1> QED BY <1>1, Untouched

LEMMA NextInv == Undisturbed /\ IInv /\ [Next]_vars => IInv'
<1> SUFFICES ASSUME Undisturbed, IInv, [Next]_vars PROVE IInv'
  OBVIOUS
<1>1. TypeOK /\ TypeOK'
  BY NextType DEF IInv
<1> SUFFICES \A s \in Schemas : FileInv(s)'
  BY <1>1 DEF IInv
<1>2. ASSUME NEW s \in Schemas, Edit(s) PROVE \A q \in Schemas : FileInv(q)'
  BY <1>2, EditInv
<1>3. ASSUME NEW s \in Schemas, Remove(s) PROVE \A q \in Schemas : FileInv(q)'
  BY <1>3, RemoveInv
<1>4. ASSUME NEW s \in Schemas, NEW v \in Versions, NEW b \in Bodies, RegisterSchema(s, v, b)
      PROVE  FALSE
  BY <1>4 DEF RegisterSchema, Undisturbed
<1>5. ASSUME NEW s \in Schemas, NEW v \in Versions, GetModel(s, v) \/ ResolveVersion(s, v)
      PROVE  \A q \in Schemas : FileInv(q)'
  <2>1. UNCHANGED <<disk, stamp, running, known, pending, schemas>>
    BY <1>5 DEF GetModel, ResolveVersion, env, watcher
  <2> QED BY <1>1, <2>1, LookInv
<1>6. ASSUME NEW s \in Schemas, Reload(s) PROVE \A q \in Schemas : FileInv(q)'
  BY <1>6, ReloadInv
<1>7. ASSUME NEW s \in Schemas, ReloadUnreadable(s) PROVE \A q \in Schemas : FileInv(q)'
  BY <1>7, ReloadUnreadableInv
<1>8. ASSUME NEW s \in Schemas, Forget(s) PROVE \A q \in Schemas : FileInv(q)'
  BY <1>8, ForgetInv
<1>9. ASSUME Start PROVE \A q \in Schemas : FileInv(q)'
  BY <1>9, StartStepInv
<1>10. ASSUME Stop PROVE FALSE
  <2>1. stops \in 0 .. 0 /\ stops < 0
    BY <1>1, <1>10 DEF Stop, Undisturbed, TypeOK
  <2> QED BY <2>1
<1>11. ASSUME Poll PROVE \A q \in Schemas : FileInv(q)'
  BY <1>11, PollInv
<1>12. ASSUME UNCHANGED vars \/ Tell PROVE \A q \in Schemas : FileInv(q)'
  BY <1>1, <1>12, LookInv DEF Tell, vars, env, watcher, registry
<1> QED
  BY <1>2, <1>3, <1>4, <1>5, <1>6, <1>7, <1>8, <1>9, <1>10, <1>11, <1>12 DEF Next

-----------------------------------------------------------------------------
LEMMA FreshInv ==
  ASSUME "register" \notin Quirks, TypeOK, ModelsAreFresh, [Next]_vars
  PROVE  ModelsAreFresh'
<1> SUFFICES ASSUME NEW q \in Schemas, NEW w \in Versions, models'[q][w] # None
             PROVE  models'[q][w] = schemas'[q][w]
  BY DEF ModelsAreFresh
<1>1. models[q][w] # None => models[q][w] = schemas[q][w]
  BY DEF ModelsAreFresh
<1>2. CASE UNCHANGED <<schemas, models>>
  BY <1>1, <1>2
<1>3. ASSUME NEW s \in Schemas, NEW v \in Versions, GetModel(s, v) \/ ResolveVersion(s, v)
      PROVE  models'[q][w] = schemas'[q][w]
  <2>1. models' = [models EXCEPT ![s][v] = Made(s, v)] /\ schemas' = schemas
    BY <1>3 DEF GetModel, ResolveVersion
  <2>2. models'[q][w] = IF q = s /\ w = v THEN Made(s, v) ELSE models[q][w]
    BY <2>1 DEF TypeOK
  <2> QED BY <1>1, <2>1, <2>2 DEF Made
<1>4. ASSUME NEW s \in Schemas, Reload(s) PROVE models'[q][w] = schemas'[q][w]
  <2>1. models' = [models EXCEPT ![s] = Nothing]
        /\ schemas' = [schemas EXCEPT ![s][disk[s].version] = Loaded(s)]
    BY <1>4 DEF Reload
  <2>2. q # s
    BY <2>1 DEF Nothing, TypeOK
  <2> QED BY <1>1, <2>1, <2>2 DEF TypeOK
<1>5. ASSUME NEW s \in Schemas, Forget(s) PROVE models'[q][w] = schemas'[q][w]
  <2>1. models' = (IF Known(s) = {} THEN models ELSE [models EXCEPT ![s] = Nothing])
        /\ schemas' = [schemas EXCEPT ![s] = Nothing]
    BY <1>5 DEF Forget
  <2>2. CASE q = s
    <3>1. Known(s) = {} /\ models' = models
      BY <2>1, <2>2 DEF Nothing, TypeOK
    <3> QED BY <1>1, <2>2, <3>1 DEF Known
  <2>3. CASE q # s
    BY <1>1, <2>1, <2>3 DEF TypeOK
  <2> QED BY <2>2, <2>3
<1>6. CASE UNCHANGED vars
  BY <1>2, <1>6 DEF vars, registry
<1> QED
  BY <1>2, <1>3, <1>4, <1>5, <1>6 DEF Next, Edit, Remove, RegisterSchema, ReloadUnreadable,
     Start, Stop, Poll, Tell, registry

(* What has been told of a schema is what is registered if no task about   *)
(* it waits; if some do, the one that was started last will tell it.       *)
LastNews(s, i) ==
  /\ news[i].schema = s
  /\ \A j \in DOMAIN news : j > i => news[j].schema # s

Agrees(s, n) == schemas[s][n.version] = n.contents

NewsInv ==
  \A s \in Schemas : Known(s) # {} =>
    /\ \A i \in DOMAIN news : LastNews(s, i) => Agrees(s, news[i])
    /\ told[s] # None /\ (\A i \in DOMAIN news : news[i].schema # s) => Agrees(s, told[s])

LEMMA NewsReload ==
  ASSUME TypeOK, NewsInv, NEW s \in Schemas, Reload(s)
  PROVE  NewsInv'
<1> DEFINE n == [schema |-> s, version |-> disk[s].version, contents |-> Loaded(s)]
<1>1. /\ schemas' = [schemas EXCEPT ![s][disk[s].version] = Loaded(s)]
      /\ news' = Append(news, n) /\ told' = told /\ news \in Seq(News)
  BY DEF Reload, TellLater, TypeOK
<1>2. disk[s].version \in Versions
  BY LoadedType DEF Reload
<1>3. /\ DOMAIN news = 1 .. Len(news) /\ Len(news) \in Nat
      /\ DOMAIN news' = 1 .. (Len(news) + 1)
      /\ news'[Len(news) + 1] = n
      /\ \A i \in DOMAIN news : news'[i] = news[i]
  BY <1>1
<1>4. schemas'[s][disk[s].version] = Loaded(s)
  BY <1>1, <1>2 DEF TypeOK
<1>5. \A q \in Schemas \ {s} : schemas'[q] = schemas[q]
  BY <1>1 DEF TypeOK
<1>6. n.schema = s /\ schemas'[s][n.version] = n.contents
  BY <1>4
<1> HIDE DEF n
<1>7. ASSUME NEW q \in Schemas, Known(q)' # {}, NEW i \in DOMAIN news', LastNews(q, i)'
      PROVE  Agrees(q, news[i])'
  <2>1. CASE i = Len(news) + 1
    <3>1. news'[i] = n /\ q = s
      BY <1>3, <1>6, <1>7, <2>1 DEF LastNews
    <3> QED BY <1>6, <3>1 DEF Agrees
  <2>2. CASE i # Len(news) + 1
    <3>1. i \in DOMAIN news /\ Len(news) + 1 \in DOMAIN news' /\ Len(news) + 1 > i
      BY <1>3, <2>2
    <3>2. q # s
      BY <1>3, <1>6, <1>7, <3>1 DEF LastNews
    <3>3. LastNews(q, i)
      BY <1>3, <1>7, <3>1 DEF LastNews
    <3>4. Known(q) # {}
      BY <1>5, <1>7, <3>2 DEF Known
    <3> QED BY <1>3, <1>5, <3>1, <3>2, <3>3, <3>4 DEF NewsInv, Agrees
  <2> QED BY <2>1, <2>2
<1>8. ASSUME NEW q \in Schemas, Known(q)' # {}, told'[q] # None,
             \A i \in DOMAIN news' : news'[i].schema # q
      PROVE  Agrees(q, told[q])'
  <2>1. q # s
    BY <1>3, <1>6, <1>8
  <2>2. \A i \in DOMAIN news : news[i].schema # q
    BY <1>3, <1>8
  <2>3. Known(q) # {}
    BY <1>5, <1>8, <2>1 DEF Known
  <2> QED BY <1>1, <1>5, <1>8, <2>1, <2>2, <2>3 DEF NewsInv, Agrees
<1> QED BY <1>7, <1>8 DEF NewsInv

LEMMA NewsTell ==
  ASSUME TypeOK, NewsInv, Tell
  PROVE  NewsInv'
<1> DEFINE n == news[1]
<1>1. /\ news # << >> /\ news' = Tail(news) /\ news \in Seq(News)
      /\ told' = [told EXCEPT ![n.schema] = [version |-> n.version, contents |-> n.contents]]
      /\ schemas' = schemas
  <2>1. news # << >> /\ Hears(Head(news)) /\ news' = Tail(news) /\ news \in Seq(News)
        /\ schemas' = schemas
    BY DEF Tell, TypeOK, registry
  <2>2. Head(news) = n
    BY <2>1
  <2> QED BY <2>1, <2>2 DEF Hears
<1>2. /\ DOMAIN news = 1 .. Len(news) /\ Len(news) \in Nat \ {0}
      /\ DOMAIN news' = 1 .. (Len(news) - 1)
      /\ \A i \in DOMAIN news' : news'[i] = news[i + 1] /\ i + 1 \in DOMAIN news
  BY <1>1
<1>3. 1 \in DOMAIN news /\ n \in News
  BY <1>1, <1>2
<1>4. \A j \in DOMAIN news : j > 1 => j - 1 \in DOMAIN news' /\ news'[j - 1] = news[j]
  BY <1>2
<1> SUFFICES ASSUME NEW q \in Schemas, Known(q)' # {}
             PROVE  /\ \A i \in DOMAIN news' : LastNews(q, i)' => Agrees(q, news[i])'
                    /\ told'[q] # None /\ (\A i \in DOMAIN news' : news'[i].schema # q)
                       => Agrees(q, told[q])'
  BY DEF NewsInv
<1>5. Known(q) # {}
  BY <1>1 DEF Known
<1>6. ASSUME NEW i \in DOMAIN news', LastNews(q, i)' PROVE Agrees(q, news[i])'
  <2>1. \A j \in DOMAIN news : j > i + 1 => news[j].schema # q
    <3> SUFFICES ASSUME NEW j \in DOMAIN news, j > i + 1 PROVE news[j].schema # q
      OBVIOUS
    <3>1. j > 1 /\ j - 1 > i
      BY <1>2
    <3> QED BY <1>4, <1>6, <3>1 DEF LastNews
  <2>2. LastNews(q, i + 1)
    BY <1>2, <1>6, <2>1 DEF LastNews
  <2> QED BY <1>1, <1>2, <1>5, <2>2 DEF NewsInv, Agrees
<1>7. ASSUME told'[q] # None, \A i \in DOMAIN news' : news'[i].schema # q
      PROVE  Agrees(q, told[q])'
  <2>1. \A j \in DOMAIN news : j > 1 => news[j].schema # q
    BY <1>4, <1>7
  <2>2. CASE n.schema = q
    <3>1. LastNews(q, 1)
      BY <2>1, <2>2 DEF LastNews
    <3>2. Agrees(q, n)
      BY <1>3, <1>5, <3>1 DEF NewsInv
    <3>3. told'[q] = [version |-> n.version, contents |-> n.contents]
      BY <1>1, <2>2 DEF TypeOK
    <3> QED BY <1>1, <3>2, <3>3 DEF Agrees
  <2>3. CASE n.schema # q
    <3>1. told'[q] = told[q]
      BY <1>1, <2>3 DEF TypeOK
    <3>2. \A j \in DOMAIN news : news[j].schema # q
      BY <1>2, <2>1, <2>3
    <3> QED BY <1>1, <1>5, <1>7, <3>1, <3>2 DEF NewsInv, Agrees
  <2> QED BY <2>2, <2>3
<1> QED BY <1>6, <1>7

LEMMA NewsStep ==
  ASSUME "register" \notin Quirks, TypeOK, NewsInv, [Next]_vars
  PROVE  NewsInv'
<1>1. CASE UNCHANGED <<schemas, news, told>>
  BY <1>1 DEF NewsInv, LastNews, Agrees, Known
<1>2. ASSUME NEW s \in Schemas, Forget(s) PROVE NewsInv'
  <2>1. schemas' = [schemas EXCEPT ![s] = Nothing] /\ UNCHANGED <<news, told>>
    BY <1>2 DEF Forget, listener
  <2>2. Known(s)' = {} /\ \A q \in Schemas \ {s} : schemas'[q] = schemas[q]
    BY <2>1 DEF Known, Nothing, TypeOK
  <2> SUFFICES ASSUME NEW q \in Schemas, Known(q)' # {}
               PROVE  /\ \A i \in DOMAIN news : LastNews(q, i) => Agrees(q, news[i])'
                      /\ told[q] # None /\ (\A i \in DOMAIN news : news[i].schema # q)
                         => Agrees(q, told[q])'
    BY <2>1 DEF NewsInv, LastNews
  <2>3. schemas'[q] = schemas[q] /\ Known(q) # {}
    BY <2>2 DEF Known
  <2> QED BY <2>1, <2>3 DEF NewsInv, Agrees
<1>3. ASSUME NEW s \in Schemas, Reload(s) PROVE NewsInv'
  BY <1>3, NewsReload
<1>4. CASE Tell
  BY <1>4, NewsTell
<1>5. CASE UNCHANGED vars
  BY <1>1, <1>5 DEF vars, registry, listener
<1> QED
  BY <1>1, <1>2, <1>3, <1>4, <1>5 DEF Next, Edit, Remove, RegisterSchema, GetModel,
     ResolveVersion, ReloadUnreadable, Start, Stop, Poll, registry, listener

-----------------------------------------------------------------------------
(* Files, timers, registry and caches stay well formed; what is loaded was *)
(* a schema, never a torn file, whatever happens to the files.             *)
THEOREM TypeCorrect == Spec => []TypeOK
<1> QED BY InitType, NextType, PTL DEF Spec

(* A watcher that is started in time and not stopped loses no change: for  *)
(* every order of edits, polls and timers, once it is quiet the registry   *)
(* holds what the file says.                                               *)
THEOREM QuietMeansCurrentCorrect ==
  ASSUME Undisturbed
  PROVE  Spec => []QuietMeansCurrent
<1>1. Init => IInv
  BY InitInv
<1>2. IInv /\ [Next]_vars => IInv'
  BY NextInv
<1>3. IInv => QuietMeansCurrent
  BY DEF IInv, FileInv, QuietMeansCurrent
<1> QED BY <1>1, <1>2, <1>3, PTL DEF Spec

(* Unless register_schema is called, no cached model differs from what is  *)
(* registered, whatever the edits, reloads and lookups.                    *)
THEOREM ModelsAreFreshCorrect ==
  ASSUME "register" \notin Quirks
  PROVE  Spec => []ModelsAreFresh
<1>1. Init => TypeOK /\ ModelsAreFresh
  <2> SUFFICES ASSUME Init PROVE ModelsAreFresh
    BY InitType
  <2>1. models = [s \in Schemas |-> Nothing]
    BY DEF Init
  <2> QED BY <2>1 DEF ModelsAreFresh, Nothing
<1>2. TypeOK /\ ModelsAreFresh /\ [Next]_vars => (TypeOK /\ ModelsAreFresh)'
  BY NextType, FreshInv
<1> QED BY <1>1, <1>2, PTL DEF Spec

(* Unless register_schema is called, a listener that has been told all     *)
(* that the reloads of a schema started tasks for was last told what the   *)
(* registry holds for that version, as long as the schema is registered:   *)
(* whatever is edited, reloaded and forgotten while the tasks wait.        *)
THEOREM ToldIsCurrentCorrect ==
  ASSUME "register" \notin Quirks
  PROVE  Spec => []ToldIsCurrent
<1>1. Init => TypeOK /\ NewsInv
  <2> SUFFICES ASSUME Init PROVE NewsInv
    BY InitType
  <2> QED BY DEF Init, NewsInv
<1>2. TypeOK /\ NewsInv /\ [Next]_vars => (TypeOK /\ NewsInv)'
  BY NextType, NewsStep
<1>3. NewsInv => ToldIsCurrent
  BY DEF NewsInv, ToldIsCurrent, Agrees
<1> QED BY <1>1, <1>2, <1>3, PTL DEF Spec
=============================================================================
