---------------------- MODULE SchemaStorages_proofs ----------------------
(***************************************************************************)
(* Proofs about the schema storages: the types, the age of what the HTTP   *)
(* cache answers, and that what a service serves after a start without     *)
(* failures is stored and survives restarts.                               *)
(*                                                                         *)
(* StateInv says what a cache entry may say (CacheInv), and which call is  *)
(* made in which phase of a start (CallInv, PhaseInv).  SyncInv says, phase*)
(* by phase of a start without failures, what the call of the chain under  *)
(* way has found so far, and OwnInv, for files that nobody else writes,    *)
(* that it found what they say (Match), and which of them nothing but a    *)
(* save of the application may touch (Pin).                                *)
(***************************************************************************)
EXTENDS SchemaStorages, FiniteSetTheorems, WellFoundedInduction, TLAPS

-----------------------------------------------------------------------------
(* The invariant: types, the cache, and which call is made when.           *)

World ==
  /\ deployment \in Deployments
  /\ flat \in {None} \cup [version : Versions, body : Bodies]
  /\ files \in [Versions -> Bodies \cup {None, "torn"}]
  /\ mongo \in Schemas /\ remote \in Schemas
  /\ memory \in Schemas /\ pinned \in Schemas
  /\ Known(mongo) \subseteq Semver
  /\ changes \in 0 .. MaxChanges /\ ticks \in 0 .. MaxTicks /\ faults \in 0 .. MaxFaults
  /\ clean \in BOOLEAN

(* What an adapter may answer to a question.                               *)
Answers(op) ==
  CASE op = "names"    -> SUBSET {"schema"}
    [] op = "versions" -> SUBSET Versions
    [] op = "latest"   -> {None} \cup [version : Versions, body : Bodies]
    [] OTHER           -> Bodies \cup {None}

Questions == {"names", "versions", "load", "latest", "exists"}

Results == UNION {Answers(op) : op \in Questions}

(* A cache entry is what the other service said at most age ticks ago.     *)
CacheInv ==
  /\ cache \in [Keys -> {None} \cup [value : Results, age : 0 .. TTL]]
  /\ past \in Seq(SUBSET Schemas)
  /\ Len(past) = TTL + 1
  /\ remote \in past[1]
  /\ \A k \in Keys : Visible(k) =>
       \E n \in 1 .. cache[k].age + 1 : \E r \in past[n] :
         cache[k].value = RemoteSays(r, k.of, k.version)

(* What calls are made of.                                                 *)
Question == [op : Questions, version : Versions \cup {None}, at : Nat,
             gathered : SUBSET (Versions \cup {"schema"})]

Write == [op : {"save", "fill"}, version : Versions, body : Bodies,
          at : Nat, last : Nat, result : Results]

Return == [op : {"returned"}, version : Versions \cup {None}, result : Results]

CallInv ==
  /\ call \in {NoCall} \cup Question \cup Write \cup Return
  /\ IsQuestion(call) =>
       /\ call.at \in 1 .. Len(Chain)
       /\ call.op \in {"load", "exists"} => call.version \in Versions
       /\ call.op \notin {"load", "exists"} => call.version = None
       /\ call.op = "names" => call.gathered \subseteq {"schema"}
       /\ call.op = "versions" => call.gathered \subseteq Versions
  /\ IsSave(call) => call.at \in 1 .. call.last /\ call.last \in 1 .. Len(Chain)

(* What the service calls, in which phase.                                 *)
PhaseInv ==
  /\ phase \in {"down", "names", "versions", "pull", "push", "up"}
  /\ todo \subseteq Versions
  /\ phase = "down" =>
       /\ call = NoCall /\ memory = Nothing
       /\ \A k \in Keys : ~Visible(k)
  /\ phase = "names" =>
       \/ call.op = "names"
       \/ call.op = "returned" /\ call.result \in SUBSET {"schema"}
  /\ phase = "versions" =>
       \/ call.op = "versions"
       \/ call.op = "returned" /\ call.result \in SUBSET Versions
  /\ phase = "pull" =>
       /\ call.version \in todo
       /\ \/ call.op = "load"
          \/ call.op = "fill" /\ call.result = call.body
          \/ call.op = "returned" /\ call.result \in Bodies \cup {None}
  /\ phase = "push" =>
       /\ todo \subseteq Known(memory)
       /\ \/ call = NoCall
          \/ /\ call.version \in todo
             /\ \/ call.op = "exists"
                \/ call.op = "save" /\ call.result = call.body
                   /\ call.body = memory[call.version]
                \/ call.op = "returned" /\ call.result \in Bodies \cup {None}

StateInv == World /\ CacheInv /\ CallInv /\ PhaseInv

-----------------------------------------------------------------------------
(* Lemmas about the operators.                                             *)

(* Among finitely many numbers, one is the greatest, and one the least.    *)
LEMMA ExtremesExist ==
  ASSUME NEW S, IsFiniteSet(S), S # {}, S \subseteq Nat
  PROVE  /\ \E i \in S : \A j \in S : j <= i
         /\ \E i \in S : \A j \in S : i <= j
<1>1. ASSUME NEW B \in [S -> SUBSET S], \A i \in S : i \notin B[i],
             \A i \in S : \A j \in B[i] : B[j] \subseteq B[i]
      PROVE  \E i \in S : B[i] = {}
  <2> DEFINE T == {B[i] : i \in S}
  <2>1. IsWellFoundedOn(StrictSubsetOrdering(S), FiniteSubsetsOf(S))
    BY FS_StrictSubsetOrderingWellFounded
  <2>2. T \subseteq FiniteSubsetsOf(S) /\ T # {}
    <3>1. ASSUME NEW i \in S PROVE B[i] \in SUBSET S /\ IsFiniteSet(B[i])
      BY <1>1, FS_Subset
    <3> QED BY <3>1 DEF FiniteSubsetsOf
  <2>3. PICK U \in T : \A V \in T : ~(<<V, U>> \in StrictSubsetOrdering(S))
    <3> HIDE DEF T
    <3> QED BY <2>1, <2>2, WFMin
  <2>4. PICK i \in S : U = B[i]
    OBVIOUS
  <2>5. ASSUME NEW j \in B[i] PROVE FALSE
    <3>1. j \in S /\ B[j] \in T /\ B[j] \subseteq B[i] /\ j \notin B[j]
      BY <1>1, <2>5
    <3>2. B[j] \in SUBSET S /\ B[i] \in SUBSET S /\ B[j] # B[i]
      BY <1>1, <2>5, <3>1
    <3>3. <<B[j], B[i]>> \in StrictSubsetOrdering(S)
      BY <3>1, <3>2 DEF StrictSubsetOrdering
    <3> QED BY <2>3, <2>4, <3>1, <3>3
  <2> QED BY <2>5
<1> DEFINE Above == [i \in S |-> {j \in S : j > i}]
           Below == [i \in S |-> {j \in S : j < i}]
<1>2. /\ Above \in [S -> SUBSET S] /\ \A i \in S : i \notin Above[i]
      /\ \A i \in S : \A j \in Above[i] : Above[j] \subseteq Above[i]
  <2>1. Above \in [S -> SUBSET S] /\ \A i \in S : Above[i] = {j \in S : j > i}
    OBVIOUS
  <2> HIDE DEF Above
  <2>2. ASSUME NEW i \in S, NEW j \in Above[i] PROVE Above[j] \subseteq Above[i]
    <3> SUFFICES ASSUME NEW l \in Above[j] PROVE l \in Above[i]
      OBVIOUS
    <3>1. j \in S /\ j > i
      BY <2>1
    <3>2. l \in S /\ l > j
      BY <2>1, <3>1
    <3> QED BY <2>1, <3>1, <3>2
  <2> QED BY <2>1, <2>2
<1>3. /\ Below \in [S -> SUBSET S] /\ \A i \in S : i \notin Below[i]
      /\ \A i \in S : \A j \in Below[i] : Below[j] \subseteq Below[i]
  <2>1. Below \in [S -> SUBSET S] /\ \A i \in S : Below[i] = {j \in S : j < i}
    OBVIOUS
  <2> HIDE DEF Below
  <2>2. ASSUME NEW i \in S, NEW j \in Below[i] PROVE Below[j] \subseteq Below[i]
    <3> SUFFICES ASSUME NEW l \in Below[j] PROVE l \in Below[i]
      OBVIOUS
    <3>1. j \in S /\ j < i
      BY <2>1
    <3>2. l \in S /\ l < j
      BY <2>1, <3>1
    <3> QED BY <2>1, <3>1, <3>2
  <2> QED BY <2>1, <2>2
<1>4. PICK greatest \in S : Above[greatest] = {}
  <2> HIDE DEF Above
  <2> QED BY <1>1, <1>2
<1>5. PICK least \in S : Below[least] = {}
  <2> HIDE DEF Below
  <2> QED BY <1>1, <1>3
<1>6. \A j \in S : j <= greatest
  BY <1>4
<1>7. \A j \in S : least <= j
  BY <1>5
<1> QED BY <1>6, <1>7

LEMMA LatestIsListed ==
  ASSUME NEW S \in SUBSET Versions, S # {}
  PROVE  Latest(S) \in S /\ Min(S) \in S
<1>1. IsFiniteSet(S) /\ S \subseteq Nat
  BY VersionsAssumption, FS_Subset
<1>2. (\E i \in S : \A j \in S : i >= j) /\ (\E i \in S : \A j \in S : i =< j)
  BY <1>1, ExtremesExist
<1> QED BY <1>2 DEF Latest, Max, Min

LEMMA DeploymentIs ==
  ASSUME NEW d \in Deployments
  PROVE  /\ Len(d.chain) \in Nat /\ Len(d.chain) >= 1
         /\ \A n \in 1 .. Len(d.chain) : d.chain[n] \in {"file", "mongo", "http"}
<1> DEFINE chain == d.chain
<1>1. chain \in Seq({"file", "mongo", "http"}) /\ chain # << >>
  BY DeploymentsAssumption DEF Deployment
<1> HIDE DEF chain
<1>2. /\ Len(chain) \in Nat /\ Len(chain) >= 1
      /\ \A n \in 1 .. Len(chain) : chain[n] \in {"file", "mongo", "http"}
  BY <1>1
<1> QED BY <1>2 DEF chain

LEMMA ChainIs ==
  ASSUME deployment \in Deployments
  PROVE  /\ Len(Chain) \in Nat /\ Len(Chain) >= 1
         /\ \A n \in 1 .. Len(Chain) : Chain[n] \in {"file", "mongo", "http"}
BY DeploymentIs DEF Chain

(* What an adapter answers is of the type that is expected.                *)
LEMMA SaysKind ==
  ASSUME NEW op \in Questions, NEW v \in Versions \cup {None},
         op \in {"load", "exists"} => v \in Versions,
         NEW listed \in SUBSET Versions, NEW holds \in Schemas
  PROVE  Says(op, v, listed, holds) \in Answers(op)
<1>1. CASE op = "latest"
  <2>1. listed # {} => Latest(listed) \in Versions
    BY LatestIsListed
  <2>2. LoadLatest(listed, holds) \in {None} \cup [version : Versions, body : Bodies]
    BY <2>1 DEF LoadLatest, Schemas
  <2> QED BY <1>1, <2>2 DEF Says, Answers
<1>2. CASE op \in {"load", "exists"}
  BY <1>2 DEF Says, Answers, Schemas
<1> QED BY <1>1, <1>2 DEF Says, Answers, Questions

LEMMA FileKind ==
  ASSUME World
  PROVE  /\ FileVersions \in SUBSET Versions
         /\ FileHolds \in Schemas
         /\ \A v \in Versions : FileHolds[v] = FileLoad(v)
<1>1. FileVersions \in SUBSET Versions
  BY DEF World, FileVersions, Known, FlatSeen
<1>2. ASSUME NEW v \in Versions PROVE FileLoad(v) \in Bodies \cup {None}
  <2>1. files[v] \in Bodies \cup {None, "torn"}
    BY DEF World
  <2>2. FlatSeen => flat.body \in Bodies
    BY DEF World, FlatSeen
  <2> QED BY <2>1, <2>2 DEF FileLoad
<1> QED BY <1>1, <1>2 DEF FileHolds, Schemas

LEMMA KnownIs ==
  ASSUME NEW m \in Schemas
  PROVE  Known(m) \in SUBSET Versions
BY DEF Known

LEMMA KeyIs ==
  ASSUME NEW op \in Questions, NEW v \in Versions \cup {None},
         op \in {"load", "exists"} => v \in Versions,
         op \notin {"load", "exists"} => v = None
  PROVE  /\ Key(op, v) \in Keys
         /\ Key(op, v).of \in Questions /\ Key(op, v).version = v
         /\ Answers(Key(op, v).of) = Answers(op)
         /\ \A r : RemoteSays(r, Key(op, v).of, v) = RemoteSays(r, op, v)
         /\ \A r : Found(Key(op, v).of, r) <=> Found(op, r)
<1>1. Key(op, v).of = (IF op = "exists" THEN "load" ELSE op) /\ Key(op, v).version = v
  BY DEF Key
<1>2. Key(op, v) \in Keys
  BY DEF Keys, Key, Questions
<1> QED BY <1>1, <1>2 DEF Questions, Answers, RemoteSays, Says, Found, Gathers

(* A key is a question of the other service.                               *)
LEMMA KeysAre ==
  ASSUME NEW k \in Keys
  PROVE  /\ k.of \in Questions /\ k.version \in Versions \cup {None}
         /\ k.of \in {"load", "exists"} => k.version \in Versions
BY DEF Keys, Key, Questions

(* What a cache entry says is what the other service may say.              *)
LEMMA EntryKind ==
  ASSUME CacheInv, NEW k \in Keys, Visible(k)
  PROVE  cache[k].value \in Answers(k.of)
<1>1. cache[k] \in [value : Results, age : 0 .. TTL]
  BY DEF CacheInv, Visible
<1>2. PICK n \in 1 .. cache[k].age + 1 :
        \E r \in past[n] : cache[k].value = RemoteSays(r, k.of, k.version)
  BY DEF CacheInv
<1>0. PICK r \in past[n] : cache[k].value = RemoteSays(r, k.of, k.version)
  BY <1>2
<1>3. n \in 1 .. TTL + 1
  BY <1>1, BoundsAssumption
<1>4. past[n] \in SUBSET Schemas
  BY <1>3 DEF CacheInv
<1>5. r \in Schemas
  BY <1>4
<1>6. Known(r) \in SUBSET Versions
  BY <1>5, KnownIs
<1> QED BY <1>0, <1>5, <1>6, KeysAre, SaysKind DEF RemoteSays

LEMMA AnswerKind ==
  ASSUME World, CacheInv, NEW a \in {"file", "mongo", "http"}, NEW op \in Questions,
         NEW v \in Versions \cup {None},
         op \in {"load", "exists"} => v \in Versions,
         op \notin {"load", "exists"} => v = None
  PROVE  Answer(a, op, v) \in Answers(op)
<1>1. CASE a = "file"
  BY <1>1, FileKind, SaysKind DEF Answer
<1>2. CASE a = "mongo"
  BY <1>2, KnownIs, SaysKind DEF Answer, World
<1>3. CASE a = "http"
  <2>1. CASE Visible(Key(op, v))
    BY <1>3, <2>1, KeyIs, EntryKind DEF Answer
  <2>2. CASE ~Visible(Key(op, v))
    BY <1>3, <2>2, KnownIs, SaysKind DEF Answer, World, RemoteSays
  <2> QED BY <2>1, <2>2
<1> QED BY <1>1, <1>2, <1>3

-----------------------------------------------------------------------------
(* Types of the stores.                                                    *)

LEMMA CallIs ==
  ASSUME CallInv
  PROVE  /\ IsQuestion(call) => call \in Question
         /\ IsSave(call) => call \in Write /\ call.version \in Versions
                            /\ call.body \in Bodies /\ call.result \in Results
BY DEF CallInv, NoCall, Question, Write, Return, IsQuestion, IsSave, Questions

LEMMA TornIs ==
  ASSUME World, CallInv, files' \in Torn(call)
  PROVE  /\ files' \in [Versions -> Bodies \cup {None, "torn"}]
         /\ \A v \in Versions : 
              \/ files'[v] = files[v]
              \/ /\ IsSave(call) /\ Chain[call.at] = "file"
                 /\ v = call.version /\ files'[v] = "torn"
BY CallIs DEF World, Torn

LEMMA EndsIs ==
  ASSUME Ends
  PROVE  phase' = "down" /\ memory' = Nothing /\ cache' = [k \in Keys |-> None]
         /\ todo' = {} /\ call' = NoCall
BY DEF Ends

LEMMA NothingIs == Nothing \in Schemas /\ \A v \in Versions : Nothing[v] = None
BY DEF Nothing, Schemas

LEMMA WorldStep ==
  ASSUME World, CallInv, PhaseInv, Next
  PROVE  World'
<1> USE DEF World, others, stores, service, Schemas
<1>1. CASE Ask
  BY <1>1 DEF Ask, Known
<1>2. CASE AskFails
  <2>1. faults' \in 0 .. MaxFaults
    BY <1>2, BoundsAssumption DEF AskFails
  <2>2. clean' \in BOOLEAN
    BY <1>2 DEF AskFails
  <2>3. UNCHANGED <<deployment, flat, files, mongo, remote, memory, pinned, changes, ticks>>
    BY <1>2 DEF AskFails
  <2> QED BY <2>1, <2>2, <2>3 DEF Known
<1>3. CASE Save
  <2>1. call.version \in Versions /\ call.body \in Bodies
    BY <1>3, CallIs DEF Save
  <2>2. files' \in [Versions -> Bodies \cup {None, "torn"}]
    BY <1>3, <2>1 DEF Save
  <2>3. mongo' \in Schemas /\ Known(mongo)' \subseteq Semver
    BY <1>3, <2>1 DEF Save, Known
  <2>4. UNCHANGED <<deployment, flat, remote, memory, pinned, changes, ticks, faults, clean>>
    BY <1>3 DEF Save
  <2> QED BY <2>2, <2>3, <2>4
<1>4. CASE SaveRaises
  <2>1. files' \in [Versions -> Bodies \cup {None, "torn"}] /\ faults' \in 0 .. MaxFaults
    BY <1>4, TornIs, BoundsAssumption DEF SaveRaises
  <2>2. memory' \in Schemas
    BY <1>4, NothingIs DEF SaveRaises, Ends
  <2> QED BY <1>4, <2>1, <2>2 DEF SaveRaises, Known
<1>5. CASE Start
  <2>1. flat # None => flat.body \in Bodies
    OBVIOUS
  <2>2. memory' \in Schemas
    BY <1>5, <2>1 DEF Start
  <2> QED BY <1>5, <2>2 DEF Start, Known
<1>6. CASE ListVersions
  BY <1>6 DEF ListVersions, Known
<1>7. CASE ToPull
  BY <1>7 DEF ToPull, Known
<1>8. CASE Pulled
  <2>1. call.version \in Versions /\ call.result \in Bodies \cup {None}
    BY <1>8 DEF Pulled, PhaseInv
  <2>2. memory' \in Schemas
    BY <1>8, <2>1 DEF Pulled
  <2> QED BY <1>8, <2>2 DEF Pulled, Known
<1>9. CASE PushNext
  BY <1>9 DEF PushNext, Known
<1>10. CASE Pushed
  BY <1>10 DEF Pushed, Known
<1>11. CASE Serve
  BY <1>11 DEF Serve, Known
<1>12. CASE CallChain
  BY <1>12, BoundsAssumption DEF CallChain, Known, Changes
<1>13. CASE CallReturns
  BY <1>13 DEF CallReturns, Known
<1>14. CASE Stop
  BY <1>14, NothingIs DEF Stop, Ends, Known
<1>15. CASE Crash
  BY <1>15, NothingIs, TornIs, BoundsAssumption DEF Crash, Ends, Known
<1>16. CASE EditFlat
  BY <1>16, BoundsAssumption DEF EditFlat, Changes, Elsewhere, Known
<1>17. CASE Publish
  <2>1. remote' \in Schemas
    BY <1>17, NothingIs DEF Publish
  <2> QED BY <1>17, <2>1, BoundsAssumption DEF Publish, Changes, Elsewhere, Known
<1>18. CASE OtherSaves
  <2>1. mongo' \in Schemas /\ Known(mongo)' \subseteq Semver
    BY <1>18, VersionsAssumption DEF OtherSaves, Known
  <2>2. pinned' \in Schemas
    BY <1>18 DEF OtherSaves
  <2>3. changes' \in 0 .. MaxChanges /\ clean' \in BOOLEAN
    BY <1>18, BoundsAssumption DEF OtherSaves, Changes, Elsewhere
  <2>4. UNCHANGED <<deployment, flat, remote, files, memory, ticks, faults>>
    BY <1>18 DEF OtherSaves
  <2> QED BY <2>1, <2>2, <2>3, <2>4
<1>19. CASE Tick
  BY <1>19, BoundsAssumption DEF Tick, Known
<1> HIDE DEF World
<1> QED BY <1>1, <1>2, <1>3, <1>4, <1>5, <1>6, <1>7, <1>8, <1>9, <1>10, <1>11, <1>12,
           <1>13, <1>14, <1>15, <1>16, <1>17, <1>18, <1>19 DEF Next

-----------------------------------------------------------------------------
(* The cache.                                                              *)

(* The entries are kept and the other service is as it was.                *)
LEMMA CacheKept ==
  ASSUME CacheInv, UNCHANGED <<cache, past, remote>>
  PROVE  CacheInv'
BY DEF CacheInv, Visible

(* The entries are gone.                                                   *)
LEMMA CacheDropped ==
  ASSUME CacheInv, cache' = [k \in Keys |-> None], UNCHANGED <<past, remote>>
  PROVE  CacheInv'
BY DEF CacheInv, Visible

(* An answer of the other service is remembered.                           *)
LEMMA CacheFilled ==
  ASSUME World, CacheInv, CallInv, Ask
  PROVE  CacheInv'
<1> DEFINE k == Key(call.op, call.version)
           r == Answer("http", call.op, call.version)
<1>1. UNCHANGED <<past, remote>>
  BY DEF Ask, others
<1>2. CASE Chain[call.at] # "http"
  BY <1>1, <1>2, CacheKept DEF Ask
<1>3. CASE Chain[call.at] = "http"
  <2>1. cache' = Remembered(k, r)
    BY <1>3 DEF Ask
  <2>2. CASE Remembered(k, r) = cache
    BY <1>1, <2>1, <2>2, CacheKept
  <2>3. CASE Remembered(k, r) # cache
    <3>1. /\ call.op \in Questions /\ call.version \in Versions \cup {None}
          /\ call.op \in {"load", "exists"} => call.version \in Versions
          /\ call.op \notin {"load", "exists"} => call.version = None
      BY CallIs DEF Ask, CallInv, Question, IsQuestion, Questions
    <3>2. /\ k \in Keys /\ k.of \in Questions /\ k.version = call.version
          /\ \A s : RemoteSays(s, k.of, call.version) = RemoteSays(s, call.op, call.version)
      BY <3>1, KeyIs
    <3>3. r \in Answers(call.op)
      BY <3>1, AnswerKind
    <3>4. r \in Results
      BY <3>1, <3>3 DEF Results
    <3>5. ~Visible(k) /\ Remembered(k, r) = [cache EXCEPT ![k] = [value |-> r, age |-> 0]]
      BY <2>3 DEF Remembered
    <3>6. r = RemoteSays(remote, k.of, k.version)
      BY <3>2, <3>5 DEF Answer
    <3> HIDE DEF k, r
    <3>7. cache' = [cache EXCEPT ![k] = [value |-> r, age |-> 0]]
      BY <2>1, <3>5
    <3>8. cache' \in [Keys -> {None} \cup [value : Results, age : 0 .. TTL]]
      BY <3>2, <3>4, <3>7, BoundsAssumption DEF CacheInv
    <3>9. ASSUME NEW j \in Keys, cache'[j] # None
          PROVE  \E n \in 1 .. cache'[j].age + 1 : \E s \in past[n] :
                   cache'[j].value = RemoteSays(s, j.of, j.version)
      <4>1. CASE j = k
        <5>1. cache'[j].age = 0 /\ cache'[j].value = r
          BY <3>2, <3>7, <4>1 DEF CacheInv
        <5>2. remote \in past[1]
          BY DEF CacheInv
        <5>3. 1 \in 1 .. cache'[j].age + 1
          BY <5>1
        <5>4. \E s \in past[1] : cache'[j].value = RemoteSays(s, j.of, j.version)
          BY <3>6, <4>1, <5>1, <5>2
        <5> QED BY <5>3, <5>4
      <4>2. CASE j # k
        <5>1. cache'[j] = cache[j]
          BY <3>2, <3>7, <4>2 DEF CacheInv
        <5> QED BY <3>9, <5>1 DEF CacheInv, Visible
      <4> QED BY <4>1, <4>2
    <3> QED BY <1>1, <3>8, <3>9 DEF CacheInv, Visible
  <2> QED BY <2>2, <2>3
<1> QED BY <1>2, <1>3

(* The other service changes: this tick has seen one registry more.        *)
LEMMA CachePublish ==
  ASSUME CacheInv, Publish, remote' \in Schemas
  PROVE  CacheInv'
<1>1. cache' = cache /\ past' = [past EXCEPT ![1] = @ \cup {remote'}]
  BY DEF Publish, stores
<1>2. past' \in Seq(SUBSET Schemas) /\ Len(past') = TTL + 1 /\ remote' \in past'[1]
  BY <1>1, BoundsAssumption DEF CacheInv
<1>3. \A n \in 1 .. TTL + 1 : past[n] \subseteq past'[n]
  BY <1>1, BoundsAssumption DEF CacheInv
<1>4. ASSUME NEW k \in Keys, cache[k] # None
      PROVE  \E n \in 1 .. cache[k].age + 1 : \E r \in past'[n] :
               cache[k].value = RemoteSays(r, k.of, k.version)
  <2>1. PICK n \in 1 .. cache[k].age + 1 :
          \E r \in past[n] : cache[k].value = RemoteSays(r, k.of, k.version)
    BY <1>4 DEF CacheInv, Visible
  <2>2. cache[k].age \in 0 .. TTL
    BY <1>4 DEF CacheInv
  <2>3. n \in 1 .. TTL + 1
    BY <2>2, BoundsAssumption
  <2> QED BY <1>3, <2>1, <2>3
<1> QED BY <1>1, <1>2, <1>4 DEF CacheInv, Visible

(* Time passes: every entry is a tick older, or deleted.                   *)
LEMMA CacheTick ==
  ASSUME CacheInv, Tick, remote \in Schemas
  PROVE  CacheInv'
<1> DEFINE longer == <<{remote}>> \o past
<1>1. /\ remote' = remote
      /\ past' = SubSeq(longer, 1, TTL + 1)
      /\ cache' = [k \in Keys |->
                     IF ~Visible(k) \/ cache[k].age = TTL THEN None
                     ELSE [cache[k] EXCEPT !.age = @ + 1]]
  BY DEF Tick
<1>2. /\ longer \in Seq(SUBSET Schemas) /\ Len(longer) = TTL + 2
      /\ longer[1] = {remote}
      /\ \A n \in 1 .. TTL : longer[n + 1] = past[n]
  BY BoundsAssumption DEF CacheInv
<1>3. /\ past' \in Seq(SUBSET Schemas) /\ Len(past') = TTL + 1
      /\ remote' \in past'[1]
      /\ \A n \in 1 .. TTL : past'[n + 1] = past[n]
  <2> HIDE DEF longer
  <2> QED BY <1>1, <1>2, BoundsAssumption
<1> HIDE DEF longer
<1>4. ASSUME NEW k \in Keys
      PROVE  \/ cache'[k] = None
             \/ /\ Visible(k) /\ cache[k].age \in 0 .. TTL - 1
                /\ cache'[k] \in [value : Results, age : 0 .. TTL]
                /\ cache'[k].value = cache[k].value /\ cache'[k].age = cache[k].age + 1
  <2>1. CASE ~Visible(k) \/ cache[k].age = TTL
    BY <1>1, <2>1
  <2>2. CASE Visible(k) /\ cache[k].age # TTL
    <3>1. cache[k] \in [value : Results, age : 0 .. TTL]
      BY <2>2 DEF CacheInv, Visible
    <3>2. cache'[k] = [cache[k] EXCEPT !.age = @ + 1]
      BY <1>1, <2>2
    <3>3. cache[k].age \in 0 .. TTL - 1
      BY <2>2, <3>1, BoundsAssumption
    <3>4. cache'[k] = [value |-> cache[k].value, age |-> cache[k].age + 1]
      BY <3>1, <3>2
    <3> QED BY <2>2, <3>1, <3>3, <3>4, BoundsAssumption
  <2> QED BY <2>1, <2>2
<1>5. cache' \in [Keys -> {None} \cup [value : Results, age : 0 .. TTL]]
  BY <1>1, <1>4
<1>6. ASSUME NEW k \in Keys, cache'[k] # None
      PROVE  \E n \in 1 .. cache'[k].age + 1 : \E r \in past'[n] :
               cache'[k].value = RemoteSays(r, k.of, k.version)
  <2>1. /\ Visible(k) /\ cache[k].age \in 0 .. TTL - 1
        /\ cache'[k].value = cache[k].value /\ cache'[k].age = cache[k].age + 1
    BY <1>4, <1>6
  <2>2. PICK n \in 1 .. cache[k].age + 1 :
          \E r \in past[n] : cache[k].value = RemoteSays(r, k.of, k.version)
    BY <2>1 DEF CacheInv
  <2>3. n \in 1 .. TTL /\ n + 1 \in 1 .. cache'[k].age + 1
    BY <2>1, BoundsAssumption
  <2> QED BY <1>3, <2>1, <2>2, <2>3
<1> QED BY <1>3, <1>5, <1>6 DEF CacheInv, Visible

LEMMA CacheStep ==
  ASSUME World, World', CacheInv, CallInv, Next
  PROVE  CacheInv'
<1> USE DEF others, stores
<1>1. CASE Ask
  BY <1>1, CacheFilled
<1>2. CASE SaveRaises
  BY <1>2, CacheKept, CacheDropped DEF SaveRaises, Ends
<1>3. CASE Stop \/ Crash
  BY <1>3, CacheDropped DEF Stop, Crash, Ends
<1>4. CASE Publish
  BY <1>4, CachePublish DEF World
<1>5. CASE Tick
  BY <1>5, CacheTick DEF World
<1>6. CASE AskFails \/ Save \/ Start \/ ListVersions \/ ToPull \/ Pulled \/ PushNext
           \/ Pushed \/ Serve \/ CallChain \/ CallReturns \/ EditFlat \/ OtherSaves
  BY <1>6, CacheKept DEF AskFails, Save, Start, ListVersions, ToPull, Pulled, PushNext,
           Pushed, Serve, CallChain, CallReturns, EditFlat, OtherSaves
<1> QED BY <1>1, <1>2, <1>3, <1>4, <1>5, <1>6 DEF Next

-----------------------------------------------------------------------------
(* Calls.                                                                  *)

LEMMA AfterAnswerIs ==
  ASSUME NEW c \in Question, NEW r
  PROVE  \/ /\ Gathers(c.op) \/ r = None
            /\ c.at < Len(Chain)
            /\ AfterAnswer(c, r) = [op |-> c.op, version |-> c.version, at |-> c.at + 1,
                                    gathered |-> Gathered(c, r)]
         \/ /\ Gathers(c.op) \/ r = None
            /\ ~(c.at < Len(Chain))
            /\ AfterAnswer(c, r) = Returned(c, IF Gathers(c.op) THEN Gathered(c, r) ELSE None)
         \/ /\ ~Gathers(c.op) /\ r # None
            /\ c.at = 1 \/ c.op = "exists"
            /\ AfterAnswer(c, r) = Returned(c, r)
         \/ /\ r # None /\ c.at # 1 /\ c.op = "load"
            /\ AfterAnswer(c, r) = [op |-> "fill", version |-> c.version, body |-> r,
                                    at |-> 1, last |-> c.at - 1, result |-> r]
         \/ /\ r # None /\ c.at # 1 /\ c.op = "latest"
            /\ AfterAnswer(c, r) = [op |-> "fill", version |-> r.version, body |-> r.body,
                                    at |-> 1, last |-> c.at - 1, result |-> r]
<1>1. CASE Gathers(c.op) \/ r = None
  <2>1. AfterAnswer(c, r) = GoesOn(c, r)
    BY <1>1 DEF AfterAnswer
  <2>2. CASE c.at < Len(Chain)
    <3>1. ASSUME NEW n, NEW g
          PROVE  [c EXCEPT !.at = n, !.gathered = g]
                   = [op |-> c.op, version |-> c.version, at |-> n, gathered |-> g]
      <4> DEFINE d == [c EXCEPT !.at = n]
      <4>1. d = [op |-> c.op, version |-> c.version, at |-> n, gathered |-> c.gathered]
        BY DEF Question
      <4>2. [c EXCEPT !.at = n, !.gathered = g] = [d EXCEPT !.gathered = g]
        OBVIOUS
      <4> HIDE DEF d
      <4>3. ASSUME NEW o, NEW v, NEW h
            PROVE  [[op |-> o, version |-> v, at |-> n, gathered |-> h] EXCEPT !.gathered = g]
                     = [op |-> o, version |-> v, at |-> n, gathered |-> g]
        OBVIOUS
      <4> QED BY <4>1, <4>2, <4>3
    <3> QED BY <1>1, <2>1, <2>2, <3>1 DEF GoesOn
  <2>3. CASE ~(c.at < Len(Chain))
    BY <1>1, <2>1, <2>3 DEF GoesOn
  <2> QED BY <2>2, <2>3
<1>2. CASE ~(Gathers(c.op) \/ r = None)
  <2>1. c.op \in {"load", "latest", "exists"}
    BY <1>2 DEF Question, Questions, Gathers
  <2>2. CASE c.at = 1 \/ c.op = "exists"
    <3>1. AfterAnswer(c, r) = Returned(c, r)
      BY <1>2, <2>2 DEF AfterAnswer
    <3> HIDE DEF AfterAnswer
    <3> QED BY <1>2, <2>2, <3>1
  <2>3. CASE ~(c.at = 1 \/ c.op = "exists") /\ c.op = "load"
    BY <1>2, <2>3 DEF AfterAnswer, Saving
  <2>4. CASE ~(c.at = 1 \/ c.op = "exists") /\ c.op = "latest"
    BY <1>2, <2>4 DEF AfterAnswer, Saving
  <2> QED BY <1>2, <2>1, <2>2, <2>3, <2>4
<1> QED BY <1>1, <1>2

LEMMA AfterSaveIs ==
  ASSUME NEW c \in Write
  PROVE  \/ c.at = c.last /\ AfterSave(c) = Returned(c, c.result)
         \/ /\ c.at # c.last
            /\ AfterSave(c) = [op |-> c.op, version |-> c.version, body |-> c.body,
                               at |-> c.at + 1, last |-> c.last, result |-> c.result]
<1>1. [c EXCEPT !.at = @ + 1]
        = [op |-> c.op, version |-> c.version, body |-> c.body,
           at |-> c.at + 1, last |-> c.last, result |-> c.result]
  BY DEF Write
<1> QED BY <1>1 DEF AfterSave

LEMMA AskingIs ==
  ASSUME NEW op, NEW v
  PROVE  /\ Asking(op, v).op = op /\ Asking(op, v).version = v
         /\ Asking(op, v).at = 1 /\ Asking(op, v).gathered = {}
BY DEF Asking

LEMMA ReturnedIs ==
  ASSUME NEW c, NEW r
  PROVE  /\ Returned(c, r).op = "returned" /\ Returned(c, r).version = c.version
         /\ Returned(c, r).result = r
         /\ ~IsQuestion(Returned(c, r)) /\ ~IsSave(Returned(c, r))
BY DEF Returned, IsQuestion, IsSave

(* Kinds of calls, for a new state.                                        *)
LEMMA CallAsks ==
  ASSUME deployment' \in Deployments, NEW op \in Questions, NEW v \in Versions \cup {None},
         op \in {"load", "exists"} => v \in Versions,
         op \notin {"load", "exists"} => v = None,
         call' = Asking(op, v)
  PROVE  CallInv'
<1>1. Len(Chain') \in Nat /\ Len(Chain') >= 1
  BY DeploymentIs DEF Chain
<1>2. call'.op = op /\ call'.version = v /\ call'.at = 1 /\ call'.gathered = {}
  BY DEF Asking
<1>3. call' \in Question
  BY DEF Asking, Question
<1> HIDE DEF Chain
<1> QED BY <1>1, <1>2, <1>3 DEF CallInv, IsQuestion, IsSave, Questions

LEMMA CallReturned ==
  ASSUME NEW c, c.version \in Versions \cup {None}, NEW r \in Results,
         call' = Returned(c, r)
  PROVE  CallInv'
<1>1. call' \in Return /\ call'.op = "returned"
  BY DEF Returned, Return
<1> QED BY <1>1 DEF CallInv, IsQuestion, IsSave

LEMMA CallNone ==
  ASSUME call' = NoCall
  PROVE  CallInv'
BY DEF CallInv, NoCall, IsQuestion, IsSave

LEMMA CallSaves ==
  ASSUME deployment' \in Deployments, NEW op \in {"save", "fill"}, NEW v \in Versions,
         NEW b \in Bodies, NEW r \in Results, NEW last \in 1 .. Len(Chain'),
         NEW at \in 1 .. last,
         call' = [op |-> op, version |-> v, body |-> b, at |-> at, last |-> last, result |-> r]
  PROVE  CallInv'
<1>1. Len(Chain') \in Nat
  BY DeploymentIs DEF Chain
<1>2. call' \in Write /\ call'.op = op /\ call'.at = at /\ call'.last = last
  BY <1>1 DEF Write
<1> HIDE DEF Chain
<1> QED BY <1>2 DEF CallInv, IsQuestion, IsSave

LEMMA ResultsAre ==
  /\ None \in Results
  /\ \A b \in Bodies : b \in Results
  /\ \A op \in Questions : Answers(op) \subseteq Results
<1>1. None \in Answers("load") /\ \A b \in Bodies : b \in Answers("load")
  BY DEF Answers
<1>2. \A op \in Questions : Answers(op) \subseteq Results
  BY DEF Results
<1> QED BY <1>1, <1>2 DEF Questions

(* An adapter has answered r.                                              *)
LEMMA CallAnswered ==
  ASSUME World, CallInv, IsQuestion(call), deployment' = deployment,
         NEW r \in Answers(call.op), call' = AfterAnswer(call, r)
  PROVE  CallInv'
<1> DEFINE c == call
<1>1. /\ c \in Question /\ c.at \in 1 .. Len(Chain) /\ c.op \in Questions
      /\ c.version \in Versions \cup {None} /\ c.at \in Nat
      /\ c.op \in {"load", "exists"} => c.version \in Versions
      /\ c.op \notin {"load", "exists"} => c.version = None
      /\ c.op = "names" => c.gathered \subseteq {"schema"}
      /\ c.op = "versions" => c.gathered \subseteq Versions
  BY CallIs DEF CallInv, Question
<1>2. Chain' = Chain /\ Len(Chain) \in Nat /\ deployment' \in Deployments
  BY ChainIs DEF World, Chain
<1>3. /\ c.op = "names" => r \subseteq {"schema"}
      /\ c.op = "versions" => r \subseteq Versions
      /\ Gathers(c.op) => c.op \in {"names", "versions"}
  BY DEF Answers, Gathers
<1>4. Gathers(c.op) => Gathered(c, r) \in Answers(c.op)
  BY <1>1, <1>3 DEF Gathered, Answers, Gathers
<1>5. r \in Results
  BY <1>1, ResultsAre
<1> HIDE DEF c
<1>6. CASE /\ c.at < Len(Chain)
           /\ call' = [op |-> c.op, version |-> c.version, at |-> c.at + 1,
                       gathered |-> Gathered(c, r)]
  <2> DEFINE g == Gathered(c, r)
  <2>1. /\ c.op = "names" => g \subseteq {"schema"}
        /\ c.op = "versions" => g \subseteq Versions
        /\ g \subseteq Versions \cup {"schema"}
    BY <1>3, <1>4 DEF Gathered, Gathers, Answers
  <2> HIDE DEF g
  <2>2. /\ call'.op = c.op /\ call'.version = c.version /\ call'.at = c.at + 1
        /\ call'.gathered = g
    BY <1>6 DEF g
  <2>3. call' \in Question
    BY <1>1, <1>6, <2>1 DEF Question, g
  <2>4. call'.at \in 1 .. Len(Chain)
    BY <1>1, <1>2, <1>6, <2>2
  <2>5. IsQuestion(call') /\ ~IsSave(call')
    BY <1>1, <2>2 DEF IsQuestion, IsSave, Questions
  <2> QED BY <1>1, <1>2, <2>1, <2>2, <2>3, <2>4, <2>5 DEF CallInv
<1>7. CASE call' = Returned(c, IF Gathers(c.op) THEN Gathered(c, r) ELSE None)
  <2>1. (IF Gathers(c.op) THEN Gathered(c, r) ELSE None) \in Results
    BY <1>1, <1>4, ResultsAre
  <2> QED BY <1>1, <1>7, <2>1, CallReturned
<1>8. CASE call' = Returned(c, r)
  BY <1>1, <1>5, <1>8, CallReturned
<1>9. CASE /\ r # None /\ c.at # 1 /\ c.op = "load"
           /\ call' = [op |-> "fill", version |-> c.version, body |-> r,
                       at |-> 1, last |-> c.at - 1, result |-> r]
  <2>1. r \in Bodies
    BY <1>9 DEF Answers, c
  <2>2. c.at - 1 \in 1 .. Len(Chain') /\ 1 \in 1 .. (c.at - 1)
    BY <1>1, <1>2, <1>9
  <2> QED BY <1>1, <1>2, <1>5, <1>9, <2>1, <2>2, CallSaves
<1>10. CASE /\ r # None /\ c.at # 1 /\ c.op = "latest"
            /\ call' = [op |-> "fill", version |-> r.version, body |-> r.body,
                        at |-> 1, last |-> c.at - 1, result |-> r]
  <2>1. r.version \in Versions /\ r.body \in Bodies
    BY <1>10 DEF Answers, c
  <2>2. c.at - 1 \in 1 .. Len(Chain') /\ 1 \in 1 .. (c.at - 1)
    BY <1>1, <1>2, <1>10
  <2> QED BY <1>1, <1>2, <1>5, <1>10, <2>1, <2>2, CallSaves
<1>11. call' = AfterAnswer(c, r)
  BY DEF c
<1> QED BY <1>1, <1>6, <1>7, <1>8, <1>9, <1>10, <1>11, AfterAnswerIs

LEMMA CallSaved ==
  ASSUME World, CallInv, IsSave(call), deployment' = deployment, call' = AfterSave(call)
  PROVE  CallInv'
<1>1. /\ call \in Write /\ call.op \in {"save", "fill"} /\ call.version \in Versions
      /\ call.body \in Bodies /\ call.result \in Results
      /\ call.at \in 1 .. call.last /\ call.last \in 1 .. Len(Chain)
  BY CallIs DEF CallInv, IsSave
<1>2. Chain' = Chain /\ Len(Chain) \in Nat /\ deployment' \in Deployments
  BY ChainIs DEF World, Chain
<1>3. CASE call.at = call.last /\ AfterSave(call) = Returned(call, call.result)
  BY <1>1, <1>3, CallReturned
<1>4. CASE /\ call.at # call.last
           /\ AfterSave(call) = [op |-> call.op, version |-> call.version,
                                 body |-> call.body, at |-> call.at + 1,
                                 last |-> call.last, result |-> call.result]
  <2>1. call.at + 1 \in 1 .. call.last /\ call.last \in 1 .. Len(Chain')
    BY <1>1, <1>2, <1>4
  <2> DEFINE c == call
  <2>2. /\ call' = [op |-> c.op, version |-> c.version, body |-> c.body, at |-> c.at + 1,
                    last |-> c.last, result |-> c.result]
        /\ c.op \in {"save", "fill"} /\ c.version \in Versions /\ c.body \in Bodies
        /\ c.result \in Results /\ c.last \in 1 .. Len(Chain') /\ c.at + 1 \in 1 .. c.last
    BY <1>1, <1>4, <2>1
  <2> HIDE DEF c
  <2> QED BY <1>2, <2>2, CallSaves
<1> QED BY <1>1, <1>3, <1>4, AfterSaveIs

(* ... and what the adapter whose turn it is answers.                      *)
LEMMA AskAnswers ==
  ASSUME World, CacheInv, CallInv, IsQuestion(call)
  PROVE  /\ call.at \in 1 .. Len(Chain) /\ Chain[call.at] \in {"file", "mongo", "http"}
         /\ Answer(Chain[call.at], call.op, call.version) \in Answers(call.op)
<1>1. /\ call.op \in Questions /\ call.version \in Versions \cup {None}
      /\ call.op \in {"load", "exists"} => call.version \in Versions
      /\ call.op \notin {"load", "exists"} => call.version = None
      /\ call.at \in 1 .. Len(Chain)
  BY CallIs DEF CallInv, Question
<1>2. Chain[call.at] \in {"file", "mongo", "http"}
  BY <1>1, ChainIs DEF World
<1> QED BY <1>1, <1>2, AnswerKind

LEMMA NoAnswer ==
  ASSUME CallInv, IsQuestion(call)
  PROVE  (IF Gathers(call.op) THEN {} ELSE None) \in Answers(call.op)
BY CallIs DEF Question, Questions, Gathers, Answers

LEMMA Opened ==
  ASSUME NEW versions \in SUBSET Versions, World', Pull(versions)
  PROVE  CallInv' /\ phase' \in {"pull", "push"}
         /\ (phase' = "push" => todo' = Known(memory') /\ call' = NoCall)
         /\ (phase' = "pull" => todo' = versions /\ call' = Asking("load", Min(versions))
                                /\ Min(versions) \in versions)
<1>1. CASE versions = {}
  <2>1. phase' = "push" /\ todo' = Known(memory') /\ call' = NoCall
    BY <1>1 DEF Pull, PushAll, Calls
  <2> QED BY <2>1, CallNone
<1>2. CASE versions # {}
  <2>1. phase' = "pull" /\ todo' = versions /\ call' = Asking("load", Min(versions))
    BY <1>2 DEF Pull, Calls
  <2>2. Min(versions) \in versions
    BY <1>2, LatestIsListed
  <2>3. deployment' \in Deployments
    BY DEF World
  <2>4. "load" \in Questions
    BY DEF Questions
  <2>5. CallInv'
    BY <2>1, <2>2, <2>3, <2>4, CallAsks
  <2> QED BY <2>1, <2>2, <2>5
<1> QED BY <1>1, <1>2

LEMMA CallStep ==
  ASSUME World, World', CacheInv, CallInv, PhaseInv, Next
  PROVE  CallInv'
<1> USE DEF others, stores, service
<1>0. deployment' \in Deployments /\ Questions = {"names", "versions", "load", "latest", "exists"}
  BY DEF World, Questions
<1>1. CASE Ask
  <2>1. IsQuestion(call) /\ deployment' = deployment
        /\ call' = AfterAnswer(call, Answer(Chain[call.at], call.op, call.version))
    BY <1>1 DEF Ask
  <2> QED BY <2>1, AskAnswers, CallAnswered
<1>2. CASE AskFails
  <2>1. IsQuestion(call) /\ deployment' = deployment
        /\ call' = AfterAnswer(call, IF Gathers(call.op) THEN {} ELSE None)
    BY <1>2 DEF AskFails
  <2> QED BY <2>1, NoAnswer, CallAnswered
<1>3. CASE Save
  BY <1>3, CallSaved DEF Save
<1>4. CASE SaveRaises
  <2>1. IsSave(call) /\ deployment' = deployment
    BY <1>4 DEF SaveRaises
  <2>2. CASE call' = NoCall
    BY <2>2, CallNone
  <2>3. CASE call' = Returned(call, None)
    BY <2>1, <2>3, CallIs, CallReturned, ResultsAre
  <2>4. CASE call' = AfterSave(call)
    BY <2>1, <2>4, CallSaved
  <2> QED BY <1>4, <2>2, <2>3, <2>4 DEF SaveRaises, Ends
<1>5. CASE Start
  <2>1. call' = Asking("names", None)
    BY <1>5 DEF Start, Calls
  <2> QED BY <1>0, <2>1, CallAsks
<1>6. CASE ListVersions
  <2>1. call' = NoCall \/ call' = Asking("versions", None)
    BY <1>6 DEF ListVersions, PushAll, Calls
  <2> QED BY <1>0, <2>1, CallAsks, CallNone
<1>7. CASE ToPull
  <2>1. call.result \in SUBSET Versions /\ Pull(call.result)
    BY <1>7 DEF ToPull, PhaseInv
  <2> QED BY <2>1, Opened
<1>8. CASE Pulled
  <2>1. todo \ {call.version} \in SUBSET Versions /\ Pull(todo \ {call.version})
    BY <1>8 DEF Pulled, PhaseInv
  <2> QED BY <2>1, Opened
<1>9. CASE PushNext
  <2>1. PICK v \in todo : call' = Asking("exists", v)
    BY <1>9 DEF PushNext, Calls
  <2>2. v \in Versions
    BY <2>1 DEF PhaseInv
  <2> QED BY <1>0, <2>1, <2>2, CallAsks
<1>10. CASE Pushed
  <2>1. CASE call' = NoCall
    BY <2>1, CallNone
  <2>2. CASE call' = Saving(call.version, memory[call.version], Len(Chain))
    <3>1. call.version \in Versions /\ memory[call.version] \in Bodies
      BY <1>10 DEF Pushed, PhaseInv, World, Schemas, Known, NoCall
    <3>2. Chain' = Chain /\ Len(Chain) \in Nat /\ Len(Chain) >= 1
      BY <1>10, ChainIs DEF Pushed, World, Chain
    <3> DEFINE v == call.version
               b == memory[call.version]
    <3>3. call' = [op |-> "save", version |-> v, body |-> b, at |-> 1,
                   last |-> Len(Chain'), result |-> b]
      BY <2>2, <3>2 DEF Saving
    <3>4. v \in Versions /\ b \in Bodies /\ b \in Results
      BY <3>1, ResultsAre
    <3> HIDE DEF v, b
    <3> QED BY <1>0, <3>2, <3>3, <3>4, CallSaves
  <2> QED BY <1>10, <2>1, <2>2 DEF Pushed, Calls
<1>11. CASE CallChain
  <2>1. CASE \E op \in {"load", "exists"}, v \in Versions : call' = Asking(op, v)
    BY <1>0, <2>1, CallAsks
  <2>2. CASE \E op \in {"latest", "versions"} : call' = Asking(op, None)
    BY <1>0, <2>2, CallAsks
  <2>3. CASE \E v \in Versions, b \in Bodies : call' = Saving(v, b, Len(Chain))
    <3>1. PICK v \in Versions, b \in Bodies : call' = Saving(v, b, Len(Chain))
      BY <2>3
    <3>2. Chain' = Chain /\ Len(Chain) \in Nat /\ Len(Chain) >= 1
      BY <1>11, ChainIs DEF CallChain, World, Chain
    <3>3. call' = [op |-> "save", version |-> v, body |-> b, at |-> 1,
                   last |-> Len(Chain'), result |-> b]
      BY <3>1, <3>2 DEF Saving
    <3>4. b \in Results
      BY ResultsAre
    <3> QED BY <1>0, <3>2, <3>3, <3>4, CallSaves
  <2> QED BY <1>11, <2>1, <2>2, <2>3 DEF CallChain, Calls
<1>12. CASE CallReturns \/ Stop \/ Crash
  BY <1>12, CallNone DEF CallReturns, Stop, Crash, Ends, Calls
<1>13. CASE Serve \/ EditFlat \/ Publish \/ OtherSaves \/ Tick
  <2>1. CASE Serve \/ Tick
    BY <2>1 DEF Serve, Tick, CallInv, Chain
  <2>2. CASE EditFlat
    BY <2>2 DEF EditFlat, CallInv, Chain
  <2>3. CASE Publish
    BY <2>3 DEF Publish, CallInv, Chain
  <2>4. CASE OtherSaves
    BY <2>4 DEF OtherSaves, CallInv, Chain
  <2> QED BY <1>13, <2>1, <2>2, <2>3, <2>4
<1> QED BY <1>1, <1>2, <1>3, <1>4, <1>5, <1>6, <1>7, <1>8, <1>9, <1>10, <1>11, <1>12,
           <1>13 DEF Next

(* The phases.                                                             *)

LEMMA PhaseAnswered ==
  ASSUME CallInv, PhaseInv, IsQuestion(call), UNCHANGED <<phase, todo, memory>>,
         NEW r \in Answers(call.op), call' = AfterAnswer(call, r)
  PROVE  PhaseInv'
<1>1. /\ call \in Question /\ call.op \in Questions
      /\ call.op = "names" => call.gathered \subseteq {"schema"}
      /\ call.op = "versions" => call.gathered \subseteq Versions
  BY CallIs DEF CallInv, Question
<1>2. phase # "down"
  BY DEF PhaseInv, IsQuestion, NoCall
<1>3. \/ call'.op = call.op /\ call'.version = call.version
      \/ /\ call'.op = "returned" /\ call'.version = call.version
         /\ call.op \in {"load", "exists"} => call'.result \in Bodies \cup {None}
         /\ call.op = "names" => call'.result \in SUBSET {"schema"}
         /\ call.op = "versions" => call'.result \in SUBSET Versions
      \/ /\ call.op = "load" /\ call'.op = "fill" /\ call'.version = call.version
         /\ call'.result = call'.body
      \/ call.op = "latest"
  <2>1. /\ call.op = "names" => Gathered(call, r) \in SUBSET {"schema"}
        /\ call.op = "versions" => Gathered(call, r) \in SUBSET Versions
    BY <1>1 DEF Answers, Gathered, Gathers
  <2>2. CASE call' = Returned(call, IF Gathers(call.op) THEN Gathered(call, r) ELSE None)
    <3>1. call.op \in {"names", "versions"} <=> Gathers(call.op)
      BY DEF Gathers
    <3> QED BY <2>1, <2>2, <3>1, ReturnedIs
  <2>3. CASE call' = Returned(call, r)
    BY <2>3, ReturnedIs DEF Answers
  <2>4. CASE call'.op = call.op /\ call'.version = call.version
    BY <2>4
  <2>5. CASE call.op = "load" /\ call' = [op |-> "fill", version |-> call.version,
                body |-> r, at |-> 1, last |-> call.at - 1, result |-> r]
    BY <2>5
  <2> QED BY <1>1, <2>2, <2>3, <2>4, <2>5, AfterAnswerIs
<1>4. call.op \notin {"returned", "fill", "save", "none"} /\ call # NoCall
  BY <1>1 DEF Questions, NoCall
<1>5. CASE phase = "names" \/ phase = "versions"
  BY <1>1, <1>2, <1>3, <1>4, <1>5 DEF PhaseInv
<1>6. CASE phase = "pull" \/ phase = "push"
  BY <1>1, <1>2, <1>3, <1>4, <1>6 DEF PhaseInv, Known
<1>7. CASE phase = "up"
  BY <1>7 DEF PhaseInv
<1> QED BY <1>2, <1>5, <1>6, <1>7 DEF PhaseInv

LEMMA PhaseSaved ==
  ASSUME CallInv, PhaseInv, IsSave(call), UNCHANGED <<phase, todo, memory>>,
         call' = AfterSave(call)
  PROVE  PhaseInv'
<1>1. call \in Write /\ call.op \in {"save", "fill"} /\ call.body \in Bodies
  BY CallIs DEF IsSave
<1>2. \/ call'.op = "returned" /\ call'.version = call.version /\ call'.result = call.result
      \/ /\ call'.op = call.op /\ call'.version = call.version
         /\ call'.body = call.body /\ call'.result = call.result
  <2>1. CASE call' = Returned(call, call.result)
    BY <2>1, ReturnedIs
  <2>2. CASE call' = [op |-> call.op, version |-> call.version, body |-> call.body,
                      at |-> call.at + 1, last |-> call.last, result |-> call.result]
    BY <2>2
  <2> QED BY <1>1, <2>1, <2>2, AfterSaveIs
<1>3. phase \notin {"down", "names", "versions"} /\ call # NoCall
  BY <1>1 DEF PhaseInv, NoCall
<1> QED BY <1>1, <1>2, <1>3 DEF PhaseInv, Known

(* The service has not started.                                            *)
LEMMA PhaseEnds ==
  ASSUME Ends
  PROVE  PhaseInv'
BY DEF Ends, PhaseInv, Visible

(* Only what is not of the service changes.                                *)
LEMMA PhaseKept ==
  ASSUME PhaseInv, UNCHANGED <<phase, todo, memory, call>>,
         cache' = cache \/ (\A k \in Keys : cache'[k] # None => cache[k] # None)
  PROVE  PhaseInv'
BY DEF PhaseInv, Visible, Known

LEMMA PhaseOpened ==
  ASSUME NEW versions \in SUBSET Versions, World', Pull(versions)
  PROVE  PhaseInv'
<1>1. CASE phase' = "push"
  <2>1. todo' = Known(memory') /\ call' = NoCall /\ Known(memory') \subseteq Versions
    BY <1>1, Opened DEF Known
  <2> QED BY <1>1, <2>1 DEF PhaseInv
<1>2. CASE phase' = "pull"
  <2>1. todo' = versions /\ call'.op = "load" /\ call'.version \in versions
    BY <1>2, Opened, AskingIs
  <2> QED BY <1>2, <2>1 DEF PhaseInv
<1> QED BY <1>1, <1>2, Opened

LEMMA PhaseStep ==
  ASSUME World, World', CacheInv, CallInv, PhaseInv, Next
  PROVE  PhaseInv'
<1> USE DEF others, stores, service
<1>1. CASE Ask
  <2>1. IsQuestion(call) /\ UNCHANGED <<phase, todo, memory>>
        /\ call' = AfterAnswer(call, Answer(Chain[call.at], call.op, call.version))
    BY <1>1 DEF Ask
  <2> QED BY <2>1, AskAnswers, PhaseAnswered
<1>2. CASE AskFails
  <2>1. IsQuestion(call) /\ UNCHANGED <<phase, todo, memory>>
        /\ call' = AfterAnswer(call, IF Gathers(call.op) THEN {} ELSE None)
    BY <1>2 DEF AskFails
  <2> QED BY <2>1, NoAnswer, PhaseAnswered
<1>3. CASE Save
  BY <1>3, PhaseSaved DEF Save
<1>4. CASE SaveRaises
  <2>1. CASE Ends
    BY <2>1, PhaseEnds
  <2>2. CASE /\ call' = IF call.op = "save" /\ ~deployment.through
                        THEN Returned(call, None) ELSE AfterSave(call)
             /\ ~(call.op = "save" /\ ~deployment.through /\ phase # "up")
             /\ UNCHANGED <<phase, memory, cache, todo>>
    <3>1. CASE call' = AfterSave(call)
      BY <1>4, <2>2, <3>1, PhaseSaved DEF SaveRaises
    <3>2. CASE phase = "up"
      BY <2>2, <3>2 DEF PhaseInv
    <3> QED BY <2>2, <3>1, <3>2
  <2> QED BY <1>4, <2>1, <2>2 DEF SaveRaises
<1>5. CASE Start
  <2>1. call'.op = "names" /\ phase' = "names" /\ todo' = todo
    BY <1>5, AskingIs DEF Start, Calls
  <2> QED BY <2>1 DEF PhaseInv
<1>6. CASE ListVersions
  <2>1. CASE call.result = {}
    <3>1. phase' = "push" /\ todo' = Known(memory') /\ call' = NoCall
      BY <1>6, <2>1 DEF ListVersions, PushAll, Calls
    <3> QED BY <3>1 DEF PhaseInv, Known
  <2>2. CASE call.result # {}
    <3>1. phase' = "versions" /\ todo' = todo /\ call'.op = "versions"
      BY <1>6, <2>2, AskingIs DEF ListVersions, Calls
    <3> QED BY <3>1 DEF PhaseInv
  <2> QED BY <2>1, <2>2
<1>7. CASE ToPull
  <2>1. call.result \in SUBSET Versions /\ Pull(call.result)
    BY <1>7 DEF ToPull, PhaseInv
  <2> QED BY <2>1, PhaseOpened
<1>8. CASE Pulled
  <2>1. todo \ {call.version} \in SUBSET Versions /\ Pull(todo \ {call.version})
    BY <1>8 DEF Pulled, PhaseInv
  <2> QED BY <2>1, PhaseOpened
<1>9. CASE PushNext
  <2>1. PICK v \in todo : call' = Asking("exists", v)
    BY <1>9 DEF PushNext, Calls
  <2>2. phase = "push" /\ UNCHANGED <<phase, todo, memory>>
    BY <1>9 DEF PushNext
  <2>3. call'.op = "exists" /\ call'.version \in todo
    BY <2>1, AskingIs
  <2> QED BY <2>2, <2>3 DEF PhaseInv, Known
<1>10. CASE Pushed
  <2>1. phase = "push" /\ call.op = "returned" /\ UNCHANGED <<phase, memory>>
    BY <1>10 DEF Pushed
  <2>2. CASE call.result = None
    <3>1. call' = Saving(call.version, memory[call.version], Len(Chain)) /\ todo' = todo
      BY <1>10, <2>2 DEF Pushed, Calls
    <3>2. /\ call'.op = "save" /\ call'.version = call.version
          /\ call'.body = memory[call.version] /\ call'.result = call'.body
      BY <3>1 DEF Saving
    <3>3. call # NoCall
      BY <2>1 DEF NoCall
    <3> QED BY <2>1, <3>1, <3>2, <3>3 DEF PhaseInv, Known
  <2>3. CASE call.result # None
    <3>1. call' = NoCall /\ todo' \subseteq todo
      BY <1>10, <2>3 DEF Pushed, Calls
    <3> QED BY <2>1, <3>1 DEF PhaseInv, Known
  <2> QED BY <2>2, <2>3
<1>11. CASE Serve \/ CallChain \/ CallReturns
  <2>1. phase' = "up" /\ todo' = todo
    BY <1>11 DEF Serve, CallChain, CallReturns
  <2> QED BY <2>1 DEF PhaseInv
<1>12. CASE Stop \/ Crash
  BY <1>12, PhaseEnds DEF Stop, Crash
<1>13. CASE EditFlat \/ Publish \/ OtherSaves
  <2>1. CASE EditFlat
    BY <2>1, PhaseKept DEF EditFlat
  <2>2. CASE Publish
    BY <2>2, PhaseKept DEF Publish
  <2>3. CASE OtherSaves
    BY <2>3, PhaseKept DEF OtherSaves
  <2> QED BY <1>13, <2>1, <2>2, <2>3
<1>14. CASE Tick
  BY <1>14, PhaseKept DEF Tick, Visible
<1> QED BY <1>1, <1>2, <1>3, <1>4, <1>5, <1>6, <1>7, <1>8, <1>9, <1>10, <1>11, <1>12,
           <1>13, <1>14 DEF Next

-----------------------------------------------------------------------------
(* The types, the cache and the calls are invariant.                       *)

LEMMA StateInit == Init => StateInv
<1> SUFFICES ASSUME Init PROVE StateInv
  OBVIOUS
<1>1. World
  <2>1. flat \in {None} \cup [version : Versions, body : Bodies]
    BY DEF Init
  <2>2. remote \in Schemas
    BY DEF Init, Schemas
  <2>3. Known(mongo) \subseteq Semver
    BY NothingIs DEF Init, Known
  <2>4. files \in [Versions -> Bodies \cup {None, "torn"}]
    BY DEF Init, Nothing
  <2>5. mongo \in Schemas /\ memory \in Schemas /\ pinned \in Schemas
    BY NothingIs DEF Init
  <2>6. changes \in 0 .. MaxChanges /\ ticks \in 0 .. MaxTicks /\ faults \in 0 .. MaxFaults
    BY BoundsAssumption DEF Init
  <2>7. deployment \in Deployments /\ clean \in BOOLEAN
    BY DEF Init
  <2> QED BY <2>1, <2>2, <2>3, <2>4, <2>5, <2>6, <2>7 DEF World
<1>2. CacheInv
  <2>1. cache = [k \in Keys |-> None] /\ past = [k \in 1 .. TTL + 1 |-> {remote}]
    BY DEF Init
  <2>2. {remote} \in SUBSET Schemas
    BY <1>1 DEF World
  <2>3. past \in Seq(SUBSET Schemas) /\ Len(past) = TTL + 1 /\ past[1] = {remote}
    BY <2>1, <2>2, BoundsAssumption
  <2> QED BY <2>1, <2>3 DEF CacheInv, Visible
<1>3. CallInv
  BY DEF Init, CallInv, NoCall, IsQuestion, IsSave
<1>4. PhaseInv
  BY DEF Init, PhaseInv, Visible
<1> QED BY <1>1, <1>2, <1>3, <1>4 DEF StateInv

LEMMA StateStep == StateInv /\ [Next]_vars => StateInv'
<1> SUFFICES ASSUME StateInv, [Next]_vars PROVE StateInv'
  OBVIOUS
<1> USE DEF StateInv
<1>1. CASE Next
  <2>1. World'
    BY <1>1, WorldStep
  <2> QED BY <1>1, <2>1, CacheStep, CallStep, PhaseStep
<1>2. CASE UNCHANGED vars
  <2>1. UNCHANGED <<deployment, flat, remote, past, changes, ticks, files, mongo, cache,
                    memory, phase, todo, call, faults, clean, pinned>>
    BY <1>2 DEF vars, others, stores, service
  <2>2. World'
    BY <2>1 DEF World, Known
  <2>3. CacheInv'
    BY <2>1, CacheKept
  <2>4. CallInv'
    BY <2>1 DEF CallInv, Chain
  <2>5. PhaseInv'
    BY <2>1, PhaseKept
  <2> QED BY <2>2, <2>3, <2>4, <2>5
<1> QED BY <1>1, <1>2

LEMMA StateIsInvariant == Spec => []StateInv
BY StateInit, StateStep, PTL DEF Spec

(* Types, and calls that stay within the chain: no adapter past the last   *)
(* is asked and none past the one that answered is filled; what is down    *)
(* has no call under way.                                                  *)
THEOREM TypeCorrect == Spec => []TypeOK
<1>1. StateInv => TypeOK
  <2> SUFFICES ASSUME StateInv PROVE TypeOK
    OBVIOUS
  <2>1. World /\ CacheInv /\ CallInv /\ PhaseInv
    BY DEF StateInv
  <2>2. \A k \in Keys : cache[k] # None => cache[k].age \in 0 .. TTL
    BY <2>1 DEF CacheInv
  <2>3. Len(Chain) \in Nat
    BY <2>1, ChainIs DEF World
  <2>4. IsQuestion(call) \/ IsSave(call) => call.at \in 1 .. Len(Chain)
    BY <2>1, <2>3 DEF CallInv
  <2> QED BY <2>1, <2>2, <2>4 DEF TypeOK, World, CacheInv, PhaseInv
<1> QED BY <1>1, StateIsInvariant, PTL

(* Whatever is asked, in whatever order, and whatever fails: an entry of   *)
(* the HTTP cache that can be answered is what the other service said in   *)
(* the last TTL ticks.                                                     *)
THEOREM FreshEnoughCorrect == Spec => []FreshEnough
<1>1. StateInv => FreshEnough
  <2> SUFFICES ASSUME StateInv, NEW k \in Keys, Visible(k)
               PROVE  \E r \in UNION {past[n] : n \in DOMAIN past} :
                        cache[k].value = RemoteSays(r, k.of, k.version)
    BY DEF FreshEnough
  <2>1. CacheInv
    BY DEF StateInv
  <2>2. PICK n \in 1 .. cache[k].age + 1 :
          \E r \in past[n] : cache[k].value = RemoteSays(r, k.of, k.version)
    BY <2>1 DEF CacheInv
  <2>3. cache[k].age \in 0 .. TTL
    BY <2>1 DEF CacheInv, Visible
  <2>4. n \in DOMAIN past
    BY <2>1, <2>3, BoundsAssumption DEF CacheInv
  <2> QED BY <2>2, <2>4
<1> QED BY <1>1, StateIsInvariant, PTL

-----------------------------------------------------------------------------
(* What a clean start finds.                                               *)

Starting == phase \in {"names", "versions", "pull", "push"}

(* The versions that the storages of the chain can load.                   *)
HeldBy(a) ==
  {v \in Versions :
     \/ a = "file" /\ FileLoad(v) # None
     \/ a = "mongo" /\ mongo[v] # None
     \/ a = "http" /\ remote[v] # None}

Held == [n \in 1 .. Len(Chain) |-> HeldBy(Chain[n])]

(* A version that, of the storages before the n-th, only later ones hold.  *)
Missed(held, v, n) == v \notin held[1] /\ \E p \in DOMAIN held : p < n /\ v \in held[p]

(* What a storage holds, the first one does.                               *)
Covered(held, v) == \A p \in DOMAIN held : v \in held[p] => v \in held[1]

(* names and versions miss nothing, what is pulled is saved to the first   *)
(* storage, and so is what is pushed.                                      *)
NamesSync(held, c) ==
  \A v \in Versions :
    /\ c.op = "names" /\ Missed(held, v, c.at) => c.gathered # {}
    /\ c.op = "returned" /\ ~Covered(held, v) => c.result # {}

VersionsSync(held, c) ==
  \A v \in Versions :
    /\ c.op = "versions" /\ Missed(held, v, c.at) => v \in c.gathered
    /\ c.op = "returned" /\ ~Covered(held, v) => v \in c.result

PullSync(held, c, rest) ==
  /\ \A v \in Versions \ rest : Covered(held, v)
  /\ c.op = "load" => ~Missed(held, c.version, c.at)
  /\ c.op = "fill" /\ c.at > 1 => c.version \in held[1]
  /\ c.op = "returned" => Covered(held, c.version)

PushSync(held, c, rest, known) ==
  /\ \A v \in Versions : Covered(held, v)
  /\ \A v \in known \ rest : v \in held[1]
  /\ c.op = "exists" => ~Missed(held, c.version, c.at)
  /\ c.op = "save" /\ c.at > 1 => c.version \in held[1]
  /\ c.op = "returned" /\ c.result # None => c.version \in held[1]

Sync(held, ph, c, rest, known) ==
  /\ ph = "names" => NamesSync(held, c)
  /\ ph = "versions" => VersionsSync(held, c)
  /\ ph = "pull" => PullSync(held, c, rest)
  /\ ph = "push" => PushSync(held, c, rest, known)
  /\ ph = "up" => \A v \in known : v \in held[1]

(* While a clean start is under way, the other service has not changed.    *)
CacheIsTrue ==
  \A k \in Keys : Visible(k) => cache[k].value = RemoteSays(remote, k.of, k.version)

SyncInv ==
  clean /\ WritableFirst =>
    /\ Starting => CacheIsTrue
    /\ Sync(Held, phase, call, todo, Known(memory))

LEMMA HeldIs ==
  ASSUME World
  PROVE  /\ Held \in [1 .. Len(Chain) -> SUBSET Versions]
         /\ 1 \in 1 .. Len(Chain) /\ Len(Chain) \in Nat
         /\ \A n \in 1 .. Len(Chain) : Held[n] = HeldBy(Chain[n])
BY ChainIs DEF Held, HeldBy, World

LEMMA HeldKept ==
  ASSUME UNCHANGED <<deployment, mongo, remote, files>>,
         flat' = flat \/ ~deployment.shared
  PROVE  Held' = Held
<1>1. \A v : FileLoad(v)' = FileLoad(v)
  BY DEF FileLoad, FlatSeen
<1>2. Chain' = Chain
  BY DEF Chain
<1>3. \A a : HeldBy(a)' = HeldBy(a)
  BY <1>1 DEF HeldBy
<1> QED BY <1>2, <1>3 DEF Held

(* Answers, of a storage in a clean start.                                 *)
LEMMA FileTells ==
  ASSUME World, NEW v \in Versions
  PROVE  /\ v \in HeldBy("file") <=> FileHolds[v] # None
         /\ v \in HeldBy("file") => v \in FileVersions
<1>1. FileLoad(v) # None => v \in FileVersions
  BY DEF FileLoad, FileVersions, Known
<1> QED BY <1>1, FileKind DEF HeldBy

LEMMA Tells ==
  ASSUME World, CacheIsTrue, NEW a \in {"file", "mongo", "http"}, NEW v \in Versions
  PROVE  /\ Answer(a, "load", v) # None <=> v \in HeldBy(a)
         /\ Answer(a, "exists", v) # None <=> v \in HeldBy(a)
         /\ v \in HeldBy(a) => v \in Answer(a, "versions", None)
         /\ v \in HeldBy(a) => Answer(a, "names", None) # {}
<1>1. CASE a = "file"
  BY <1>1, FileTells DEF Answer, Says
<1>2. CASE a = "mongo"
  BY <1>2 DEF Answer, Says, HeldBy, Known
<1>3. CASE a = "http"
  <2>1. ASSUME NEW op \in Questions, NEW w \in Versions \cup {None},
               op \in {"load", "exists"} => w \in Versions,
               op \notin {"load", "exists"} => w = None
        PROVE  Answer("http", op, w) = RemoteSays(remote, op, w)
    BY <2>1, KeyIs DEF Answer, CacheIsTrue
  <2>2. /\ Answer(a, "load", v) = RemoteSays(remote, "load", v)
        /\ Answer(a, "exists", v) = RemoteSays(remote, "exists", v)
        /\ Answer(a, "versions", None) = RemoteSays(remote, "versions", None)
        /\ Answer(a, "names", None) = RemoteSays(remote, "names", None)
    BY <1>3, <2>1 DEF Questions
  <2> QED BY <1>3, <2>2 DEF RemoteSays, Says, HeldBy, Known
<1> QED BY <1>1, <1>2, <1>3

(* What a save does to what is held: only to its version, and for good.    *)
LEMMA SaveHeld ==
  ASSUME World, World', CallInv, WritableFirst, Save
  PROVE  /\ DOMAIN Held' = DOMAIN Held
         /\ \A n \in DOMAIN Held : \A w \in Versions \ {call.version} :
              w \in Held'[n] <=> w \in Held[n]
         /\ \A n \in DOMAIN Held : call.version \in Held[n] => call.version \in Held'[n]
         /\ call.at = 1 => call.version \in Held'[1]
<1>1. call.version \in Versions /\ call.body \in Bodies
  BY CallIs DEF Save
<1>0. PICK v \in Versions, body \in Bodies, a \in {Chain[call.at]} :
        v = call.version /\ body = call.body /\ a = Chain[call.at]
  BY <1>1
<1>2. /\ deployment' = deployment /\ flat' = flat /\ remote' = remote
      /\ files' = IF a = "file" THEN [files EXCEPT ![v] = body] ELSE files
      /\ mongo' = IF a = "mongo" THEN [mongo EXCEPT ![v] = body] ELSE mongo
  BY <1>0 DEF Save, others
<1>3. Chain' = Chain
  BY <1>2 DEF Chain
<1>4. \A w \in Versions \ {v} : files'[w] = files[w] /\ mongo'[w] = mongo[w]
  BY <1>2 DEF World, Schemas
<1>5. (a = "file" => files'[v] = body) /\ (a = "mongo" => mongo'[v] = body)
  BY <1>2 DEF World, Schemas
<1>6. \A w \in Versions \ {v} : FileLoad(w)' = FileLoad(w)
  BY <1>2, <1>4 DEF FileLoad, FlatSeen
<1>7. /\ a = "file" => FileLoad(v)' # None
      /\ a # "file" => FileLoad(v)' = FileLoad(v)
  <2>1. a = "file" => FileLoad(v)' = body
    BY <1>1, <1>5, BodiesAssumption DEF FileLoad
  <2>2. a # "file" => FileLoad(v)' = FileLoad(v)
    BY <1>2 DEF FileLoad, FlatSeen
  <2> QED BY <1>1, <2>1, <2>2, BodiesAssumption
<1>8. \A b : \A w \in Versions \ {v} : w \in HeldBy(b)' <=> w \in HeldBy(b)
  BY <1>2, <1>4, <1>6 DEF HeldBy
<1>9. \A b : v \in HeldBy(b) => v \in HeldBy(b)'
  <2>1. mongo[v] # None => mongo'[v] # None
    BY <1>1, <1>2, <1>5, BodiesAssumption
  <2> QED BY <1>2, <1>7, <2>1 DEF HeldBy
<1>10. a \in {"file", "mongo"} => v \in HeldBy(a)'
  <2>1. a = "mongo" => mongo'[v] # None
    BY <1>1, <1>5, BodiesAssumption
  <2> QED BY <1>1, <1>7, <2>1 DEF HeldBy
<1>11. call.at = 1 => a \in {"file", "mongo"}
  BY <1>0 DEF WritableFirst
<1>12. PICK chain : chain = Chain
  OBVIOUS
<1>13. /\ DOMAIN Held' = DOMAIN Held
       /\ \A n \in DOMAIN Held : Held'[n] = HeldBy(chain[n])' /\ Held[n] = HeldBy(chain[n])
       /\ 1 \in DOMAIN Held
  BY <1>3, <1>12, HeldIs DEF Held
<1>14. call.at = 1 => a = chain[1]
  BY <1>0, <1>12
<1>15. call.at = 1 => v \in Held'[1]
  BY <1>10, <1>11, <1>13, <1>14
<1>16. ASSUME NEW n \in DOMAIN Held
       PROVE  /\ \A w \in Versions \ {v} : w \in Held'[n] <=> w \in Held[n]
              /\ v \in Held[n] => v \in Held'[n]
  BY <1>8, <1>9, <1>13
<1> QED BY <1>0, <1>13, <1>15, <1>16
LEMMA MissedIs ==
  ASSUME NEW N \in Nat, NEW H \in [1 .. N -> SUBSET Versions], N >= 1,
         NEW n \in 1 .. N, NEW v
  PROVE  /\ Missed(H, v, n + 1) => Missed(H, v, n) \/ v \in H[n]
         /\ ~Covered(H, v) /\ ~(n < N) => Missed(H, v, n) \/ v \in H[n]
         /\ ~Missed(H, v, 1)
         /\ ~Missed(H, v, n) /\ n < N /\ v \notin H[n] => ~Missed(H, v, n + 1)
         /\ v \in H[1] => Covered(H, v) /\ ~Missed(H, v, n)
         /\ Covered(H, v) /\ v \in H[n] => v \in H[1]
BY DEF Missed, Covered

(* A storage has answered r, and what it holds is seen.                    *)
LEMMA SyncAnswered ==
  ASSUME NEW N \in Nat, N = Len(Chain), NEW H \in [1 .. N -> SUBSET Versions],
         NEW c \in Question, c.at \in 1 .. N,
         NEW r \in Answers(c.op),
         c.op \in {"load", "exists"} =>
           c.version \in Versions /\ (r # None <=> c.version \in H[c.at]),
         c.op = "versions" => H[c.at] \subseteq r,
         c.op = "names" /\ H[c.at] # {} => r # {},
         NEW ph, NEW rest, NEW known, Sync(H, ph, c, rest, known),
         ph = "names" => c.op = "names",
         ph = "versions" => c.op = "versions",
         ph = "pull" => c.op = "load",
         ph = "push" => c.op = "exists"
  PROVE  Sync(H, ph, AfterAnswer(c, r), rest, known)
<1> DEFINE d == AfterAnswer(c, r)
           at == c.at
<1> SUFFICES Sync(H, ph, d, rest, known)
  OBVIOUS
<1>0. at \in 1 .. N /\ N >= 1 /\ 1 \in 1 .. N
  OBVIOUS
<1>1. CASE ph = "names"
  <2>1. c.op = "names" /\ Gathers(c.op) /\ NamesSync(H, c)
    BY <1>1 DEF Gathers, Sync
  <2>2. Gathered(c, r) = c.gathered \cup r
    BY <2>1 DEF Gathered
  <2>3. ASSUME NEW v \in Versions, Missed(H, v, at) \/ v \in H[at]
        PROVE  Gathered(c, r) # {}
    BY <2>1, <2>2, <2>3 DEF NamesSync
  <2>4. CASE at < N /\ d.op = "names" /\ d.at = at + 1 /\ d.gathered = Gathered(c, r)
    <3> HIDE DEF d, at
    <3>1. ASSUME NEW v \in Versions, Missed(H, v, at + 1) PROVE d.gathered # {}
      BY <1>0, <2>3, <2>4, <3>1, MissedIs
    <3> QED BY <1>1, <2>4, <3>1 DEF NamesSync, Sync
  <2>5. CASE ~(at < N) /\ d = Returned(c, Gathered(c, r))
    <3>1. d.op = "returned" /\ d.result = Gathered(c, r)
      BY <2>5, ReturnedIs
    <3> HIDE DEF d, at
    <3>2. ASSUME NEW v \in Versions, ~Covered(H, v) PROVE d.result # {}
      BY <1>0, <2>3, <2>5, <3>1, <3>2, MissedIs
    <3> QED BY <1>1, <3>1, <3>2 DEF NamesSync, Sync
  <2> QED BY <2>1, <2>4, <2>5, AfterAnswerIs DEF Gathers
<1>2. CASE ph = "versions"
  <2>1. c.op = "versions" /\ Gathers(c.op) /\ VersionsSync(H, c)
    BY <1>2 DEF Gathers, Sync
  <2>2. Gathered(c, r) = c.gathered \cup r
    BY <2>1 DEF Gathered
  <2>3. ASSUME NEW v \in Versions, Missed(H, v, at) \/ v \in H[at]
        PROVE  v \in Gathered(c, r)
    BY <2>1, <2>2, <2>3 DEF VersionsSync
  <2>4. CASE at < N /\ d.op = "versions" /\ d.at = at + 1 /\ d.gathered = Gathered(c, r)
    <3> HIDE DEF d, at
    <3>1. ASSUME NEW v \in Versions, Missed(H, v, at + 1) PROVE v \in d.gathered
      BY <1>0, <2>3, <2>4, <3>1, MissedIs
    <3> QED BY <1>2, <2>4, <3>1 DEF VersionsSync, Sync
  <2>5. CASE ~(at < N) /\ d = Returned(c, Gathered(c, r))
    <3>1. d.op = "returned" /\ d.result = Gathered(c, r)
      BY <2>5, ReturnedIs
    <3> HIDE DEF d, at
    <3>2. ASSUME NEW v \in Versions, ~Covered(H, v) PROVE v \in d.result
      BY <1>0, <2>3, <2>5, <3>1, <3>2, MissedIs
    <3> QED BY <1>2, <3>1, <3>2 DEF VersionsSync, Sync
  <2> QED BY <2>1, <2>4, <2>5, AfterAnswerIs DEF Gathers
<1>3. CASE ph = "pull"
  <2> DEFINE v == c.version
  <2>1. c.op = "load" /\ ~Gathers(c.op) /\ PullSync(H, c, rest) /\ v \in Versions
        /\ (r # None <=> v \in H[at]) /\ ~Missed(H, v, at)
    BY <1>3 DEF Gathers, Sync, PullSync
  <2>2. CASE at < N /\ r = None /\ d.op = "load" /\ d.at = at + 1 /\ d.version = v
    <3> HIDE DEF d, at, v
    <3>1. ~Missed(H, v, at + 1)
      BY <1>0, <2>1, <2>2, MissedIs
    <3> QED BY <1>3, <2>1, <2>2, <3>1 DEF PullSync, Sync
  <2>3. CASE ~(at < N) /\ r = None /\ d = Returned(c, None)
    <3>1. d.op = "returned" /\ d.version = v
      BY <2>3, ReturnedIs
    <3> HIDE DEF d, at, v
    <3>2. Covered(H, v)
      BY <1>0, <2>1, <2>3, MissedIs
    <3> QED BY <1>3, <2>1, <3>1, <3>2 DEF PullSync, Sync
  <2>4. CASE r # None /\ at = 1 /\ d = Returned(c, r)
    <3>1. d.op = "returned" /\ d.version = v
      BY <2>4, ReturnedIs
    <3> HIDE DEF d, at, v
    <3>2. Covered(H, v)
      BY <1>0, <2>1, <2>4, MissedIs
    <3> QED BY <1>3, <2>1, <3>1, <3>2 DEF PullSync, Sync
  <2>5. CASE d.op = "fill" /\ d.at = 1
    <3> HIDE DEF d, at, v
    <3> QED BY <1>3, <2>1, <2>5 DEF PullSync, Sync
  <2> QED BY <2>1, <2>2, <2>3, <2>4, <2>5, AfterAnswerIs
<1>4. CASE ph = "push"
  <2> DEFINE v == c.version
  <2>1. c.op = "exists" /\ ~Gathers(c.op) /\ PushSync(H, c, rest, known) /\ v \in Versions
        /\ (r # None <=> v \in H[at]) /\ ~Missed(H, v, at) /\ Covered(H, v)
    BY <1>4 DEF Gathers, Sync, PushSync
  <2>2. CASE at < N /\ r = None /\ d.op = "exists" /\ d.at = at + 1 /\ d.version = v
    <3> HIDE DEF d, at, v
    <3>1. ~Missed(H, v, at + 1)
      BY <1>0, <2>1, <2>2, MissedIs
    <3> QED BY <1>4, <2>1, <2>2, <3>1 DEF PushSync, Sync
  <2>3. CASE r = None /\ d = Returned(c, None)
    <3>1. d.op = "returned" /\ d.result = None
      BY <2>3, ReturnedIs
    <3> HIDE DEF d, at, v
    <3> QED BY <1>4, <2>1, <3>1 DEF PushSync, Sync
  <2>4. CASE r # None /\ d = Returned(c, r)
    <3>1. d.op = "returned" /\ d.version = v
      BY <2>4, ReturnedIs
    <3> HIDE DEF d, at, v
    <3>2. v \in H[1]
      BY <1>0, <2>1, <2>4, MissedIs
    <3> QED BY <1>4, <2>1, <3>1, <3>2 DEF PushSync, Sync
  <2> QED BY <2>1, <2>2, <2>3, <2>4, AfterAnswerIs
<1>5. CASE ph \notin {"names", "versions", "pull", "push"}
  BY <1>5 DEF Sync
<1> QED BY <1>1, <1>2, <1>3, <1>4, <1>5

(* A storage has saved.                                                    *)
LEMMA SyncSaved ==
  ASSUME NEW N \in Nat, N >= 1, NEW H \in [1 .. N -> SUBSET Versions],
         NEW G \in [1 .. N -> SUBSET Versions],
         NEW c \in Write,
         \A n \in 1 .. N : \A w \in Versions \ {c.version} : w \in G[n] <=> w \in H[n],
         \A n \in 1 .. N : c.version \in H[n] => c.version \in G[n],
         c.at \in 1 .. c.last, c.at = 1 => c.version \in G[1],
         NEW ph, NEW rest \in SUBSET Versions, NEW known \in SUBSET Versions,
         Sync(H, ph, c, rest, known),
         ph \in {"pull", "push", "up"},
         ph = "pull" => c.version \in rest /\ c.op = "fill",
         ph = "push" => c.version \in rest /\ c.op = "save"
  PROVE  Sync(G, ph, AfterSave(c), rest, known)
<1> DEFINE d == AfterSave(c)
           v == c.version
<1> SUFFICES Sync(G, ph, d, rest, known)
  OBVIOUS
<1>1. v \in Versions /\ c.at \in Nat /\ c.op \in {"fill", "save"}
  BY DEF Write
<1>2. ph # "up" => v \in G[1]
  <2>1. ph # "up" /\ c.at > 1 => v \in H[1]
    BY DEF Sync, PullSync, PushSync
  <2> QED BY <1>1, <2>1
<1>3. ASSUME NEW w \in Versions, w \in H[1] PROVE w \in G[1]
  BY <1>3
<1>4. ASSUME NEW w \in Versions, ph # "up", Covered(H, w) \/ w = v PROVE Covered(G, w)
  BY <1>2, <1>4 DEF Covered
<1>5. \/ d.op = c.op /\ d.version = v
      \/ d.op = "returned" /\ d.version = v
  <2>1. CASE d = Returned(c, c.result)
    BY <2>1, ReturnedIs
  <2>2. CASE d = [op |-> c.op, version |-> c.version, body |-> c.body,
                  at |-> c.at + 1, last |-> c.last, result |-> c.result]
    BY <2>2
  <2> QED BY <2>1, <2>2, AfterSaveIs
<1> HIDE DEF d, v
<1>6. CASE ph = "up"
  BY <1>3, <1>6 DEF Sync
<1>7. CASE ph = "pull"
  <2>1. PullSync(H, c, rest) /\ c.op = "fill"
    BY <1>7 DEF Sync
  <2>2. \A w \in Versions \ rest : Covered(G, w)
    BY <1>4, <1>7, <2>1 DEF PullSync
  <2>3. Covered(G, v)
    BY <1>1, <1>4, <1>7
  <2> QED BY <1>2, <1>5, <1>7, <2>1, <2>2, <2>3 DEF Sync, PullSync
<1>8. CASE ph = "push"
  <2>1. PushSync(H, c, rest, known) /\ c.op = "save"
    BY <1>8 DEF Sync
  <2>2. \A w \in Versions : Covered(G, w)
    BY <1>4, <1>8, <2>1 DEF PushSync
  <2>3. \A w \in known \ rest : w \in G[1]
    BY <1>3, <2>1 DEF PushSync
  <2> QED BY <1>2, <1>5, <1>8, <2>1, <2>2, <2>3 DEF Sync, PushSync
<1> QED BY <1>6, <1>7, <1>8

LEMMA CacheStaysTrue ==
  ASSUME World, CacheInv, CallInv, CacheIsTrue, Ask \/ Tick
  PROVE  CacheIsTrue'
<1>1. remote' = remote
  BY DEF Ask, Tick, others
<1>2. CASE cache' = cache
  BY <1>1, <1>2 DEF CacheIsTrue, Visible
<1>3. CASE Tick
  <2>1. ASSUME NEW k \in Keys, cache'[k] # None
        PROVE  cache[k] # None /\ cache'[k].value = cache[k].value
    <3>1. cache[k] # None /\ cache'[k] = [cache[k] EXCEPT !.age = @ + 1]
      BY <1>3, <2>1 DEF Tick, Visible
    <3>2. cache[k] \in [value : Results, age : 0 .. TTL]
      BY <3>1 DEF CacheInv
    <3> QED BY <3>1, <3>2
  <2> QED BY <1>1, <2>1 DEF CacheIsTrue, Visible
<1>4. CASE Ask /\ cache' # cache
  <2> DEFINE k == Key(call.op, call.version)
             r == Answer("http", call.op, call.version)
  <2>1. ~Visible(k) /\ cache' = [cache EXCEPT ![k] = [value |-> r, age |-> 0]]
    BY <1>4 DEF Ask, Remembered
  <2>2. /\ call.op \in Questions /\ call.version \in Versions \cup {None}
        /\ call.op \in {"load", "exists"} => call.version \in Versions
        /\ call.op \notin {"load", "exists"} => call.version = None
    BY <1>4, CallIs DEF Ask, CallInv, Question, IsQuestion, Questions
  <2>3. k \in Keys /\ r = RemoteSays(remote, k.of, k.version)
    BY <2>1, <2>2, KeyIs DEF Answer
  <2> HIDE DEF k, r
  <2>4. ASSUME NEW j \in Keys, cache'[j] # None
        PROVE  cache'[j].value = RemoteSays(remote, j.of, j.version)
    <3>1. CASE j = k
      <4>1. cache'[j] = [value |-> r, age |-> 0]
        BY <2>1, <2>3, <3>1 DEF CacheInv
      <4> QED BY <2>3, <3>1, <4>1
    <3>2. CASE j # k
      BY <2>1, <2>4, <3>2 DEF CacheInv, CacheIsTrue, Visible
    <3> QED BY <3>1, <3>2
  <2> QED BY <1>1, <2>4 DEF CacheIsTrue, Visible
<1> QED BY <1>2, <1>3, <1>4

LEMMA SyncAsk ==
  ASSUME StateInv, Ask, Starting => CacheIsTrue,
         Sync(Held, phase, call, todo, Known(memory))
  PROVE  Sync(Held, phase, call', todo, Known(memory))
<1> DEFINE r == Answer(Chain[call.at], call.op, call.version)
<1>1. IsQuestion(call) /\ call' = AfterAnswer(call, r)
  BY DEF Ask
<1>2. World /\ CacheInv /\ CallInv /\ PhaseInv
  BY DEF StateInv
<1>3. CASE phase \in {"down", "up"}
  BY <1>3 DEF Sync
<1>4. CASE Starting
  <2>1. /\ call \in Question /\ call.at \in 1 .. Len(Chain)
        /\ Chain[call.at] \in {"file", "mongo", "http"} /\ r \in Answers(call.op)
    BY <1>1, <1>2, CallIs, AskAnswers
  <2>2. /\ call.op \in {"load", "exists"} => call.version \in Versions
        /\ call.op \notin {"load", "exists"} => call.version = None
    BY <1>1, <1>2 DEF CallInv
  <2>3. /\ Held \in [1 .. Len(Chain) -> SUBSET Versions] /\ Len(Chain) \in Nat
        /\ Held[call.at] = HeldBy(Chain[call.at])
    BY <1>2, <2>1, HeldIs
  <2>4. \A v \in Versions :
          /\ Answer(Chain[call.at], "load", v) # None <=> v \in Held[call.at]
          /\ Answer(Chain[call.at], "exists", v) # None <=> v \in Held[call.at]
          /\ v \in Held[call.at] => v \in Answer(Chain[call.at], "versions", None)
          /\ v \in Held[call.at] => Answer(Chain[call.at], "names", None) # {}
    BY <1>2, <1>4, <2>1, <2>3, Tells
  <2>5. call.op \in {"load", "exists"} =>
          call.version \in Versions /\ (r # None <=> call.version \in Held[call.at])
    BY <2>2, <2>4
  <2>6. call.op = "versions" => Held[call.at] \subseteq r
    BY <2>1, <2>2, <2>3, <2>4
  <2>7. call.op = "names" /\ Held[call.at] # {} => r # {}
    BY <2>1, <2>2, <2>3, <2>4
  <2>8. /\ phase = "names" => call.op = "names"
        /\ phase = "versions" => call.op = "versions"
        /\ phase = "pull" => call.op = "load"
        /\ phase = "push" => call.op = "exists"
    BY <1>1, <1>2 DEF PhaseInv, IsQuestion, NoCall
  <2> HIDE DEF r
  <2> QED BY <1>1, <2>1, <2>3, <2>5, <2>6, <2>7, <2>8, SyncAnswered
<1> QED BY <1>2, <1>3, <1>4 DEF PhaseInv, Starting

LEMMA SyncSave ==
  ASSUME StateInv, World', WritableFirst, Save,
         Sync(Held, phase, call, todo, Known(memory))
  PROVE  Sync(Held', phase, call', todo, Known(memory))
<1>1. World /\ CallInv /\ PhaseInv
  BY DEF StateInv
<1>2. IsSave(call) /\ call' = AfterSave(call)
  BY DEF Save
<1>3. Chain' = Chain
  BY DEF Save, Chain
<1>4. PICK N \in Nat : N = Len(Chain) /\ N >= 1 /\ Held \in [1 .. N -> SUBSET Versions]
  BY <1>1, HeldIs, ChainIs DEF World
<1>5. Held' \in [1 .. N -> SUBSET Versions]
  <2>1. \A n \in 1 .. N : HeldBy(Chain[n])' \in SUBSET Versions
    BY DEF HeldBy
  <2> QED BY <1>3, <1>4, <2>1 DEF Held
<1>6. /\ \A n \in 1 .. N : \A w \in Versions \ {call.version} :
           w \in Held'[n] <=> w \in Held[n]
      /\ \A n \in 1 .. N : call.version \in Held[n] => call.version \in Held'[n]
      /\ call.at = 1 => call.version \in Held'[1]
  <2>1. DOMAIN Held = 1 .. N
    BY <1>4
  <2> QED BY <1>1, <2>1, SaveHeld
<1>7. call \in Write /\ call.at \in 1 .. call.last
  BY <1>1, <1>2, CallIs DEF CallInv
<1>8. /\ phase \in {"pull", "push", "up"}
      /\ phase = "pull" => call.version \in todo /\ call.op = "fill"
      /\ phase = "push" => call.version \in todo /\ call.op = "save"
  BY <1>1, <1>2 DEF PhaseInv, IsSave, NoCall
<1>9. todo \in SUBSET Versions /\ Known(memory) \in SUBSET Versions
  BY <1>1 DEF PhaseInv, Known
<1> QED BY <1>2, <1>4, <1>5, <1>6, <1>7, <1>8, <1>9, SyncSaved

(* The steps of the start itself: nothing is stored.                       *)
LEMMA SyncOpened ==
  ASSUME NEW N \in Nat, N >= 1, NEW H \in [1 .. N -> SUBSET Versions],
         NEW versions \in SUBSET Versions, World', Pull(versions),
         \A v \in Versions \ versions : Covered(H, v)
  PROVE  Sync(H, phase', call', todo', Known(memory'))
<1>1. CASE phase' = "push"
  <2>1. todo' = Known(memory') /\ call' = NoCall
    BY <1>1, Opened
  <2>2. versions = {}
    BY <1>1 DEF Pull
  <2> QED BY <1>1, <2>1, <2>2 DEF Sync, PushSync, NoCall
<1>2. CASE phase' = "pull"
  <2>1. todo' = versions /\ call'.op = "load" /\ call'.at = 1
    BY <1>2, Opened, AskingIs
  <2>2. ~Missed(H, call'.version, call'.at)
    BY <2>1 DEF Missed
  <2> QED BY <1>2, <2>1, <2>2 DEF Sync, PullSync
<1> QED BY <1>1, <1>2, Opened

LEMMA SyncStart ==
  ASSUME StateInv, World',
         ListVersions \/ ToPull \/ Pulled \/ PushNext \/ Pushed \/ Serve
         \/ CallChain \/ CallReturns,
         Sync(Held, phase, call, todo, Known(memory))
  PROVE  Sync(Held, phase', call', todo', Known(memory'))
<1>1. World /\ CallInv /\ PhaseInv
  BY DEF StateInv
<1>2. PICK N \in Nat : N >= 1 /\ Held \in [1 .. N -> SUBSET Versions]
  BY <1>1, HeldIs, ChainIs DEF World
<1>3. CASE ListVersions
  <2>1. NamesSync(Held, call) /\ call.op = "returned" /\ memory' = memory
    BY <1>3 DEF ListVersions, Sync
  <2>2. CASE call.result = {}
    <3>1. phase' = "push" /\ todo' = Known(memory') /\ call' = NoCall
      BY <1>3, <2>2 DEF ListVersions, PushAll, Calls
    <3>2. \A v \in Versions : Covered(Held, v)
      BY <2>1, <2>2 DEF NamesSync
    <3> QED BY <3>1, <3>2 DEF Sync, PushSync, NoCall
  <2>3. CASE call.result # {}
    <3>1. phase' = "versions" /\ call'.op = "versions" /\ call'.at = 1
      BY <1>3, <2>3, AskingIs DEF ListVersions, Calls
    <3>2. \A v : ~Missed(Held, v, 1)
      BY <1>2 DEF Missed
    <3> QED BY <3>1, <3>2 DEF Sync, VersionsSync
  <2> QED BY <2>2, <2>3
<1>4. CASE ToPull
  <2>1. VersionsSync(Held, call) /\ call.op = "returned" /\ Pull(call.result)
    BY <1>4 DEF ToPull, Sync
  <2>2. call.result \in SUBSET Versions
    BY <1>1, <1>4 DEF ToPull, PhaseInv
  <2>3. \A v \in Versions \ call.result : Covered(Held, v)
    BY <2>1 DEF VersionsSync
  <2> QED BY <1>2, <2>1, <2>2, <2>3, SyncOpened
<1>5. CASE Pulled
  <2>1. PullSync(Held, call, todo) /\ call.op = "returned" /\ Pull(todo \ {call.version})
    BY <1>5 DEF Pulled, Sync
  <2>2. todo \ {call.version} \in SUBSET Versions
    BY <1>1 DEF PhaseInv
  <2>3. \A v \in Versions \ (todo \ {call.version}) : Covered(Held, v)
    BY <2>1 DEF PullSync
  <2> QED BY <1>2, <2>1, <2>2, <2>3, SyncOpened
<1>6. CASE PushNext
  <2>1. phase = "push" /\ phase' = "push" /\ todo' = todo /\ memory' = memory
    BY <1>6 DEF PushNext
  <2>2. call'.op = "exists" /\ call'.at = 1
    BY <1>6, AskingIs DEF PushNext, Calls
  <2>3. \A v : ~Missed(Held, v, 1)
    BY <1>2 DEF Missed
  <2> QED BY <2>1, <2>2, <2>3 DEF Sync, PushSync
<1>7. CASE Pushed
  <2>1. /\ phase = "push" /\ phase' = "push" /\ memory' = memory /\ call.op = "returned"
        /\ PushSync(Held, call, todo, Known(memory))
    BY <1>7 DEF Pushed, Sync
  <2>2. CASE call.result = None
    <3>1. call' = Saving(call.version, memory[call.version], Len(Chain)) /\ todo' = todo
      BY <1>7, <2>2 DEF Pushed, Calls
    <3>2. call'.op = "save" /\ call'.at = 1
      BY <3>1 DEF Saving
    <3> QED BY <2>1, <3>1, <3>2 DEF Sync, PushSync
  <2>3. CASE call.result # None
    <3>1. call' = NoCall /\ todo' = todo \ {call.version}
      BY <1>7, <2>3 DEF Pushed, Calls
    <3>2. call'.op = "none"
      BY <3>1 DEF NoCall
    <3> QED BY <2>1, <2>3, <3>1, <3>2 DEF Sync, PushSync
  <2> QED BY <2>2, <2>3
<1>8. CASE Serve
  <2>1. phase = "push" /\ todo = {} /\ phase' = "up" /\ memory' = memory
    BY <1>8 DEF Serve
  <2> QED BY <2>1 DEF Sync, PushSync
<1>9. CASE CallChain \/ CallReturns
  <2>1. phase = "up" /\ phase' = "up" /\ memory' = memory
    BY <1>9 DEF CallChain, CallReturns
  <2> QED BY <2>1 DEF Sync
<1> QED BY <1>3, <1>4, <1>5, <1>6, <1>7, <1>8, <1>9

(* Another service saves to the collection.                                *)
LEMMA SyncGrows ==
  ASSUME NEW N \in Nat, N >= 1, NEW H \in [1 .. N -> SUBSET Versions],
         NEW G \in [1 .. N -> SUBSET Versions], NEW v,
         \A n \in 1 .. N : H[n] \subseteq G[n] /\ G[n] \subseteq H[n] \cup {v},
         v \in G[1],
         NEW ph, NEW c, NEW rest, NEW known \in SUBSET Versions,
         ph = "pull" \/ (ph = "push" /\ c.op = "exists") => c.version \in Versions,
         Sync(H, ph, c, rest, known)
  PROVE  Sync(G, ph, c, rest, known)
<1>1. \A w : w \in H[1] => w \in G[1]
  OBVIOUS
<1>2. \A w, n : Missed(G, w, n) => Missed(H, w, n)
  BY DEF Missed
<1>3. \A w : Covered(H, w) => Covered(G, w)
  BY DEF Covered
<1>4. CASE ph = "names"
  BY <1>2, <1>3, <1>4 DEF Sync, NamesSync
<1>5. CASE ph = "versions"
  BY <1>2, <1>3, <1>5 DEF Sync, VersionsSync
<1>6. CASE ph = "pull"
  BY <1>1, <1>2, <1>3, <1>6 DEF Sync, PullSync
<1>7. CASE ph = "push"
  BY <1>1, <1>2, <1>3, <1>7 DEF Sync, PushSync
<1>8. CASE ph = "up"
  BY <1>1, <1>8 DEF Sync
<1> QED BY <1>4, <1>5, <1>6, <1>7, <1>8 DEF Sync

(* For a service that is up, only what the first storage holds counts.     *)
LEMMA SyncUp ==
  ASSUME NEW H, NEW G, NEW ph \in {"down", "up"}, NEW c, NEW rest, NEW known,
         NEW d, Sync(H, ph, c, rest, known), H[1] \subseteq G[1]
  PROVE  Sync(G, ph, d, rest, known)
BY DEF Sync

LEMMA ElsewhereIs ==
  ASSUME NEW concerns, Elsewhere(concerns), clean'
  PROVE  clean /\ (phase \in {"down", "up"} \/ ~concerns)
BY Zenon DEF Elsewhere

LEMMA PublishElsewhere ==
  ASSUME Elsewhere(TRUE), clean'
  PROVE  clean /\ phase \in {"down", "up"}
BY DEF Elsewhere

(* The changes that the service does not make itself.                      *)
LEMMA SyncElsewhere ==
  ASSUME StateInv, StateInv', WritableFirst, clean', EditFlat \/ Publish \/ OtherSaves,
         clean => (Starting => CacheIsTrue) /\ Sync(Held, phase, call, todo, Known(memory))
  PROVE  /\ Starting' => CacheIsTrue'
         /\ Sync(Held', phase', call', todo', Known(memory'))
<1> USE DEF others, stores, service
<1>1. World /\ World' /\ PhaseInv
  BY DEF StateInv
<1>2. UNCHANGED <<deployment, files, cache, phase, todo, memory, call>>
  <2>1. CASE EditFlat
    BY <2>1 DEF EditFlat
  <2>2. CASE Publish
    BY <2>2 DEF Publish
  <2>3. CASE OtherSaves
    BY <2>3 DEF OtherSaves
  <2> QED BY <2>1, <2>2, <2>3
<1>3. clean /\ (Starting => CacheIsTrue) /\ Sync(Held, phase, call, todo, Known(memory))
  <2>1. EditFlat => clean
    BY ElsewhereIs, Zenon DEF EditFlat
  <2>2. Publish => clean
    BY PublishElsewhere DEF Publish
  <2>3. OtherSaves => clean
    BY ElsewhereIs, Zenon DEF OtherSaves
  <2> QED BY <2>1, <2>2, <2>3
<1>4. Known(memory') = Known(memory)
  BY <1>2 DEF Known
<1>5. PICK N \in Nat : N = Len(Chain) /\ N >= 1 /\ Held \in [1 .. N -> SUBSET Versions]
  BY <1>1, HeldIs, ChainIs DEF World
<1>6. Chain' = Chain
  BY <1>2 DEF Chain
<1>7. Held' \in [1 .. N -> SUBSET Versions]
  <2>1. \A n \in 1 .. N : HeldBy(Chain[n])' \in SUBSET Versions
    BY DEF HeldBy
  <2> QED BY <1>5, <1>6, <2>1 DEF Held
<1>8. PICK chain : chain = Chain
  OBVIOUS
<1>9. \A n \in 1 .. N : Held[n] = HeldBy(chain[n]) /\ Held'[n] = HeldBy(chain[n])'
  BY <1>5, <1>6, <1>8 DEF Held
<1>10. CASE EditFlat /\ ~deployment.shared
  <2>1. Held' = Held
    BY <1>10, HeldKept DEF EditFlat
  <2>2. CacheIsTrue => CacheIsTrue'
    BY <1>10 DEF EditFlat, CacheIsTrue, Visible
  <2> QED BY <1>2, <1>3, <1>4, <2>1, <2>2 DEF Starting
<1>11. CASE OtherSaves /\ chain[1] = "mongo"
  <2>1. PICK v \in Semver, b \in Bodies : mongo' = [mongo EXCEPT ![v] = b]
    BY <1>11 DEF OtherSaves
  <2>2. UNCHANGED <<flat, remote>>
    BY <1>11 DEF OtherSaves
  <2>3. v \in Versions /\ b # None
    BY <2>1, VersionsAssumption, BodiesAssumption
  <2>4. /\ mongo'[v] = b
        /\ \A w \in Versions \ {v} : mongo'[w] = mongo[w]
    BY <1>1, <2>1, <2>3 DEF World, Schemas
  <2>5. \A w : FileLoad(w)' = FileLoad(w)
    BY <1>2, <2>2 DEF FileLoad, FlatSeen
  <2>6. \A a : HeldBy(a) \subseteq HeldBy(a)' /\ HeldBy(a)' \subseteq HeldBy(a) \cup {v}
    BY <2>2, <2>3, <2>4, <2>5 DEF HeldBy
  <2>7. v \in HeldBy("mongo")'
    BY <2>3, <2>4 DEF HeldBy
  <2>8. v \in Held'[1]
    BY <1>5, <1>9, <1>11, <2>7
  <2>9. \A n \in 1 .. N : Held[n] \subseteq Held'[n] /\ Held'[n] \subseteq Held[n] \cup {v}
    BY <1>9, <2>6
  <2>10. phase = "pull" \/ (phase = "push" /\ call.op = "exists") => call.version \in Versions
    BY <1>1 DEF PhaseInv, NoCall
  <2>11. Known(memory) \in SUBSET Versions
    BY DEF Known
  <2>12. Sync(Held', phase, call, todo, Known(memory))
    BY <1>3, <1>5, <1>7, <2>8, <2>9, <2>10, <2>11, SyncGrows
  <2>13. CacheIsTrue => CacheIsTrue'
    BY <1>2, <2>2 DEF CacheIsTrue, Visible
  <2> QED BY <1>2, <1>3, <1>4, <2>12, <2>13 DEF Starting
<1>12. CASE /\ ~(EditFlat /\ ~deployment.shared)
            /\ ~(OtherSaves /\ chain[1] = "mongo")
  <2>1. phase \in {"down", "up"}
    <3>1. CASE EditFlat
      BY <1>12, <3>1, ElsewhereIs DEF EditFlat
    <3>2. CASE Publish
      BY <3>2, PublishElsewhere DEF Publish
    <3>3. CASE OtherSaves
      BY <1>8, <1>12, <3>3, ElsewhereIs DEF OtherSaves
    <3> QED BY <3>1, <3>2, <3>3
  <2>2. \/ chain[1] = "mongo" /\ (EditFlat \/ Publish)
        \/ chain[1] = "file" /\ ~deployment.shared /\ (Publish \/ OtherSaves)
    BY <1>8, <1>12 DEF WritableFirst
  <2>3. chain[1] = "mongo" => mongo' = mongo
    <3>1. EditFlat => mongo' = mongo
      BY DEF EditFlat
    <3>2. Publish => mongo' = mongo
      BY DEF Publish
    <3> QED BY <2>2, <3>1, <3>2
  <2>4. \A w : chain[1] = "file" => FileLoad(w)' = FileLoad(w)
    BY <1>2, <2>2 DEF FileLoad, FlatSeen
  <2>5. HeldBy(chain[1])' = HeldBy(chain[1])
    BY <2>2, <2>3, <2>4 DEF HeldBy
  <2>6. Held[1] \subseteq Held'[1]
    BY <1>5, <1>9, <2>5
  <2>7. Sync(Held', phase, call, todo, Known(memory))
    BY <1>3, <2>1, <2>6, SyncUp
  <2> QED BY <1>2, <1>4, <2>1, <2>7 DEF Starting
<1> QED BY <1>10, <1>11, <1>12

(* The chain is what it was.                                               *)
LEMMA DeploymentStays ==
  ASSUME Next
  PROVE  deployment' = deployment
<1>1. CASE Ask \/ AskFails \/ Save \/ SaveRaises
  BY <1>1 DEF Ask, AskFails, Save, SaveRaises
<1>2. CASE \/ Start \/ ListVersions \/ ToPull \/ Pulled \/ PushNext \/ Pushed \/ Serve
           \/ CallChain \/ CallReturns
  BY <1>2 DEF Start, ListVersions, ToPull, Pulled, PushNext, Pushed, Serve, CallChain,
              CallReturns
<1>3. CASE Stop \/ Crash \/ Tick
  BY <1>3 DEF Stop, Crash, Tick
<1>4. CASE EditFlat
  BY <1>4 DEF EditFlat
<1>5. CASE Publish
  BY <1>5 DEF Publish
<1>6. CASE OtherSaves
  BY <1>6 DEF OtherSaves
<1> QED BY <1>1, <1>2, <1>3, <1>4, <1>5, <1>6 DEF Next

LEMMA SyncStep ==
  ASSUME StateInv, StateInv', SyncInv, Next
  PROVE  SyncInv'
<1> SUFFICES ASSUME clean', WritableFirst'
             PROVE  /\ Starting' => CacheIsTrue'
                    /\ Sync(Held', phase', call', todo', Known(memory'))
  BY DEF SyncInv, Known
<1> USE DEF others, stores, service
<1>1. World /\ World' /\ CacheInv /\ CallInv /\ PhaseInv
  BY DEF StateInv
<1>2. deployment' = deployment
  BY DeploymentStays
<1>3. WritableFirst
  BY <1>2 DEF WritableFirst, Chain
<1>4. clean => (Starting => CacheIsTrue) /\ Sync(Held, phase, call, todo, Known(memory))
  BY <1>3 DEF SyncInv
<1>5. CASE Ask
  <2>1. clean /\ UNCHANGED <<phase, todo, memory>>
    BY <1>5 DEF Ask
  <2>2. Held' = Held
    BY <1>5, HeldKept DEF Ask
  <2>3. Starting' => CacheIsTrue'
    BY <1>1, <1>4, <1>5, <2>1, CacheStaysTrue DEF Starting
  <2> QED BY <1>4, <1>5, <2>1, <2>2, <2>3, SyncAsk
<1>6. CASE AskFails \/ SaveRaises
  BY <1>6 DEF AskFails, SaveRaises
<1>7. CASE Save
  <2>1. clean /\ UNCHANGED <<phase, todo, memory, cache, remote>>
    BY <1>7 DEF Save
  <2>2. Sync(Held', phase, call', todo, Known(memory))
    BY <1>1, <1>3, <1>4, <1>7, <2>1, SyncSave
  <2>3. Starting' => CacheIsTrue'
    BY <1>4, <2>1 DEF Starting, CacheIsTrue, Visible
  <2> QED BY <2>1, <2>2, <2>3
<1>8. CASE Start
  <2>1. phase' = "names" /\ call'.op = "names" /\ call'.at = 1
    BY <1>8, AskingIs DEF Start, Calls
  <2>2. \A k \in Keys : cache'[k] = None
    BY <1>1, <1>8 DEF Start, PhaseInv, Visible
  <2>3. \A v : ~Missed(Held', v, 1)
    BY <1>1, HeldIs, ChainIs DEF Missed, World, Held
  <2> QED BY <2>1, <2>2, <2>3 DEF Sync, NamesSync, CacheIsTrue, Visible
<1>9. CASE \/ ListVersions \/ ToPull \/ Pulled \/ PushNext \/ Pushed \/ Serve
           \/ CallChain \/ CallReturns
  <2>1. clean /\ UNCHANGED <<flat, files, mongo, remote, cache>>
    BY <1>9 DEF ListVersions, ToPull, Pulled, PushNext, Pushed, Serve, CallChain, CallReturns
  <2>2. Starting' => Starting
    BY <1>9 DEF Starting, ListVersions, ToPull, Pulled, PushNext, Pushed, Serve,
                CallChain, CallReturns
  <2>3. Held' = Held
    BY <1>2, <2>1, HeldKept
  <2>4. Starting' => CacheIsTrue'
    BY <1>4, <2>1, <2>2 DEF CacheIsTrue, Visible
  <2>5. Sync(Held, phase', call', todo', Known(memory'))
    BY <1>1, <1>4, <1>9, <2>1, SyncStart
  <2> QED BY <2>3, <2>4, <2>5
<1>10. CASE Stop \/ Crash
  <2>1. phase' = "down"
    BY <1>10 DEF Stop, Crash, Ends
  <2> QED BY <2>1 DEF Starting, Sync
<1>11. CASE EditFlat \/ Publish \/ OtherSaves
  BY <1>3, <1>4, <1>11, SyncElsewhere
<1>12. CASE Tick
  <2>1. clean /\ UNCHANGED <<flat, files, mongo, remote, phase, todo, memory, call>>
    BY <1>12 DEF Tick
  <2>2. Held' = Held
    BY <1>2, <2>1, HeldKept
  <2>3. Starting' => CacheIsTrue'
    BY <1>1, <1>4, <1>12, <2>1, CacheStaysTrue DEF Starting
  <2> QED BY <1>4, <2>1, <2>2, <2>3
<1> QED BY <1>5, <1>6, <1>7, <1>8, <1>9, <1>10, <1>11, <1>12 DEF Next

LEMMA SyncKept ==
  ASSUME SyncInv, UNCHANGED vars
  PROVE  SyncInv'
<1>1. UNCHANGED <<deployment, flat, remote, files, mongo, cache, memory, phase, todo, call,
                  clean>>
  BY DEF vars, others, stores, service
<1>2. Held' = Held
  BY <1>1, HeldKept
<1>3. CacheIsTrue' <=> CacheIsTrue
  BY <1>1 DEF CacheIsTrue, Visible
<1>4. WritableFirst' <=> WritableFirst
  BY <1>1 DEF WritableFirst, Chain
<1>5. Known(memory)' = Known(memory) /\ (Starting' <=> Starting)
  BY <1>1 DEF Known, Starting
<1> QED BY <1>1, <1>2, <1>3, <1>4, <1>5 DEF SyncInv

LEMMA SyncIsInvariant == Spec => [](StateInv /\ SyncInv)
<1>1. Init => SyncInv
  BY DEF Init, SyncInv, Starting, Sync
<1>2. StateInv /\ StateInv' /\ SyncInv /\ [Next]_vars => SyncInv'
  BY SyncStep, SyncKept
<1> QED BY <1>1, <1>2, StateInit, StateStep, PTL DEF Spec

(* A start without failures leaves nothing in memory that the first        *)
(* storage cannot load, whatever the storages hold to begin with.          *)
THEOREM ServedIsStoredCorrect == Spec => []ServedIsStored
<1>1. StateInv /\ SyncInv => ServedIsStored
  <2> SUFFICES ASSUME StateInv, SyncInv, phase = "up", clean, WritableFirst,
                      NEW v \in Known(memory)
               PROVE  LoadFirst(v) # None
    BY DEF ServedIsStored
  <2>1. v \in Held[1]
    BY DEF SyncInv, Sync
  <2>2. v \in HeldBy(Chain[1])
    BY <2>1, HeldIs DEF StateInv
  <2> QED BY <2>2 DEF HeldBy, LoadFirst, WritableFirst
<1> QED BY <1>1, SyncIsInvariant, PTL

-----------------------------------------------------------------------------
(* A first storage of the service's own: its files, and what it serves.    *)

OwnFiles == Chain[1] = "file" /\ ~deployment.shared

Stored(f, v) == f[v] \in Bodies

Matches(f, mem, v) == Stored(f, v) => mem[v] = f[v]

(* What a file says is listed and pulled, and nothing else replaces it in  *)
(* the memory of a clean start.                                            *)
NamesMatch(f, c) ==
  \A v \in Versions : Stored(f, v) =>
    /\ c.op = "names" /\ c.at > 1 => c.gathered # {}
    /\ c.op = "returned" => c.result # {}

VersionsMatch(f, c) ==
  \A v \in Versions : Stored(f, v) =>
    /\ c.op = "versions" /\ c.at > 1 => v \in c.gathered
    /\ c.op = "returned" => v \in c.result

PullMatch(f, c, rest, mem) ==
  /\ \A v \in Versions \ rest : Matches(f, mem, v)
  /\ c.op = "fill" /\ c.at > 1 => f[c.version] = c.body
  /\ c.op = "returned" /\ Stored(f, c.version) => c.result = f[c.version]

Match(f, ph, c, rest, mem) ==
  /\ ph = "names" => NamesMatch(f, c)
  /\ ph = "versions" => VersionsMatch(f, c)
  /\ ph = "pull" => PullMatch(f, c, rest, mem)
  /\ ph = "push" => \A v \in Versions : Matches(f, mem, v)

(* The file of a version that was served: nothing but a save of the        *)
(* application, or a load_latest that fills, touches it.                   *)
Pin(f, pins, ph, c) ==
  /\ \A v \in Versions : pins[v] # None => f[v] = pins[v]
  /\ IsSave(c) => pins[c.version] = None
  /\ c.op \in {"load", "exists"} /\ c.at > 1 => ~Stored(f, c.version)
  /\ ph = "push" /\ c.op = "returned" /\ c.result = None => ~Stored(f, c.version)

Survives == \A v \in Versions : pinned[v] # None => memory[v] = pinned[v]

OwnInv ==
  OwnFiles =>
    /\ Pin(files, pinned, phase, call)
    /\ clean => Match(files, phase, call, todo, memory)
    /\ clean /\ phase = "up" => Survives

LEMMA OwnTells ==
  ASSUME World, OwnFiles, NEW v \in Versions
  PROVE  /\ Stored(files, v) => Answer("file", "load", v) = files[v]
         /\ Stored(files, v) => Answer("file", "exists", v) = files[v]
         /\ ~Stored(files, v) => Answer("file", "load", v) = None
         /\ ~Stored(files, v) => Answer("file", "exists", v) = None
         /\ Stored(files, v) => v \in Answer("file", "versions", None)
         /\ Stored(files, v) => Answer("file", "names", None) # {}
<1>1. FileLoad(v) = IF Stored(files, v) THEN files[v] ELSE None
  <2>1. files[v] \in Bodies \cup {None, "torn"} /\ ~FlatSeen
    BY DEF World, OwnFiles, FlatSeen
  <2> QED BY <2>1, BodiesAssumption DEF FileLoad, Stored
<1>2. Stored(files, v) => v \in FileVersions
  BY BodiesAssumption DEF FileVersions, Known, Stored
<1>3. FileHolds[v] = FileLoad(v)
  BY DEF FileHolds
<1>4. /\ Answer("file", "load", v) = FileLoad(v)
      /\ Answer("file", "exists", v) = FileLoad(v)
      /\ Answer("file", "versions", None) = FileVersions
      /\ Answer("file", "names", None) = IF FileVersions = {} THEN {} ELSE {"schema"}
  BY <1>3 DEF Answer, Says
<1> QED BY <1>1, <1>2, <1>4

LEMMA PinAnswered ==
  ASSUME NEW f, NEW pins \in Schemas, NEW less \in Schemas,
         \A v \in Versions : less[v] = pins[v] \/ less[v] = None,
         NEW c \in Question, c.at \in 1 .. Len(Chain), NEW r \in Answers(c.op),
         c.op \in {"load", "exists"} => c.version \in Versions,
         c.at = 1 /\ c.op \in {"load", "exists"} /\ r = None => ~Stored(f, c.version),
         c.op = "latest" /\ IsSave(AfterAnswer(c, r)) =>
           less[AfterAnswer(c, r).version] = None,
         NEW ph, ph = "push" => c.op = "exists",
         Pin(f, pins, ph, c)
  PROVE  Pin(f, less, ph, AfterAnswer(c, r))
<1> DEFINE d == AfterAnswer(c, r)
<1> SUFFICES Pin(f, less, ph, d)
  OBVIOUS
<1>1. \A v \in Versions : less[v] # None => f[v] = less[v]
  BY DEF Pin
<1>2. c.op \in Questions /\ (c.op \in {"load", "exists"} => ~Gathers(c.op)) /\ c.at \in Nat
  BY DEF Question, Gathers
<1>3. c.op \in {"load", "exists"} /\ r = None => ~Stored(f, c.version)
  BY <1>2 DEF Pin
<1>4. CASE \/ Gathers(c.op) \/ r = None
  <2>1. CASE d.op = c.op /\ d.version = c.version
    <3> HIDE DEF d
    <3>1. ~IsSave(d) /\ d.op # "returned"
      BY <1>2, <2>1 DEF IsSave, Questions
    <3>2. d.op \in {"load", "exists"} => ~Stored(f, d.version)
      BY <1>2, <1>3, <1>4, <2>1
    <3> QED BY <1>1, <3>1, <3>2 DEF Pin
  <2>2. CASE d.op = "returned" /\ d.version = c.version
    <3> HIDE DEF d
    <3>1. ~IsSave(d)
      BY <2>2 DEF IsSave
    <3>2. ph = "push" => ~Stored(f, d.version)
      BY <1>2, <1>3, <1>4, <2>2
    <3> QED BY <1>1, <2>2, <3>1, <3>2 DEF Pin
  <2>3. CASE d = [op |-> c.op, version |-> c.version, at |-> c.at + 1,
                  gathered |-> Gathered(c, r)]
    BY <2>1, <2>3
  <2>4. CASE d = Returned(c, IF Gathers(c.op) THEN Gathered(c, r) ELSE None)
    <3>1. d.op = "returned" /\ d.version = c.version
      BY <2>4, ReturnedIs
    <3> QED BY <2>2, <3>1
  <2>5. c \in Question
    OBVIOUS
  <2> QED BY <1>4, <2>3, <2>4, <2>5, AfterAnswerIs DEF Gathers
<1>5. CASE ~(Gathers(c.op) \/ r = None)
  <2>1. CASE d = Returned(c, r)
    <3>1. d.op = "returned" /\ d.result = r
      BY <2>1, ReturnedIs
    <3> HIDE DEF d
    <3> QED BY <1>1, <1>5, <3>1 DEF Pin, IsSave
  <2>2. CASE c.at # 1 /\ c.op = "load" /\ d.op = "fill" /\ d.version = c.version
    <3> HIDE DEF d
    <3>1. ~Stored(f, c.version) /\ c.version \in Versions
      BY <1>2, <2>2 DEF Pin
    <3>2. pins[c.version] = None
      BY <3>1 DEF Pin, Stored, Schemas
    <3>3. less[d.version] = None
      BY <2>2, <3>1, <3>2
    <3> QED BY <1>1, <2>2, <3>3 DEF Pin
  <2>3. CASE c.op = "latest" /\ d.op = "fill"
    <3>1. less[d.version] = None
      BY <2>3 DEF IsSave
    <3> HIDE DEF d
    <3> QED BY <1>1, <2>3, <3>1 DEF Pin
  <2> QED BY <1>5, <2>1, <2>2, <2>3, AfterAnswerIs
<1> QED BY <1>4, <1>5

LEMMA PinSaved ==
  ASSUME NEW f, NEW g, NEW pins, NEW c \in Write, IsSave(c),
         \A v \in Versions \ {c.version} : g[v] = f[v],
         NEW ph, ph = "push" => c.result = c.body,
         Pin(f, pins, ph, c)
  PROVE  /\ Pin(g, pins, ph, AfterSave(c))
         /\ Pin(g, pins, "up", Returned(c, None))
         /\ Pin(g, pins, "down", NoCall)
<1>1. \A v \in Versions : pins[v] # None => g[v] = pins[v]
  BY DEF Pin
<1>2. pins[c.version] = None
  BY DEF Pin
<1>3. c.body # None
  BY BodiesAssumption DEF Write
<1> DEFINE d == AfterSave(c)
<1>4. Pin(g, pins, ph, d)
  <2>1. \/ d.op = c.op /\ d.version = c.version
        \/ d.op = "returned" /\ d.result = c.result
    <3>1. CASE d = Returned(c, c.result)
      BY <3>1, ReturnedIs
    <3>2. CASE d = [op |-> c.op, version |-> c.version, body |-> c.body,
                    at |-> c.at + 1, last |-> c.last, result |-> c.result]
      BY <3>2
    <3> QED BY <3>1, <3>2, AfterSaveIs
  <2> HIDE DEF d
  <2> QED BY <1>1, <1>2, <1>3, <2>1 DEF Pin, IsSave
<1>5. Pin(g, pins, "up", Returned(c, None))
  BY <1>1, ReturnedIs DEF Pin
<1>6. Pin(g, pins, "down", NoCall)
  BY <1>1 DEF Pin, NoCall, IsSave
<1> QED BY <1>4, <1>5, <1>6

LEMMA MatchAnswered ==
  ASSUME NEW f, NEW c \in Question, c.at \in 1 .. Len(Chain), NEW r \in Answers(c.op),
         c.op \in {"load", "exists"} => c.version \in Versions,
         c.at = 1 /\ c.op = "load" /\ Stored(f, c.version) => r = f[c.version],
         c.at > 1 /\ c.op = "load" => ~Stored(f, c.version),
         c.at = 1 /\ c.op = "versions" => \A v \in Versions : Stored(f, v) => v \in r,
         c.at = 1 /\ c.op = "names" => \A v \in Versions : Stored(f, v) => r # {},
         NEW ph, NEW rest, NEW mem, Match(f, ph, c, rest, mem),
         ph = "names" => c.op = "names",
         ph = "versions" => c.op = "versions",
         ph = "pull" => c.op = "load"
  PROVE  Match(f, ph, AfterAnswer(c, r), rest, mem)
<1> DEFINE d == AfterAnswer(c, r)
<1> SUFFICES Match(f, ph, d, rest, mem)
  OBVIOUS
<1>0. c.at \in Nat /\ (c.at = 1 \/ c.at > 1)
  BY DEF Question
<1>1. CASE ph = "names"
  <2>1. c.op = "names" /\ Gathers(c.op) /\ NamesMatch(f, c) /\ Gathered(c, r) = c.gathered \cup r
    BY <1>1 DEF Gathers, Match, Gathered
  <2>2. ASSUME NEW v \in Versions, Stored(f, v) PROVE Gathered(c, r) # {}
    BY <1>0, <2>1, <2>2 DEF NamesMatch
  <2>3. \/ d.op = "names" /\ d.gathered = Gathered(c, r)
        \/ d.op = "returned" /\ d.result = Gathered(c, r)
    <3>1. CASE d = Returned(c, Gathered(c, r))
      BY <3>1, ReturnedIs
    <3>2. CASE d = [op |-> c.op, version |-> c.version, at |-> c.at + 1,
                    gathered |-> Gathered(c, r)]
      BY <2>1, <3>2
    <3> QED BY <2>1, <3>1, <3>2, AfterAnswerIs
  <2> HIDE DEF d
  <2> QED BY <1>1, <2>2, <2>3 DEF Match, NamesMatch
<1>2. CASE ph = "versions"
  <2>1. /\ c.op = "versions" /\ Gathers(c.op) /\ VersionsMatch(f, c)
        /\ Gathered(c, r) = c.gathered \cup r
    BY <1>2 DEF Gathers, Match, Gathered
  <2>2. ASSUME NEW v \in Versions, Stored(f, v) PROVE v \in Gathered(c, r)
    BY <1>0, <2>1, <2>2 DEF VersionsMatch
  <2>3. \/ d.op = "versions" /\ d.gathered = Gathered(c, r)
        \/ d.op = "returned" /\ d.result = Gathered(c, r)
    <3>1. CASE d = Returned(c, Gathered(c, r))
      BY <3>1, ReturnedIs
    <3>2. CASE d = [op |-> c.op, version |-> c.version, at |-> c.at + 1,
                    gathered |-> Gathered(c, r)]
      BY <2>1, <3>2
    <3> QED BY <2>1, <3>1, <3>2, AfterAnswerIs
  <2> HIDE DEF d
  <2> QED BY <1>2, <2>2, <2>3 DEF Match, VersionsMatch
<1>3. CASE ph = "pull"
  <2>1. c.op = "load" /\ ~Gathers(c.op) /\ PullMatch(f, c, rest, mem)
    BY <1>3 DEF Gathers, Match
  <2>2. CASE d.op = "load" \/ (d.op = "fill" /\ d.at = 1)
    <3> HIDE DEF d
    <3> QED BY <1>3, <2>1, <2>2 DEF Match, PullMatch
  <2>3. CASE d = Returned(c, r) /\ (c.at = 1 \/ r = None)
    <3>1. d.op = "returned" /\ d.version = c.version /\ d.result = r
      BY <2>3, ReturnedIs
    <3>2. Stored(f, c.version) => r = f[c.version]
      BY <1>0, <2>1
    <3> HIDE DEF d
    <3> QED BY <1>3, <2>1, <3>1, <3>2 DEF Match, PullMatch
  <2>4. CASE d = [op |-> c.op, version |-> c.version, at |-> c.at + 1,
                  gathered |-> Gathered(c, r)]
    BY <2>1, <2>2, <2>4
  <2>5. CASE d = [op |-> "fill", version |-> c.version, body |-> r,
                  at |-> 1, last |-> c.at - 1, result |-> r]
    BY <2>2, <2>5
  <2> QED BY <2>1, <2>3, <2>4, <2>5, AfterAnswerIs
<1>4. CASE ph \notin {"names", "versions", "pull"}
  BY <1>4 DEF Match
<1> QED BY <1>1, <1>2, <1>3, <1>4

LEMMA MatchSaved ==
  ASSUME NEW f, NEW g, NEW c \in Write,
         \A v \in Versions \ {c.version} : g[v] = f[v],
         g[c.version] = f[c.version] \/ g[c.version] = c.body,
         c.at = 1 => g[c.version] = c.body,
         c.at >= 1,
         NEW ph, NEW rest, NEW mem, Match(f, ph, c, rest, mem),
         ph \in {"pull", "push", "up"},
         ph = "pull" => c.op = "fill" /\ c.version \in rest /\ c.result = c.body,
         ph = "push" => c.op = "save" /\ c.body = mem[c.version]
  PROVE  Match(g, ph, AfterSave(c), rest, mem)
<1> DEFINE d == AfterSave(c)
           v == c.version
<1> SUFFICES Match(g, ph, d, rest, mem)
  OBVIOUS
<1>1. /\ d.version = v
      /\ \/ d.op = c.op /\ d.body = c.body
         \/ d.op = "returned" /\ d.result = c.result
  <2>1. CASE d = Returned(c, c.result)
    BY <2>1, ReturnedIs
  <2>2. CASE d = [op |-> c.op, version |-> c.version, body |-> c.body,
                  at |-> c.at + 1, last |-> c.last, result |-> c.result]
    BY <2>2
  <2> QED BY <2>1, <2>2, AfterSaveIs
<1>2. c.at \in Nat /\ (c.at = 1 \/ c.at > 1)
  BY DEF Write
<1> HIDE DEF d
<1>3. CASE ph = "pull"
  <2>1. PullMatch(f, c, rest, mem)
    BY <1>3 DEF Match
  <2>2. g[v] = c.body
    BY <1>2, <1>3, <2>1 DEF PullMatch
  <2>3. \A w \in Versions \ rest : Matches(g, mem, w)
    BY <1>3, <2>1 DEF PullMatch, Matches, Stored
  <2> QED BY <1>1, <1>3, <2>2, <2>3 DEF Match, PullMatch
<1>4. CASE ph = "push"
  <2>1. \A w \in Versions : Matches(f, mem, w)
    BY <1>4 DEF Match
  <2>2. Matches(g, mem, v)
    BY <1>4, <2>1 DEF Matches, Stored, Write
  <2>3. \A w \in Versions \ {v} : Matches(g, mem, w)
    BY <2>1 DEF Matches, Stored
  <2> QED BY <1>4, <2>2, <2>3 DEF Match
<1>5. CASE ph = "up"
  BY <1>5 DEF Match
<1> QED BY <1>3, <1>4, <1>5

(* What the three parts of the invariant say of a new state.               *)
OwnHolds == /\ Pin(files, pinned, phase, call)
            /\ clean => Match(files, phase, call, todo, memory)
            /\ clean /\ phase = "up" => Survives

(* Pins are only taken away, what is served stays.                         *)
LEMMA StillServed ==
  ASSUME Survives, memory' = memory,
         \A v \in Versions : pinned'[v] = pinned[v] \/ pinned'[v] = None
  PROVE  Survives'
BY DEF Survives

LEMMA OwnAsked ==
  ASSUME StateInv, World', OwnFiles, OwnHolds, Ask
  PROVE  OwnHolds'
<1> DEFINE r == Answer(Chain[call.at], call.op, call.version)
<1>1. IsQuestion(call) /\ call' = AfterAnswer(call, r)
      /\ UNCHANGED <<files, phase, todo, memory, clean>>
  BY DEF Ask
<1>2. World /\ CacheInv /\ CallInv /\ PhaseInv
  BY DEF StateInv
<1>3. /\ call \in Question /\ call.at \in 1 .. Len(Chain) /\ r \in Answers(call.op)
      /\ call.op \in {"load", "exists"} => call.version \in Versions
      /\ call.op \notin {"load", "exists"} => call.version = None
  BY <1>1, <1>2, CallIs, AskAnswers DEF CallInv
<1>4. call.at = 1 => r = Answer("file", call.op, call.version)
  BY DEF OwnFiles
<1>5. \A v \in Versions :
        /\ Stored(files, v) => Answer("file", "load", v) = files[v]
        /\ Stored(files, v) => Answer("file", "exists", v) = files[v]
        /\ Stored(files, v) => v \in Answer("file", "versions", None)
        /\ Stored(files, v) => Answer("file", "names", None) # {}
  BY <1>2, OwnTells
<1>6. call.at = 1 /\ call.op \in {"load", "exists"} /\ Stored(files, call.version) =>
        r = files[call.version]
  BY <1>3, <1>4, <1>5
<1>7. /\ phase = "names" => call.op = "names"
      /\ phase = "versions" => call.op = "versions"
      /\ phase = "pull" => call.op = "load"
      /\ phase = "push" => call.op = "exists"
  BY <1>1, <1>2 DEF PhaseInv, IsQuestion, NoCall
<1>8. /\ \A v \in Versions : pinned'[v] = pinned[v] \/ pinned'[v] = None
      /\ pinned \in Schemas /\ pinned' \in Schemas
      /\ call.op = "latest" /\ IsSave(call') /\ call'.version \in Versions =>
           pinned'[call'.version] = None
  BY <1>2 DEF Ask, World, Schemas
<1>9. IsSave(call') => call'.version \in Versions
  <2>1. CallInv'
    BY <1>1, <1>2, <1>3, CallAnswered DEF Ask
  <2>2. IsSave(call') => call' \in Write
    BY <2>1 DEF CallInv, NoCall, Question, Write, Return, IsSave, Questions
  <2> QED BY <2>2 DEF Write
<1>10. Pin(files, pinned, phase, call) /\ (clean => Match(files, phase, call, todo, memory))
       /\ (clean /\ phase = "up" => Survives)
  BY DEF OwnHolds
<1>11. call.at = 1 /\ call.op \in {"load", "exists"} /\ r = None =>
         ~Stored(files, call.version)
  BY <1>6, BodiesAssumption DEF Stored
<1> HIDE DEF r
<1>12. Pin(files, pinned', phase, call')
  BY <1>1, <1>3, <1>7, <1>8, <1>9, <1>10, <1>11, PinAnswered
<1>13. ASSUME clean PROVE Match(files, phase, call', todo, memory)
  <2>1. call.at > 1 /\ call.op = "load" => ~Stored(files, call.version)
    BY <1>10 DEF Pin
  <2>2. /\ call.at = 1 /\ call.op = "versions" =>
             \A v \in Versions : Stored(files, v) => v \in r
        /\ call.at = 1 /\ call.op = "names" =>
             \A v \in Versions : Stored(files, v) => r # {}
    BY <1>3, <1>4, <1>5
  <2> QED BY <1>1, <1>3, <1>6, <1>7, <1>10, <1>13, <2>1, <2>2, MatchAnswered
<1>14. clean /\ phase = "up" => Survives'
  BY <1>1, <1>8, <1>10, StillServed
<1> QED BY <1>1, <1>12, <1>13, <1>14 DEF OwnHolds

LEMMA OwnAskFails ==
  ASSUME StateInv, OwnFiles, OwnHolds, AskFails
  PROVE  OwnHolds'
<1> DEFINE r == IF Gathers(call.op) THEN {} ELSE None
<1>1. /\ IsQuestion(call) /\ call' = AfterAnswer(call, r) /\ clean' = FALSE
      /\ UNCHANGED <<files, phase, pinned>> /\ call.at # 1
  BY DEF AskFails, OwnFiles, stores
<1>2. World /\ CallInv /\ PhaseInv
  BY DEF StateInv
<1>3. /\ call \in Question /\ call.at \in 1 .. Len(Chain) /\ r \in Answers(call.op)
      /\ call.op \in {"load", "exists"} => call.version \in Versions
  BY <1>1, <1>2, CallIs, NoAnswer DEF CallInv
<1>4. phase = "push" => call.op = "exists"
  BY <1>1, <1>2 DEF PhaseInv, IsQuestion, NoCall
<1>5. call.op = "latest" => ~IsSave(AfterAnswer(call, r))
  <2>1. ASSUME call.op = "latest" PROVE r = None
    BY <2>1 DEF Gathers
  <2> HIDE DEF r
  <2>2. CASE call'.op = call.op
    BY <1>1, <2>2 DEF IsSave
  <2>3. CASE call'.op = "returned"
    BY <1>1, <2>3 DEF IsSave
  <2>4. call.op = "latest" => call'.op = call.op \/ call'.op = "returned"
    BY <1>1, <1>3, <2>1, AfterAnswerIs, ReturnedIs
  <2> QED BY <1>1, <2>2, <2>3, <2>4
<1>6. pinned \in Schemas /\ Pin(files, pinned, phase, call)
  BY <1>2 DEF World, OwnHolds
<1> HIDE DEF r
<1>7. Pin(files, pinned, phase, call')
  BY <1>1, <1>3, <1>4, <1>5, <1>6, PinAnswered
<1> QED BY <1>1, <1>7 DEF OwnHolds

LEMMA OwnSaved ==
  ASSUME StateInv, OwnFiles, OwnHolds, Save
  PROVE  OwnHolds'
<1>1. /\ IsSave(call) /\ call' = AfterSave(call)
      /\ UNCHANGED <<phase, todo, memory, clean, pinned>>
  BY DEF Save
<1>2. World /\ CallInv /\ PhaseInv
  BY DEF StateInv
<1>3. /\ call \in Write /\ call.version \in Versions /\ call.at >= 1
  BY <1>1, <1>2, CallIs DEF CallInv
<1>4. /\ \A v \in Versions \ {call.version} : files'[v] = files[v]
      /\ files'[call.version] = files[call.version] \/ files'[call.version] = call.body
      /\ call.at = 1 => files'[call.version] = call.body
  BY <1>2, <1>3 DEF Save, World, OwnFiles
<1>5. /\ phase \in {"pull", "push", "up"}
      /\ phase = "pull" => call.op = "fill" /\ call.version \in todo /\ call.result = call.body
      /\ phase = "push" => call.op = "save" /\ call.body = memory[call.version]
                           /\ call.result = call.body
  BY <1>1, <1>2 DEF PhaseInv, IsSave, NoCall
<1>6. Pin(files, pinned, phase, call) /\ (clean => Match(files, phase, call, todo, memory))
      /\ (clean /\ phase = "up" => Survives)
  BY DEF OwnHolds
<1>7. Pin(files', pinned, phase, call')
  BY <1>1, <1>3, <1>4, <1>5, <1>6, PinSaved
<1>8. clean => Match(files', phase, call', todo, memory)
  BY <1>1, <1>3, <1>4, <1>5, <1>6, MatchSaved
<1>9. clean /\ phase = "up" => Survives'
  BY <1>1, <1>6, StillServed
<1> QED BY <1>1, <1>7, <1>8, <1>9 DEF OwnHolds

(* A save raises, or the service crashes while it saves.                   *)
LEMMA OwnTorn ==
  ASSUME StateInv, OwnFiles, OwnHolds, SaveRaises \/ Crash
  PROVE  OwnHolds'
<1>1. World /\ CallInv /\ PhaseInv
  BY DEF StateInv
<1>2. files' = files \/ files' \in Torn(call)
  BY DEF SaveRaises, Crash
<1>3. pinned' = pinned
  BY DEF SaveRaises, Crash
<1>4. Pin(files, pinned, phase, call)
  BY DEF OwnHolds
<1>5. CASE SaveRaises
  <2>1. IsSave(call) /\ clean' = FALSE
    BY <1>5 DEF SaveRaises
  <2>2. call \in Write
    BY <1>1, <2>1, CallIs
  <2>3. \A v \in Versions \ {call.version} : files'[v] = files[v]
    BY <1>1, <1>2, TornIs
  <2>4. phase = "push" => call.result = call.body
    BY <1>1, <2>1 DEF PhaseInv, IsSave, NoCall
  <2>5. /\ Pin(files', pinned, phase, AfterSave(call))
        /\ Pin(files', pinned, "up", Returned(call, None))
        /\ Pin(files', pinned, "down", NoCall)
    BY <1>4, <2>1, <2>2, <2>3, <2>4, PinSaved
  <2>6. \/ phase' = "down" /\ call' = NoCall
        \/ phase' = phase /\ call' = AfterSave(call)
        \/ phase' = phase /\ phase = "up" /\ call' = Returned(call, None)
    BY <1>5 DEF SaveRaises, Ends
  <2> QED BY <1>3, <2>1, <2>5, <2>6 DEF OwnHolds
<1>6. CASE Crash
  <2>1. phase' = "down" /\ call' = NoCall
    BY <1>6 DEF Crash, Ends
  <2>2. ASSUME NEW v \in Versions, pinned[v] # None PROVE files'[v] = pinned[v]
    <3>1. files[v] = pinned[v] /\ ~(IsSave(call) /\ v = call.version)
      BY <1>4, <2>2 DEF Pin
    <3> QED BY <1>1, <1>2, <3>1, TornIs
  <2>3. Pin(files', pinned, "down", NoCall)
    BY <2>2 DEF Pin, NoCall, IsSave
  <2> QED BY <1>3, <2>1, <2>3 DEF OwnHolds, Match
<1> QED BY <1>5, <1>6

(* The files stay as they are: pins are at most taken away.                *)
LEMMA PinKept ==
  ASSUME NEW f, NEW pins, NEW less,
         \A v \in Versions : less[v] = pins[v] \/ less[v] = None,
         NEW ph, NEW c, Pin(f, pins, ph, c), NEW qh, NEW d,
         IsSave(d) => less[d.version] = None,
         ~(d.op \in {"load", "exists"} /\ d.at > 1),
         d.op = "returned" => qh # "push"
  PROVE  Pin(f, less, qh, d)
BY DEF Pin

LEMMA NoCallIs == NoCall.op = "none" /\ ~IsSave(NoCall)
BY DEF NoCall, IsSave

(* The steps of the start itself: nothing is stored.                       *)
LEMMA MatchOpened ==
  ASSUME NEW f, World', NEW versions \in SUBSET Versions, Pull(versions),
         \A v \in Versions \ versions : Matches(f, memory', v)
  PROVE  Match(f, phase', call', todo', memory')
<1>1. CASE phase' = "push"
  <2>1. versions = {}
    BY <1>1 DEF Pull
  <2> QED BY <1>1, <2>1 DEF Match
<1>2. CASE phase' = "pull"
  <2>1. todo' = versions /\ call'.op = "load"
    BY <1>2, Opened, AskingIs
  <2> QED BY <1>2, <2>1 DEF Match, PullMatch
<1> QED BY <1>1, <1>2, Opened

LEMMA OwnOpened ==
  ASSUME World', OwnHolds, NEW versions \in SUBSET Versions, Pull(versions),
         UNCHANGED <<files, pinned, clean>>,
         clean => \A v \in Versions \ versions : Matches(files, memory', v)
  PROVE  OwnHolds'
<1>1. call'.op \in {"none", "load"} /\ (call'.op = "load" => call'.at = 1)
      /\ phase' \in {"pull", "push"}
  BY Opened, AskingIs, NoCallIs
<1>2. Pin(files, pinned, phase', call')
  BY <1>1, PinKept DEF OwnHolds, IsSave
<1>3. clean => Match(files, phase', call', todo', memory')
  BY MatchOpened
<1> QED BY <1>1, <1>2, <1>3 DEF OwnHolds

LEMMA OwnPhases ==
  ASSUME StateInv, World', OwnFiles, OwnHolds,
         Start \/ ListVersions \/ ToPull \/ Pulled \/ PushNext \/ Pushed
  PROVE  OwnHolds'
<1>1. World /\ CallInv /\ PhaseInv
  BY DEF StateInv
<1>2. Pin(files, pinned, phase, call) /\ (clean => Match(files, phase, call, todo, memory))
  BY DEF OwnHolds
<1>3. UNCHANGED <<files, pinned>>
  BY DEF Start, ListVersions, ToPull, Pulled, PushNext, Pushed, stores
<1>4. CASE Start
  <2>1. phase' = "names" /\ call'.op = "names" /\ call'.at = 1
    BY <1>4, AskingIs DEF Start, Calls
  <2>2. Pin(files, pinned, phase', call')
    BY <1>2, <2>1, PinKept DEF IsSave
  <2>3. Match(files, phase', call', todo', memory')
    BY <2>1 DEF Match, NamesMatch
  <2> QED BY <1>3, <2>1, <2>2, <2>3 DEF OwnHolds
<1>5. CASE ListVersions
  <2>1. call.op = "returned" /\ clean' = clean /\ (clean => NamesMatch(files, call))
    BY <1>2, <1>5 DEF ListVersions, Match
  <2>2. CASE call.result = {}
    <3>1. phase' = "push" /\ call' = NoCall
      BY <1>5, <2>2 DEF ListVersions, PushAll, Calls
    <3>2. Pin(files, pinned, phase', call')
      BY <1>2, <3>1, NoCallIs, PinKept
    <3>3. clean => Match(files, phase', call', todo', memory')
      BY <2>1, <2>2, <3>1 DEF NamesMatch, Match, Matches
    <3> QED BY <1>3, <2>1, <3>1, <3>2, <3>3 DEF OwnHolds
  <2>3. CASE call.result # {}
    <3>1. phase' = "versions" /\ call'.op = "versions" /\ call'.at = 1
      BY <1>5, <2>3, AskingIs DEF ListVersions, Calls
    <3>2. Pin(files, pinned, phase', call')
      BY <1>2, <3>1, PinKept DEF IsSave
    <3>3. Match(files, phase', call', todo', memory')
      BY <3>1 DEF Match, VersionsMatch
    <3> QED BY <1>3, <2>1, <3>1, <3>2, <3>3 DEF OwnHolds
  <2> QED BY <2>2, <2>3
<1>6. CASE ToPull
  <2>1. /\ call.op = "returned" /\ clean' = clean /\ Pull(call.result)
        /\ clean => VersionsMatch(files, call)
    BY <1>2, <1>6 DEF ToPull, Match
  <2>2. call.result \in SUBSET Versions
    BY <1>1, <1>6 DEF ToPull, PhaseInv
  <2>3. clean => \A v \in Versions \ call.result : Matches(files, memory', v)
    BY <2>1 DEF VersionsMatch, Matches
  <2> QED BY <1>3, <2>1, <2>2, <2>3, OwnOpened
<1>7. CASE Pulled
  <2>1. /\ call.op = "returned" /\ clean' = clean /\ Pull(todo \ {call.version})
        /\ clean => PullMatch(files, call, todo, memory)
        /\ memory' = IF call.result = None THEN memory
                     ELSE [memory EXCEPT ![call.version] = call.result]
    BY <1>2, <1>7 DEF Pulled, Match
  <2>2. todo \ {call.version} \in SUBSET Versions /\ call.version \in Versions
    BY <1>1, <1>7 DEF Pulled, PhaseInv
  <2>3. ASSUME clean, NEW v \in Versions \ (todo \ {call.version})
        PROVE  Matches(files, memory', v)
    <3>1. CASE v = call.version
      <4>1. ASSUME Stored(files, v) PROVE memory'[v] = files[v]
        <5>1. call.result = files[v] /\ call.result # None
          BY <2>1, <2>3, <3>1, <4>1, BodiesAssumption DEF PullMatch, Stored
        <5> QED BY <1>1, <2>1, <3>1, <5>1 DEF World, Schemas
      <4> QED BY <4>1 DEF Matches
    <3>2. CASE v # call.version
      <4>1. memory'[v] = memory[v]
        BY <1>1, <2>1, <3>2 DEF World, Schemas
      <4> QED BY <2>1, <2>3, <3>2, <4>1 DEF PullMatch, Matches
    <3> QED BY <3>1, <3>2
  <2> QED BY <1>3, <2>1, <2>2, <2>3, OwnOpened
<1>8. CASE PushNext
  <2>1. UNCHANGED <<phase, todo, memory, clean>> /\ phase = "push"
        /\ call'.op = "exists" /\ call'.at = 1
    BY <1>8, AskingIs DEF PushNext, Calls
  <2>2. Pin(files, pinned, phase', call')
    BY <1>2, <2>1, PinKept DEF IsSave
  <2>3. clean => Match(files, phase', call', todo', memory')
    BY <1>2, <2>1 DEF Match
  <2> QED BY <1>3, <2>1, <2>2, <2>3 DEF OwnHolds
<1>9. CASE Pushed
  <2>1. UNCHANGED <<phase, memory, clean>> /\ phase = "push" /\ call.op = "returned"
    BY <1>9 DEF Pushed
  <2>2. clean => Match(files, phase', call', todo', memory')
    BY <1>2, <2>1 DEF Match
  <2>3. Pin(files, pinned, phase', call')
    <3>1. CASE call.result = None
      <4>1. call' = Saving(call.version, memory[call.version], Len(Chain))
        BY <1>9, <3>1 DEF Pushed, Calls
      <4>2. call'.op = "save" /\ call'.version = call.version
        BY <4>1 DEF Saving
      <4>3. call.version \in Versions
        BY <1>1, <2>1 DEF PhaseInv, NoCall
      <4>4. pinned[call.version] = None
        BY <1>1, <1>2, <2>1, <3>1, <4>3 DEF Pin, Stored, World, Schemas
      <4> QED BY <1>2, <2>1, <4>2, <4>4, PinKept
    <3>2. CASE call.result # None
      <4>1. call' = NoCall
        BY <1>9, <3>2 DEF Pushed, Calls
      <4> QED BY <1>2, <4>1, NoCallIs, PinKept
    <3> QED BY <3>1, <3>2
  <2> QED BY <1>3, <2>1, <2>2, <2>3 DEF OwnHolds
<1> QED BY <1>4, <1>5, <1>6, <1>7, <1>8, <1>9

(* What is served is stored, and is what the file says: it can be pinned.  *)
LEMMA OwnServed ==
  ASSUME StateInv, SyncInv, OwnFiles, OwnHolds, Serve
  PROVE  OwnHolds'
<1>1. World /\ PhaseInv
  BY DEF StateInv
<1>2. /\ phase = "push" /\ todo = {} /\ call = NoCall /\ phase' = "up"
      /\ UNCHANGED <<files, memory, call, clean>>
      /\ pinned' = IF clean THEN [v \in Versions |-> IF pinned[v] = None THEN memory[v]
                                                     ELSE pinned[v]]
                   ELSE pinned
  BY DEF Serve, stores
<1>3. Pin(files, pinned, phase, call) /\ (clean => Match(files, phase, call, todo, memory))
  BY DEF OwnHolds
<1>4. ASSUME clean, NEW v \in Versions, pinned'[v] # None
      PROVE  files[v] = pinned'[v] /\ memory[v] = pinned'[v]
  <2>1. Matches(files, memory, v)
    BY <1>2, <1>3, <1>4 DEF Match
  <2>2. CASE pinned[v] # None
    <3>1. files[v] = pinned[v] /\ Stored(files, v)
      BY <1>1, <1>3, <2>2 DEF Pin, World, Schemas, Stored
    <3> QED BY <1>2, <1>4, <2>1, <2>2, <3>1 DEF Matches
  <2>3. CASE pinned[v] = None
    <3>1. pinned'[v] = memory[v] /\ v \in Known(memory)
      BY <1>2, <1>4, <2>3 DEF Known
    <3>2. WritableFirst
      BY DEF OwnFiles, WritableFirst
    <3>3. v \in Held[1]
      BY <1>2, <1>4, <3>1, <3>2 DEF SyncInv, Sync, PushSync
    <3>4. FileLoad(v) # None
      BY <1>1, <3>3, HeldIs DEF HeldBy, OwnFiles
    <3>5. Stored(files, v)
      BY <1>1, <3>4 DEF FileLoad, FlatSeen, OwnFiles, Stored, World
    <3> QED BY <2>1, <3>1, <3>5 DEF Matches
  <2> QED BY <2>2, <2>3
<1>5. \A v \in Versions : pinned'[v] # None => files[v] = pinned'[v]
  <2>1. CASE clean
    BY <1>4, <2>1
  <2>2. CASE ~clean
    BY <1>2, <1>3, <2>2 DEF Pin
  <2> QED BY <2>1, <2>2
<1>6. Pin(files, pinned', "up", NoCall)
  BY <1>5, NoCallIs DEF Pin
<1>7. clean => Survives'
  BY <1>2, <1>4 DEF Survives
<1> QED BY <1>2, <1>6, <1>7 DEF OwnHolds, Match

(* The application's calls, a stop, and what the others do.                *)
LEMMA OwnElsewhere ==
  ASSUME StateInv, OwnFiles, OwnHolds,
         CallChain \/ CallReturns \/ Stop \/ EditFlat \/ Publish \/ OtherSaves \/ Tick
  PROVE  OwnHolds'
<1> USE DEF others, stores, service
<1>1. World /\ PhaseInv
  BY DEF StateInv
<1>2. /\ Pin(files, pinned, phase, call)
      /\ clean => Match(files, phase, call, todo, memory)
      /\ clean /\ phase = "up" => Survives
  BY DEF OwnHolds
<1>3. CASE CallChain
  <2>1. phase = "up" /\ UNCHANGED <<phase, files, memory, clean>>
    BY <1>3 DEF CallChain
  <2>2. \A v \in Versions : pinned'[v] = pinned[v] \/ pinned'[v] = None
    BY <1>1, <1>3 DEF CallChain, World, Schemas
  <2>3. CASE \E op \in Questions : \E v : call' = Asking(op, v)
    <3>1. call'.op \in Questions /\ call'.at = 1
      BY <2>3, AskingIs
    <3>2. Pin(files, pinned', phase', call')
      BY <1>2, <2>1, <2>2, <3>1, PinKept DEF IsSave, Questions
    <3> QED BY <1>2, <2>1, <2>2, <3>2, StillServed DEF OwnHolds, Match
  <2>4. CASE \E v \in Versions, b \in Bodies :
               call' = Saving(v, b, Len(Chain)) /\ pinned' = [pinned EXCEPT ![v] = None]
    <3>1. PICK v \in Versions, b \in Bodies :
            call' = Saving(v, b, Len(Chain)) /\ pinned' = [pinned EXCEPT ![v] = None]
      BY <2>4
    <3>2. call'.op = "save" /\ call'.version = v
      BY <3>1 DEF Saving
    <3>3. pinned'[v] = None
      BY <1>1, <3>1 DEF World, Schemas
    <3>4. Pin(files, pinned', phase', call')
      BY <1>2, <2>1, <2>2, <3>2, <3>3, PinKept
    <3> QED BY <1>2, <2>1, <2>2, <3>4, StillServed DEF OwnHolds, Match
  <2> QED BY <1>3, <2>3, <2>4 DEF CallChain, Calls, Questions
<1>4. CASE CallReturns
  <2>1. phase = "up" /\ call' = NoCall /\ UNCHANGED <<phase, files, memory, clean, pinned>>
    BY <1>4 DEF CallReturns, Calls
  <2>2. Pin(files, pinned', phase', call')
    BY <1>2, <2>1, NoCallIs, PinKept
  <2> QED BY <1>2, <2>1, <2>2, StillServed DEF OwnHolds, Match
<1>5. CASE Stop
  <2>1. phase' = "down" /\ call' = NoCall /\ UNCHANGED <<files, pinned>>
    BY <1>5 DEF Stop, Ends
  <2>2. Pin(files, pinned', phase', call')
    BY <1>2, <2>1, NoCallIs, PinKept
  <2> QED BY <2>1, <2>2 DEF OwnHolds, Match
<1>6. CASE EditFlat \/ Publish \/ OtherSaves \/ Tick
  <2>1. UNCHANGED <<files, phase, call, todo, memory>>
    <3>1. CASE EditFlat
      BY <3>1 DEF EditFlat
    <3>2. CASE Publish
      BY <3>2 DEF Publish
    <3>3. CASE OtherSaves
      BY <3>3 DEF OtherSaves
    <3>4. CASE Tick
      BY <3>4 DEF Tick
    <3> QED BY <1>6, <3>1, <3>2, <3>3, <3>4
  <2>2. clean' => clean
    <3>1. EditFlat /\ clean' => clean
      BY ElsewhereIs, Zenon DEF EditFlat
    <3>2. Publish /\ clean' => clean
      BY PublishElsewhere DEF Publish
    <3>3. OtherSaves /\ clean' => clean
      BY ElsewhereIs, Zenon DEF OtherSaves
    <3>4. Tick /\ clean' => clean
      BY DEF Tick
    <3> QED BY <1>6, <3>1, <3>2, <3>3, <3>4
  <2>3. \A v \in Versions : pinned'[v] = pinned[v] \/ pinned'[v] = None
    <3>1. EditFlat => pinned' = pinned
      BY DEF EditFlat
    <3>2. Publish => pinned' = pinned
      BY DEF Publish
    <3>3. Tick => pinned' = pinned
      BY DEF Tick
    <3>4. OtherSaves => \E v : pinned' = [pinned EXCEPT ![v] = None]
      BY DEF OtherSaves
    <3> QED BY <1>1, <1>6, <3>1, <3>2, <3>3, <3>4 DEF World, Schemas
  <2>4. Pin(files, pinned', phase, call)
    <3>1. \A v \in Versions : pinned'[v] # None => files[v] = pinned'[v]
      BY <1>2, <2>3 DEF Pin
    <3>2. IsSave(call) => pinned'[call.version] = None
      <4>1. IsSave(call) => call.version \in Versions
        BY CallIs DEF StateInv
      <4> QED BY <1>2, <2>3, <4>1 DEF Pin
    <3> QED BY <1>2, <3>1, <3>2 DEF Pin
  <2>5. clean' => Match(files, phase, call, todo, memory)
    BY <1>2, <2>2
  <2>6. clean' /\ phase = "up" => Survives'
    BY <1>2, <2>1, <2>2, <2>3, StillServed
  <2> QED BY <2>1, <2>4, <2>5, <2>6 DEF OwnHolds
<1> QED BY <1>3, <1>4, <1>5, <1>6

LEMMA OwnStep ==
  ASSUME StateInv, StateInv', SyncInv, OwnInv, Next
  PROVE  OwnInv'
<1> SUFFICES ASSUME OwnFiles' PROVE OwnHolds'
  BY DEF OwnInv, OwnHolds
<1>1. OwnFiles
  BY DeploymentStays DEF OwnFiles, Chain
<1>2. OwnHolds /\ World'
  BY <1>1 DEF OwnInv, OwnHolds, StateInv
<1> QED BY <1>1, <1>2, OwnAsked, OwnAskFails, OwnSaved, OwnTorn, OwnPhases, OwnServed,
           OwnElsewhere DEF Next

LEMMA OwnKept ==
  ASSUME OwnInv, UNCHANGED vars
  PROVE  OwnInv'
<1>1. UNCHANGED <<deployment, files, memory, phase, todo, call, clean, pinned>>
  BY DEF vars, others, stores, service
<1>2. (OwnFiles' <=> OwnFiles) /\ (Survives' <=> Survives)
  BY <1>1 DEF OwnFiles, Chain, Survives
<1> QED BY <1>1, <1>2 DEF OwnInv

(* What was served after a start without failures is served after every    *)
(* later one, with the same body: only a save of the application, or of    *)
(* another service, or a load_latest that fills, may change it.            *)
THEOREM SurvivesRestartCorrect == Spec => []SurvivesRestart
<1>1. Init => OwnInv
  <2>1. Init => Pin(files, pinned, phase, call)
    BY NothingIs, NoCallIs DEF Init, Pin
  <2> QED BY <2>1 DEF Init, OwnInv, Match
<1>2. StateInv /\ StateInv' /\ SyncInv /\ OwnInv /\ [Next]_vars => OwnInv'
  BY OwnStep, OwnKept
<1>3. OwnInv => SurvivesRestart
  BY DEF OwnInv, OwnFiles, Survives, SurvivesRestart
<1>4. Spec => [](StateInv /\ SyncInv)
  BY SyncIsInvariant
<1> QED BY <1>1, <1>2, <1>3, <1>4, PTL DEF Spec

=============================================================================
