---------------------------- MODULE Front_proofs ----------------------------
(***************************************************************************)
(* Proofs about Front: which handler runs, what runs at all, and what is   *)
(* shown, for every application, request and order of the declarations.    *)
(*                                                                         *)
(* The first lemmas are about its operators.  The sort of the filters and  *)
(* of the hooks ranks the members of a finite set by a strict total order, *)
(* and so leaves none out (Ranked, Sorted, Emitted); the key under which   *)
(* a handler is found is the most specific that fits, and the last that    *)
(* was declared under it is kept (ResolvedIsBest); a filter adds no field  *)
(* to a response and makes no failure a success (ResponseKeeps).           *)
(*                                                                         *)
(* The invariant, IInv, is about what a request carries at each place of   *)
(* its way: the context is what the filters behind it took of the request  *)
(* (ContextInv), every hook that was called and fires let it pass          *)
(* (StepsInv), what ran was chosen for it (RunInv) and let pass by all     *)
(* guards (GuardInv), and once the projection, the first filter on the way *)
(* back, had its turn, no field is there that is not allowed (ShowInv).    *)
(*                                                                         *)
(* Its last parts are about an answer and the one that a client holds,     *)
(* which came through the same filters (WayInv, HeldInv): a tag tells what *)
(* it was made of.  If both requests ask for the same view, the two        *)
(* answers, filter by filter side by side, differ in the version at most   *)
(* (BothInv).                                                              *)
(***************************************************************************)
EXTENDS Front, FiniteSetTheorems, TLAPS

(* R is a strict total order of the members of S.                          *)
Orders(R, S) ==
  \A x, y \in S :
    /\ <<x, y>> \in R => <<y, x>> \notin R
    /\ x # y => <<x, y>> \in R \/ <<y, x>> \in R
    /\ \A z \in S : <<x, y>> \in R /\ <<y, z>> \in R => <<x, z>> \in R

Below(R, S, x) == {y \in S : <<y, x>> \in R}

LEMMA NumbersOrder ==
  ASSUME NEW S, NEW R, NEW v, \A x \in S : v[x] \in Int,
         \A x, y \in S : <<x, y>> \in R <=> v[x] < v[y],
         \A x, y \in S : v[x] = v[y] => x = y
  PROVE  Orders(R, S)
<1>1. ASSUME NEW x \in S, NEW y \in S
      PROVE  <<x, y>> \in R => <<y, x>> \notin R
  <2>1. ~(v[x] < v[y] /\ v[y] < v[x])
    OBVIOUS
  <2> QED BY <2>1, Zenon
<1>2. ASSUME NEW x \in S, NEW y \in S, x # y
      PROVE  <<x, y>> \in R \/ <<y, x>> \in R
  <2>1. v[x] < v[y] \/ v[y] < v[x]
    BY <1>2
  <2> QED BY <2>1, Zenon
<1>3. ASSUME NEW x \in S, NEW y \in S, NEW z \in S
      PROVE  <<x, y>> \in R /\ <<y, z>> \in R => <<x, z>> \in R
  <2>1. v[x] < v[y] /\ v[y] < v[z] => v[x] < v[z]
    OBVIOUS
  <2> QED BY <2>1, Zenon
<1> QED BY <1>1, <1>2, <1>3, Zenon DEF Orders

LEMMA RankIsBounded ==
  ASSUME NEW S, IsFiniteSet(S), NEW R, Orders(R, S), NEW x \in S
  PROVE  /\ IsFiniteSet(Below(R, S, x))
         /\ Cardinality(Below(R, S, x)) \in 0 .. Cardinality(S) - 1
<1>1. x \in S \ Below(R, S, x) /\ Below(R, S, x) \subseteq S
  BY DEF Orders, Below
<1>2. Below(R, S, x) # S
  BY <1>1
<1> QED
  BY <1>1, <1>2, FS_Subset, FS_CardinalityType

LEMMA RankTellsApart ==
  ASSUME NEW S, IsFiniteSet(S), NEW R, Orders(R, S), NEW x \in S, NEW y \in S,
         Cardinality(Below(R, S, x)) = Cardinality(Below(R, S, y))
  PROVE  x = y
<1>1. ASSUME NEW a \in S, NEW b \in S, <<a, b>> \in R
      PROVE  Cardinality(Below(R, S, a)) < Cardinality(Below(R, S, b))
  <2>1. Below(R, S, a) \subseteq Below(R, S, b)
    BY <1>1 DEF Orders, Below
  <2>2. a \in Below(R, S, b) \ Below(R, S, a)
    BY <1>1 DEF Orders, Below
  <2>3. IsFiniteSet(Below(R, S, b)) /\ Below(R, S, a) # Below(R, S, b)
    BY <2>2, RankIsBounded
  <2> QED
    BY <2>1, <2>3, FS_Subset, FS_CardinalityType
<1>2. Cardinality(Below(R, S, x)) \in Int /\ Cardinality(Below(R, S, y)) \in Int
  BY RankIsBounded
<1>3. <<x, y>> \notin R
  BY <1>1, <1>2
<1>4. <<y, x>> \notin R
  BY <1>1, <1>2
<1> QED
  BY <1>3, <1>4 DEF Orders

(* A sequence of members by their ranks takes all of them.                 *)
Ranks(s, R, S) ==
  \A n \in 1 .. Cardinality(S), x \in S :
    Cardinality(Below(R, S, x)) = n - 1
      => s[n] \in S /\ Cardinality(Below(R, S, s[n])) = n - 1

LEMMA RankedTakesAll ==
  ASSUME NEW S, IsFiniteSet(S), NEW R, Orders(R, S), NEW s, Ranks(s, R, S), NEW x \in S
  PROVE  /\ Cardinality(Below(R, S, x)) + 1 \in 1 .. Cardinality(S)
         /\ s[Cardinality(Below(R, S, x)) + 1] = x
<1>1. PICK k \in 0 .. Cardinality(S) - 1 : Cardinality(Below(R, S, x)) = k
  BY RankIsBounded
<1>2. Cardinality(S) \in Nat
  BY FS_CardinalityType
<1>3. k + 1 \in 1 .. Cardinality(S) /\ (k + 1) - 1 = k
  BY <1>1, <1>2
<1>4. s[k + 1] \in S /\ Cardinality(Below(R, S, s[k + 1])) = k
  BY <1>1, <1>3 DEF Ranks
<1>5. s[k + 1] = x
  BY <1>1, <1>4, RankTellsApart
<1> QED BY <1>1, <1>3, <1>5

LEMMA FilterNamesType ==
  /\ FilterNames = {"headers", "rego", "version", "auth", "negotiation", "etag", "envelope", "projection"}
  /\ IsFiniteSet(FilterNames)
<1>1. FilterNames = {"headers", "rego", "version", "auth", "negotiation", "etag", "envelope", "projection"}
  BY DEF FilterNames, Order
<1>2. \A S, x : IsFiniteSet(S) => IsFiniteSet(S \cup {x})
  BY FS_AddElement
<1>3. IsFiniteSet({} \cup {"headers"} \cup {"rego"} \cup {"version"} \cup {"auth"})
  BY <1>2, FS_EmptySet, Zenon
<1>4. IsFiniteSet({} \cup {"headers"} \cup {"rego"} \cup {"version"} \cup {"auth"}
                     \cup {"negotiation"} \cup {"etag"} \cup {"envelope"} \cup {"projection"})
  BY <1>2, <1>3, Zenon
<1>5. FilterNames = {} \cup {"headers"} \cup {"rego"} \cup {"version"} \cup {"auth"}
                     \cup {"negotiation"} \cup {"etag"} \cup {"envelope"} \cup {"projection"}
  BY <1>1
<1> QED BY <1>1, <1>4, <1>5

FilterOrder == {p \in FilterNames \X FilterNames : Order[p[1]] < Order[p[2]]}

LEMMA FilterOrderOrders ==
  ASSUME NEW S \in SUBSET FilterNames
  PROVE  Orders(FilterOrder, S)
<1>1. \A f \in FilterNames : Order[f] \in Nat
  BY FilterNamesType DEF Order
<1>2. \A f, g \in FilterNames : f # g => Order[f] # Order[g]
  <2> SUFFICES ASSUME NEW f \in FilterNames, NEW g \in FilterNames, Order[f] = Order[g]
               PROVE  f = g
    OBVIOUS
  <2> QED BY FilterNamesType DEF Order
<1>3. \A f, g \in S : <<f, g>> \in FilterOrder <=> Order[f] < Order[g]
  BY DEF FilterOrder
<1>4. \A f \in S : Order[f] \in Int
  BY <1>1
<1>5. \A f, g \in S : Order[f] = Order[g] => f = g
  BY <1>2
<1> QED BY <1>3, <1>4, <1>5, NumbersOrder

LEMMA SortedRanks ==
  ASSUME NEW S \in SUBSET FilterNames
  PROVE  /\ IsFiniteSet(S) /\ Orders(FilterOrder, S) /\ Cardinality(S) \in Nat
         /\ Ranks(Sorted(S), FilterOrder, S)
<1>1. IsFiniteSet(S) /\ Orders(FilterOrder, S) /\ Cardinality(S) \in Nat
  BY FilterNamesType, FilterOrderOrders, FS_Subset, FS_CardinalityType
<1>2. ASSUME NEW n \in 1 .. Cardinality(S), NEW x \in S, Cardinality(Below(FilterOrder, S, x)) = n - 1
      PROVE  /\ Sorted(S)[n] \in S
             /\ Cardinality(Below(FilterOrder, S, Sorted(S)[n])) = n - 1
  <2> DEFINE P(y) == Cardinality({g \in S : Order[g] < Order[y]}) = n - 1
  <2>1. \A y \in S : {g \in S : Order[g] < Order[y]} = Below(FilterOrder, S, y)
    BY DEF Below, FilterOrder
  <2>2. P(x)
    BY <1>2, <2>1
  <2>3. Sorted(S)[n] = CHOOSE y \in S : P(y)
    BY DEF Sorted
  <2>4. Sorted(S)[n] \in S /\ P(Sorted(S)[n])
    <3> HIDE DEF P
    <3> QED BY <2>2, <2>3
  <2> QED BY <2>1, <2>4
<1>3. Ranks(Sorted(S), FilterOrder, S)
  BY <1>2 DEF Ranks
<1> QED BY <1>1, <1>3

(* Every filter of an application has its turn, projection as the last.    *)
LEMMA SortedTakesAll ==
  ASSUME NEW S \in SUBSET FilterNames, NEW f \in S
  PROVE  /\ \E n \in 1 .. Cardinality(S) : Sorted(S)[n] = f
         /\ f = "projection" => Sorted(S)[Cardinality(S)] = f
<1>1. IsFiniteSet(S) /\ Orders(FilterOrder, S) /\ Cardinality(S) \in Nat
  BY SortedRanks
<1>3. Ranks(Sorted(S), FilterOrder, S)
  BY SortedRanks
<1>4. /\ Cardinality(Below(FilterOrder, S, f)) + 1 \in 1 .. Cardinality(S)
      /\ Sorted(S)[Cardinality(Below(FilterOrder, S, f)) + 1] = f
  BY <1>1, <1>3, RankedTakesAll
<1>5. ASSUME f = "projection" PROVE Sorted(S)[Cardinality(S)] = f
  <2>1. \A g \in S : g # f => Order[g] < Order[f]
    BY <1>5, FilterNamesType DEF Order
  <2>2. Order[f] \in Int
    BY <1>5 DEF Order
  <2>3. Below(FilterOrder, S, f) = S \ {f}
    BY <2>1, <2>2 DEF Below, FilterOrder
  <2>4. Cardinality(Below(FilterOrder, S, f)) = Cardinality(S) - 1
    BY <1>1, <2>3, FS_RemoveElement
  <2> QED BY <1>1, <1>4, <2>4
<1> QED BY <1>4, <1>5

LEMMA EveryRankIsTaken ==
  ASSUME NEW S, IsFiniteSet(S), NEW R, Orders(R, S), NEW n \in 1 .. Cardinality(S)
  PROVE  \E x \in S : Cardinality(Below(R, S, x)) = n - 1
<1> DEFINE T == 0 .. Cardinality(S) - 1
           rank == [x \in S |-> Cardinality(Below(R, S, x))]
<1>1. Cardinality(S) \in Nat
  BY FS_CardinalityType
<1>2. rank \in [S -> T]
  BY RankIsBounded
<1>3. \A x, y \in S : rank[x] = rank[y] => x = y
  BY RankTellsApart
<1>4. rank \in Injection(S, T)
  BY <1>2, <1>3 DEF Injection, IsInjective
<1>5. IsFiniteSet(T) /\ Cardinality(T) = Cardinality(S)
  <2>1. 0 \in Int /\ Cardinality(S) - 1 \in Int
    BY <1>1
  <2>2. /\ IsFiniteSet(T)
        /\ Cardinality(T) = IF 0 > Cardinality(S) - 1 THEN 0 ELSE (Cardinality(S) - 1) - 0 + 1
    BY <2>1, FS_Interval, Zenon
  <2> QED BY <1>1, <2>2
<1>6. rank \in Surjection(S, T)
  <2> HIDE DEF rank, T
  <2> QED BY <1>4, <1>5, FS_Injection
<1>7. n - 1 \in T
  BY <1>1
<1>8. PICK x \in S : rank[x] = n - 1
  BY <1>6, <1>7 DEF Surjection
<1>9. Cardinality(Below(R, S, x)) = n - 1
  BY <1>8
<1> QED BY <1>9

LEMMA RankedAreMembers ==
  ASSUME NEW S, IsFiniteSet(S), NEW R, Orders(R, S), NEW s, Ranks(s, R, S),
         NEW n \in 1 .. Cardinality(S)
  PROVE  s[n] \in S
BY EveryRankIsTaken DEF Ranks

-----------------------------------------------------------------------------
(* The hooks of an event are called kind by kind, and none is lost.        *)
DeclaredBefore(declared) ==
  {p \in (DOMAIN declared) \X (DOMAIN declared) : Precedes(declared, p[1], p[2])}

LEMMA DeclaredBeforeIs ==
  ASSUME NEW declared, NEW i \in DOMAIN declared, NEW j \in DOMAIN declared
  PROVE  <<i, j>> \in DeclaredBefore(declared) <=> Precedes(declared, i, j)
BY DEF DeclaredBefore

LEMMA DeclaredBeforeOrders ==
  ASSUME NEW declared \in Seq(Declarations), NEW S \in SUBSET DOMAIN declared,
         \A i \in S : declared[i].kind # "handler"
  PROVE  IsFiniteSet(S) /\ Orders(DeclaredBefore(declared), S)
<1> DEFINE kind(i) == HookKinds[declared[i].kind]
<1>1. DOMAIN declared = 1 .. Len(declared) /\ Len(declared) \in Nat
  OBVIOUS
<1>2. IsFiniteSet(S)
  <2>1. 1 \in Int /\ Len(declared) \in Int
    BY <1>1
  <2>2. IsFiniteSet(1 .. Len(declared))
    BY <2>1, FS_Interval, Zenon
  <2> QED BY <1>1, <2>2, FS_Subset, Zenon
<1>3. \A i \in S : i \in Int /\ kind(i) \in Int
  <2> SUFFICES ASSUME NEW i \in S PROVE i \in Int /\ kind(i) \in Int
    OBVIOUS
  <2>1. declared[i] \in Declarations
    OBVIOUS
  <2>2. declared[i].kind \in {"guard", "validate", "before", "after", "on"}
    BY <2>1 DEF Declarations
  <2> QED BY <1>1, <2>2 DEF HookKinds
<1>4. \A i, j \in S : <<i, j>> \in DeclaredBefore(declared)
                         <=> kind(i) < kind(j) \/ (kind(i) = kind(j) /\ i < j)
  <2> SUFFICES ASSUME NEW i \in S, NEW j \in S
               PROVE  <<i, j>> \in DeclaredBefore(declared)
                         <=> kind(i) < kind(j) \/ (kind(i) = kind(j) /\ i < j)
    BY Zenon
  <2>1. <<i, j>> \in DeclaredBefore(declared) <=> Precedes(declared, i, j)
    BY DeclaredBeforeIs
  <2> QED BY <2>1 DEF Precedes
<1> HIDE DEF kind
<1>5. ASSUME NEW x \in S, NEW y \in S
      PROVE  <<x, y>> \in DeclaredBefore(declared) => <<y, x>> \notin DeclaredBefore(declared)
  <2>1. x \in Int /\ y \in Int /\ kind(x) \in Int /\ kind(y) \in Int
    BY <1>3
  <2> QED BY <1>4, <2>1
<1>6. ASSUME NEW x \in S, NEW y \in S, x # y
      PROVE  <<x, y>> \in DeclaredBefore(declared) \/ <<y, x>> \in DeclaredBefore(declared)
  <2>1. x \in Int /\ y \in Int /\ kind(x) \in Int /\ kind(y) \in Int
    BY <1>3
  <2> QED BY <1>4, <1>6, <2>1
<1>7. ASSUME NEW x \in S, NEW y \in S, NEW z \in S,
             <<x, y>> \in DeclaredBefore(declared), <<y, z>> \in DeclaredBefore(declared)
      PROVE  <<x, z>> \in DeclaredBefore(declared)
  <2>1. x \in Int /\ y \in Int /\ z \in Int /\ kind(x) \in Int /\ kind(y) \in Int /\ kind(z) \in Int
    BY <1>3
  <2> QED BY <1>4, <1>7, <2>1
<1>8. Orders(DeclaredBefore(declared), S)
  BY <1>5, <1>6, <1>7, Zenon DEF Orders
<1> QED BY <1>2, <1>8

(* What the bus holds after the start.                                     *)
LEMMA HooksAreRegistered ==
  ASSUME NEW declared \in Seq(Declarations), NEW e \in Events, NEW s \in {"own", "*"}
  PROVE  LET hooks == ApplyHooks(NoHooks, declared)[e][s]
         IN  /\ hooks \in Seq(HooksOf(declared, e, s))
             /\ \A i \in HooksOf(declared, e, s) : \E n \in DOMAIN hooks : hooks[n] = i
<1> DEFINE S == HooksOf(declared, e, s)
           R == DeclaredBefore(declared)
           rank(i) == Cardinality({j \in S : Precedes(declared, j, i)})
           hooks == [n \in 1 .. Cardinality(S) |-> CHOOSE i \in S : rank(i) = n - 1]
<1>1. S \in SUBSET DOMAIN declared /\ \A i \in S : declared[i].kind # "handler"
  BY DEF HooksOf
<1>2. IsFiniteSet(S) /\ Orders(R, S) /\ Cardinality(S) \in Nat
  BY <1>1, DeclaredBeforeOrders, FS_CardinalityType
<1>3. ApplyHooks(NoHooks, declared)[e][s] = << >> \o hooks
  BY DEF ApplyHooks, NoHooks
<1>4. \A i \in S : rank(i) = Cardinality(Below(R, S, i))
  <2> SUFFICES ASSUME NEW i \in S PROVE {j \in S : Precedes(declared, j, i)} = Below(R, S, i)
    OBVIOUS
  <2> HIDE DEF S
  <2> QED BY <1>1, DeclaredBeforeIs DEF Below
<1>5. ASSUME NEW n \in 1 .. Cardinality(S), NEW i \in S, Cardinality(Below(R, S, i)) = n - 1
      PROVE  hooks[n] \in S /\ Cardinality(Below(R, S, hooks[n])) = n - 1
  <2> DEFINE P(j) == rank(j) = n - 1
  <2>1. P(i)
    BY <1>4, <1>5
  <2>2. hooks[n] = CHOOSE j \in S : P(j)
    OBVIOUS
  <2>3. hooks[n] \in S /\ P(hooks[n])
    <3> HIDE DEF P, hooks, S
    <3> QED BY <2>1, <2>2
  <2> QED BY <1>4, <2>3
<1>6. DOMAIN hooks = 1 .. Cardinality(S) /\ hooks = [n \in 1 .. Cardinality(S) |-> hooks[n]]
  <2> DEFINE nth(n) == CHOOSE i \in S : rank(i) = n - 1
  <2>1. hooks = [n \in 1 .. Cardinality(S) |-> nth(n)]
    OBVIOUS
  <2> HIDE DEF nth, hooks, S
  <2> QED BY <2>1
<1> HIDE DEF hooks, rank, S, R
<1>7. Ranks(hooks, R, S)
  BY <1>5 DEF Ranks
<1>8. hooks \in Seq(S)
  <2>1. \A n \in 1 .. Cardinality(S) : hooks[n] \in S
    BY <1>2, <1>7, RankedAreMembers
  <2>2. hooks \in [1 .. Cardinality(S) -> S]
    BY <1>6, <2>1
  <2> QED BY <1>2, <2>2
<1>9. << >> \o hooks = hooks
  BY <1>8
<1>10. \A i \in S : \E n \in DOMAIN hooks : hooks[n] = i
  BY <1>2, <1>6, <1>7, RankedTakesAll
<1> QED BY <1>3, <1>8, <1>9, <1>10 DEF S

-----------------------------------------------------------------------------
(* Which handler is found.                                                 *)
LEMMA GreatestExists ==
  ASSUME NEW n \in Nat, NEW S \in SUBSET (1 .. n), S # {}
  PROVE  \E i \in S : \A j \in S : j <= i
<1> DEFINE R == {p \in S \X S : p[1] < p[2]}
<1>1. \A i \in S : i \in Int
  OBVIOUS
<1>2. \A i, j \in S : <<i, j>> \in R <=> i < j
  OBVIOUS
<1>3. Orders(R, S)
  <2> DEFINE v == [i \in S |-> i]
  <2>1. \A i \in S : v[i] \in Int
    BY <1>1
  <2>2. \A i, j \in S : <<i, j>> \in R <=> v[i] < v[j]
    BY <1>2
  <2>3. \A i, j \in S : v[i] = v[j] => i = j
    OBVIOUS
  <2> HIDE DEF R, v
  <2> QED BY <2>1, <2>2, <2>3, NumbersOrder
<1>4. IsFiniteSet(S) /\ Cardinality(S) \in Nat \ {0}
  <2>1. 1 \in Int /\ n \in Int
    OBVIOUS
  <2>2. IsFiniteSet(1 .. n)
    BY <2>1, FS_Interval, Zenon
  <2>3. IsFiniteSet(S)
    BY <2>2, FS_Subset, Zenon
  <2> QED BY <2>3, FS_CardinalityType, FS_EmptySet
<1>5. PICK i \in S : Cardinality(Below(R, S, i)) = Cardinality(S) - 1
  <2> HIDE DEF R
  <2>1. Cardinality(S) \in 1 .. Cardinality(S)
    BY <1>4
  <2>2. IsFiniteSet(S)
    BY <1>4
  <2>3. \A m \in 1 .. Cardinality(S) : \E x \in S : Cardinality(Below(R, S, x)) = m - 1
    BY <1>3, <2>2, EveryRankIsTaken
  <2> QED BY <2>1, <2>3
<1>6. Below(R, S, i) = S \ {i}
  <2>1. IsFiniteSet(S \ {i}) /\ Cardinality(S \ {i}) = Cardinality(S) - 1
    BY <1>4, FS_RemoveElement
  <2>2. Below(R, S, i) \in SUBSET (S \ {i})
    BY <1>1, <1>2 DEF Below
  <2> QED BY <1>5, <2>1, <2>2, FS_Subset
<1>7. \A j \in S : j # i => j < i
  BY <1>2, <1>6 DEF Below
<1> QED BY <1>1, <1>7

Newest(S) == CHOOSE i \in S : \A j \in S : j <= i

LEMMA NewestIs ==
  ASSUME NEW n \in Nat, NEW S \in SUBSET (1 .. n), S # {}
  PROVE  Newest(S) \in S /\ Max(S) = Newest(S)
<1>1. \E i \in S : \A j \in S : j <= i
  BY GreatestExists
<1>2. PICK i \in S : \A j \in S : j <= i
  BY <1>1
<1>3. \A k \in S : (\A j \in S : j <= k) => k = i
  BY <1>2
<1>4. \A k \in S : (\A j \in S : k >= j) => k = i
  BY <1>2
<1>5. Newest(S) = i
  BY <1>2, <1>3 DEF Newest
<1>6. Max(S) = i
  BY <1>2, <1>4 DEF Max
<1> QED BY <1>5, <1>6

Own(k) ==
  {i \in DOMAIN app.declared :
     /\ app.declared[i].kind = "handler"
     /\ Key(app.declared[i].op, app.declared[i].version, app.declared[i].channel) = k}

LEMMA Overriding ==
  ASSUME app.declared \in Seq(Declarations),
         overrides = ApplyHandlers(ControllerHandlers(app.controllers), app.declared),
         NEW k \in Keys
  PROVE  /\ Own(k) # {} => overrides[k] = Newest(Own(k)) /\ overrides[k] \in Own(k) /\ overrides[k] # None
         /\ Own(k) = {} => overrides[k] = IF k.version = None /\ k.channel = "*" /\ k.op \in app.controllers
                                           THEN 0 ELSE None
<1>1. DOMAIN app.declared = 1 .. Len(app.declared) /\ Len(app.declared) \in Nat
  OBVIOUS
<1>2. Own(k) \in SUBSET (1 .. Len(app.declared))
  BY <1>1 DEF Own
<1>3. overrides[k] = IF Own(k) = {} THEN ControllerHandlers(app.controllers)[k] ELSE Newest(Own(k))
  BY DEF ApplyHandlers, Own, Newest
<1>4. Own(k) # {} => Newest(Own(k)) \in Own(k)
  BY <1>1, <1>2, NewestIs
<1>5. None \notin Own(k)
  BY <1>2, AppsAssumption
<1> QED BY <1>3, <1>4, <1>5 DEF ControllerHandlers

LEMMA OldestIs ==
  ASSUME NEW S \in SUBSET Nat, NEW m \in S, \A j \in S : m <= j
  PROVE  (CHOOSE n \in S : \A j \in S : n <= j) = m
<1>1. \A n \in S : (\A j \in S : n <= j) => n = m
  OBVIOUS
<1> QED BY <1>1

LEMMA FirstOfTwo ==
  ASSUME NEW k1 \in Keys, NEW k2 \in Keys
  PROVE  FirstOf(overrides, <<k1, k2>>) =
           IF overrides[k1] # None THEN overrides[k1] ELSE overrides[k2]
<1> DEFINE s == <<k1, k2>>
           present == {n \in DOMAIN s : s[n] \in Keys /\ overrides[s[n]] # None}
           first == CHOOSE n \in present : \A m \in present : n <= m
<1>1. present = {n \in {1, 2} : overrides[s[n]] # None}
  OBVIOUS
<1>2. FirstOf(overrides, s) = IF present = {} THEN None ELSE overrides[s[first]]
  BY DEF FirstOf
<1>3. CASE overrides[k1] # None
  <2>1. 1 \in present /\ present \in SUBSET Nat /\ \A j \in present : 1 <= j
    BY <1>1, <1>3
  <2>2. first = 1
    <3> HIDE DEF present
    <3> QED BY <2>1, OldestIs
  <2>3. present # {} /\ s[1] = k1
    BY <2>1
  <2> HIDE DEF present, first
  <2> QED BY <1>2, <1>3, <2>2, <2>3
<1>4. CASE overrides[k1] = None /\ overrides[k2] # None
  <2>1. 2 \in present /\ present \in SUBSET Nat /\ \A j \in present : 2 <= j
    BY <1>1, <1>4
  <2>2. first = 2
    <3> HIDE DEF present
    <3> QED BY <2>1, OldestIs
  <2>3. present # {} /\ s[2] = k2
    BY <2>1
  <2> HIDE DEF present, first
  <2> QED BY <1>2, <1>4, <2>2, <2>3
<1>5. CASE overrides[k1] = None /\ overrides[k2] = None
  BY <1>1, <1>2, <1>5
<1> QED BY <1>3, <1>4, <1>5

LEMMA FirstOfFour ==
  ASSUME NEW k1 \in Keys, NEW k2 \in Keys, NEW k3 \in Keys, NEW k4 \in Keys
  PROVE  FirstOf(overrides, <<k1, k2, k3, k4>>) =
           IF overrides[k1] # None THEN overrides[k1]
           ELSE IF overrides[k2] # None THEN overrides[k2]
           ELSE IF overrides[k3] # None THEN overrides[k3] ELSE overrides[k4]
<1> DEFINE s == <<k1, k2, k3, k4>>
           present == {n \in DOMAIN s : s[n] \in Keys /\ overrides[s[n]] # None}
           first == CHOOSE n \in present : \A m \in present : n <= m
<1>1. present = {n \in {1, 2, 3, 4} : overrides[s[n]] # None}
  OBVIOUS
<1>2. FirstOf(overrides, s) = IF present = {} THEN None ELSE overrides[s[first]]
  BY DEF FirstOf
<1>3. ASSUME NEW n \in {1, 2, 3, 4}, overrides[s[n]] # None,
             \A m \in {1, 2, 3, 4} : m < n => overrides[s[m]] = None
      PROVE  FirstOf(overrides, s) = overrides[s[n]]
  <2>1. n \in present /\ present \in SUBSET Nat
    BY <1>1, <1>3
  <2>2. \A j \in present : n <= j
    <3>1. \A j \in present : j \in {1, 2, 3, 4} /\ ~(j < n)
      BY <1>1, <1>3
    <3> QED BY <3>1
  <2>3. first = n
    <3> HIDE DEF present
    <3> QED BY <2>1, <2>2, OldestIs
  <2> QED BY <1>2, <2>1, <2>3
<1>4. s[1] = k1 /\ s[2] = k2 /\ s[3] = k3 /\ s[4] = k4
  OBVIOUS
<1>5. CASE overrides[k1] # None
  <2>1. FirstOf(overrides, s) = overrides[s[1]]
    BY <1>3, <1>4, <1>5
  <2> QED BY <1>4, <1>5, <2>1
<1>6. CASE overrides[k1] = None /\ overrides[k2] # None
  <2>1. FirstOf(overrides, s) = overrides[s[2]]
    BY <1>3, <1>4, <1>6
  <2> QED BY <1>4, <1>6, <2>1
<1>7. CASE overrides[k1] = None /\ overrides[k2] = None /\ overrides[k3] # None
  <2>1. FirstOf(overrides, s) = overrides[s[3]]
    BY <1>3, <1>4, <1>7
  <2> QED BY <1>4, <1>7, <2>1
<1>8. CASE overrides[k1] = None /\ overrides[k2] = None /\ overrides[k3] = None /\ overrides[k4] # None
  <2>1. FirstOf(overrides, s) = overrides[s[4]]
    BY <1>3, <1>4, <1>8
  <2> QED BY <1>4, <1>8, <2>1
<1>9. CASE overrides[k1] = None /\ overrides[k2] = None /\ overrides[k3] = None /\ overrides[k4] = None
  <2>1. present = {}
    BY <1>1, <1>4, <1>9
  <2> QED BY <1>2, <1>9, <2>1
<1> QED BY <1>5, <1>6, <1>7, <1>8, <1>9

(* What the model takes of a request to find its handler.                  *)
Scoped(r) ==
  /\ r.front \in Channels
  /\ r.header \in Versions \cup {None}
  /\ r.resolver \in Versions \cup {None}
  /\ r.front = "rest" => ~r.socket /\ r.resolver = None
  /\ r.method = "GET" => r.op \in {"get", "list", "health"}

LEMMA AskedIsContext ==
  ASSUME Scoped(q)
  PROVE  Context.version = Asked /\ Context.channel = q.front /\ Asked \in Versions \cup {None}
BY DEF Scoped, Context, Asked, Channels

LEMMA MostSpecific ==
  ASSUME app.declared \in Seq(Declarations), NEW op \in Ops, NEW k \in Keys,
         Own(k) # {}, Own(k) \subseteq Handlers(op),
         \A i \in Handlers(op) : \/ i \in Own(k)
                                 \/ Specificity(app.declared[i]) < Specificity(k)
  PROVE  Best(op) = Newest(Own(k))
<1> DEFINE most == {i \in Handlers(op) : \A j \in Handlers(op) :
                      Specificity(app.declared[i]) >= Specificity(app.declared[j])}
<1>1. \A d : Specificity(d) \in Int
  BY DEF Specificity
<1>2. \A i \in Own(k) : Specificity(app.declared[i]) = Specificity(k)
  <2> SUFFICES ASSUME NEW i \in Own(k) PROVE Specificity(app.declared[i]) = Specificity(k)
    OBVIOUS
  <2>1. Key(app.declared[i].op, app.declared[i].version, app.declared[i].channel) = k
    BY DEF Own
  <2>2. app.declared[i].version = k.version /\ app.declared[i].channel = k.channel
    BY <2>1 DEF Key
  <2> QED BY <2>2 DEF Specificity
<1>3. most \subseteq Own(k)
  <2> SUFFICES ASSUME NEW i \in Handlers(op), i \notin Own(k),
                      \A j \in Handlers(op) :
                        Specificity(app.declared[i]) >= Specificity(app.declared[j])
               PROVE  FALSE
    OBVIOUS
  <2>1. PICK j \in Own(k) : TRUE
    OBVIOUS
  <2>2. Specificity(app.declared[i]) >= Specificity(k)
    BY <1>2
  <2>3. Specificity(app.declared[i]) < Specificity(k)
    OBVIOUS
  <2> QED BY <1>1, <2>2, <2>3
<1>4. Own(k) \subseteq most
  <2> SUFFICES ASSUME NEW i \in Own(k), NEW j \in Handlers(op)
               PROVE  Specificity(app.declared[i]) >= Specificity(app.declared[j])
    OBVIOUS
  <2>1. Specificity(app.declared[j]) = Specificity(k) \/ Specificity(app.declared[j]) < Specificity(k)
    BY <1>2
  <2>2. Specificity(app.declared[i]) = Specificity(k)
    BY <1>2
  <2> QED BY <1>1, <2>1, <2>2
<1>5. most = Own(k)
  BY <1>3, <1>4
<1>6. Best(op) = Max(Own(k))
  BY <1>5 DEF Best
<1>7. Len(app.declared) \in Nat /\ Own(k) \in SUBSET (1 .. Len(app.declared))
  BY DEF Own
<1> QED BY <1>6, <1>7, NewestIs

LEMMA KeysTake ==
  ASSUME NEW op \in Ops, NEW v \in Versions \cup {None}, NEW c \in Channels \cup {"*"}
  PROVE  Key(op, v, c) \in Keys
BY DEF Keys

(* The handler that is found among the overrides is the most specific.     *)
LEMMA ResolvedIsBest ==
  ASSUME app.declared \in Seq(Declarations), NEW op \in Ops, Scoped(q),
         overrides = ApplyHandlers(ControllerHandlers(app.controllers), app.declared)
  PROVE  Resolve(overrides, op, Context.version, Context.channel) = Best(op)
<1> DEFINE k1 == Key(op, Asked, q.front)
           k2 == Key(op, None, q.front)
           k3 == Key(op, Asked, "*")
           k4 == Key(op, None, "*")
<1>1. q.front \in Channels /\ q.front # "*" /\ Asked \in Versions \cup {None}
  BY AskedIsContext DEF Scoped, Channels
<1>2. k1 \in Keys /\ k2 \in Keys /\ k3 \in Keys /\ k4 \in Keys
  BY <1>1, KeysTake, AskedIsContext DEF Scoped
<1>3. Handlers(op) = Own(k1) \cup Own(k2) \cup Own(k3) \cup Own(k4)
  BY DEF Handlers, InScope, Own, Key
<1>4. /\ Specificity(k1) = IF Asked = None THEN 2 ELSE 3
      /\ Specificity(k2) = 2
      /\ Specificity(k3) = IF Asked = None THEN 0 ELSE 1
      /\ Specificity(k4) = 0
  BY <1>1 DEF Specificity, Key
<1>5. \A k \in Keys : \A i \in Own(k) : Specificity(app.declared[i]) = Specificity(k)
  <2> SUFFICES ASSUME NEW k \in Keys, NEW i \in Own(k)
               PROVE  Specificity(app.declared[i]) = Specificity(k)
    OBVIOUS
  <2>1. Key(app.declared[i].op, app.declared[i].version, app.declared[i].channel) = k
    BY DEF Own
  <2>2. app.declared[i].version = k.version /\ app.declared[i].channel = k.channel
    BY <2>1 DEF Key
  <2> QED BY <2>2 DEF Specificity
<1>6. /\ k1.version = Asked /\ k1.channel = q.front
      /\ k2.version = None /\ k2.channel = q.front
      /\ k3.version = Asked /\ k3.channel = "*"
      /\ k4.version = None /\ k4.channel = "*" /\ k4.op = op
      /\ Asked = None => k1 = k2 /\ k3 = k4
  BY DEF Key
<1>7. Resolve(overrides, op, Context.version, Context.channel) =
        IF Asked = None THEN FirstOf(overrides, <<k2, k4>>)
        ELSE FirstOf(overrides, <<k1, k2, k3, k4>>)
  BY AskedIsContext, Zenon DEF Resolve
<1> HIDE DEF k1, k2, k3, k4
<1>8. Resolve(overrides, op, Context.version, Context.channel) =
        IF Asked # None /\ overrides[k1] # None THEN overrides[k1]
        ELSE IF overrides[k2] # None THEN overrides[k2]
        ELSE IF Asked # None /\ overrides[k3] # None THEN overrides[k3]
        ELSE overrides[k4]
  BY <1>2, <1>7, FirstOfTwo, FirstOfFour
<1>9. \A k \in Keys : Own(k) # {} => overrides[k] = Newest(Own(k)) /\ overrides[k] # None
  BY Overriding
<1>10. /\ Own(k1) = {} /\ Asked # None => overrides[k1] = None
       /\ Own(k2) = {} => overrides[k2] = None
       /\ Own(k3) = {} /\ Asked # None => overrides[k3] = None
       /\ Own(k4) = {} => overrides[k4] = IF op \in app.controllers THEN 0 ELSE None
  BY <1>1, <1>2, <1>6, Overriding
<1>11. CASE Asked # None /\ Own(k1) # {}
  <2>1. Best(op) = Newest(Own(k1))
    BY <1>2, <1>3, <1>4, <1>5, <1>11, MostSpecific
  <2> QED BY <1>2, <1>8, <1>9, <1>11, <2>1
<1>12. CASE (Asked # None => Own(k1) = {}) /\ Own(k2) # {}
  <2>1. \A i \in Handlers(op) : i \in Own(k2) \/ Specificity(app.declared[i]) < Specificity(k2)
    BY <1>2, <1>3, <1>4, <1>5, <1>6, <1>12
  <2>2. Best(op) = Newest(Own(k2))
    BY <1>2, <1>3, <1>12, <2>1, MostSpecific
  <2> QED BY <1>2, <1>8, <1>9, <1>10, <1>12, <2>2
<1>13. CASE Asked # None /\ Own(k1) = {} /\ Own(k2) = {} /\ Own(k3) # {}
  <2>1. \A i \in Handlers(op) : i \in Own(k3) \/ Specificity(app.declared[i]) < Specificity(k3)
    BY <1>2, <1>3, <1>4, <1>5, <1>6, <1>13
  <2>2. Best(op) = Newest(Own(k3))
    BY <1>2, <1>3, <1>13, <2>1, MostSpecific
  <2> QED BY <1>2, <1>8, <1>9, <1>10, <1>13, <2>2
<1>14. CASE (Asked # None => Own(k1) = {} /\ Own(k3) = {}) /\ Own(k2) = {} /\ Own(k4) # {}
  <2>1. \A i \in Handlers(op) : i \in Own(k4) \/ Specificity(app.declared[i]) < Specificity(k4)
    BY <1>2, <1>3, <1>4, <1>5, <1>6, <1>14
  <2>2. Best(op) = Newest(Own(k4))
    BY <1>2, <1>3, <1>14, <2>1, MostSpecific
  <2> QED BY <1>2, <1>8, <1>9, <1>10, <1>14, <2>2
<1>15. CASE Own(k1) = {} /\ Own(k2) = {} /\ Own(k3) = {} /\ Own(k4) = {}
  <2>1. Handlers(op) = {}
    BY <1>3, <1>15
  <2>2. Best(op) = IF op \in app.controllers THEN 0 ELSE None
    BY <2>1 DEF Best
  <2> QED BY <1>2, <1>8, <1>10, <1>15, <2>2
<1> QED BY <1>6, <1>11, <1>12, <1>13, <1>14, <1>15

-----------------------------------------------------------------------------
(* Requests.                                                               *)
Conditional(c) ==
  [front     : Channels,
   socket    : BOOLEAN,
   op        : Ops \cup {"health"},
   method    : {"GET", "POST", "PATCH", "DELETE"},
   header    : Versions \cup {None},
   resolver  : Versions \cup {None},
   accept    : {"json", "yaml", "other"},
   fields    : (SUBSET Fields) \cup {None},
   token     : Roles \cup {None},
   body      : {"ok", "large", "malformed"},
   condition : {c}]

Asking(r) == Scoped(r) /\ \E c : r \in Conditional(c)

LEMMA Asks ==
  ASSUME NEW a \in Apps, NEW r \in Requests[a]
  PROVE  Asking(r) /\ r \in Conditional(None)
<1>1. /\ r \in Request
      /\ r.front = "rest" => ~r.socket /\ r.resolver = None
      /\ r.method = "GET" => r.op \in {"get", "list", "health"}
  BY AppsAssumption
<1>2. r \in Conditional(None)
  BY <1>1 DEF Request, Conditional, Channels
<1> QED BY <1>1, <1>2 DEF Asking, Scoped, Conditional

LEMMA AsksAgain ==
  ASSUME NEW r, Asking(r), NEW c
  PROVE  LET asked == [r EXCEPT !.condition = c]
         IN  /\ Asking(asked)
             /\ r = [asked EXCEPT !.condition = r.condition]
<1>1. PICK b : r \in Conditional(b)
  BY DEF Asking
<1> DEFINE asked == [r EXCEPT !.condition = c]
<1>2. asked \in Conditional(c)
  BY <1>1 DEF Conditional
<1>3. /\ asked.front = r.front /\ asked.resolver = r.resolver /\ asked.header = r.header
      /\ asked.socket = r.socket /\ asked.method = r.method /\ asked.op = r.op
  BY <1>1 DEF Conditional
<1>4. r = [asked EXCEPT !.condition = r.condition]
  BY <1>1 DEF Conditional
<1>5. Scoped(asked)
  <2> HIDE DEF asked
  <2> QED BY <1>3 DEF Asking, Scoped
<1> QED BY <1>2, <1>4, <1>5 DEF Asking

-----------------------------------------------------------------------------
(* The inductive invariant.  What a started application is made of, and    *)
(* who asks:                                                               *)
StartInv ==
  /\ app \in Apps
  /\ phase \in {"starting", "idle", "down", "steps", "up", "sent"}
  /\ phase # "starting" =>
       /\ overrides = ApplyHandlers(ControllerHandlers(app.controllers), app.declared)
       /\ bus = ApplyHooks(NoHooks, app.declared)
       /\ chain = Sorted(app.filters)

AskInv ==
  /\ phase \notin {"starting", "idle"} \/ ran # << >> => Asking(q)
  /\ phase = "steps" \/ ran # << >> => q.op \in Ops
  /\ phase \in {"starting", "down"} => ran = << >>
  /\ held # None => Asking(held.q)

(* What ran is what the executor chose.                                    *)
RunInv ==
  ran # << >> => ran = <<Chosen(overrides, q.op, Context.version, Context.channel)>>

Statuses == {200, 201, 204, 304, 401, 403, 404, 413, 500, 503}

IsData(d) ==
  /\ d = [shape |-> d.shape, version |-> d.version, fields |-> d.fields, nulls |-> d.nulls,
          wrapped |-> d.wrapped, format |-> d.format]
  /\ d.wrapped \in BOOLEAN

IsResponse(x) ==
  /\ x = [status |-> x.status, body |-> x.body, data |-> x.data, tag |-> x.tag,
          secured |-> x.secured]
  /\ x.status \in Statuses
  /\ IsData(x.data)

(* Responses on their way.                                                *)
AnswerInv ==
  /\ phase \in {"up", "sent"} => IsResponse(resp)
  /\ phase = "up" => IsResponse(answer) /\ at \in 0 .. Len(chain) /\ (q.socket => at = 0)

(* The context is what the filters that had their turn took of the request;*)
(* none has one for what comes over a socket.                              *)
Admitted(r, done) == "rego" \in done /\ r.op # "health"

ContextOf(r, done) ==
  [user      |-> IF "auth" \in done THEN r.token ELSE None,
   accept    |-> IF "negotiation" \in done THEN r.accept ELSE "json",
   version   |-> IF "version" \in done THEN r.header ELSE None,
   fields    |-> IF "projection" \in done THEN r.fields ELSE None,
   condition |-> IF "etag" \in done THEN r.condition ELSE None,
   admitted  |-> Admitted(r, done)]

Through(done) == ctx = ContextOf(q, done) /\ ("auth" \in done => q.token # None)

Before(n) == {chain[m] : m \in 1 .. n - 1}

Tells == phase \in {"up", "sent"} /\ resp.status \in {200, 201, 304}

ContextInv ==
  /\ phase = "down" =>
       /\ at \in 1 .. Len(chain) + 1
       /\ IF q.socket THEN at = Len(chain) + 1 ELSE Through(Before(at))
  /\ ~q.socket /\ (phase = "steps" \/ ran # << >> \/ Tells) => Through(app.filters)

(* Up to the handler or service, the hooks that were called let pass.      *)
RunAt(op) == IF IsBulk(op) THEN 3 ELSE 2

Passed(i) == \E n \in DOMAIN passed : passed[n] = i

Called(k, m) == k < at \/ (k = at /\ m < hook)

TraceInv == \E S : passed \in Seq(S)

StepsInv ==
  phase = "steps" =>
    /\ at \in 1 .. Len(Steps(q.op)) + 1
    /\ hook \in Nat \ {0}
    /\ at <= RunAt(q.op) =>
         \A k \in 1 .. RunAt(q.op) - 1 :
           LET hooks == Emitted(bus, Steps(q.op)[k])
           IN  \A m \in DOMAIN hooks :
                 Called(k, m) /\ Fires(app.declared[hooks[m]], Context) => Passed(hooks[m])

GuardInv ==
  ran # << >> =>
    \A i \in DOMAIN app.declared :
      LET d == app.declared[i]
      IN  d.kind = "guard" /\ d.op \in {q.op, ItemOp(q.op)} /\ InScope(d) => Passed(i)

LEMMA NoneIs == None \notin Nat
BY AppsAssumption

LEMMA InitStart ==
  ASSUME Init
  PROVE  StartInv /\ AskInv /\ RunInv /\ AnswerInv /\ ContextInv /\ TraceInv /\ StepsInv /\ GuardInv
BY DEF Init, AnswerInv, TraceInv, StartInv, AskInv, RunInv, ContextInv, Tells, StepsInv, GuardInv

(* The ways a request leaves a filter.                                     *)
LEMMA OutcomesAre ==
  ASSUME NEW f, NEW r, NEW c, NEW o \in RequestOutcomes(f, r, c)
  PROVE  \/ o.kind = "goes" /\ o = Goes(o.ctx)
         \/ o.kind = "circuit" /\ o.status \in {401, 403, 413, 503}
         \/ o.kind = "raises" /\ o.status = 500
BY DEF RequestOutcomes, PolicyOutcomes, NegotiationOutcomes, Goes, ShortCircuit, Raises

LEMMA FilterRequestIs ==
  ASSUME FilterRequest
  PROVE  /\ phase = "down" /\ at <= Len(chain)
         /\ UNCHANGED <<startup, stored, q, hook, found, held, passed, ran>>
         /\ \/ /\ \E o \in RequestOutcomes(chain[at], q, ctx) : o = Goes(ctx')
               /\ at' = at + 1
               /\ UNCHANGED <<phase, resp, answer>>
            \/ \E status \in {401, 403, 413, 503} :
                 Answers(Refusal(status)) /\ ctx' = FreshContext
            \/ /\ phase' = "sent"
               /\ resp' = Refusal(500)
               /\ UNCHANGED <<ctx, at, answer>>
<1>1. phase = "down" /\ at <= Len(chain)
      /\ UNCHANGED <<startup, stored, q, hook, found, held, passed, ran>>
  BY DEF FilterRequest
<1>2. PICK o \in RequestOutcomes(chain[at], q, ctx) :
        CASE o.kind = "goes" -> /\ ctx' = o.ctx
                                /\ at' = at + 1
                                /\ UNCHANGED <<phase, resp, answer>>
          [] o.kind = "circuit" -> Answers(Refusal(o.status)) /\ ctx' = FreshContext
          [] o.kind = "raises" -> /\ phase' = "sent"
                                  /\ resp' = Refusal(o.status)
                                  /\ UNCHANGED <<ctx, at, answer>>
  BY DEF FilterRequest
<1>3. \/ o.kind = "goes" /\ o = Goes(o.ctx)
      \/ o.kind = "circuit" /\ o.status \in {401, 403, 413, 503}
      \/ o.kind = "raises" /\ o.status = 500
  BY OutcomesAre
<1>4. CASE o.kind = "goes" /\ o = Goes(o.ctx)
  BY <1>1, <1>2, <1>4
<1>5. CASE o.kind = "circuit" /\ o.status \in {401, 403, 413, 503}
  BY <1>1, <1>2, <1>5
<1>6. CASE o.kind = "raises" /\ o.status = 500
  BY <1>1, <1>2, <1>6
<1> QED BY <1>3, <1>4, <1>5, <1>6

LEMMA StartStep ==
  ASSUME StartInv, [Next]_vars
  PROVE  StartInv'
<1> USE DEF StartInv, startup, stored, request, place, history
<1>1. CASE Lifespan
  BY <1>1 DEF Lifespan
<1>2. CASE Ask
  BY <1>2 DEF Ask, Arrives
<1>3. CASE AskAgain
  BY <1>3 DEF AskAgain, Arrives
<1>4. CASE FilterRequest
  BY <1>4, FilterRequestIs DEF Answers
<1>5. CASE Endpoint
  BY <1>5 DEF Endpoint, Answers
<1>6. CASE HookPasses
  BY <1>6 DEF HookPasses
<1>7. CASE EmitEnds
  BY <1>7 DEF EmitEnds
<1>8. CASE HookFails
  BY <1>8 DEF HookFails, Fails, Answers, InHooks
<1>9. CASE RunOperation
  BY <1>9 DEF RunOperation
<1>10. CASE OperationEnds
  BY <1>10 DEF OperationEnds, Answers
<1>11. CASE FilterResponse
  BY <1>11 DEF FilterResponse
<1>12. CASE Send
  BY <1>12 DEF Send
<1>13. CASE Receive
  BY <1>13 DEF Receive
<1>14. CASE OthersWrite
  BY <1>14 DEF OthersWrite
<1>15. CASE UNCHANGED vars
  BY <1>15 DEF vars
<1> QED BY <1>1, <1>2, <1>3, <1>4, <1>5, <1>6, <1>7, <1>8, <1>9, <1>10, <1>11, <1>12, <1>13, <1>14, <1>15 DEF Next

LEMMA AskStep ==
  ASSUME StartInv, AskInv, [Next]_vars
  PROVE  AskInv'
<1> USE DEF AskInv, startup, stored, request, place, history
<1>1. CASE Lifespan
  BY <1>1 DEF Lifespan
<1>2. CASE Ask
  BY <1>2, Asks DEF Ask, Arrives, StartInv
<1>3. CASE AskAgain
  <2>0. PICK r \in Requests[app] : \E tag : Arrives([r EXCEPT !.condition = tag])
    BY <1>3 DEF AskAgain
  <2>1. PICK tag : Arrives([r EXCEPT !.condition = tag])
    BY <2>0
  <2>2. Asking(r)
    BY Asks DEF StartInv
  <2>3. \A s, c : Asking(s) => Asking([s EXCEPT !.condition = c])
    BY AsksAgain, Zenon
  <2>4. Asking([r EXCEPT !.condition = tag])
    BY <2>2, <2>3, Zenon
  <2> DEFINE asked == [r EXCEPT !.condition = tag]
  <2>5. q' = asked /\ Asking(asked) /\ phase' = "down" /\ ran' = << >>
    BY <2>1, <2>4 DEF Arrives
  <2> HIDE DEF asked
  <2> QED BY <1>3, <2>5 DEF AskAgain
<1>4. CASE FilterRequest
  <2>1. phase = "down" /\ phase' \in {"down", "up", "sent"} /\ UNCHANGED <<q, held, ran>>
    BY <1>4, FilterRequestIs DEF Answers
  <2> QED BY <2>1
<1>5. CASE Endpoint
  <2>1. phase = "down" /\ phase' \in {"steps", "up"} /\ UNCHANGED <<q, held, ran>>
        /\ (phase' = "steps" => q.op # "health")
    BY <1>5 DEF Endpoint, Answers
  <2>2. Asking(q) /\ q.op \in Ops \cup {"health"}
    BY <2>1 DEF Asking, Conditional
  <2> QED BY <2>1, <2>2
<1>6. CASE HookPasses
  BY <1>6 DEF HookPasses
<1>7. CASE EmitEnds
  BY <1>7 DEF EmitEnds
<1>8. CASE HookFails
  <2>1. phase = "steps" /\ phase' \in {"steps", "up", "sent"} /\ UNCHANGED <<q, held, ran>>
    BY <1>8 DEF HookFails, Fails, Answers, InHooks
  <2> QED BY <2>1
<1>9. CASE RunOperation
  BY <1>9 DEF RunOperation
<1>10. CASE OperationEnds
  BY <1>10 DEF OperationEnds, Answers
<1>11. CASE FilterResponse
  BY <1>11 DEF FilterResponse
<1>12. CASE Send
  BY <1>12 DEF Send
<1>13. CASE Receive
  <2>1. phase = "sent" /\ phase' = "idle" /\ UNCHANGED <<q, ran>>
        /\ (held' = held \/ held' = [q |-> q, resp |-> resp])
    BY <1>13 DEF Receive
  <2> QED BY <2>1
<1>14. CASE OthersWrite
  BY <1>14 DEF OthersWrite
<1>15. CASE UNCHANGED vars
  BY <1>15 DEF vars
<1> QED BY <1>1, <1>2, <1>3, <1>4, <1>5, <1>6, <1>7, <1>8, <1>9, <1>10, <1>11, <1>12, <1>13, <1>14, <1>15 DEF Next

LEMMA RunStep ==
  ASSUME StartInv, AskInv, RunInv, [Next]_vars
  PROVE  RunInv'
<1> USE DEF startup, stored, request, place, history
<1> SUFFICES ASSUME ran' # << >>
             PROVE  ran' = <<Chosen(overrides', q'.op, Context.version', Context.channel')>>
  BY DEF RunInv
<1>1. CASE RunOperation
  BY <1>1 DEF RunOperation, Context
<1>2. CASE UNCHANGED <<q, ran, overrides>>
  BY <1>2 DEF RunInv, Context
<1>3. CASE Lifespan
  BY <1>3 DEF Lifespan, AskInv
<1>4. CASE Ask \/ AskAgain
  BY <1>4 DEF Ask, AskAgain, Arrives
<1>5. FilterRequest => UNCHANGED <<q, ran, overrides>>
  BY FilterRequestIs
<1>6. Endpoint \/ HookPasses \/ EmitEnds => UNCHANGED <<q, ran, overrides>>
  BY DEF Endpoint, HookPasses, EmitEnds
<1>7. HookFails \/ OperationEnds \/ FilterResponse => UNCHANGED <<q, ran, overrides>>
  BY DEF HookFails, OperationEnds, FilterResponse
<1>8. Send \/ Receive \/ OthersWrite \/ UNCHANGED vars => UNCHANGED <<q, ran, overrides>>
  BY DEF Send, Receive, OthersWrite, vars
<1> QED BY <1>1, <1>2, <1>3, <1>4, <1>5, <1>6, <1>7, <1>8 DEF Next

(* The handler that ran is the best there is.                              *)
LEMMA RunIsBest ==
  ASSUME StartInv, AskInv, RunInv
  PROVE  MostSpecificRuns
<1> SUFFICES ASSUME ran # << >>, q.op \notin {"bulk_update", "bulk_delete"}
             PROVE  ran[1] = IF q.op = "bulk_create" /\ Best(q.op) = None
                             THEN Best("create") ELSE Best(q.op)
  BY DEF MostSpecificRuns
<1>1. q.op \in Ops /\ "create" \in Ops /\ Scoped(q) /\ app.declared \in Seq(Declarations)
  BY AppsAssumption DEF AskInv, Asking, StartInv, App, Ops
<1>2. overrides = ApplyHandlers(ControllerHandlers(app.controllers), app.declared)
  BY DEF StartInv, AskInv
<1>3. /\ Resolve(overrides, q.op, Context.version, Context.channel) = Best(q.op)
      /\ Resolve(overrides, "create", Context.version, Context.channel) = Best("create")
  BY <1>1, <1>2, ResolvedIsBest
<1>4. ran[1] = Chosen(overrides, q.op, Context.version, Context.channel)
  BY DEF RunInv
<1> QED BY <1>3, <1>4 DEF Chosen

-----------------------------------------------------------------------------
(* The chain.                                                              *)
LEMMA SortedIsSequence ==
  ASSUME NEW S \in SUBSET FilterNames
  PROVE  /\ Sorted(S) \in Seq(S) /\ Len(Sorted(S)) = Cardinality(S)
         /\ \A m, n \in 1 .. Cardinality(S) :
              m < n => Order[Sorted(S)[m]] < Order[Sorted(S)[n]]
<1> DEFINE k == Cardinality(S)
           nth(n) == CHOOSE f \in S : Cardinality({g \in S : Order[g] < Order[f]}) = n - 1
           s == Sorted(S)
           R == FilterOrder
<1>1. IsFiniteSet(S) /\ Orders(R, S) /\ k \in Nat /\ Ranks(s, R, S)
  BY SortedRanks
<1>2. s = [n \in 1 .. k |-> nth(n)]
  BY DEF Sorted
<1>3. \A n \in 1 .. k : s[n] \in S /\ Cardinality(Below(R, S, s[n])) = n - 1
  <2> HIDE DEF s, k, R
  <2> QED BY <1>1, EveryRankIsTaken DEF Ranks, k
<1>4. s \in [1 .. k -> S]
  <2> HIDE DEF nth, s, k
  <2> QED BY <1>2, <1>3
<1>5. s \in Seq(S) /\ Len(s) = k
  <2> HIDE DEF nth, s, k
  <2> QED BY <1>1, <1>4
<1>6. \A f \in FilterNames : Order[f] \in Nat
  BY FilterNamesType DEF Order
<1>7. ASSUME NEW m \in 1 .. k, NEW n \in 1 .. k, m < n
      PROVE  Order[s[m]] < Order[s[n]]
  <2> DEFINE A == Below(R, S, s[m])
             B == Below(R, S, s[n])
  <2>1. s[m] \in S /\ s[n] \in S /\ Order[s[m]] \in Nat /\ Order[s[n]] \in Nat
    BY <1>3, <1>6
  <2>2. Cardinality(A) = m - 1 /\ Cardinality(B) = n - 1
    BY <1>3
  <2>3. IsFiniteSet(A)
    BY <1>1, <2>1, RankIsBounded
  <2>4. SUFFICES ASSUME Order[s[n]] <= Order[s[m]] PROVE FALSE
    BY <2>1
  <2>5. B \subseteq A
    <3> SUFFICES ASSUME NEW g \in S, Order[g] < Order[s[n]] PROVE Order[g] < Order[s[m]]
      BY <2>1 DEF Below, FilterOrder
    <3>1. Order[g] \in Nat
      BY <1>6
    <3> QED BY <2>1, <2>4, <3>1
  <2>6. Cardinality(B) <= Cardinality(A)
    <3> HIDE DEF A, B
    <3> QED BY <2>3, <2>5, FS_Subset
  <2> QED BY <1>1, <1>7, <2>2, <2>6
<1> QED BY <1>5, <1>7

LEMMA ChainIs ==
  ASSUME StartInv, phase # "starting"
  PROVE  /\ Len(chain) \in Nat
         /\ app.filters \in SUBSET FilterNames
         /\ \A n \in 1 .. Len(chain) : chain[n] \in app.filters
         /\ \A f \in app.filters : \E n \in 1 .. Len(chain) : chain[n] = f
         /\ \A m, n \in 1 .. Len(chain) : m < n => Order[chain[m]] < Order[chain[n]]
         /\ "projection" \in app.filters => Len(chain) > 0 /\ chain[Len(chain)] = "projection"
<1>1. app.filters \in SUBSET FilterNames /\ chain = Sorted(app.filters)
  BY AppsAssumption DEF StartInv, App
<1>2. /\ chain \in Seq(app.filters) /\ Len(chain) = Cardinality(app.filters)
      /\ \A m, n \in 1 .. Cardinality(app.filters) : m < n => Order[chain[m]] < Order[chain[n]]
  BY <1>1, SortedIsSequence
<1>3. \A f \in app.filters : /\ \E n \in 1 .. Cardinality(app.filters) : chain[n] = f
                             /\ f = "projection" => chain[Cardinality(app.filters)] = f
  BY <1>1, SortedTakesAll
<1>4. Len(chain) \in Nat /\ \A n \in 1 .. Len(chain) : chain[n] \in app.filters
  BY <1>2
<1>5. "projection" \in app.filters => Len(chain) > 0 /\ chain[Len(chain)] = "projection"
  <2> SUFFICES ASSUME "projection" \in app.filters
               PROVE  Len(chain) > 0 /\ chain[Len(chain)] = "projection"
    OBVIOUS
  <2>1. PICK n \in 1 .. Len(chain) : chain[n] = "projection"
    BY <1>2, <1>3
  <2>2. Len(chain) > 0
    BY <1>4, <2>1
  <2> QED BY <1>2, <1>3, <2>2
<1> QED BY <1>1, <1>2, <1>3, <1>4, <1>5

LEMMA BeforeNext ==
  ASSUME NEW n \in Nat \ {0}
  PROVE  Before(n + 1) = Before(n) \cup {chain[n]}
<1>1. 1 .. (n + 1) - 1 = (1 .. n - 1) \cup {n}
  OBVIOUS
<1> QED BY <1>1 DEF Before

LEMMA BeforeAll ==
  ASSUME StartInv, phase # "starting"
  PROVE  Before(Len(chain) + 1) = app.filters
<1>1. (Len(chain) + 1) - 1 = Len(chain)
  BY ChainIs
<1> QED BY <1>1, ChainIs DEF Before

(* What a filter takes of the request.                                     *)
LEMMA FilterTakes ==
  ASSUME NEW f \in FilterNames, NEW r, NEW done, NEW c, NEW d,
         c = ContextOf(r, done), Goes(d) \in RequestOutcomes(f, r, c)
  PROVE  d = ContextOf(r, done \cup {f}) /\ (f = "auth" => r.token # None)
<1> USE DEF ContextOf, RequestOutcomes, Goes
<1>0. f # "rego" => Admitted(r, done \cup {f}) = Admitted(r, done)
  BY DEF Admitted
<1>1. CASE f = "rego"
  <2>1. CASE r.op = "health"
    <3>1. d = c
      BY <1>1, <2>1 DEF PolicyOutcomes
    <3>2. Admitted(r, done \cup {f}) = Admitted(r, done)
      BY <2>1 DEF Admitted
    <3> QED BY <1>1, <2>1, <3>1, <3>2
  <2>2. CASE r.op # "health"
    <3>1. d = [c EXCEPT !.admitted = TRUE]
      BY <1>1, <2>2 DEF PolicyOutcomes, ShortCircuit
    <3>2. Admitted(r, done \cup {f}) = TRUE
      BY <1>1, <2>2 DEF Admitted
    <3> QED BY <1>1, <2>2, <3>1, <3>2
  <2> QED BY <2>1, <2>2
<1>2. CASE f = "auth"
  <2>1. r.token # None /\ d = [c EXCEPT !.user = r.token]
    BY <1>2 DEF ShortCircuit
  <2> QED BY <1>0, <1>2, <2>1
<1>3. CASE f = "version"
  <2>1. d = [c EXCEPT !.version = r.header]
    BY <1>3
  <2> QED BY <1>0, <1>3, <2>1
<1>4. CASE f = "negotiation"
  <2>1. d = [c EXCEPT !.accept = r.accept]
    BY <1>4 DEF NegotiationOutcomes, ShortCircuit, Raises
  <2> QED BY <1>0, <1>4, <2>1
<1>5. CASE f = "etag"
  <2>1. d = [c EXCEPT !.condition = r.condition]
    BY <1>5
  <2> QED BY <1>0, <1>5, <2>1
<1>6. CASE f = "projection"
  <2>1. d = [c EXCEPT !.fields = r.fields]
    BY <1>6
  <2> QED BY <1>0, <1>6, <2>1
<1>7. CASE f \in {"headers", "envelope"}
  <2>1. d = c
    BY <1>7
  <2> QED BY <1>0, <1>7, <2>1
<1> QED BY <1>1, <1>2, <1>3, <1>4, <1>5, <1>6, <1>7, FilterNamesType

-----------------------------------------------------------------------------
(* Responses.                                                              *)
Response(status, body, data, tag, secured) ==
  [status |-> status, body |-> body, data |-> data, tag |-> tag, secured |-> secured]

LEMMA ResponseIs ==
  ASSUME NEW status \in Statuses, NEW body, NEW data, IsData(data), NEW tag, NEW secured
  PROVE  IsResponse(Response(status, body, data, tag, secured))
BY DEF IsResponse, Response

LEMMA ResponseForm ==
  ASSUME NEW x, IsResponse(x)
  PROVE  x = Response(x.status, x.body, x.data, x.tag, x.secured)
BY DEF IsResponse, Response

(* As the etag filter makes them.                                          *)
Told(x, t, s) == [x EXCEPT !.status = 304, !.body = "none", !.tag = t, !.secured = s]
Tagged(x, t) == [x EXCEPT !.tag = t]

LEMMA ToldIs ==
  ASSUME NEW x, IsResponse(x), NEW t, NEW s
  PROVE  Told(x, t, s) = Response(304, "none", x.data, t, s)
<1> DEFINE a == [x EXCEPT !.status = 304]
           b == [a EXCEPT !.body = "none"]
           c == [b EXCEPT !.tag = t]
           d == [c EXCEPT !.secured = s]
<1>1. a = Response(304, x.body, x.data, x.tag, x.secured)
  BY ResponseForm DEF Response
<1> HIDE DEF a
<1>2. b = Response(304, "none", x.data, x.tag, x.secured)
  BY <1>1 DEF Response
<1> HIDE DEF b
<1>3. c = Response(304, "none", x.data, t, x.secured)
  BY <1>2 DEF Response
<1> HIDE DEF c
<1>4. d = Response(304, "none", x.data, t, s)
  BY <1>3 DEF Response
<1> QED BY <1>4 DEF a, b, c, Told

LEMMA TaggedIs ==
  ASSUME NEW status, NEW body, NEW data, NEW tag, NEW secured, NEW t
  PROVE  Tagged(Response(status, body, data, tag, secured), t)
           = Response(status, body, data, t, secured)
BY DEF Response, Tagged

LEMMA WrapIs ==
  ASSUME NEW d, IsData(d), NEW w \in BOOLEAN
  PROVE  /\ IsData([d EXCEPT !.wrapped = w])
         /\ [d EXCEPT !.wrapped = w].fields = d.fields
         /\ [d EXCEPT !.wrapped = w].shape = d.shape
         /\ [d EXCEPT !.wrapped = w].format = d.format
         /\ [d EXCEPT !.wrapped = w].version = d.version
         /\ [d EXCEPT !.wrapped = w].nulls = d.nulls
         /\ [d EXCEPT !.wrapped = w].wrapped = w
BY DEF IsData

LEMMA SpendIs ==
  ASSUME NEW x, IsResponse(x)
  PROVE  /\ IsResponse(Spend(x)) /\ Spend(x).status = x.status
         /\ Spend(x).data = x.data /\ Spend(x).tag = x.tag
BY DEF IsResponse, Spend

LEMMA RebuiltIs ==
  ASSUME NEW x, IsResponse(x), NEW d, IsData(d)
  PROVE  /\ IsResponse(Rebuilt(x, d)) /\ Rebuilt(x, d).status = x.status
         /\ Rebuilt(x, d).data = d /\ Rebuilt(x, d).tag = x.tag
         /\ Rebuilt(x, d) = Response(x.status, "buffer", d, x.tag, x.secured)
<1>1. x = Response(x.status, x.body, x.data, x.tag, x.secured) /\ x.status \in Statuses
  BY DEF IsResponse, Response
<1>2. Rebuilt(x, d) = Response(x.status, "buffer", d, x.tag, x.secured)
  <2> DEFINE a == [x EXCEPT !.body = "buffer"]
             b == [a EXCEPT !.data = d]
  <2>1. a = Response(x.status, "buffer", x.data, x.tag, x.secured)
    BY <1>1 DEF Response
  <2> HIDE DEF a
  <2>2. b = Response(x.status, "buffer", d, x.tag, x.secured)
    BY <2>1 DEF Response
  <2> QED BY <2>2 DEF a, Rebuilt
<1>3. IsResponse(Rebuilt(x, d))
  BY <1>1, <1>2, ResponseIs
<1> QED BY <1>2, <1>3 DEF Response

(* s is d with no other fields than these, and with the names of fields    *)
(* that only have a null.                                                  *)
Selected(s, d, fields) ==
  /\ IsData(s) /\ s.fields \subseteq d.fields /\ s.fields \subseteq fields
  /\ s.fields = IF d.shape = "other" THEN {} ELSE d.fields \cap fields
  /\ s.version = d.version /\ s.shape = d.shape
  /\ s.wrapped = d.wrapped /\ s.format = d.format

LEMMA ShowIs ==
  ASSUME NEW d, IsData(d), NEW fields
  PROVE  Selected(Show(d, fields), d, fields) /\ Show(d, fields).nulls = d.nulls
<1> DEFINE chosen == IF d.shape = "other" THEN {} ELSE d.fields \cap fields
           s == [d EXCEPT !.fields = chosen]
<1>1. Show(d, fields) = s
  BY DEF Show
<1>2. chosen \subseteq d.fields /\ chosen \subseteq fields
  OBVIOUS
<1> HIDE DEF chosen
<1>3. /\ IsData(s) /\ s.fields = chosen /\ s.version = d.version /\ s.shape = d.shape
      /\ s.wrapped = d.wrapped /\ s.format = d.format /\ s.nulls = d.nulls
  BY <1>2 DEF IsData
<1> HIDE DEF s
<1>4. s.fields = IF d.shape = "other" THEN {} ELSE d.fields \cap fields
  BY <1>3 DEF chosen
<1> QED BY <1>1, <1>2, <1>3, <1>4 DEF Selected

LEMMA FitIs ==
  ASSUME NEW d, IsData(d), NEW fields
  PROVE  /\ Selected(Fit(d, fields), d, fields)
         /\ Fit(d, fields).nulls = fields \ Show(d, fields).fields
<1> DEFINE s == Show(d, fields)
           t == [s EXCEPT !.nulls = fields \ s.fields]
<1>1. Selected(s, d, fields)
  BY ShowIs
<1>2. Fit(d, fields) = t
  BY DEF Fit
<1> HIDE DEF s
<1>3. /\ IsData(t) /\ t.fields = s.fields /\ t.version = s.version /\ t.shape = s.shape
      /\ t.wrapped = s.wrapped /\ t.format = s.format /\ t.nulls = fields \ s.fields
  BY <1>1 DEF IsData, Selected
<1> HIDE DEF t
<1>4. Selected(t, d, fields)
  BY <1>1, <1>3 DEF Selected
<1> QED BY <1>2, <1>3, <1>4 DEF s

LEMMA ResponseData ==
  ASSUME NEW x, IsResponse(x)
  PROVE  IsData(x.data) /\ x.status \in Statuses
BY DEF IsResponse

(* A tag tells what it was made of, but for the fields.                    *)
TagOf(x) ==
  \/ x.tag = None
  \/ x.data.shape = "entity" /\ x.tag = EntityTag(x.data)
  \/ x.data.shape = "list"
       /\ x.tag = [of |-> "list", version |-> x.data.version, fields |-> x.tag.fields]

LEMMA TagIsOf ==
  ASSUME NEW x, x.tag = ComputeEtag(x.data)
  PROVE  TagOf(x)
BY DEF TagOf, ComputeEtag

LEMMA TagOfKept ==
  ASSUME NEW x, TagOf(x), NEW y, y.tag = x.tag, y.data.shape = x.data.shape,
         y.data.version = x.data.version
  PROVE  TagOf(y)
BY DEF TagOf, EntityTag

(* What filters leave alone: they add no field, show another document or   *)
(* make a failure a success; the first two fill nothing in.                *)
Keeps(f, x, y) ==
  /\ IsResponse(y)
  /\ y.status = x.status \/ (y.status = 304 /\ ~Failed(x))
  /\ y.data.fields \subseteq x.data.fields
  /\ y.data.shape = x.data.shape /\ y.data.version = x.data.version
  /\ TagOf(x) => TagOf(y)
  /\ f # "etag" => y.tag = x.tag /\ y.status = x.status
  /\ f \in {"projection", "envelope"} => y.data.nulls = x.data.nulls

LEMMA DataKept ==
  ASSUME NEW f, NEW x, IsResponse(x), NEW d, IsData(d), d.fields \subseteq x.data.fields,
         d.shape = x.data.shape, d.version = x.data.version,
         f \in {"projection", "envelope"} => d.nulls = x.data.nulls
  PROVE  Keeps(f, x, Rebuilt(x, d))
<1> DEFINE y == Rebuilt(x, d)
<1>1. IsResponse(y) /\ y.status = x.status /\ y.data = d /\ y.tag = x.tag
  BY RebuiltIs
<1> HIDE DEF y
<1>2. TagOf(x) => TagOf(y)
  BY <1>1, TagOfKept
<1>3. Keeps(f, x, y)
  BY <1>1, <1>2 DEF Keeps
<1> QED BY <1>3 DEF y

LEMMA SpentKept ==
  ASSUME NEW f, NEW x, IsResponse(x), NEW y, y = x \/ y = Spend(x)
  PROVE  Keeps(f, x, y)
<1>1. IsResponse(y) /\ y.status = x.status /\ y.data = x.data /\ y.tag = x.tag
  BY SpendIs
<1>2. TagOf(x) => TagOf(y)
  BY <1>1, TagOfKept
<1> QED BY <1>1, <1>2 DEF Keeps

LEMMA ResponseKeeps ==
  ASSUME NEW f, NEW a, NEW r, NEW c, NEW x, IsResponse(x),
         NEW y, y = OnResponse(f, a, r, c, x)
  PROVE  Keeps(f, x, y)
<1>1. IsData(x.data)
  BY ResponseData
<1>2. CASE f = "projection"
  <2>1. y = Project(a, r, c, x)
    BY <1>2 DEF OnResponse
  <2>2. \/ y = x \/ y = Spend(x) \/ y = Rebuilt(x, x.data)
        \/ \E fields : y = Rebuilt(x, Show(x.data, fields))
    BY <2>1 DEF Project
  <2>3. Keeps(f, x, Rebuilt(x, x.data))
    BY <1>1, DataKept
  <2>4. ASSUME NEW fields PROVE Keeps(f, x, Rebuilt(x, Show(x.data, fields)))
    <3> DEFINE d == Show(x.data, fields)
    <3>1. /\ IsData(d) /\ d.fields \subseteq x.data.fields
          /\ d.shape = x.data.shape /\ d.version = x.data.version /\ d.nulls = x.data.nulls
      BY <1>1, ShowIs DEF Selected
    <3> HIDE DEF d
    <3>2. Keeps(f, x, Rebuilt(x, d))
      BY <3>1, DataKept
    <3> QED BY <3>2 DEF d
  <2> QED BY <2>2, <2>3, <2>4, SpentKept
<1>3. CASE f = "envelope"
  <2>1. y = Envelop(x)
    BY <1>3 DEF OnResponse
  <2> DEFINE d == [x.data EXCEPT !.wrapped = TRUE]
  <2>2. y = x \/ y = Spend(x) \/ y = Rebuilt(x, d)
    BY <2>1 DEF Envelop
  <2>3. /\ IsData(d) /\ d.fields = x.data.fields /\ d.shape = x.data.shape
        /\ d.version = x.data.version /\ d.nulls = x.data.nulls
    BY <1>1, WrapIs
  <2> HIDE DEF d
  <2>4. Keeps(f, x, Rebuilt(x, d))
    BY <2>3, DataKept
  <2> QED BY <2>2, <2>4, SpentKept
<1>4. CASE f = "etag"
  <2>1. y = Tag(r, c, x)
    BY <1>4 DEF OnResponse
  <2>2. \/ y = x \/ y = Spend(x)
        \/ ~Failed(x) /\ y = Told(x, ComputeEtag(x.data), FALSE)
        \/ y = Tagged(Rebuilt(x, x.data), ComputeEtag(x.data))
    BY <2>1 DEF Tag, Told, Tagged
  <2>3. x = Response(x.status, x.body, x.data, x.tag, x.secured)
    BY DEF IsResponse, Response
  <2>5. Tagged(Rebuilt(x, x.data), ComputeEtag(x.data))
          = Response(x.status, "buffer", x.data, ComputeEtag(x.data), x.secured)
    <3>1. Rebuilt(x, x.data) = Response(x.status, "buffer", x.data, x.tag, x.secured)
      BY <1>1, RebuiltIs
    <3> QED BY <3>1, TaggedIs
  <2>6. CASE y = x \/ y = Spend(x)
    BY <2>6, SpentKept
  <2>7. CASE ~Failed(x) /\ y = Told(x, ComputeEtag(x.data), FALSE)
    <3> DEFINE no == FALSE
               e == ComputeEtag(x.data)
    <3>a. y = Told(x, e, no) /\ 304 \in Statuses
      BY <2>7 DEF Statuses
    <3> HIDE DEF no, e
    <3>b. y = Response(304, "none", x.data, e, no)
      BY <3>a, ToldIs
    <3>2. IsResponse(y)
      BY <1>1, <3>a, <3>b, ResponseIs
    <3>1. y = Response(304, "none", x.data, ComputeEtag(x.data), FALSE)
      BY <3>b DEF no, e
    <3>3. y.status = 304 /\ y.data = x.data /\ y.tag = ComputeEtag(x.data)
      BY <3>1 DEF Response
    <3>4. TagOf(y)
      BY <3>3, TagIsOf
    <3> QED BY <1>4, <2>7, <3>2, <3>3, <3>4 DEF Keeps
  <2>8. CASE y = Tagged(Rebuilt(x, x.data), ComputeEtag(x.data))
    <3>1. y = Response(x.status, "buffer", x.data, ComputeEtag(x.data), x.secured)
      BY <2>5, <2>8
    <3>2. IsResponse(y)
      BY <1>1, <3>1, ResponseIs, ResponseData
    <3>3. y.status = x.status /\ y.data = x.data /\ y.tag = ComputeEtag(x.data)
      BY <3>1 DEF Response
    <3>4. TagOf(y)
      BY <3>3, TagIsOf
    <3> QED BY <1>4, <3>2, <3>3, <3>4 DEF Keeps
  <2> QED BY <2>2, <2>6, <2>7, <2>8
<1>5. CASE f = "negotiation"
  <2>1. y = Negotiate(c, x)
    BY <1>5 DEF OnResponse
  <2> DEFINE d == [x.data EXCEPT !.format = c.accept]
  <2>2. y = x \/ y = Spend(x) \/ y = Rebuilt(x, d)
    BY <2>1 DEF Negotiate
  <2>3. IsData(d) /\ d.fields = x.data.fields /\ d.shape = x.data.shape /\ d.version = x.data.version
    BY <1>1 DEF IsData
  <2> HIDE DEF d
  <2>4. Keeps(f, x, Rebuilt(x, d))
    BY <1>5, <2>3, DataKept
  <2> QED BY <2>2, <2>4, SpentKept
<1>6. CASE f = "version"
  <2>1. y = FitVersion(a, r, c, x)
    BY <1>6 DEF OnResponse
  <2>2. \/ y = x \/ y = Spend(x) \/ y = Rebuilt(x, x.data)
        \/ \E fields : y = Rebuilt(x, Fit(x.data, fields))
    BY <2>1 DEF FitVersion
  <2>3. Keeps(f, x, Rebuilt(x, x.data))
    BY <1>1, DataKept
  <2>4. ASSUME NEW fields PROVE Keeps(f, x, Rebuilt(x, Fit(x.data, fields)))
    <3> DEFINE d == Fit(x.data, fields)
    <3>1. /\ IsData(d) /\ d.fields \subseteq x.data.fields
          /\ d.shape = x.data.shape /\ d.version = x.data.version
      BY <1>1, FitIs DEF Selected
    <3> HIDE DEF d
    <3>2. Keeps(f, x, Rebuilt(x, d))
      BY <1>6, <3>1, DataKept
    <3> QED BY <3>2 DEF d
  <2> QED BY <2>2, <2>3, <2>4, SpentKept
<1>7. CASE f = "headers"
  <2>1. y = [x EXCEPT !.secured = TRUE]
    BY <1>7 DEF OnResponse
  <2>2. IsResponse(y) /\ y.status = x.status /\ y.data = x.data /\ y.tag = x.tag
    BY <2>1 DEF IsResponse
  <2>3. TagOf(x) => TagOf(y)
    BY <2>2, TagOfKept
  <2> QED BY <2>2, <2>3 DEF Keeps
<1>8. CASE f \notin {"projection", "envelope", "etag", "negotiation", "version", "headers"}
  <2>1. y = x
    BY <1>8 DEF OnResponse
  <2> QED BY <2>1, SpentKept
<1> QED BY <1>2, <1>3, <1>4, <1>5, <1>6, <1>7, <1>8

LEMMA EndpointIs ==
  ASSUME NEW status \in Statuses, NEW shape, NEW version, NEW fields
  PROVE  LET x == FromEndpoint(status, Data(shape, version, fields))
         IN  /\ IsResponse(x) /\ x.status = status /\ x.tag = None
             /\ x.body = IF status = 204 THEN "none" ELSE "stream"
             /\ x.data.shape = shape /\ x.data.version = version /\ x.data.fields = fields
             /\ x.data.format = "json" /\ x.data.nulls = {}
BY DEF FromEndpoint, Data, IsResponse, IsData

LEMMA RefusalIs ==
  ASSUME NEW status \in Statuses
  PROVE  IsResponse(Refusal(status)) /\ Refusal(status).status = status
<1> DEFINE x == FromEndpoint(status, Data("error", 0, {}))
<1>1. IsResponse(x) /\ x.status = status
  BY EndpointIs
<1>2. Refusal(status) = [x EXCEPT !.body = "buffer"]
  BY DEF Refusal
<1> HIDE DEF x
<1> QED BY <1>1, <1>2 DEF IsResponse

LEMMA OkIs ==
  ASSUME NEW result
  PROVE  /\ IsResponse(Ok(result)) /\ Ok(result).status \in {200, 201, 204}
         /\ Ok(result).tag = None
         /\ q.front = "graphql" => Ok(result).data.shape = "other"
         /\ q.front # "graphql" =>
              Ok(result) = FromEndpoint(Success(q.op), Data(Shape(q.op), result, app.fields))
<1>1. 200 \in Statuses /\ Success(q.op) \in Statuses /\ Success(q.op) \in {200, 201, 204}
  BY DEF Statuses, Success
<1>2. Ok(result) = IF q.front = "graphql" THEN FromEndpoint(200, Data("other", result, app.fields))
                   ELSE FromEndpoint(Success(q.op), Data(Shape(q.op), result, app.fields))
  BY DEF Ok
<1> QED BY <1>1, <1>2, EndpointIs

LEMMA NotOkIs ==
  ASSUME NEW status \in {403, 404}
  PROVE  /\ IsResponse(NotOk(status)) /\ NotOk(status).tag = None
         /\ NotOk(status).data.shape \in {"other", "error"}
         /\ NotOk(status).status = IF q.front = "graphql" THEN 200 ELSE status
<1>1. 200 \in Statuses /\ status \in Statuses
  BY DEF Statuses
<1> QED BY <1>1, EndpointIs DEF NotOk

-----------------------------------------------------------------------------
LEMMA AnswersIs ==
  ASSUME StartInv, phase # "starting", chain' = chain, q' = q, NEW x, IsResponse(x), Answers(x)
  PROVE  AnswerInv'
<1>1. Len(chain) \in 0 .. Len(chain) /\ 0 \in 0 .. Len(chain)
  BY ChainIs
<1> QED BY <1>1 DEF AnswerInv, Answers

LEMMA AnswerStep ==
  ASSUME StartInv, AnswerInv, [Next]_vars
  PROVE  AnswerInv'
<1> USE DEF startup, stored, request, place, history
<1>1. CASE Lifespan \/ Ask \/ AskAgain
  BY <1>1 DEF AnswerInv, Lifespan, Ask, AskAgain, Arrives
<1>2. CASE FilterRequest
  <2>1. phase = "down" /\ chain' = chain /\ q' = q
    BY <1>2, FilterRequestIs
  <2>2. CASE phase' = "down"
    BY <2>2 DEF AnswerInv
  <2>3. ASSUME NEW status \in {401, 403, 413, 503}, Answers(Refusal(status))
        PROVE  AnswerInv'
    <3>1. IsResponse(Refusal(status))
      BY RefusalIs DEF Statuses
    <3> QED BY <2>1, <2>3, <3>1, AnswersIs
  <2>4. CASE phase' = "sent" /\ resp' = Refusal(500)
    <3>1. IsResponse(Refusal(500))
      BY RefusalIs DEF Statuses
    <3> QED BY <2>4, <3>1 DEF AnswerInv
  <2> QED BY <1>2, <2>1, <2>2, <2>3, <2>4, FilterRequestIs
<1>3. CASE Endpoint
  <2>1. phase = "down" /\ chain' = chain /\ q' = q
    BY <1>3 DEF Endpoint
  <2>2. CASE phase' = "steps"
    BY <2>2 DEF AnswerInv
  <2>3. 200 \in Statuses
    BY DEF Statuses
  <2>4. CASE Answers(FromEndpoint(200, Data("other", 0, {})))
    BY <2>1, <2>3, <2>4, EndpointIs, AnswersIs
  <2>5. CASE Answers(NotOk(404))
    BY <2>1, <2>5, NotOkIs, AnswersIs
  <2> QED BY <1>3, <2>2, <2>4, <2>5 DEF Endpoint
<1>4. CASE HookPasses \/ EmitEnds \/ RunOperation
  <2>1. phase' = "steps"
    BY <1>4 DEF HookPasses, EmitEnds, RunOperation, InHooks
  <2> QED BY <2>1 DEF AnswerInv
<1>5. CASE HookFails
  <2>1. phase = "steps" /\ chain' = chain /\ q' = q
    BY <1>5 DEF HookFails, InHooks
  <2>2. CASE phase' = "steps"
    BY <2>2 DEF AnswerInv
  <2>3. CASE Answers(NotOk(403))
    BY <2>1, <2>3, NotOkIs, AnswersIs
  <2>4. CASE phase' = "sent" /\ resp' = Refusal(500)
    <3>1. IsResponse(Refusal(500))
      BY RefusalIs DEF Statuses
    <3> QED BY <2>4, <3>1 DEF AnswerInv
  <2> QED BY <1>5, <2>1, <2>2, <2>3, <2>4 DEF HookFails, Fails
<1>6. CASE OperationEnds
  <2>1. phase = "steps" /\ chain' = chain /\ q' = q /\ Answers(Ok(found))
    BY <1>6 DEF OperationEnds
  <2> QED BY <2>1, OkIs, AnswersIs
<1>7. CASE FilterResponse
  <2>1. /\ phase = "up" /\ phase' = "up" /\ chain' = chain /\ q' = q
        /\ at > 0 /\ at' = at - 1
        /\ resp' = OnResponse(chain[at], app, q, ctx, resp)
        /\ answer' = OnResponse(chain[at], app, q, [ctx EXCEPT !.condition = None], answer)
    BY <1>7 DEF FilterResponse
  <2>2. IsResponse(resp) /\ IsResponse(answer)
    BY <2>1 DEF AnswerInv
  <2>3. IsResponse(resp') /\ IsResponse(answer')
    BY <2>1, <2>2, ResponseKeeps DEF Keeps
  <2>4. Len(chain) \in Nat /\ at \in 0 .. Len(chain) /\ (q.socket => at = 0)
    BY <2>1, ChainIs DEF AnswerInv
  <2>5. at' \in 0 .. Len(chain') /\ ~q.socket
    BY <2>1, <2>4
  <2> QED BY <2>1, <2>3, <2>5 DEF AnswerInv
<1>8. CASE Send \/ Receive
  BY <1>8 DEF AnswerInv, Send, Receive
<1>9. CASE OthersWrite \/ UNCHANGED vars
  BY <1>9 DEF AnswerInv, OthersWrite, vars
<1> QED BY <1>1, <1>2, <1>3, <1>4, <1>5, <1>6, <1>7, <1>8, <1>9 DEF Next

LEMMA ThroughKept ==
  ASSUME UNCHANGED <<q, ctx, app>>, Through(app.filters)
  PROVE  Through(app.filters)'
BY DEF Through

LEMMA NothingThrough ==
  ASSUME NEW r
  PROVE  FreshContext = ContextOf(r, {})
<1>1. Admitted(r, {}) = FALSE
  BY DEF Admitted
<1> QED BY <1>1 DEF FreshContext, ContextOf

LEMMA ArrivesThrough ==
  ASSUME StartInv, AskInv, NEW r, Arrives(r), ran' = << >>
  PROVE  ContextInv'
<1> USE DEF startup
<1>1. /\ phase' = "down" /\ at' = (IF q'.socket THEN Len(chain) + 1 ELSE 1)
      /\ ctx' = FreshContext /\ chain' = chain /\ Len(chain) \in Nat
  BY ChainIs DEF Arrives
<1>2. Before(1) = {}
  BY DEF Before
<1>3. at' = 1 => Before(at)' = {}
  BY <1>1, <1>2 DEF Before
<1>4. ctx' = ContextOf(q', {})
  BY <1>1, NothingThrough
<1>5. 1 \in 1 .. Len(chain) + 1 /\ Len(chain) + 1 \in 1 .. Len(chain) + 1
  BY <1>1
<1>6. CASE q'.socket
  BY <1>1, <1>5, <1>6 DEF ContextInv, Tells
<1>7. CASE ~q'.socket
  BY <1>1, <1>3, <1>4, <1>5, <1>7 DEF ContextInv, Through, Tells
<1> QED BY <1>6, <1>7

LEMMA ContextStep ==
  ASSUME StartInv, AskInv, AnswerInv, ContextInv, [Next]_vars
  PROVE  ContextInv'
<1> USE DEF startup, stored, request, place, history
<1>1. CASE Lifespan
  BY <1>1 DEF Lifespan, ContextInv, AskInv, Tells
<1>2. CASE Ask \/ AskAgain
  <2>1. PICK r : Arrives(r)
    BY <1>2 DEF Ask, AskAgain
  <2>2. ran' = << >>
    BY <2>1 DEF Arrives
  <2> QED BY <2>1, <2>2, ArrivesThrough
<1>3. CASE FilterRequest
  <2>1. /\ phase = "down" /\ at <= Len(chain) /\ ran' = << >>
        /\ UNCHANGED <<app, chain, q>>
    BY <1>3, FilterRequestIs DEF AskInv
  <2>2. /\ at \in 1 .. Len(chain) /\ Len(chain) \in Nat /\ chain[at] \in FilterNames
        /\ Through(Before(at)) /\ ~q.socket
    <3>1. /\ Len(chain) \in Nat /\ at \in 1 .. Len(chain) + 1
          /\ IF q.socket THEN at = Len(chain) + 1 ELSE Through(Before(at))
      BY <2>1, ChainIs DEF ContextInv
    <3>2. at \in 1 .. Len(chain) /\ ~q.socket
      BY <2>1, <3>1
    <3> QED BY <2>1, <3>1, <3>2, ChainIs
  <2>3. ASSUME NEW o \in RequestOutcomes(chain[at], q, ctx), o = Goes(ctx'),
               at' = at + 1, phase' = phase
        PROVE  ContextInv'
    <3>1. ctx = ContextOf(q, Before(at))
      BY <2>2 DEF Through
    <3>2. ctx' = ContextOf(q, Before(at) \cup {chain[at]})
          /\ (chain[at] = "auth" => q.token # None)
      BY <2>2, <2>3, <3>1, FilterTakes
    <3>3. Before(at)' = Before(at) \cup {chain[at]}
      <4>1. Before(at)' = Before(at + 1)
        BY <2>1, <2>3 DEF Before
      <4> QED BY <2>2, <4>1, BeforeNext
    <3>4. Through(Before(at))'
      BY <2>1, <2>2, <3>2, <3>3 DEF Through
    <3>5. at' \in 1 .. Len(chain') + 1
      BY <2>1, <2>2, <2>3
    <3> QED BY <2>1, <2>2, <2>3, <3>4, <3>5 DEF ContextInv, Tells
  <2>4. ASSUME NEW status \in {401, 403, 413, 503, 500}, resp' = Refusal(status),
               phase' \in {"up", "sent"}
        PROVE  ContextInv'
    <3>1. resp'.status = status
      BY <2>4, RefusalIs DEF Statuses
    <3> QED BY <2>1, <2>4, <3>1 DEF ContextInv, Tells
  <2> QED BY <1>3, <2>3, <2>4, FilterRequestIs DEF Answers
<1>4. CASE Endpoint
  <2>1. phase = "down" /\ at > Len(chain) /\ phase' \in {"steps", "up"} /\ UNCHANGED <<app, q, ctx>>
    BY <1>4 DEF Endpoint, Answers
  <2>2. /\ Len(chain) \in Nat /\ at \in 1 .. Len(chain) + 1
        /\ ~q.socket => Through(Before(at))
    BY <2>1, ChainIs DEF ContextInv
  <2>3. at = Len(chain) + 1
    BY <2>1, <2>2
  <2>4. ~q.socket => Through(app.filters)
    BY <2>1, <2>2, <2>3, BeforeAll
  <2> QED BY <2>1, <2>4, ThroughKept DEF ContextInv
<1>5. CASE HookPasses \/ EmitEnds \/ HookFails \/ RunOperation \/ OperationEnds
  <2>1. phase = "steps" /\ phase' # "down" /\ UNCHANGED <<app, q, ctx>>
    BY <1>5 DEF HookPasses, EmitEnds, HookFails, Fails, Answers, RunOperation, OperationEnds, InHooks
  <2>2. ~q.socket => Through(app.filters)
    BY <2>1 DEF ContextInv
  <2> QED BY <2>1, <2>2, ThroughKept DEF ContextInv
<1>6. CASE FilterResponse
  <2>1. /\ phase = "up" /\ phase' = "up" /\ UNCHANGED <<app, q, ctx, ran>>
        /\ resp' = OnResponse(chain[at], app, q, ctx, resp)
    BY <1>6 DEF FilterResponse
  <2>2. IsResponse(resp)
    BY <2>1 DEF AnswerInv
  <2>3. resp'.status = resp.status \/ (resp'.status = 304 /\ ~Failed(resp))
    BY <2>1, <2>2, ResponseKeeps DEF Keeps
  <2>4. Tells' => Tells
    <3>1. resp.status \in Statuses
      BY <2>2 DEF IsResponse
    <3>2. ~Failed(resp) => resp.status \in {200, 201, 304}
      BY <3>1 DEF Failed, Statuses
    <3> QED BY <2>1, <2>3, <3>2 DEF Tells
  <2>5. Through(app.filters) => Through(app.filters)'
    BY <2>1, ThroughKept
  <2> QED BY <2>1, <2>4, <2>5 DEF ContextInv
<1>7. CASE Send \/ Receive \/ OthersWrite \/ UNCHANGED vars
  <2>1. UNCHANGED <<app, q, ctx, at, chain, resp, ran>>
        /\ (phase' = phase \/ (phase = "up" /\ phase' = "sent") \/ phase' = "idle")
    <3>1. Send => UNCHANGED <<app, q, ctx, at, chain, resp, ran>> /\ phase = "up" /\ phase' = "sent"
      BY DEF Send
    <3>2. Receive => UNCHANGED <<app, q, ctx, at, chain, resp, ran>> /\ phase' = "idle"
      BY DEF Receive
    <3>3. OthersWrite => UNCHANGED <<app, q, ctx, at, chain, resp, ran, phase>>
      BY DEF OthersWrite
    <3>4. UNCHANGED vars => UNCHANGED <<app, q, ctx, at, chain, resp, ran, phase>>
      BY DEF vars
    <3> QED BY <1>7, <3>1, <3>2, <3>3, <3>4
  <2>2. Tells' => Tells
    BY <2>1 DEF Tells
  <2>3. Through(app.filters) => Through(app.filters)'
    BY <2>1, ThroughKept
  <2>4. Before(at)' = Before(at)
    BY <2>1 DEF Before
  <2>5. Through(Before(at)) => Through(Before(at))'
    BY <2>1, <2>4 DEF Through
  <2> QED BY <2>1, <2>2, <2>3, <2>5 DEF ContextInv
<1> QED BY <1>1, <1>2, <1>3, <1>4, <1>5, <1>6, <1>7 DEF Next

-----------------------------------------------------------------------------
(* The steps of an operation and their hooks.                              *)
LEMMA Joined ==
  ASSUME NEW a, NEW b, NEW c, NEW d, NEW e
  PROVE  LET s == <<a>> \o <<b, c, d>> \o <<e>>
         IN  Len(s) = 5 /\ s[1] = a /\ s[2] = b /\ s[3] = c /\ s[4] = d /\ s[5] = e
<1> DEFINE S == {a, b, c, d, e}
           x == <<a>>
           y == <<b, c, d>>
           z == <<e>>
           w == x \o y
           v == w \o z
<1>1. x \in Seq(S) /\ Len(x) = 1 /\ x[1] = a
  OBVIOUS
<1>2. y \in Seq(S) /\ Len(y) = 3 /\ y[1] = b /\ y[2] = c /\ y[3] = d
  OBVIOUS
<1>3. z \in Seq(S) /\ Len(z) = 1 /\ z[1] = e
  OBVIOUS
<1> HIDE DEF x, y, z, S
<1>0. \A s, t \in Seq(S) :
        /\ s \o t \in Seq(S) /\ Len(s \o t) = Len(s) + Len(t)
        /\ \A i \in 1 .. Len(s) : (s \o t)[i] = s[i]
        /\ \A i \in 1 .. Len(t) : (s \o t)[Len(s) + i] = t[i]
  OBVIOUS
<1>4. w \in Seq(S) /\ Len(w) = 4 /\ w[1] = a /\ w[2] = b /\ w[3] = c /\ w[4] = d
  <2>1. /\ w \in Seq(S) /\ Len(w) = Len(x) + Len(y)
        /\ \A i \in 1 .. Len(x) : w[i] = x[i]
        /\ \A i \in 1 .. Len(y) : w[Len(x) + i] = y[i]
    BY <1>0, <1>1, <1>2, Zenon
  <2>2. w[1 + 1] = b /\ w[1 + 2] = c /\ w[1 + 3] = d /\ w[1] = a
    BY <1>1, <1>2, <2>1
  <2> QED BY <1>1, <1>2, <2>1, <2>2
<1> HIDE DEF w
<1>5. Len(v) = 5 /\ v[1] = a /\ v[2] = b /\ v[3] = c /\ v[4] = d /\ v[5] = e
  <2>1. /\ Len(v) = Len(w) + Len(z)
        /\ \A i \in 1 .. Len(w) : v[i] = w[i]
        /\ \A i \in 1 .. Len(z) : v[Len(w) + i] = z[i]
    BY <1>0, <1>3, <1>4, Zenon
  <2>2. v[4 + 1] = e /\ v[1] = a /\ v[2] = b /\ v[3] = c /\ v[4] = d
    BY <1>3, <1>4, <2>1
  <2> QED BY <1>3, <1>4, <2>1, <2>2
<1> QED BY <1>5, Zenon DEF w, x, y, z

LEMMA StepsAre ==
  ASSUME NEW op \in Ops
  PROVE  /\ Len(Steps(op)) = IF IsBulk(op) THEN 5 ELSE 3
         /\ \A k \in 1 .. Len(Steps(op)) : Steps(op)[k] = Run <=> k = RunAt(op)
         /\ RunAt(op) \in {2, 3} /\ (IsBulk(op) => RunAt(op) = 3)
         /\ \A k \in 1 .. RunAt(op) - 1 :
              Steps(op)[k] = Event("pre", IF k = 1 THEN op ELSE ItemOp(op))
         /\ ItemOp(op) \in Ops /\ (~IsBulk(op) => ItemOp(op) = op)
<1>1. ItemOp(op) \in Ops /\ (~IsBulk(op) => ItemOp(op) = op)
  BY DEF ItemOp, IsBulk, BulkOps, Ops
<1>2. \A when, o : when # "run" => Event(when, o) # Run
  <2> SUFFICES ASSUME NEW when, NEW o, Event(when, o) = Run PROVE when = "run"
    OBVIOUS
  <2>1. Event(when, o).when = when /\ Run.when = "run"
    BY DEF Event, Run
  <2> QED BY <2>1
<1>3. Event("pre", op) # Run /\ Event("post", op) # Run
      /\ Event("pre", ItemOp(op)) # Run /\ Event("post", ItemOp(op)) # Run
  BY <1>2
<1>4. CASE ~IsBulk(op)
  <2>1. Steps(op) = <<Event("pre", op), Run, Event("post", op)>> /\ RunAt(op) = 2
    BY <1>1, <1>4 DEF Steps, RunAt
  <2>2. Len(Steps(op)) = 3 /\ Steps(op)[1] = Event("pre", op) /\ Steps(op)[2] = Run
        /\ Steps(op)[3] = Event("post", op)
    BY <2>1
  <2>3. 1 .. Len(Steps(op)) = {1, 2, 3} /\ 1 .. RunAt(op) - 1 = {1}
    BY <2>1, <2>2
  <2> HIDE DEF Steps
  <2> QED BY <1>1, <1>3, <1>4, <2>1, <2>2, <2>3
<1>5. CASE IsBulk(op)
  <2> DEFINE item == <<Event("pre", ItemOp(op)), Run, Event("post", ItemOp(op))>>
  <2>1. Steps(op) = <<Event("pre", op)>> \o item \o <<Event("post", op)>> /\ RunAt(op) = 3
    BY <1>5 DEF Steps, RunAt
  <2>3. Len(Steps(op)) = 5 /\ Steps(op)[1] = Event("pre", op)
        /\ Steps(op)[2] = Event("pre", ItemOp(op)) /\ Steps(op)[3] = Run
        /\ Steps(op)[4] = Event("post", ItemOp(op)) /\ Steps(op)[5] = Event("post", op)
    <3> DEFINE both(a, b, c, d, e) == <<a>> \o <<b, c, d>> \o <<e>>
    <3>1. \A a, b, c, d, e : LET s == both(a, b, c, d, e)
            IN  Len(s) = 5 /\ s[1] = a /\ s[2] = b /\ s[3] = c /\ s[4] = d /\ s[5] = e
      BY Joined, Zenon
    <3>2. Steps(op) = both(Event("pre", op), Event("pre", ItemOp(op)), Run,
                           Event("post", ItemOp(op)), Event("post", op))
      BY <2>1
    <3> HIDE DEF both
    <3> QED BY <3>1, <3>2
  <2>4. 1 .. Len(Steps(op)) = {1, 2, 3, 4, 5} /\ 1 .. RunAt(op) - 1 = {1, 2}
    BY <2>1, <2>3
  <2> HIDE DEF Steps
  <2> QED BY <1>1, <1>3, <1>5, <2>1, <2>3, <2>4
<1> QED BY <1>4, <1>5

LEMMA EmittedIs ==
  ASSUME StartInv, phase # "starting", NEW e \in Events
  PROVE  /\ Emitted(bus, e) \in Seq(DOMAIN app.declared)
         /\ \A s \in {"own", "*"} : \A i \in HooksOf(app.declared, e, s) :
              \E m \in DOMAIN Emitted(bus, e) : Emitted(bus, e)[m] = i
<1> DEFINE all == bus[e]["*"]
           own == bus[e]["own"]
<1>1. app.declared \in Seq(Declarations) /\ bus = ApplyHooks(NoHooks, app.declared)
  BY AppsAssumption DEF StartInv, App
<1>2. /\ all \in Seq(HooksOf(app.declared, e, "*"))
      /\ own \in Seq(HooksOf(app.declared, e, "own"))
      /\ \A i \in HooksOf(app.declared, e, "*") : \E n \in DOMAIN all : all[n] = i
      /\ \A i \in HooksOf(app.declared, e, "own") : \E n \in DOMAIN own : own[n] = i
  BY <1>1, HooksAreRegistered
<1>3. \A s : HooksOf(app.declared, e, s) \subseteq DOMAIN app.declared
  BY DEF HooksOf
<1>4. all \in Seq(DOMAIN app.declared) /\ own \in Seq(DOMAIN app.declared)
  BY <1>2, <1>3
<1>5. Emitted(bus, e) = all \o own
  BY DEF Emitted
<1> HIDE DEF all, own
<1>6. \A n \in DOMAIN all : n \in DOMAIN (all \o own) /\ (all \o own)[n] = all[n]
  BY <1>4
<1>7. \A n \in DOMAIN own : Len(all) + n \in DOMAIN (all \o own) /\ (all \o own)[Len(all) + n] = own[n]
  BY <1>4
<1>8. (all \o own) \in Seq(DOMAIN app.declared)
  BY <1>4
<1>9. ASSUME NEW i \in HooksOf(app.declared, e, "*")
      PROVE  \E m \in DOMAIN Emitted(bus, e) : Emitted(bus, e)[m] = i
  <2>1. PICK n \in DOMAIN all : all[n] = i
    BY <1>2, <1>9
  <2> QED BY <1>5, <1>6, <2>1
<1>10. ASSUME NEW i \in HooksOf(app.declared, e, "own")
       PROVE  \E m \in DOMAIN Emitted(bus, e) : Emitted(bus, e)[m] = i
  <2>1. PICK n \in DOMAIN own : own[n] = i
    BY <1>2, <1>10
  <2> QED BY <1>5, <1>7, <2>1
<1> QED BY <1>5, <1>8, <1>9, <1>10

LEMMA PassedKept ==
  ASSUME TraceInv, NEW i, Passed(i), NEW j,
         passed' = passed \/ passed' = Append(passed, j)
  PROVE  Passed(i)'
<1>1. PICK n \in DOMAIN passed : passed[n] = i
  BY DEF Passed
<1>a. PICK S : passed \in Seq(S)
  BY DEF TraceInv
<1>b. passed \in Seq(S \cup {j})
  BY <1>a
<1>2. n \in DOMAIN passed' /\ passed'[n] = i
  <2>1. CASE passed' = passed
    BY <1>1, <2>1
  <2>2. CASE passed' = Append(passed, j)
    <3>1. n \in 1 .. Len(passed) /\ n # Len(passed) + 1
      BY <1>1, <1>a
    <3> QED BY <1>1, <1>b, <2>2, <3>1
  <2> QED BY <2>1, <2>2
<1> QED BY <1>2 DEF Passed

LEMMA PassedNow ==
  ASSUME TraceInv, NEW j, passed' = Append(passed, j)
  PROVE  Passed(j)'
<1>a. PICK S : passed \in Seq(S)
  BY DEF TraceInv
<1>b. passed \in Seq(S \cup {j})
  BY <1>a
<1>1. Len(passed) + 1 \in DOMAIN passed' /\ passed'[Len(passed) + 1] = j
  BY <1>b
<1> QED BY <1>1 DEF Passed

LEMMA PreEvent ==
  ASSUME AskInv, phase = "steps" \/ ran # << >>, NEW k \in 1 .. RunAt(q.op) - 1
  PROVE  /\ Steps(q.op)[k] \in Events
         /\ k \in 1 .. Len(Steps(q.op))
<1>1. q.op \in Ops
  BY DEF AskInv
<1>2. k \in 1 .. 2 /\ (k = 2 => IsBulk(q.op))
  BY DEF RunAt
<1>3. Steps(q.op)[k] = Event("pre", IF k = 1 THEN q.op ELSE ItemOp(q.op)) /\ ItemOp(q.op) \in Ops
  BY <1>1, StepsAre
<1>4. k \in 1 .. Len(Steps(q.op))
  BY <1>1, <1>2, StepsAre
<1> QED BY <1>1, <1>3, <1>4 DEF Event, Events

LEMMA TraceStep ==
  ASSUME TraceInv, [Next]_vars
  PROVE  TraceInv'
<1> USE DEF startup, stored, request, place, history
<1>1. CASE Ask \/ AskAgain
  <2>1. passed' = << >>
    BY <1>1 DEF Ask, AskAgain, Arrives
  <2>2. << >> \in Seq({})
    OBVIOUS
  <2> QED BY <2>1, <2>2 DEF TraceInv
<1>2. CASE HookPasses
  <2>1. PICK j : passed' = Append(passed, j) \/ passed' = passed
    BY <1>2 DEF HookPasses
  <2>2. PICK S : passed \in Seq(S)
    BY DEF TraceInv
  <2>3. passed \in Seq(S \cup {j})
    BY <2>2
  <2>4. Append(passed, j) \in Seq(S \cup {j})
    BY <2>3
  <2> QED BY <2>1, <2>3, <2>4 DEF TraceInv
<1>3. CASE UNCHANGED passed
  BY <1>3 DEF TraceInv
<1>4. FilterRequest => UNCHANGED passed
  BY FilterRequestIs
<1>5. Lifespan \/ Endpoint \/ EmitEnds \/ HookFails => UNCHANGED passed
  BY DEF Lifespan, Endpoint, EmitEnds, HookFails
<1>6. RunOperation \/ OperationEnds \/ FilterResponse \/ Send => UNCHANGED passed
  BY DEF RunOperation, OperationEnds, FilterResponse, Send
<1>7. Receive \/ OthersWrite \/ UNCHANGED vars => UNCHANGED passed
  BY DEF Receive, OthersWrite, vars
<1> QED BY <1>1, <1>2, <1>3, <1>4, <1>5, <1>6, <1>7 DEF Next

(* Which hooks of the steps before the run were called, and let pass.      *)
CalledPassed ==
  \A k \in 1 .. RunAt(q.op) - 1 :
    \A m \in DOMAIN Emitted(bus, Steps(q.op)[k]) :
      Called(k, m) /\ Fires(app.declared[Emitted(bus, Steps(q.op)[k])[m]], Context)
        => Passed(Emitted(bus, Steps(q.op)[k])[m])

LEMMA StepsInvIs ==
  StepsInv <=>
    (phase = "steps" =>
       /\ at \in 1 .. Len(Steps(q.op)) + 1
       /\ hook \in Nat \ {0}
       /\ at <= RunAt(q.op) => CalledPassed)
BY DEF StepsInv, CalledPassed

LEMMA StepsStep ==
  ASSUME StartInv, AskInv, TraceInv, StepsInv, [Next]_vars
  PROVE  StepsInv'
<1> USE DEF startup, stored, request, place, history
<1> SUFFICES ASSUME phase' = "steps"
             PROVE  /\ at' \in 1 .. Len(Steps(q'.op)) + 1
                    /\ hook' \in Nat \ {0}
                    /\ at' <= RunAt(q'.op) => CalledPassed'
  BY StepsInvIs DEF StepsInv, CalledPassed
<1>1. CASE phase # "steps"
  <2>1. Endpoint
    <3>1. ~FilterRequest
      BY FilterRequestIs DEF Answers
    <3>2. ~Lifespan /\ ~Ask /\ ~AskAgain
      BY DEF Lifespan, Ask, AskAgain, Arrives
    <3>3. ~HookPasses /\ ~EmitEnds /\ ~HookFails /\ ~RunOperation /\ ~OperationEnds
      BY <1>1 DEF HookPasses, EmitEnds, HookFails, RunOperation, OperationEnds, InHooks
    <3>4. ~FilterResponse /\ ~Send /\ ~Receive
      BY DEF FilterResponse, Send, Receive
    <3>5. ~OthersWrite /\ ~UNCHANGED vars
      BY <1>1 DEF OthersWrite, vars
    <3> QED BY <3>1, <3>2, <3>3, <3>4, <3>5 DEF Next
  <2>2. /\ phase = "down" /\ at' = 1 /\ hook' = 1 /\ q' = q /\ bus' = bus /\ q.op # "health"
    BY <2>1 DEF Endpoint, Answers
  <2>3. q.op \in Ops
    BY <2>2 DEF AskInv, Asking, Conditional
  <2>4. Len(Steps(q.op)) \in Nat
    BY <2>3, StepsAre
  <2>5. ASSUME NEW k \in 1 .. RunAt(q.op) - 1, NEW m \in DOMAIN Emitted(bus, Steps(q.op)[k])
        PROVE  ~(k < 1 \/ (k = 1 /\ m < 1))
    <3>1. k \in Nat \ {0}
      OBVIOUS
    <3>2. Steps(q.op)[k] \in Events
      <4>1. Steps(q.op)[k] = Event("pre", IF k = 1 THEN q.op ELSE ItemOp(q.op)) /\ ItemOp(q.op) \in Ops
        BY <2>3, StepsAre
      <4> QED BY <2>3, <4>1 DEF Event, Events
    <3>3. Emitted(bus, Steps(q.op)[k]) \in Seq(DOMAIN app.declared)
      BY <2>2, <3>2, EmittedIs
    <3>4. m \in Nat \ {0}
      BY <3>3
    <3> QED BY <3>1, <3>4
  <2>6. CalledPassed'
    BY <2>2, <2>5 DEF CalledPassed, Called
  <2> QED BY <2>2, <2>4, <2>6
<1>2. CASE phase = "steps"
  <2>a. q.op \in Ops
    BY <1>2 DEF AskInv
  <2>b. /\ at \in 1 .. Len(Steps(q.op)) + 1 /\ hook \in Nat \ {0}
        /\ at <= RunAt(q.op) => CalledPassed
    BY <1>2, StepsInvIs
  <2>c. /\ Len(Steps(q.op)) \in {3, 5} /\ RunAt(q.op) \in {2, 3} /\ RunAt(q.op) <= Len(Steps(q.op))
        /\ IsBulk(q.op) => RunAt(q.op) = 3 /\ Len(Steps(q.op)) = 5
    BY <2>a, StepsAre
  <2>1. CASE HookPasses
    <3>1. /\ UNCHANGED <<q, bus, app, at>> /\ hook' = hook + 1
          /\ passed' = IF Fires(app.declared[Hooks[hook]], Context)
                       THEN Append(passed, Hooks[hook]) ELSE passed
      BY <2>1 DEF HookPasses
    <3>2. Context' = Context
      BY <3>1 DEF Context
    <3>3. ASSUME at <= RunAt(q.op), NEW k \in 1 .. RunAt(q.op) - 1,
                 NEW m \in DOMAIN Emitted(bus, Steps(q.op)[k]), Called(k, m)',
                 Fires(app.declared[Emitted(bus, Steps(q.op)[k])[m]], Context)
          PROVE  Passed(Emitted(bus, Steps(q.op)[k])[m])'
      <4> DEFINE i == Emitted(bus, Steps(q.op)[k])[m]
      <4>1. CASE Called(k, m)
        <5>1. Passed(i)
          BY <2>b, <3>3, <4>1 DEF CalledPassed
        <5> HIDE DEF i
        <5> QED BY <3>1, <5>1, PassedKept DEF i
      <4>2. CASE ~Called(k, m)
        <5>1. k = at /\ m = hook
          <6>1. Steps(q.op)[k] \in Events
            BY <1>2, PreEvent
          <6>2. Emitted(bus, Steps(q.op)[k]) \in Seq(DOMAIN app.declared)
            BY <1>2, <6>1, EmittedIs
          <6>3. m \in Nat
            BY <6>2
          <6>4. k < at \/ (k = at /\ m < hook + 1)
            BY <3>1, <3>3 DEF Called
          <6> QED BY <2>b, <4>2, <6>3, <6>4 DEF Called
        <5>2. i = Hooks[hook]
          BY <5>1 DEF Hooks
        <5>3. passed' = Append(passed, i)
          BY <3>1, <3>3, <5>2
        <5> HIDE DEF i
        <5> QED BY <3>1, <5>3, PassedNow DEF i
      <4> QED BY <4>1, <4>2
    <3>4. at <= RunAt(q.op) => CalledPassed'
      BY <3>1, <3>2, <3>3 DEF CalledPassed
    <3> QED BY <2>b, <3>1, <3>4
  <2>2. CASE EmitEnds
    <3>1. /\ UNCHANGED <<q, bus, app, passed>> /\ hook' = 1 /\ hook > Len(Hooks)
          /\ at <= Len(Steps(q.op)) /\ Steps(q.op)[at] # Run
          /\ at' = IF q.op \in {"bulk_update", "bulk_delete"} /\ at = 1 /\ entity = 0 THEN 5 ELSE at + 1
      BY <2>2 DEF EmitEnds, InHooks
    <3>2. CASE q.op \in {"bulk_update", "bulk_delete"} /\ at = 1 /\ entity = 0
      <4>1. IsBulk(q.op) /\ at' = 5
        BY <3>1, <3>2 DEF IsBulk, BulkOps
      <4>2. 5 \in 1 .. 5 + 1 /\ ~(5 <= 3) /\ 1 \in Nat \ {0}
        OBVIOUS
      <4> QED BY <2>c, <3>1, <4>1, <4>2, Zenon
    <3>3. CASE ~(q.op \in {"bulk_update", "bulk_delete"} /\ at = 1 /\ entity = 0)
      <4>1. at' = at + 1 /\ at \in 1 .. Len(Steps(q.op)) /\ Len(Steps(q.op)) \in Nat
        BY <2>b, <2>c, <3>1, <3>3
      <4>2. Context' = Context
        BY <3>1 DEF Context
      <4>3. ASSUME at' <= RunAt(q.op), NEW k \in 1 .. RunAt(q.op) - 1,
                   NEW m \in DOMAIN Emitted(bus, Steps(q.op)[k]), Called(k, m)'
            PROVE  Called(k, m) /\ at <= RunAt(q.op)
        <5>1. Steps(q.op)[k] \in Events
          BY <1>2, PreEvent
        <5>2. Emitted(bus, Steps(q.op)[k]) \in Seq(DOMAIN app.declared)
          BY <1>2, <5>1, EmittedIs
        <5>3. m \in 1 .. Len(Emitted(bus, Steps(q.op)[k])) /\ Len(Emitted(bus, Steps(q.op)[k])) \in Nat
          BY <5>2
        <5>4. k < at + 1 \/ (k = at + 1 /\ m < 1)
          BY <3>1, <4>1, <4>3 DEF Called
        <5>5. k < at \/ k = at
          BY <4>1, <5>3, <5>4
        <5>6. k = at => m < hook
          BY <2>b, <3>1, <5>3 DEF Hooks
        <5> QED BY <2>c, <4>1, <4>3, <5>5, <5>6 DEF Called
      <4>4. at' <= RunAt(q.op) => CalledPassed'
        <5> SUFFICES ASSUME at' <= RunAt(q.op), NEW k \in 1 .. RunAt(q.op) - 1,
                            NEW m \in DOMAIN Emitted(bus, Steps(q.op)[k]), Called(k, m)',
                            Fires(app.declared[Emitted(bus, Steps(q.op)[k])[m]], Context)
                     PROVE  Passed(Emitted(bus, Steps(q.op)[k])[m])'
          BY <3>1, <4>2 DEF CalledPassed
        <5>1. Called(k, m) /\ at <= RunAt(q.op)
          BY <4>3
        <5>2. Passed(Emitted(bus, Steps(q.op)[k])[m])
          BY <2>b, <5>1 DEF CalledPassed
        <5> QED BY <3>1, <5>2 DEF Passed
      <4> QED BY <3>1, <4>1, <4>4
    <3> QED BY <3>2, <3>3
  <2>3. CASE HookFails
    <3>1. OfItem /\ at' = 5 /\ hook' = 1 /\ q' = q
      BY <1>2, <2>3 DEF HookFails, Fails, Answers
    <3>2. IsBulk(q.op)
      BY <3>1 DEF OfItem
    <3>3. 5 \in 1 .. 5 + 1 /\ ~(5 <= 3) /\ 1 \in Nat \ {0}
      OBVIOUS
    <3> QED BY <2>c, <3>1, <3>2, <3>3, Zenon
  <2>4. CASE RunOperation
    <3>1. /\ at' = at + 1 /\ hook' = 1 /\ q' = q
          /\ at <= Len(Steps(q.op)) /\ Steps(q.op)[at] = Run
      BY <2>4 DEF RunOperation
    <3>2. at \in 1 .. Len(Steps(q.op))
      BY <2>b, <2>c, <3>1
    <3>3. at = RunAt(q.op)
      BY <2>a, <3>1, <3>2, StepsAre
    <3> QED BY <2>c, <3>1, <3>2, <3>3
  <2>5. CASE UNCHANGED <<q, bus, app, at, hook, passed>>
    <3>1. Context' = Context
      BY <2>5 DEF Context
    <3>2. CalledPassed => CalledPassed'
      BY <2>5, <3>1 DEF CalledPassed, Called, Passed
    <3> QED BY <2>5, <2>b, <3>2
  <2>6. OthersWrite \/ UNCHANGED vars => UNCHANGED <<q, bus, app, at, hook, passed>>
    BY DEF OthersWrite, vars
  <2>7. ~FilterRequest /\ ~Lifespan /\ ~Ask /\ ~AskAgain
    BY <1>2, FilterRequestIs DEF Lifespan, Ask, AskAgain, Arrives
  <2>8. ~Endpoint /\ ~OperationEnds /\ ~FilterResponse /\ ~Send /\ ~Receive
    BY <1>2 DEF Endpoint, OperationEnds, Answers, FilterResponse, Send, Receive
  <2> QED BY <2>1, <2>2, <2>3, <2>4, <2>5, <2>6, <2>7, <2>8 DEF Next
<1> QED BY <1>1, <1>2

(* The guards of an operation are hooks of the steps before its run.       *)
LEMMA GuardsAreCalled ==
  ASSUME StartInv, AskInv, StepsInv, phase = "steps", at = RunAt(q.op),
         NEW i \in DOMAIN app.declared, app.declared[i].kind = "guard",
         app.declared[i].op \in {q.op, ItemOp(q.op)}, InScope(app.declared[i])
  PROVE  Passed(i)
<1> DEFINE d == app.declared[i]
<1>1. q.op \in Ops /\ Asking(q) /\ d \in Declarations
  BY AppsAssumption DEF AskInv, StartInv, App
<1>2. CalledPassed
  BY <1>1, StepsInvIs, StepsAre
<1>3. RunAt(q.op) \in {2, 3} /\ ItemOp(q.op) \in Ops
      /\ (IsBulk(q.op) => RunAt(q.op) = 3) /\ (~IsBulk(q.op) => ItemOp(q.op) = q.op)
  BY <1>1, StepsAre
<1>4. PICK k \in 1 .. RunAt(q.op) - 1 : d.op = IF k = 1 THEN q.op ELSE ItemOp(q.op)
  <2>1. CASE d.op = q.op
    BY <1>3, <2>1
  <2>2. CASE d.op # q.op
    <3>1. IsBulk(q.op) /\ d.op = ItemOp(q.op)
      BY <1>3, <2>2
    <3> QED BY <1>3, <3>1
  <2> QED BY <2>1, <2>2
<1>5. Steps(q.op)[k] = Event("pre", d.op)
  BY <1>1, <1>4, StepsAre
<1>6. PICK s \in {"own", "*"} : d.schema = s
  BY <1>1 DEF Declarations
<1>7. i \in HooksOf(app.declared, Event("pre", d.op), s) /\ Event("pre", d.op) \in Events
  <2>1. EventOf(d) = Event("pre", d.op)
    BY DEF EventOf, Event
  <2>2. Event("pre", d.op) \in Events
    BY <1>1, <1>3 DEF Event, Events
  <2> QED BY <1>6, <2>1, <2>2 DEF HooksOf
<1>8. PICK m \in DOMAIN Emitted(bus, Event("pre", d.op)) : Emitted(bus, Event("pre", d.op))[m] = i
  BY <1>7, EmittedIs
<1>9. Called(k, m)
  BY <1>3, <1>4 DEF Called
<1>10. Fires(d, Context)
  BY <1>1, AskedIsContext DEF Fires, InScope, Asking
<1> HIDE DEF d
<1>11. Passed(Emitted(bus, Steps(q.op)[k])[m])
  BY <1>2, <1>5, <1>8, <1>9, <1>10 DEF CalledPassed, d
<1> QED BY <1>5, <1>8, <1>11

LEMMA GuardStep ==
  ASSUME StartInv, AskInv, TraceInv, StepsInv, GuardInv, [Next]_vars
  PROVE  GuardInv'
<1> USE DEF startup, stored, request, place, history
<1>1. CASE RunOperation
  <2>1. /\ phase = "steps" /\ at <= Len(Steps(q.op)) /\ Steps(q.op)[at] = Run
        /\ UNCHANGED <<app, q, passed>>
    BY <1>1 DEF RunOperation
  <2>2. at = RunAt(q.op)
    <3>1. q.op \in Ops /\ at \in 1 .. Len(Steps(q.op)) + 1
      BY <2>1, StepsInvIs DEF AskInv
    <3>2. Len(Steps(q.op)) \in Nat
      BY <3>1, StepsAre
    <3>3. at \in 1 .. Len(Steps(q.op))
      BY <2>1, <3>1, <3>2
    <3> QED BY <2>1, <3>1, <3>3, StepsAre
  <2>3. \A i \in DOMAIN app.declared :
          LET d == app.declared[i]
          IN  d.kind = "guard" /\ d.op \in {q.op, ItemOp(q.op)} /\ InScope(d) => Passed(i)
    BY <2>1, <2>2, GuardsAreCalled
  <2> QED BY <2>1, <2>3 DEF GuardInv, InScope, Asked, Passed
<1>2. CASE Ask \/ AskAgain
  BY <1>2 DEF Ask, AskAgain, Arrives, GuardInv
<1>3. ASSUME UNCHANGED <<app, q, ran>>, NEW j, passed' = passed \/ passed' = Append(passed, j)
      PROVE  GuardInv'
  <2> SUFFICES ASSUME ran # << >>, NEW i \in DOMAIN app.declared, app.declared[i].kind = "guard",
                      app.declared[i].op \in {q.op, ItemOp(q.op)}, InScope(app.declared[i])
               PROVE  Passed(i)'
    BY <1>3 DEF GuardInv, InScope, Asked
  <2>1. Passed(i)
    BY DEF GuardInv
  <2> QED BY <1>3, <2>1, PassedKept
<1>4. HookPasses => UNCHANGED <<app, q, ran>>
                    /\ \E j : passed' = passed \/ passed' = Append(passed, j)
  BY DEF HookPasses
<1>5. FilterRequest => UNCHANGED <<app, q, ran, passed>>
  BY FilterRequestIs
<1>6. Lifespan \/ Endpoint \/ EmitEnds \/ HookFails => UNCHANGED <<app, q, ran, passed>>
  BY DEF Lifespan, Endpoint, EmitEnds, HookFails
<1>7. OperationEnds \/ FilterResponse \/ Send => UNCHANGED <<app, q, ran, passed>>
  BY DEF OperationEnds, FilterResponse, Send
<1>8. Receive \/ OthersWrite \/ UNCHANGED vars => UNCHANGED <<app, q, ran, passed>>
  BY DEF Receive, OthersWrite, vars
<1> QED BY <1>1, <1>2, <1>3, <1>4, <1>5, <1>6, <1>7, <1>8 DEF Next

(* What ran was let pass by all that guards it.                            *)
LEMMA NothingUnguarded ==
  ASSUME StartInv, AskInv, ContextInv, GuardInv
  PROVE  NothingRunsUnguarded
<1> SUFFICES ASSUME ran # << >> PROVE NothingRunsUnguarded
  BY DEF NothingRunsUnguarded
<1>1. (~q.socket => Through(app.filters)) /\ q.op \in Ops
  BY DEF ContextInv, AskInv
<1>2. "auth" \in app.filters /\ ~q.socket => ctx.user # None
  BY <1>1 DEF Through, ContextOf
<1>3. ASSUME "rego" \in app.filters, ~q.socket PROVE ctx.admitted
  <2>1. ctx.admitted = Admitted(q, app.filters)
    BY <1>1, <1>3 DEF Through, ContextOf
  <2>2. q.op # "health"
    BY <1>1 DEF Ops, BulkOps
  <2> QED BY <1>3, <2>1, <2>2 DEF Admitted
<1> QED BY <1>2, <1>3 DEF NothingRunsUnguarded, GuardInv, Passed

-----------------------------------------------------------------------------
(* What is shown.                                                          *)
Shows ==
  /\ Successful(resp) /\ q.front = "rest" /\ q.op # "health" /\ "projection" \in app.filters
  /\ ~({"data", "meta"} \subseteq app.fields)

Ruled == "auth" \in app.filters /\ ProjectionSchema(Path(app, q)) = "own"

Allows(fields) ==
  /\ Ruled => app.rules[q.token] = None \/ fields \subseteq app.rules[q.token]
  /\ q.fields = None \/ fields \subseteq q.fields

(* The projection is the first of the filters on responses, and can read   *)
(* what the endpoint answers.                                              *)
ShowInv ==
  /\ phase = "up" /\ Shows /\ at = Len(chain) =>
       resp.body = "stream" /\ resp.data.format = "json" /\ resp.data.fields = app.fields
  /\ (phase = "up" /\ at # Len(chain)) \/ phase = "sent" =>
       (Shows => Allows(resp.data.fields))

LEMMA ProjectAllows ==
  ASSUME StartInv, Asking(q), IsResponse(resp), Shows, resp.body = "stream", resp.data.format = "json",
         resp.data.fields = app.fields, Through(app.filters)
  PROVE  Allows(Project(app, q, ctx, resp).data.fields)
<1> DEFINE user == IF "auth" \in app.filters THEN q.token ELSE None
           role == IF user = None \/ ProjectionSchema(Path(app, q)) # "own" THEN None ELSE app.rules[user]
           fields == Allowed(role, q.fields)
<1>1. ctx.user = user /\ ctx.fields = q.fields /\ ("auth" \in app.filters => q.token # None)
  BY DEF Through, ContextOf, Shows
<1>2. RoleFields(app, q, ctx) = role
  BY <1>1 DEF RoleFields, Shows
<1>3. ~Failed(resp) /\ Readable(resp)
  <2>1. resp.status \in {200, 201}
    BY DEF Shows, Successful
  <2> QED BY <2>1 DEF Failed, Readable
<1>4. Project(app, q, ctx, resp) =
        IF fields = None THEN resp ELSE Rebuilt(resp, Show(resp.data, fields))
  <2>1. ~LooksWrapped(resp.data)
    BY DEF LooksWrapped, Shows
  <2> QED BY <1>1, <1>2, <1>3, <2>1 DEF Project
<1>5. IsData(resp.data)
  BY ResponseData
<1>6. CASE fields = None
  <2>1. role \in (SUBSET Fields) \cup {None} /\ q.fields \in (SUBSET Fields) \cup {None}
    <3>1. q.fields \in (SUBSET Fields) \cup {None} /\ q.token \in Roles \cup {None}
      BY DEF Asking, Conditional
    <3>2. app.rules \in [Roles -> (SUBSET Fields) \cup {None}]
      BY AppsAssumption DEF StartInv, App
    <3> QED BY <3>1, <3>2
  <2>2. role = None /\ q.fields = None
    <3> HIDE DEF role
    <3> QED BY <1>6, <2>1, NoneAssumption DEF Allowed
  <2> QED BY <1>1, <2>2 DEF Allows, Ruled
<1>7. CASE fields # None
  <2>1. /\ role # None => fields \subseteq role
        /\ q.fields # None => fields \subseteq q.fields
    BY <1>7 DEF Allowed
  <2> DEFINE shown == Show(resp.data, fields)
  <2>2. IsData(shown) /\ shown.fields \subseteq fields
    BY <1>5, ShowIs DEF Selected
  <2>3. Project(app, q, ctx, resp).data.fields \subseteq fields
    <3>1. Project(app, q, ctx, resp) = Rebuilt(resp, shown)
      BY <1>4, <1>7
    <3> HIDE DEF shown
    <3>2. Rebuilt(resp, shown).data = shown
      BY <2>2, RebuiltIs
    <3> QED BY <2>2, <3>1, <3>2
  <2>4. Ruled => role = app.rules[q.token]
    BY <1>1 DEF Ruled
  <2> HIDE DEF role, fields
  <2> QED BY <2>1, <2>3, <2>4 DEF Allows
<1> QED BY <1>6, <1>7

LEMMA ShowStep ==
  ASSUME StartInv, AskInv, AnswerInv, ContextInv, ShowInv, [Next]_vars
  PROVE  ShowInv'
<1> USE DEF startup, stored, request, place, history
<1>1. CASE Lifespan \/ Ask \/ AskAgain
  <2>1. phase' \in {"idle", "down"}
    BY <1>1 DEF Lifespan, Ask, AskAgain, Arrives
  <2> QED BY <2>1 DEF ShowInv
<1>2. CASE FilterRequest
  <2>1. phase' = "down" \/ \E status \in {401, 403, 413, 503, 500} : resp' = Refusal(status)
    BY <1>2, FilterRequestIs DEF Answers
  <2>2. phase' = "down" \/ ~Successful(resp)'
    <3>1. ASSUME NEW status \in {401, 403, 413, 503, 500}, resp' = Refusal(status)
          PROVE  ~Successful(resp)'
      <4>1. resp'.status = status
        BY <3>1, RefusalIs DEF Statuses
      <4> QED BY <4>1 DEF Successful
    <3> QED BY <2>1, <3>1
  <2> QED BY <2>2 DEF ShowInv, Shows
<1>3. CASE Endpoint
  <2>1. q' = q /\ (phase' = "steps" \/ q.op = "health" \/ resp' = NotOk(404))
    BY <1>3 DEF Endpoint, Answers
  <2>2. q.front = "rest" => NotOk(404).status = 404
    BY NotOkIs
  <2> QED BY <2>1, <2>2 DEF ShowInv, Shows, Successful
<1>4. CASE HookPasses \/ EmitEnds \/ RunOperation
  <2>1. phase' = "steps"
    BY <1>4 DEF HookPasses, EmitEnds, RunOperation, InHooks
  <2> QED BY <2>1 DEF ShowInv
<1>5. CASE HookFails
  <2>1. q' = q /\ (phase' = "steps" \/ resp' = NotOk(403) \/ resp' = Refusal(500))
    BY <1>5 DEF HookFails, Fails, Answers, InHooks
  <2>2. q.front = "rest" => NotOk(403).status = 403
    BY NotOkIs
  <2>3. Refusal(500).status = 500
    BY RefusalIs DEF Statuses
  <2> QED BY <2>1, <2>2, <2>3 DEF ShowInv, Shows, Successful
<1>6. CASE OperationEnds
  <2>1. /\ phase' = "up" /\ UNCHANGED <<app, chain, q>>
        /\ at' = (IF q.socket THEN 0 ELSE Len(chain)) /\ resp' = Ok(found)
    BY <1>6 DEF OperationEnds, Answers
  <2>0. q.front = "rest" => ~q.socket
    <3>1. phase = "steps"
      BY <1>6 DEF OperationEnds
    <3> QED BY <3>1 DEF AskInv, Asking, Scoped
  <2> SUFFICES ASSUME Shows'
               PROVE  /\ resp'.body = "stream" /\ resp'.data.format = "json"
                      /\ resp'.data.fields = app.fields
    BY <2>0, <2>1 DEF ShowInv, Shows
  <2>2. resp' = FromEndpoint(Success(q.op), Data(Shape(q.op), found, app.fields))
    BY <2>1, OkIs DEF Shows
  <2>3. Success(q.op) \in Statuses
    BY DEF Success, Statuses
  <2>4. /\ resp'.status = Success(q.op) /\ resp'.data.format = "json" /\ resp'.data.fields = app.fields
        /\ resp'.body = IF Success(q.op) = 204 THEN "none" ELSE "stream"
    BY <2>2, <2>3, EndpointIs
  <2> QED BY <2>4 DEF Shows, Successful
<1>7. CASE FilterResponse
  <2>1. /\ phase = "up" /\ phase' = "up" /\ at > 0 /\ at' = at - 1
        /\ UNCHANGED <<app, chain, q, ctx>>
        /\ resp' = OnResponse(chain[at], app, q, ctx, resp)
    BY <1>7 DEF FilterResponse
  <2>2. IsResponse(resp) /\ at \in 1 .. Len(chain) /\ Len(chain) \in Nat /\ Asking(q) /\ ~q.socket
    <3>1. /\ IsResponse(resp) /\ at \in 0 .. Len(chain) /\ (q.socket => at = 0)
          /\ Len(chain) \in Nat /\ Asking(q)
      BY <2>1, ChainIs DEF AnswerInv, AskInv
    <3> QED BY <2>1, <3>1
  <2>3. at' # Len(chain')
    BY <2>1, <2>2
  <2> SUFFICES ASSUME Shows' PROVE Allows(resp.data.fields)'
    BY <2>1, <2>3 DEF ShowInv
  <2>4. /\ resp'.status = resp.status \/ resp'.status = 304
        /\ resp'.data.fields \subseteq resp.data.fields
    BY <2>1, <2>2, ResponseKeeps DEF Keeps
  <2>5. Shows
    BY <2>1, <2>4 DEF Shows, Successful
  <2>6. Allows(resp'.data.fields)
    <3>1. CASE at = Len(chain)
      <4>1. chain[at] = "projection"
        BY <2>1, <2>5, <3>1, ChainIs DEF Shows
      <4>2. resp' = Project(app, q, ctx, resp)
        BY <2>1, <4>1 DEF OnResponse
      <4>3. Tells
        BY <2>1, <2>5 DEF Tells, Shows, Successful
      <4>4. /\ Through(app.filters)
            /\ resp.body = "stream" /\ resp.data.format = "json" /\ resp.data.fields = app.fields
        BY <2>1, <2>2, <2>5, <3>1, <4>3 DEF ContextInv, ShowInv
      <4> QED BY <2>2, <2>5, <4>2, <4>4, ProjectAllows
    <3>2. CASE at # Len(chain)
      <4>1. Allows(resp.data.fields)
        BY <2>1, <2>5, <3>2 DEF ShowInv
      <4> QED BY <2>4, <4>1 DEF Allows
    <3> QED BY <3>1, <3>2
  <2> QED BY <2>1, <2>6 DEF Allows, Ruled
<1>8. CASE Send
  <2>1. phase = "up" /\ phase' = "sent" /\ at = 0 /\ UNCHANGED <<app, q, resp, chain>>
    BY <1>8 DEF Send
  <2>2. Shows => at # Len(chain)
    BY <2>1, ChainIs DEF Shows
  <2> QED BY <2>1, <2>2 DEF ShowInv, Shows, Allows, Ruled
<1>9. CASE Receive
  BY <1>9 DEF Receive, ShowInv
<1>10. CASE OthersWrite \/ UNCHANGED vars
  <2>1. UNCHANGED <<app, q, resp, chain, phase, at>>
    BY <1>10 DEF OthersWrite, vars
  <2> QED BY <2>1 DEF ShowInv, Shows, Allows, Ruled
<1> QED BY <1>1, <1>2, <1>3, <1>4, <1>5, <1>6, <1>7, <1>8, <1>9, <1>10 DEF Next

LEMMA ShownIsAllowed ==
  ASSUME ContextInv, ShowInv
  PROVE  ShowsWhatIsAllowed
<1> SUFFICES ASSUME phase = "sent", Shows PROVE ShowsWhatIsAllowed
  BY DEF ShowsWhatIsAllowed, Shows
<1>1. Allows(resp.data.fields)
  BY DEF ShowInv
<1> QED BY <1>1 DEF ShowsWhatIsAllowed, Allows, Ruled

-----------------------------------------------------------------------------
(* Not modified.  A request, and the filters, without If-None-Match.       *)
Base(r) == [r EXCEPT !.condition = None]

Step(a, f, b, x) == OnResponse(f, a, b, ContextOf(b, a.filters), x)

LEMMA BaseIs ==
  ASSUME NEW r, Asking(r)
  PROVE  /\ Base(r).front = r.front /\ Base(r).op = r.op /\ Base(r).method = r.method
         /\ Base(r).token = r.token /\ Base(r).accept = r.accept /\ Base(r).header = r.header
         /\ Base(r).fields = r.fields /\ Base(r).condition = None
BY DEF Asking, Conditional, Base

LEMMA ContextIs ==
  ASSUME NEW r, NEW done
  PROVE  LET c == ContextOf(r, done)
             d == [c EXCEPT !.condition = None]
         IN  /\ c.condition = IF "etag" \in done THEN r.condition ELSE None
             /\ d.user = c.user /\ d.accept = c.accept /\ d.version = c.version
             /\ d.fields = c.fields /\ d.condition = None
BY DEF ContextOf

LEMMA BaseContext ==
  ASSUME NEW r, Asking(r), NEW done
  PROVE  [ContextOf(r, done) EXCEPT !.condition = None] = ContextOf(Base(r), done)
<1>1. Admitted(Base(r), done) = Admitted(r, done)
  BY BaseIs DEF Admitted
<1> DEFINE a == IF "auth" \in done THEN r.token ELSE None
           b == IF "negotiation" \in done THEN r.accept ELSE "json"
           c == IF "version" \in done THEN r.header ELSE None
           d == IF "projection" \in done THEN r.fields ELSE None
           e == IF "etag" \in done THEN r.condition ELSE None
           g == Admitted(r, done)
<1>2. ContextOf(Base(r), done)
        = [user |-> a, accept |-> b, version |-> c, fields |-> d, condition |-> None, admitted |-> g]
  <2>1. (IF "etag" \in done THEN Base(r).condition ELSE None) = None
    BY BaseIs
  <2> HIDE DEF g
  <2> QED BY <1>1, <2>1, BaseIs DEF ContextOf, g
<1>3. ContextOf(r, done)
        = [user |-> a, accept |-> b, version |-> c, fields |-> d, condition |-> e, admitted |-> g]
  BY DEF ContextOf
<1> HIDE DEF a, b, c, d, e, g
<1> QED BY <1>2, <1>3

(* The filters look at nothing of a request that differs from its base,    *)
(* and but for the etag filter at no condition.                            *)
LEMMA BaseStep ==
  ASSUME NEW r, Asking(r), NEW f, NEW x, NEW c, c = ContextOf(r, app.filters)
  PROVE  /\ OnResponse(f, app, r, [c EXCEPT !.condition = None], x) = Step(app, f, Base(r), x)
         /\ f # "etag" => OnResponse(f, app, r, c, x) = Step(app, f, Base(r), x)
<1> DEFINE d == [c EXCEPT !.condition = None]
<1>1. d = ContextOf(Base(r), app.filters)
  BY BaseContext
<1>2. d.user = c.user /\ d.accept = c.accept /\ d.version = c.version /\ d.fields = c.fields
  BY ContextIs
<1> HIDE DEF d
<1>3. OnResponse(f, app, r, d, x) = OnResponse(f, app, Base(r), d, x)
  <2>0. Path(app, r) = Path(app, Base(r))
    BY BaseIs DEF Path
  <2>1. RoleFields(app, r, d) = RoleFields(app, Base(r), d)
    BY <2>0 DEF RoleFields
  <2>2. Project(app, r, d, x) = Project(app, Base(r), d, x)
    BY <2>1 DEF Project
  <2>3. Tag(r, d, x) = Tag(Base(r), d, x)
    BY BaseIs DEF Tag
  <2>4. FitVersion(app, r, d, x) = FitVersion(app, Base(r), d, x)
    BY <2>0 DEF FitVersion
  <2> QED BY <2>2, <2>3, <2>4 DEF OnResponse
<1>4. f # "etag" => OnResponse(f, app, r, c, x) = OnResponse(f, app, r, d, x)
  <2>1. RoleFields(app, r, d) = RoleFields(app, r, c)
    BY <1>2 DEF RoleFields
  <2>2. Project(app, r, d, x) = Project(app, r, c, x)
    BY <1>2, <2>1 DEF Project
  <2>3. Negotiate(d, x) = Negotiate(c, x)
    BY <1>2 DEF Negotiate
  <2>4. FitVersion(app, r, d, x) = FitVersion(app, r, c, x)
    BY <1>2 DEF FitVersion
  <2> QED BY <2>2, <2>3, <2>4 DEF OnResponse
<1> QED BY <1>1, <1>3, <1>4 DEF d, Step

(* Of two requests for the same view all filters do the same, but for the  *)
(* projection, which looks at the fields and the role, too.                *)
LEMMA SameStep ==
  ASSUME NEW r, NEW s, r.front = s.front, r.op = s.op, r.header = s.header, r.accept = s.accept,
         NEW f, f # "etag", f = "projection" => r.fields = s.fields /\ r.token = s.token,
         NEW a, NEW x
  PROVE  Step(a, f, r, x) = Step(a, f, s, x)
<1> DEFINE c == ContextOf(r, a.filters)
           d == ContextOf(s, a.filters)
<1>1. Path(a, r) = Path(a, s)
  BY DEF Path
<1>2. /\ c.accept = d.accept /\ c.version = d.version
      /\ f = "projection" => c.user = d.user /\ c.fields = d.fields
  BY DEF ContextOf
<1> HIDE DEF c, d
<1>3. f = "projection" => Project(a, r, c, x) = Project(a, s, d, x)
  <2>1. f = "projection" => RoleFields(a, r, c) = RoleFields(a, s, d)
    BY <1>1, <1>2 DEF RoleFields
  <2> QED BY <1>2, <2>1 DEF Project
<1>4. Negotiate(c, x) = Negotiate(d, x)
  BY <1>2 DEF Negotiate
<1>5. FitVersion(a, r, c, x) = FitVersion(a, s, d, x)
  BY <1>1, <1>2 DEF FitVersion
<1>6. OnResponse(f, a, r, c, x) = OnResponse(f, a, s, d, x)
  BY <1>3, <1>4, <1>5 DEF OnResponse
<1> QED BY <1>6 DEF Step, c, d

(* The same but for the document that is shown and its tag.                *)
AlikeData(d, e) ==
  /\ d.shape = e.shape /\ d.fields = e.fields /\ d.nulls = e.nulls
  /\ d.wrapped = e.wrapped /\ d.format = e.format

Alike(x, y) == x.status = y.status /\ x.body = y.body /\ AlikeData(x.data, y.data)

LEMMA AlikeSpend ==
  ASSUME NEW x, IsResponse(x), NEW y, IsResponse(y), Alike(x, y)
  PROVE  Alike(Spend(x), Spend(y))
BY DEF IsResponse, Alike, Spend

LEMMA AlikeRebuilt ==
  ASSUME NEW x, IsResponse(x), NEW y, IsResponse(y), Alike(x, y),
         NEW d, IsData(d), NEW e, IsData(e), AlikeData(d, e)
  PROVE  Alike(Rebuilt(x, d), Rebuilt(y, e))
<1>1. /\ Rebuilt(x, d) = Response(x.status, "buffer", d, x.tag, x.secured)
      /\ Rebuilt(y, e) = Response(y.status, "buffer", e, y.tag, y.secured)
  BY RebuiltIs
<1> QED BY <1>1 DEF Alike, Response

LEMMA AlikeShow ==
  ASSUME NEW d, IsData(d), NEW e, IsData(e), AlikeData(d, e), NEW fields
  PROVE  /\ IsData(Show(d, fields)) /\ IsData(Show(e, fields))
         /\ AlikeData(Show(d, fields), Show(e, fields))
         /\ IsData(Fit(d, fields)) /\ IsData(Fit(e, fields))
         /\ AlikeData(Fit(d, fields), Fit(e, fields))
<1>1. ASSUME NEW s, NEW t, Selected(s, d, fields), Selected(t, e, fields), s.nulls = t.nulls
      PROVE  IsData(s) /\ IsData(t) /\ AlikeData(s, t)
  BY <1>1 DEF AlikeData, Selected
<1>2. ASSUME NEW s, NEW t, Selected(s, d, fields), Selected(t, e, fields)
      PROVE  s.fields = t.fields
  BY <1>2 DEF AlikeData, Selected
<1>3. /\ Selected(Show(d, fields), d, fields) /\ Show(d, fields).nulls = d.nulls
      /\ Selected(Show(e, fields), e, fields) /\ Show(e, fields).nulls = e.nulls
  BY ShowIs
<1>4. Show(d, fields).nulls = Show(e, fields).nulls
  BY <1>3 DEF AlikeData
<1>5. /\ Selected(Fit(d, fields), d, fields)
      /\ Fit(d, fields).nulls = fields \ Show(d, fields).fields
      /\ Selected(Fit(e, fields), e, fields)
      /\ Fit(e, fields).nulls = fields \ Show(e, fields).fields
  BY FitIs
<1>6. Fit(d, fields).nulls = Fit(e, fields).nulls
  BY <1>2, <1>3, <1>5
<1>7. /\ IsData(Show(d, fields)) /\ IsData(Show(e, fields))
      /\ AlikeData(Show(d, fields), Show(e, fields))
  BY <1>1, <1>3, <1>4
<1>8. /\ IsData(Fit(d, fields)) /\ IsData(Fit(e, fields))
      /\ AlikeData(Fit(d, fields), Fit(e, fields))
  BY <1>1, <1>5, <1>6
<1> QED BY <1>7, <1>8

LEMMA AlikeStep ==
  ASSUME NEW x, IsResponse(x), NEW y, IsResponse(y), Alike(x, y),
         NEW a, NEW f, f # "etag", NEW b
  PROVE  Alike(Step(a, f, b, x), Step(a, f, b, y))
<1> DEFINE c == ContextOf(b, a.filters)
<1> HIDE DEF c
<1>1. /\ IsData(x.data) /\ IsData(y.data) /\ AlikeData(x.data, y.data)
      /\ (Failed(x) <=> Failed(y)) /\ (Readable(x) <=> Readable(y))
      /\ x.data.format = y.data.format
      /\ (LooksWrapped(x.data) <=> LooksWrapped(y.data))
      /\ x.data.wrapped = y.data.wrapped /\ x.data.shape = y.data.shape
  BY ResponseData DEF Alike, AlikeData, Failed, Readable, LooksWrapped
<1>2. /\ \A fields : /\ Alike(Rebuilt(x, Show(x.data, fields)), Rebuilt(y, Show(y.data, fields)))
                     /\ Alike(Rebuilt(x, Fit(x.data, fields)), Rebuilt(y, Fit(y.data, fields)))
      /\ Alike(Rebuilt(x, x.data), Rebuilt(y, y.data))
  BY <1>1, AlikeShow, AlikeRebuilt
<1>3. Alike(Spend(x), Spend(y))
  BY AlikeSpend
<1>4. CASE f = "projection"
  <2> DEFINE fields == Allowed(RoleFields(a, b, c), c.fields)
             shown(d) == IF LooksWrapped(d) THEN d ELSE Show(d, fields)
  <2>1. Alike(Rebuilt(x, shown(x.data)), Rebuilt(y, shown(y.data)))
    BY <1>1, <1>2
  <2>2. /\ Project(a, b, c, x) = IF Failed(x) \/ fields = None \/ ~Readable(x) THEN x
                                 ELSE IF x.data.format # "json" THEN Spend(x)
                                 ELSE Rebuilt(x, shown(x.data))
        /\ Project(a, b, c, y) = IF Failed(y) \/ fields = None \/ ~Readable(y) THEN y
                                 ELSE IF y.data.format # "json" THEN Spend(y)
                                 ELSE Rebuilt(y, shown(y.data))
    BY DEF Project
  <2> HIDE DEF fields, shown
  <2>3. Alike(Project(a, b, c, x), Project(a, b, c, y))
    BY <1>1, <1>3, <2>1, <2>2
  <2> QED BY <1>4, <2>3 DEF Step, OnResponse, c
<1>5. CASE f = "envelope"
  <2> DEFINE d == [x.data EXCEPT !.wrapped = TRUE]
             e == [y.data EXCEPT !.wrapped = TRUE]
  <2>1. IsData(d) /\ IsData(e) /\ AlikeData(d, e)
    <3>1. /\ IsData(d) /\ d.shape = x.data.shape /\ d.fields = x.data.fields
          /\ d.nulls = x.data.nulls /\ d.format = x.data.format /\ d.wrapped = TRUE
      BY <1>1, WrapIs, Zenon
    <3>2. /\ IsData(e) /\ e.shape = y.data.shape /\ e.fields = y.data.fields
          /\ e.nulls = y.data.nulls /\ e.format = y.data.format /\ e.wrapped = TRUE
      BY <1>1, WrapIs, Zenon
    <3> HIDE DEF d, e
    <3> QED BY <1>1, <3>1, <3>2 DEF AlikeData
  <2>2. Alike(Rebuilt(x, d), Rebuilt(y, e))
    <3> HIDE DEF d, e
    <3> QED BY <2>1, AlikeRebuilt
  <2>3. Alike(Envelop(x), Envelop(y))
    BY <1>1, <1>3, <2>2 DEF Envelop
  <2> QED BY <1>5, <2>3 DEF Step, OnResponse
<1>6. CASE f = "negotiation"
  <2> DEFINE d == [x.data EXCEPT !.format = c.accept]
             e == [y.data EXCEPT !.format = c.accept]
  <2>1. IsData(d) /\ IsData(e) /\ AlikeData(d, e)
    BY <1>1 DEF IsData, AlikeData
  <2>2. Alike(Rebuilt(x, d), Rebuilt(y, e))
    <3> HIDE DEF d, e
    <3> QED BY <2>1, AlikeRebuilt
  <2>3. Alike(Negotiate(c, x), Negotiate(c, y))
    BY <1>1, <1>3, <2>2 DEF Negotiate
  <2> QED BY <1>6, <2>3 DEF Step, OnResponse, c
<1>7. CASE f = "version"
  <2> DEFINE fields == SchemaFields[c.version]
             passes(z) == c.version = None \/ Failed(z) \/ ~Readable(z)
             spends(z) == \/ z.data.format # "json"
                          \/ VersionSchema(Path(a, b)) # "own" \/ c.version \notin DOMAIN SchemaFields
             whole(d) == LooksWrapped(d) /\ ~d.wrapped /\ d.shape = "entity"
             fitted(d) == IF whole(d) THEN d ELSE Fit(d, fields)
  <2>0. (passes(x) <=> passes(y)) /\ (spends(x) <=> spends(y)) /\ (whole(x.data) <=> whole(y.data))
    BY <1>1
  <2>1. Alike(Rebuilt(x, fitted(x.data)), Rebuilt(y, fitted(y.data)))
    <3> HIDE DEF whole, fields
    <3> QED BY <1>2, <2>0
  <2>2. \A z : FitVersion(a, b, c, z) = IF passes(z) THEN z ELSE IF spends(z) THEN Spend(z)
                                        ELSE Rebuilt(z, fitted(z.data))
    BY DEF FitVersion
  <2> HIDE DEF fields, passes, spends, fitted
  <2>3. Alike(FitVersion(a, b, c, x), FitVersion(a, b, c, y))
    BY <1>3, <2>0, <2>1, <2>2
  <2> QED BY <1>7, <2>3 DEF Step, OnResponse, c
<1>8. CASE f = "headers"
  <2>1. Alike([x EXCEPT !.secured = TRUE], [y EXCEPT !.secured = TRUE])
    BY DEF IsResponse, Alike
  <2> QED BY <1>8, <2>1 DEF Step, OnResponse
<1>9. CASE f \notin {"projection", "envelope", "etag", "negotiation", "version", "headers"}
  BY <1>9 DEF Step, OnResponse
<1> QED BY <1>4, <1>5, <1>6, <1>7, <1>8, <1>9

LEMMA AlikeAtFirst ==
  ASSUME NEW status, NEW shape, NEW fields, NEW v, NEW w
  PROVE  Alike(FromEndpoint(status, Data(shape, v, fields)), FromEndpoint(status, Data(shape, w, fields)))
<1> DEFINE d == Data(shape, v, fields)
           e == Data(shape, w, fields)
<1>1. AlikeData(d, e)
  BY DEF Data, AlikeData
<1> HIDE DEF d, e
<1>2. Alike(FromEndpoint(status, d), FromEndpoint(status, e))
  BY <1>1 DEF FromEndpoint, Alike
<1> QED BY <1>2 DEF d, e

(* Before the etag filter had its turn a success is as the endpoint made   *)
(* it, but for the fields and the envelope.                                *)
PreTag(b, x) == x.status = Success(b.op) /\ x.tag = None /\ x.data.nulls = {}

(* What the etag filter answers.                                           *)
LEMMA TagIs ==
  ASSUME NEW x, IsResponse(x), NEW b, NEW c, NEW e, e = ComputeEtag(x.data)
  PROVE  /\ Failed(x) \/ ~Readable(x) => Tag(b, c, x) = x
         /\ ~Failed(x) /\ Readable(x) /\ e = None => Tag(b, c, x) = Spend(x)
         /\ ~Failed(x) /\ Readable(x) /\ e # None /\ b.method = "GET" /\ c.condition \in {e, AnyTag} =>
              Tag(b, c, x).status = 304
         /\ ~Failed(x) /\ Readable(x) /\ e # None /\ ~(b.method = "GET" /\ c.condition \in {e, AnyTag}) =>
              /\ Tag(b, c, x) = Tagged(Rebuilt(x, x.data), e)
              /\ Tag(b, c, x).tag = e /\ Tag(b, c, x).status = x.status
<1>1. Failed(x) \/ ~Readable(x) => Tag(b, c, x) = x
  BY DEF Tag
<1>2. ~Failed(x) /\ Readable(x) /\ e = None => Tag(b, c, x) = Spend(x)
  BY DEF Tag
<1>3. ASSUME ~Failed(x), Readable(x), e # None, b.method = "GET", c.condition \in {e, AnyTag}
      PROVE  Tag(b, c, x).status = 304
  <2> DEFINE no == FALSE
  <2>1. Tag(b, c, x) = Told(x, e, no)
    BY <1>3 DEF Tag, Told
  <2> HIDE DEF no
  <2>2. Told(x, e, no) = Response(304, "none", x.data, e, no)
    BY ToldIs
  <2>3. Response(304, "none", x.data, e, no).status = 304
    BY DEF Response
  <2> QED BY <2>1, <2>2, <2>3
<1>4. ASSUME ~Failed(x), Readable(x), e # None, ~(b.method = "GET" /\ c.condition \in {e, AnyTag})
      PROVE  /\ Tag(b, c, x) = Tagged(Rebuilt(x, x.data), e)
             /\ Tag(b, c, x).tag = e /\ Tag(b, c, x).status = x.status
  <2>1. Tag(b, c, x) = Tagged(Rebuilt(x, x.data), e)
    BY <1>4 DEF Tag, Tagged
  <2>2. Rebuilt(x, x.data) = Response(x.status, "buffer", x.data, x.tag, x.secured)
    BY RebuiltIs, ResponseData
  <2>3. Tagged(Rebuilt(x, x.data), e) = Response(x.status, "buffer", x.data, e, x.secured)
    BY <2>2, TaggedIs
  <2> QED BY <2>1, <2>3 DEF Response
<1> QED BY <1>1, <1>2, <1>3, <1>4

(* Two successes that get the same tag are alike then: the tag of a list   *)
(* covers the fields, and those of an entity are compared before.          *)
LEMMA TaggedAlike ==
  ASSUME NEW x, IsResponse(x), NEW y, IsResponse(y), NEW r, NEW s, PreTag(r, x), PreTag(s, y),
         r.op = s.op, x.data.shape = y.data.shape,
         x.data.shape = "entity" => x.data.fields = y.data.fields,
         NEW b, NEW c, c.condition = None, NEW e, e = ComputeEtag(y.data), e # None,
         ~Failed(y), Readable(y), Tag(b, c, x).tag = e
  PROVE  Alike(Tag(b, c, x), Tagged(Rebuilt(y, y.data), e))
<1> DEFINE t == ComputeEtag(x.data)
<1>1. IsData(x.data) /\ IsData(y.data)
  BY ResponseData
<1>2. ~Failed(x)
  BY DEF PreTag, Failed
<1>3. Readable(x) /\ t # None
  <2>1. CASE ~Readable(x)
    <3>1. Tag(b, c, x) = x
      BY <2>1 DEF Tag
    <3> QED BY <3>1 DEF PreTag
  <2>2. CASE Readable(x) /\ t = None
    <3>1. Tag(b, c, x) = Spend(x)
      BY <1>2, <2>2 DEF Tag
    <3> QED BY <3>1, SpendIs DEF PreTag
  <2> QED BY <2>1, <2>2
<1>4. c.condition \notin {t, AnyTag}
  BY <1>3, AnyTagAssumption
<1>5. Tag(b, c, x) = Tagged(Rebuilt(x, x.data), t) /\ Tag(b, c, x).tag = t
  BY <1>2, <1>3, <1>4, TagIs
<1>6. t = e
  BY <1>5
<1>7. /\ x.data.wrapped = y.data.wrapped /\ x.data.format = y.data.format
      /\ x.data.shape \in {"entity", "list"}
      /\ x.data.shape = "list" => x.data.fields = y.data.fields
  BY <1>1, <1>3, <1>6 DEF ComputeEtag, IsData
<1>8. AlikeData(x.data, y.data)
  BY <1>7 DEF AlikeData, PreTag
<1>9. /\ Tagged(Rebuilt(x, x.data), t) = Response(x.status, "buffer", x.data, t, x.secured)
      /\ Tagged(Rebuilt(y, y.data), e) = Response(y.status, "buffer", y.data, e, y.secured)
  BY <1>1, RebuiltIs, TaggedIs
<1>10. x.status = y.status
  BY DEF PreTag
<1> HIDE DEF t
<1> QED BY <1>5, <1>8, <1>9, <1>10 DEF Alike, Response

(* The etag filter has had its turn when the next one is that of m, or has *)
(* it still ahead.                                                         *)
EtagPast(c, m) == \E k \in m + 1 .. Len(c) : c[k] = "etag"
Ahead(c, m) == \E k \in 1 .. m : c[k] = "etag"

LEMMA EtagOnce ==
  ASSUME StartInv, phase # "starting", NEW n \in 1 .. Len(chain)
  PROVE  /\ chain[n] = "etag" => ~EtagPast(chain, n) /\ EtagPast(chain, n - 1)
         /\ chain[n] # "etag" => (EtagPast(chain, n - 1) <=> EtagPast(chain, n))
<1>1. Len(chain) \in Nat
  BY ChainIs
<1>2. ASSUME chain[n] = "etag", NEW k \in n + 1 .. Len(chain), chain[k] = "etag"
      PROVE  FALSE
  <2>1. k \in 1 .. Len(chain) /\ n < k
    BY <1>1
  <2>2. Order[chain[n]] < Order[chain[k]]
    BY <2>1, ChainIs
  <2>3. Order["etag"] = 85
    BY DEF Order
  <2> QED BY <1>2, <2>2, <2>3
<1>3. n - 1 + 1 = n
  OBVIOUS
<1>4. \A k : k \in n .. Len(chain) <=> k = n \/ k \in n + 1 .. Len(chain)
  BY <1>1
<1> QED BY <1>2, <1>3, <1>4 DEF EtagPast

LEMMA EtagBetween ==
  ASSUME StartInv, phase # "starting", NEW n \in 1 .. Len(chain)
  PROVE  /\ Ahead(chain, n - 1) => Ahead(chain, n) /\ chain[n] \in {"projection", "envelope"}
         /\ chain[n] = "etag" => Ahead(chain, n)
         /\ EtagPast(chain, n) => chain[n] # "projection"
<1>1. Len(chain) \in Nat /\ \A m \in 1 .. Len(chain) : chain[m] \in FilterNames
  BY ChainIs
<1>2. ASSUME NEW k \in 1 .. n - 1, chain[k] = "etag"
      PROVE  Ahead(chain, n) /\ chain[n] \in {"projection", "envelope"}
  <2>1. k \in 1 .. Len(chain) /\ k \in 1 .. n /\ k < n
    BY <1>1
  <2>2. Order[chain[k]] < Order[chain[n]]
    BY <2>1, ChainIs
  <2>3. chain[n] \in FilterNames
    BY <1>1
  <2>4. chain[n] \in {"projection", "envelope"}
    BY <1>2, <2>2, <2>3, FilterNamesType DEF Order
  <2> QED BY <1>2, <2>1, <2>4 DEF Ahead
<1>3. chain[n] = "etag" => Ahead(chain, n)
  BY DEF Ahead
<1>4. ASSUME NEW k \in n + 1 .. Len(chain), chain[k] = "etag" PROVE chain[n] # "projection"
  <2>1. k \in 1 .. Len(chain) /\ n < k
    BY <1>1
  <2>2. Order[chain[n]] < Order[chain[k]]
    BY <2>1, ChainIs
  <2> QED BY <1>4, <2>2 DEF Order
<1> QED BY <1>2, <1>3, <1>4 DEF Ahead, EtagPast

Entity(x) == x.data.shape \in {"entity", "list"}

(* x is what the endpoint answers to b in application a.                   *)
Fresh(a, b, x) ==
  /\ b.front = "rest"
  /\ \E v : x = FromEndpoint(Success(b.op), Data(Shape(b.op), v, a.fields))

(* One response on its way: the next filter is that of m, the last before  *)
(* it were those from n on.                                                *)
On(c, b, x, m) ==
  /\ IsResponse(x) /\ x.data.shape = Shape(b.op) /\ TagOf(x)
  /\ Ahead(c, m) => PreTag(b, x)

(* h is how an answer to b came back, from the endpoint to before filter n.*)
Way(a, c, h, n, b) ==
  /\ Fresh(a, b, h[Len(c)])
  /\ \A m \in n .. Len(c) : On(c, b, h[m], m) /\ (EtagPast(c, m) => h[m].tag = h[n].tag)
  /\ \A m \in n + 1 .. Len(c) : h[m - 1] = Step(a, c[m], b, h[m])

(* Who asks with a condition has its tag, or none.                         *)
CondInv ==
  phase \notin {"starting", "idle"} =>
    q.condition \in {None, AnyTag} \/ (held # None /\ q.condition = held.resp.tag)

(* The client is told that it has something that has the tag it presents.  *)
Has == q.condition # AnyTag => held # None /\ answer.tag = held.resp.tag

(* The response is the answer, unless it is that there is nothing new.     *)
TwinInv ==
  Tells =>
    /\ phase = "sent" => at = 0
    /\ IsResponse(answer)
    /\ resp.status # 304 => resp = answer
    /\ ~EtagPast(chain, at) => answer.tag = None
    /\ answer.tag # None => Entity(answer)
    /\ resp.status = 304 => EtagPast(chain, at) /\ q.method = "GET" /\ answer.tag # None /\ Has

(* The answer, and the one that is held, came back through the filters.    *)
WayInv ==
  Tells /\ Entity(answer) => \E h : Way(app, chain, h, at, Base(q)) /\ h[at] = answer

HeldInv ==
  /\ phase = "starting" => held = None
  /\ held # None =>
       /\ held.resp.tag # None /\ Entity(held.resp) /\ held.q.method = "GET"
       /\ \E h : Way(app, chain, h, 0, Base(held.q)) /\ h[0] = held.resp

(* What is tagged alike, and is asked for in the same way, was alike all   *)
(* the way that is behind it.                                              *)
SameFields(r, s) == r.fields = s.fields /\ r.token = s.token

BothInv ==
  Tells /\ Entity(answer) /\ held # None /\ held.q.op = q.op /\ SameView(q, held.q) =>
    \A h : Way(app, chain, h, 0, Base(held.q)) /\ h[0] = held.resp =>
      /\ Ahead(chain, at) /\ SameFields(q, held.q) => Alike(h[at], answer)
      /\ resp.status = 304 /\ q.condition # AnyTag => Alike(h[at], answer)

LEMMA TurnIs ==
  ASSUME StartInv, AskInv, AnswerInv, ContextInv, FilterResponse, Tells'
  PROVE  /\ phase = "up" /\ phase' = "up" /\ Tells /\ Asking(q)
         /\ Len(chain) \in Nat /\ at \in 1 .. Len(chain) /\ at' = at - 1
         /\ IsResponse(resp) /\ IsResponse(answer)
         /\ UNCHANGED <<app, chain, q, held>>
         /\ ctx = ContextOf(q, app.filters)
         /\ resp' = OnResponse(chain[at], app, q, ctx, resp)
         /\ answer' = OnResponse(chain[at], app, q, [ctx EXCEPT !.condition = None], answer)
         /\ answer' = Step(app, chain[at], Base(q), answer)
         /\ IsResponse(answer') /\ answer'.data.shape = answer.data.shape
         /\ chain[at] # "etag" =>
              /\ resp = answer => resp' = answer'
              /\ resp'.status = resp.status /\ answer'.tag = answer.tag
<1> USE DEF startup, request
<1>1. /\ phase = "up" /\ phase' = "up" /\ at > 0 /\ at' = at - 1
      /\ UNCHANGED <<app, chain, q, held>>
      /\ resp' = OnResponse(chain[at], app, q, ctx, resp)
      /\ answer' = OnResponse(chain[at], app, q, [ctx EXCEPT !.condition = None], answer)
  BY DEF FilterResponse
<1>2. IsResponse(resp) /\ IsResponse(answer) /\ at \in 0 .. Len(chain) /\ Len(chain) \in Nat
      /\ Asking(q) /\ (q.socket => at = 0)
  BY <1>1, ChainIs DEF AnswerInv, AskInv
<1>3. at \in 1 .. Len(chain) /\ ~q.socket
  BY <1>1, <1>2
<1>4. /\ resp'.status = resp.status \/ (resp'.status = 304 /\ ~Failed(resp))
      /\ chain[at] # "etag" => resp'.status = resp.status
      /\ IsResponse(answer') /\ answer'.data.shape = answer.data.shape
      /\ chain[at] # "etag" => answer'.tag = answer.tag
  BY <1>1, <1>2, ResponseKeeps DEF Keeps
<1>5. Tells
  <2>1. resp.status \in Statuses
    BY <1>2 DEF IsResponse
  <2>2. ~Failed(resp) => resp.status \in {200, 201, 304}
    BY <2>1 DEF Failed, Statuses
  <2> QED BY <1>1, <1>4, <2>2 DEF Tells
<1>6. ctx = ContextOf(q, app.filters)
  BY <1>3, <1>5 DEF ContextInv, Through
<1>7. /\ answer' = Step(app, chain[at], Base(q), answer)
      /\ chain[at] # "etag" => resp' = Step(app, chain[at], Base(q), resp)
  BY <1>1, <1>2, <1>6, BaseStep
<1> QED BY <1>1, <1>2, <1>3, <1>4, <1>5, <1>6, <1>7

(* The turn of the etag filter: as without a condition, or "not modified". *)
LEMMA EtagTurn ==
  ASSUME StartInv, AskInv, AnswerInv, ContextInv, CondInv, TwinInv, FilterResponse, Tells',
         chain[at] = "etag", NEW e, e = ComputeEtag(answer.data)
  PROVE  /\ resp = answer /\ resp.status # 304 /\ answer.tag = None /\ ~EtagPast(chain, at)
         /\ EtagPast(chain, at - 1)
         /\ answer'.tag \in {None, e}
         /\ resp'.status # 304 => resp' = answer'
         /\ resp'.status = 304 =>
              /\ e # None /\ ~Failed(answer) /\ Readable(answer) /\ answer'.tag = e
              /\ answer' = Tagged(Rebuilt(answer, answer.data), e)
              /\ q.method = "GET" /\ Has'
<1>1. /\ phase = "up" /\ Tells /\ Asking(q) /\ at \in 1 .. Len(chain) /\ IsResponse(answer)
      /\ ctx = ContextOf(q, app.filters) /\ UNCHANGED <<q, held>>
      /\ resp' = OnResponse("etag", app, q, ctx, resp)
      /\ answer' = OnResponse("etag", app, q, [ctx EXCEPT !.condition = None], answer)
  BY TurnIs
<1>2. ~EtagPast(chain, at) /\ EtagPast(chain, at - 1)
  BY <1>1, EtagOnce
<1>3. resp = answer /\ resp.status # 304 /\ answer.tag = None
  BY <1>1, <1>2 DEF TwinInv
<1> DEFINE d == [ctx EXCEPT !.condition = None]
<1>4. d.condition = None /\ ctx.condition \in {None, q.condition} /\ None # AnyTag
  BY <1>1, ContextIs, AnyTagAssumption
<1> HIDE DEF d
<1>5. resp' = Tag(q, ctx, answer) /\ answer' = Tag(q, d, answer)
  BY <1>1, <1>3 DEF OnResponse, d
<1>6. IsResponse(answer)
  BY <1>1
<1>7. CASE Failed(answer) \/ ~Readable(answer)
  <2>1. \A c : Tag(q, c, answer) = answer
    BY <1>6, <1>7, TagIs
  <2>2. resp' = answer /\ answer' = answer
    BY <1>5, <2>1
  <2> QED BY <1>2, <1>3, <2>2
<1>8. CASE ~Failed(answer) /\ Readable(answer) /\ e = None
  <2>1. \A c : Tag(q, c, answer) = Spend(answer)
    BY <1>6, <1>8, TagIs
  <2>2. resp' = Spend(answer) /\ answer' = Spend(answer)
    BY <1>5, <2>1
  <2>3. answer'.tag = None /\ resp'.status = answer.status
    BY <1>1, <1>3, <2>2, SpendIs
  <2> QED BY <1>2, <1>3, <2>2, <2>3
<1>9. CASE ~Failed(answer) /\ Readable(answer) /\ e # None
  <2>1. answer' = Tagged(Rebuilt(answer, answer.data), e) /\ answer'.tag = e
    BY <1>4, <1>5, <1>6, <1>9, TagIs
  <2>2. CASE ~(q.method = "GET" /\ ctx.condition \in {e, AnyTag})
    <3>1. resp' = Tagged(Rebuilt(answer, answer.data), e) /\ resp'.status = answer.status
      BY <1>5, <1>6, <1>9, <2>2, TagIs
    <3> QED BY <1>2, <1>3, <2>1, <3>1
  <2>3. CASE q.method = "GET" /\ ctx.condition \in {e, AnyTag}
    <3>1. resp'.status = 304
      BY <1>5, <1>6, <1>9, <2>3, TagIs
    <3>2. q.condition = e \/ q.condition = AnyTag
      BY <1>4, <1>9, <2>3
    <3>3. q.condition # AnyTag => held # None /\ e = held.resp.tag
      BY <1>1, <1>4, <1>9, <3>2 DEF CondInv
    <3>4. Has'
      BY <1>1, <2>1, <3>3 DEF Has
    <3> QED BY <1>2, <1>3, <1>9, <2>1, <2>3, <3>1, <3>4
  <2> QED BY <2>2, <2>3
<1> QED BY <1>7, <1>8, <1>9

(* The ways to come by an answer that tells something.                     *)
Begins(x) ==
  /\ Answers(x)
  /\ IsResponse(x) /\ x.tag = None /\ x.status # 304
  /\ Entity(x) => Fresh(app, Base(q), x) /\ ~q.socket

LEMMA NotOkBegins ==
  ASSUME NEW status \in {403, 404}, Answers(NotOk(status))
  PROVE  Begins(NotOk(status))
<1>1. NotOk(status).status # 304 /\ ~Entity(NotOk(status))
  BY NotOkIs DEF Entity
<1> QED BY <1>1, NotOkIs DEF Begins

LEMMA HowTells ==
  ASSUME StartInv, AskInv, [Next]_vars, Tells'
  PROVE  \/ FilterResponse
         \/ \E x : Begins(x) /\ UNCHANGED <<app, chain, q, held>> /\ phase \in {"down", "steps"}
         \/ /\ Tells /\ UNCHANGED <<app, chain, q, held, resp, answer, at>>
            /\ phase' = phase \/ (phase' = "sent" /\ at = 0)
<1> USE DEF startup, stored, request, place, history
<1>1. CASE Lifespan \/ Ask \/ AskAgain \/ Receive
  <2>1. phase' \in {"idle", "down"}
    BY <1>1 DEF Lifespan, Ask, AskAgain, Arrives, Receive
  <2> QED BY <2>1 DEF Tells
<1>2. CASE FilterRequest
  <2>1. resp'.status \notin {401, 403, 413, 503, 500} /\ phase' # "down"
    BY DEF Tells
  <2>2. phase = "down"
    BY <1>2, FilterRequestIs
  <2>3. \A status \in {401, 403, 413, 503, 500} : Refusal(status).status = status
    BY RefusalIs DEF Statuses
  <2> QED BY <1>2, <2>1, <2>2, <2>3, FilterRequestIs DEF Answers
<1>3. CASE Endpoint
  <2>1. phase = "down" /\ phase' # "steps" /\ UNCHANGED <<app, chain, q, held>>
    BY <1>3 DEF Endpoint, Tells
  <2>2. CASE Answers(FromEndpoint(200, Data("other", 0, {})))
    <3>1. Begins(FromEndpoint(200, Data("other", 0, {})))
      BY <2>2, EndpointIs DEF Begins, Entity, Statuses
    <3> QED BY <2>1, <3>1
  <2>3. CASE Answers(NotOk(404))
    BY <2>1, <2>3, NotOkBegins
  <2> QED BY <1>3, <2>1, <2>2, <2>3 DEF Endpoint
<1>4. CASE HookPasses \/ EmitEnds \/ RunOperation
  <2>1. phase' = "steps"
    BY <1>4 DEF HookPasses, EmitEnds, RunOperation, InHooks
  <2> QED BY <2>1 DEF Tells
<1>5. CASE HookFails
  <2>1. phase = "steps" /\ UNCHANGED <<app, chain, q, held>>
    BY <1>5 DEF HookFails, InHooks
  <2>2. phase' # "steps" /\ resp'.status # 500
    BY DEF Tells
  <2>3. Refusal(500).status = 500
    BY RefusalIs DEF Statuses
  <2>4. Answers(NotOk(403))
    BY <1>5, <2>1, <2>2, <2>3 DEF HookFails, Fails
  <2> QED BY <2>1, <2>4, NotOkBegins
<1>6. CASE OperationEnds
  <2>1. phase = "steps" /\ Answers(Ok(found)) /\ UNCHANGED <<app, chain, q, held>>
    BY <1>6 DEF OperationEnds
  <2>2. Base(q).op = q.op /\ Base(q).front = q.front /\ q.front \in {"rest", "graphql"}
        /\ (q.front = "rest" => ~q.socket)
    BY <2>1, BaseIs DEF AskInv, Asking, Scoped, Channels
  <2>3. Begins(Ok(found))
    <3>1. IsResponse(Ok(found)) /\ Ok(found).tag = None /\ Ok(found).status # 304
      BY OkIs
    <3>2. Entity(Ok(found)) =>
            /\ q.front = "rest"
            /\ Ok(found) = FromEndpoint(Success(q.op), Data(Shape(q.op), found, app.fields))
      BY <2>2, OkIs DEF Entity
    <3> QED BY <2>1, <2>2, <3>1, <3>2 DEF Begins, Fresh
  <2> QED BY <2>1, <2>3
<1>7. CASE Send
  <2>1. phase = "up" /\ phase' = "sent" /\ at = 0
        /\ UNCHANGED <<app, chain, q, held, resp, answer, at>>
    BY <1>7 DEF Send
  <2> QED BY <2>1 DEF Tells
<1>8. CASE OthersWrite \/ UNCHANGED vars
  <2>1. UNCHANGED <<app, chain, q, held, resp, answer, at, phase>>
    BY <1>8 DEF OthersWrite, vars
  <2> QED BY <2>1 DEF Tells
<1> QED BY <1>1, <1>2, <1>3, <1>4, <1>5, <1>6, <1>7, <1>8 DEF Next

LEMMA CondStep ==
  ASSUME StartInv, AskInv, CondInv, [Next]_vars
  PROVE  CondInv'
<1> USE DEF startup, stored, request, place, history
<1>1. CASE Ask
  <2>1. PICK r \in Requests[app] : Arrives(r)
    BY <1>1 DEF Ask
  <2>2. q' = r /\ r.condition = None
    BY <2>1, Asks DEF Arrives, StartInv, Conditional
  <2> QED BY <2>2 DEF CondInv
<1>2. CASE AskAgain
  <2>0. held' = held /\ \E r \in Requests[app] :
          \E tag \in {AnyTag} \cup (IF held = None THEN {} ELSE {held.resp.tag}) :
            Arrives([r EXCEPT !.condition = tag])
    BY <1>2 DEF AskAgain
  <2>1. PICK r \in Requests[app] :
          \E tag \in {AnyTag} \cup (IF held = None THEN {} ELSE {held.resp.tag}) :
            Arrives([r EXCEPT !.condition = tag])
    BY <2>0
  <2>2. PICK tag \in {AnyTag} \cup (IF held = None THEN {} ELSE {held.resp.tag}) :
          Arrives([r EXCEPT !.condition = tag])
    BY <2>1
  <2> DEFINE asked == [r EXCEPT !.condition = tag]
  <2>3. asked.condition = tag
    BY Asks DEF StartInv, Conditional
  <2>4. q' = asked
    BY <2>2 DEF Arrives
  <2> HIDE DEF asked
  <2>5. q'.condition = AnyTag \/ (held # None /\ q'.condition = held.resp.tag)
    BY <2>2, <2>3, <2>4
  <2> QED BY <2>0, <2>5 DEF CondInv
<1>3. CASE Lifespan \/ Receive
  BY <1>3 DEF Lifespan, Receive, CondInv
<1>4. ASSUME UNCHANGED <<q, held>>, phase \notin {"starting", "idle"} \/ phase' = phase
      PROVE  CondInv'
  BY <1>4 DEF CondInv
<1>5. FilterRequest => UNCHANGED <<q, held>> /\ phase = "down"
  BY FilterRequestIs
<1>6. Endpoint => UNCHANGED <<q, held>> /\ phase = "down"
  BY DEF Endpoint
<1>7. HookPasses \/ EmitEnds \/ HookFails \/ RunOperation => UNCHANGED <<q, held>> /\ phase = "steps"
  BY DEF HookPasses, EmitEnds, HookFails, RunOperation, InHooks
<1>8. OperationEnds \/ FilterResponse \/ Send => UNCHANGED <<q, held>> /\ phase \in {"steps", "up"}
  BY DEF OperationEnds, FilterResponse, Send
<1>9. OthersWrite \/ UNCHANGED vars => UNCHANGED <<q, held>> /\ phase' = phase
  BY DEF OthersWrite, vars
<1> QED BY <1>1, <1>2, <1>3, <1>4, <1>5, <1>6, <1>7, <1>8, <1>9 DEF Next

LEMMA TwinStep ==
  ASSUME StartInv, AskInv, AnswerInv, ContextInv, CondInv, TwinInv, [Next]_vars
  PROVE  TwinInv'
<1> SUFFICES ASSUME Tells' PROVE TwinInv'
  BY DEF TwinInv
<1>1. CASE FilterResponse
  <2> DEFINE e == ComputeEtag(answer.data)
  <2>1. /\ Tells /\ phase' = "up" /\ at' = at - 1 /\ at \in 1 .. Len(chain) /\ phase # "starting"
        /\ UNCHANGED <<app, chain, q, held>>
        /\ IsResponse(answer') /\ (Entity(answer') <=> Entity(answer))
    BY <1>1, TurnIs DEF Entity
  <2>2. CASE chain[at] = "etag"
    <3>1. e # None => Entity(answer)
      BY DEF ComputeEtag, Entity
    <3> HIDE DEF e
    <3>2. /\ EtagPast(chain, at - 1)
          /\ answer'.tag \in {None, e}
          /\ resp'.status # 304 => resp' = answer'
          /\ resp'.status = 304 => e # None /\ answer'.tag = e /\ q.method = "GET" /\ Has'
      BY <1>1, <2>2, EtagTurn DEF e
    <3> QED BY <2>1, <3>1, <3>2 DEF TwinInv
  <2>3. CASE chain[at] # "etag"
    <3>1. /\ resp = answer => resp' = answer'
          /\ resp'.status = resp.status /\ answer'.tag = answer.tag
      BY <1>1, <2>3, TurnIs
    <3>2. EtagPast(chain, at - 1) <=> EtagPast(chain, at)
      BY <2>1, <2>3, EtagOnce
    <3>3. Has /\ answer'.tag = answer.tag => Has'
      BY <2>1 DEF Has
    <3> QED BY <2>1, <3>1, <3>2, <3>3 DEF TwinInv
  <2> QED BY <2>2, <2>3
<1>2. ASSUME NEW x, Begins(x) PROVE TwinInv'
  BY <1>2 DEF Begins, Answers, TwinInv
<1>3. CASE /\ Tells /\ UNCHANGED <<app, chain, q, held, resp, answer, at>>
           /\ phase' = phase \/ (phase' = "sent" /\ at = 0)
  BY <1>3 DEF TwinInv, Has
<1> QED BY <1>1, <1>2, <1>3, HowTells

LEMMA FreshIs ==
  ASSUME NEW a, NEW b, NEW x, Fresh(a, b, x), NEW c, NEW m
  PROVE  On(c, b, x, m)
<1>1. PICK v : x = FromEndpoint(Success(b.op), Data(Shape(b.op), v, a.fields))
  BY DEF Fresh
<1>2. Success(b.op) \in Statuses
  BY DEF Success, Statuses
<1>3. /\ IsResponse(x) /\ x.status = Success(b.op) /\ x.tag = None
      /\ x.data.shape = Shape(b.op) /\ x.data.nulls = {}
  BY <1>1, <1>2, EndpointIs
<1> QED BY <1>3 DEF On, PreTag, TagOf

LEMMA WayBegins ==
  ASSUME NEW a, NEW c, NEW n \in Nat, n = Len(c), NEW b, NEW x, Fresh(a, b, x)
  PROVE  Way(a, c, [m \in {n} |-> x], n, b)
<1> DEFINE h == [m \in {n} |-> x]
<1>1. h[n] = x
  OBVIOUS
<1>2. \A m \in n .. n : m = n
  OBVIOUS
<1>3. \A m \in n + 1 .. n : FALSE
  OBVIOUS
<1>4. On(c, b, x, n)
  BY FreshIs
<1> HIDE DEF h
<1>5. Way(a, c, h, n, b)
  BY <1>1, <1>2, <1>3, <1>4 DEF Way
<1> QED BY <1>5 DEF h

LEMMA OnOn ==
  ASSUME StartInv, phase # "starting", NEW n \in 1 .. Len(chain), NEW b, NEW x,
         On(chain, b, x, n), NEW y, y = Step(app, chain[n], b, x)
  PROVE  On(chain, b, y, n - 1) /\ (chain[n] # "etag" => y.tag = x.tag)
<1>1. Keeps(chain[n], x, y)
  BY ResponseKeeps DEF Step, On
<1>2. ASSUME Ahead(chain, n - 1) PROVE PreTag(b, y)
  <2>1. Ahead(chain, n) /\ chain[n] \in {"projection", "envelope"}
    BY <1>2, EtagBetween
  <2> QED BY <1>1, <2>1 DEF On, PreTag, Keeps
<1> QED BY <1>1, <1>2 DEF On, Keeps

LEMMA WayOn ==
  ASSUME StartInv, phase # "starting", NEW n \in 1 .. Len(chain), NEW b, NEW h,
         Way(app, chain, h, n, b), NEW y, y = Step(app, chain[n], b, h[n])
  PROVE  \E g : Way(app, chain, g, n - 1, b) /\ g[n - 1] = y
<1> DEFINE k == Len(chain)
           g == [m \in n - 1 .. k |-> IF m = n - 1 THEN y ELSE h[m]]
<1>1. k \in Nat /\ n \in 1 .. k /\ n - 1 \in n - 1 .. k /\ k \in n .. k /\ n \in n .. k
  BY ChainIs
<1>2. g[n - 1] = y /\ \A m \in n .. k : g[m] = h[m]
  BY <1>1
<1>3. /\ Fresh(app, b, h[k])
      /\ \A m \in n .. k : On(chain, b, h[m], m) /\ (EtagPast(chain, m) => h[m].tag = h[n].tag)
      /\ \A m \in n + 1 .. k : h[m - 1] = Step(app, chain[m], b, h[m])
  BY DEF Way
<1> HIDE DEF g
<1>4. On(chain, b, y, n - 1) /\ (chain[n] # "etag" => y.tag = h[n].tag)
  BY <1>1, <1>3, OnOn
<1>5. Fresh(app, b, g[k])
  BY <1>1, <1>2, <1>3
<1>6. ASSUME NEW m \in n - 1 .. k
      PROVE  On(chain, b, g[m], m) /\ (EtagPast(chain, m) => g[m].tag = g[n - 1].tag)
  <2>1. CASE m = n - 1
    BY <1>2, <1>4, <2>1
  <2>2. CASE m # n - 1
    <3>1. m \in n .. k /\ g[m] = h[m]
      BY <1>1, <1>2, <2>2
    <3>2. ASSUME EtagPast(chain, m) PROVE chain[n] # "etag"
      <4>1. EtagPast(chain, n)
        <5>1. PICK j \in m + 1 .. k : chain[j] = "etag"
          BY <3>2 DEF EtagPast
        <5>2. j \in n + 1 .. k
          BY <1>1, <3>1
        <5> QED BY <5>1, <5>2 DEF EtagPast
      <4> QED BY <4>1, EtagOnce
    <3> QED BY <1>2, <1>3, <1>4, <3>1, <3>2
  <2> QED BY <2>1, <2>2
<1>7. ASSUME NEW m \in (n - 1) + 1 .. k PROVE g[m - 1] = Step(app, chain[m], b, g[m])
  <2>1. m \in n .. k /\ g[m] = h[m]
    BY <1>1, <1>2
  <2>2. CASE m = n
    BY <1>2, <2>1, <2>2
  <2>3. CASE m # n
    <3>1. m \in n + 1 .. k /\ m - 1 \in n .. k
      BY <1>1, <2>1, <2>3
    <3> QED BY <1>2, <1>3, <2>1, <3>1
  <2> QED BY <2>2, <2>3
<1>8. Way(app, chain, g, n - 1, b)
  BY <1>5, <1>6, <1>7 DEF Way
<1> QED BY <1>2, <1>8

LEMMA WayStep ==
  ASSUME StartInv, AskInv, AnswerInv, ContextInv, WayInv, [Next]_vars
  PROVE  WayInv'
<1> SUFFICES ASSUME Tells', Entity(answer)'
             PROVE  \E h : Way(app', chain', h, at', Base(q')) /\ h[at'] = answer'
  BY DEF WayInv
<1>1. CASE FilterResponse
  <2>1. /\ Tells /\ phase # "starting" /\ at' = at - 1 /\ at \in 1 .. Len(chain)
        /\ UNCHANGED <<app, chain, q>>
        /\ Entity(answer)
        /\ answer' = Step(app, chain[at], Base(q), answer)
    BY <1>1, TurnIs DEF Entity
  <2>2. PICK h : Way(app, chain, h, at, Base(q)) /\ h[at] = answer
    BY <2>1 DEF WayInv
  <2>3. \E g : Way(app, chain, g, at - 1, Base(q)) /\ g[at - 1] = answer'
    BY <2>1, <2>2, WayOn
  <2> QED BY <2>1, <2>3
<1>2. ASSUME NEW x, Begins(x), UNCHANGED <<app, chain, q>>, phase \in {"down", "steps"}
      PROVE  \E h : Way(app', chain', h, at', Base(q')) /\ h[at'] = answer'
  <2>1. answer' = x /\ at' = (IF q.socket THEN 0 ELSE Len(chain)) /\ Len(chain) \in Nat
    BY <1>2, ChainIs DEF Begins, Answers
  <2>2. Fresh(app, Base(q), x) /\ at' = Len(chain)
    BY <1>2, <2>1 DEF Begins, Entity
  <2> DEFINE h == [m \in {Len(chain)} |-> x]
  <2>3. h[Len(chain)] = x /\ Way(app, chain, h, Len(chain), Base(q))
    BY <2>1, <2>2, WayBegins
  <2> HIDE DEF h
  <2>4. app' = app /\ chain' = chain /\ q' = q
    BY <1>2
  <2>5. h[at'] = answer'
    BY <2>1, <2>2, <2>3
  <2>6. Way(app', chain', h, at', Base(q'))
    BY <2>2, <2>3, <2>4
  <2> QED BY <2>5, <2>6
<1>3. CASE Tells /\ UNCHANGED <<app, chain, q, held, resp, answer, at>>
  BY <1>3 DEF WayInv
<1> QED BY <1>1, <1>2, <1>3, HowTells

LEMMA HeldStep ==
  ASSUME StartInv, TwinInv, WayInv, HeldInv, [Next]_vars
  PROVE  HeldInv'
<1> USE DEF startup, stored, request, place, history
<1>1. CASE Lifespan
  BY <1>1 DEF Lifespan, HeldInv
<1>2. CASE Ask
  BY <1>2 DEF Ask, HeldInv
<1>3. CASE Receive
  <2>1. /\ phase = "sent" /\ phase' = "idle" /\ UNCHANGED <<app, chain>>
        /\ held' = IF q.method = "GET" /\ resp.status = 200 /\ resp.tag # None
                   THEN [q |-> q, resp |-> resp] ELSE held
    BY <1>3 DEF Receive
  <2>2. CASE held' = held
    BY <2>1, <2>2 DEF HeldInv
  <2>3. CASE held' # held
    <3>1. held'.q = q /\ held'.resp = resp /\ resp.status = 200 /\ resp.tag # None
      BY <2>1, <2>3
    <3>2. Tells
      BY <2>1, <3>1 DEF Tells
    <3>3. at = 0 /\ resp = answer /\ Entity(answer)
      BY <2>1, <3>1, <3>2 DEF TwinInv
    <3>4. \E h : Way(app, chain, h, 0, Base(q)) /\ h[0] = resp
      BY <3>2, <3>3 DEF WayInv
    <3>5. q.method = "GET"
      BY <2>1, <2>3
    <3> QED BY <2>1, <3>1, <3>3, <3>4, <3>5 DEF HeldInv, Entity
  <2> QED BY <2>2, <2>3
<1>4. ASSUME UNCHANGED <<app, chain, held>>, phase' # "starting" \/ phase' = phase
      PROVE  HeldInv'
  BY <1>4 DEF HeldInv
<1>5. AskAgain \/ HookPasses \/ EmitEnds \/ RunOperation =>
        UNCHANGED <<app, chain, held>> /\ phase' \in {"down", "steps"}
  BY DEF AskAgain, Arrives, HookPasses, EmitEnds, RunOperation, InHooks
<1>6. FilterRequest => UNCHANGED <<app, chain, held>> /\ phase' \in {"down", "up", "sent"}
  BY FilterRequestIs DEF Answers
<1>7. Endpoint \/ OperationEnds => UNCHANGED <<app, chain, held>> /\ phase' \in {"steps", "up"}
  BY DEF Endpoint, OperationEnds, Answers
<1>8. HookFails => UNCHANGED <<app, chain, held>> /\ phase' \in {"steps", "up", "sent"}
  BY DEF HookFails, Fails, Answers, InHooks
<1>9. FilterResponse \/ Send => UNCHANGED <<app, chain, held>> /\ phase' \in {"up", "sent"}
  BY DEF FilterResponse, Send
<1>10. OthersWrite \/ UNCHANGED vars => UNCHANGED <<app, chain, held>> /\ phase' = phase
  BY DEF OthersWrite, vars
<1> QED BY <1>1, <1>2, <1>3, <1>4, <1>5, <1>6, <1>7, <1>8, <1>9, <1>10 DEF Next

LEMMA BothStep ==
  ASSUME StartInv, AskInv, AnswerInv, ContextInv, CondInv, TwinInv, WayInv, HeldInv, BothInv, [Next]_vars
  PROVE  BothInv'
<1> SUFFICES ASSUME Tells', Entity(answer)', held' # None, held'.q.op = q'.op, SameView(q', held'.q),
                    NEW h, Way(app', chain', h, 0, Base(held'.q)), h[0] = held'.resp
             PROVE  /\ Ahead(chain', at') /\ SameFields(q', held'.q) => Alike(h[at'], answer')
                    /\ resp'.status = 304 /\ q'.condition # AnyTag => Alike(h[at'], answer')
  BY DEF BothInv
<1>1. CASE FilterResponse
  <2> DEFINE b == Base(q)
             p == Base(held.q)
             e == ComputeEtag(answer.data)
  <2>1. /\ Tells /\ phase # "starting" /\ at' = at - 1 /\ at \in 1 .. Len(chain)
        /\ Len(chain) \in Nat
        /\ UNCHANGED <<app, chain, q, held>>
        /\ IsResponse(answer) /\ Entity(answer) /\ IsResponse(answer')
        /\ answer' = Step(app, chain[at], b, answer)
        /\ Asking(q)
    BY <1>1, TurnIs DEF Entity
  <2>2. /\ held # None /\ held.q.op = q.op /\ SameView(q, held.q)
        /\ Way(app, chain, h, 0, p) /\ h[0] = held.resp /\ Asking(held.q)
    BY <2>1 DEF AskInv
  <2>3. /\ at \in 0 .. Len(chain) /\ at - 1 \in 0 .. Len(chain) /\ at \in 0 + 1 .. Len(chain)
    BY <2>1
  <2>4. /\ On(chain, p, h[at], at) /\ h[at - 1] = Step(app, chain[at], p, h[at])
        /\ EtagPast(chain, at - 1) => h[at - 1].tag = h[0].tag
        /\ p.front = "rest"
    BY <2>2, <2>3 DEF Way, Fresh
  <2>5. /\ Ahead(chain, at) /\ SameFields(q, held.q) => Alike(h[at], answer)
        /\ resp.status = 304 /\ q.condition # AnyTag => Alike(h[at], answer)
    BY <2>1, <2>2 DEF BothInv
  <2>6. On(chain, b, answer, at) /\ b.front = "rest"
    <3>1. PICK g : Way(app, chain, g, at, b) /\ g[at] = answer
      BY <2>1 DEF WayInv
    <3>2. at \in at .. Len(chain)
      BY <2>1
    <3> QED BY <3>1, <3>2 DEF Way, Fresh
  <2>7. /\ b.op = q.op /\ b.front = q.front /\ b.header = q.header /\ b.accept = q.accept
        /\ b.fields = q.fields /\ b.token = q.token
        /\ p.op = held.q.op /\ p.front = held.q.front /\ p.header = held.q.header
        /\ p.accept = held.q.accept /\ p.fields = held.q.fields /\ p.token = held.q.token
        /\ p.condition = None
    BY <2>1, <2>2, BaseIs
  <2> HIDE DEF b, p, e
  <2>8. CASE chain[at] = "etag"
    <3>1. EtagPast(chain, at - 1) /\ Ahead(chain, at) /\ ~Ahead(chain, at - 1)
      BY <2>1, <2>8, EtagOnce, EtagBetween
    <3>2. ASSUME resp'.status = 304, q.condition # AnyTag PROVE Alike(h[at - 1], answer')
      <4>1. /\ e # None /\ ~Failed(answer) /\ Readable(answer) /\ q.method = "GET"
            /\ answer' = Tagged(Rebuilt(answer, answer.data), e) /\ answer'.tag = e /\ Has'
        BY <1>1, <2>8, <3>2, EtagTurn DEF e
      <4>2. h[at - 1].tag = e
        BY <2>1, <2>2, <2>4, <3>1, <3>2, <4>1 DEF Has
      <4> DEFINE c == ContextOf(p, app.filters)
      <4>3. c.condition = None
        BY <2>7, ContextIs
      <4> HIDE DEF c
      <4>4. h[at - 1] = Tag(p, c, h[at])
        BY <2>4, <2>8 DEF Step, OnResponse, c
      <4>5. /\ PreTag(p, h[at]) /\ PreTag(b, answer) /\ h[at].data.shape = answer.data.shape
            /\ IsResponse(h[at]) /\ answer.data.shape = Shape(q.op)
        BY <2>2, <2>4, <2>6, <2>7, <3>1 DEF On
      <4>6. ASSUME answer.data.shape = "entity" PROVE h[at].data.fields = answer.data.fields
        <5>1. q.op = "get"
          BY <2>1, <4>1, <4>5, <4>6 DEF Asking, Scoped, Shape
        <5>2. SameFields(q, held.q)
          BY <2>2, <5>1 DEF SameView, SameFields
        <5> QED BY <2>5, <3>1, <5>2 DEF Alike, AlikeData
      <4> QED BY <2>1, <2>2, <2>7, <4>1, <4>2, <4>3, <4>4, <4>5, <4>6, TaggedAlike DEF e
    <3> QED BY <2>1, <3>1, <3>2
  <2>9. CASE chain[at] # "etag"
    <3>1. EtagPast(chain, at - 1) <=> EtagPast(chain, at)
      BY <2>1, <2>9, EtagOnce
    <3>2. resp'.status = resp.status
      BY <1>1, <2>9, TurnIs
    <3>3. ASSUME Alike(h[at], answer), SameFields(q, held.q) \/ chain[at] # "projection"
          PROVE  Alike(h[at - 1], answer')
      <4>1. Alike(Step(app, chain[at], p, h[at]), Step(app, chain[at], p, answer))
        BY <2>1, <2>4, <2>9, <3>3, AlikeStep DEF On
      <4>2. Step(app, chain[at], p, answer) = Step(app, chain[at], b, answer)
        <5>1. /\ p.front = b.front /\ p.op = b.op /\ p.header = b.header /\ p.accept = b.accept
              /\ chain[at] = "projection" => p.fields = b.fields /\ p.token = b.token
          BY <2>2, <2>4, <2>6, <2>7, <3>3 DEF SameView, SameFields
        <5> QED BY <2>9, <5>1, SameStep
      <4> QED BY <2>1, <2>4, <4>1, <4>2
    <3>4. ASSUME Ahead(chain, at - 1), SameFields(q, held.q) PROVE Alike(h[at - 1], answer')
      <4>1. Ahead(chain, at)
        BY <2>1, <3>4, EtagBetween
      <4> QED BY <2>5, <3>3, <3>4, <4>1
    <3>5. ASSUME resp'.status = 304, q.condition # AnyTag PROVE Alike(h[at - 1], answer')
      <4>1. resp.status = 304
        BY <3>2, <3>5
      <4>2. EtagPast(chain, at)
        BY <2>1, <4>1 DEF TwinInv
      <4>3. chain[at] # "projection"
        BY <2>1, <4>2, EtagBetween
      <4> QED BY <2>5, <3>3, <3>5, <4>1, <4>3
    <3> QED BY <2>1, <3>4, <3>5
  <2> QED BY <2>8, <2>9
<1>2. ASSUME NEW x, Begins(x), UNCHANGED <<app, chain, q, held>>, phase \in {"down", "steps"}
      PROVE  /\ Ahead(chain', at') /\ SameFields(q', held'.q) => Alike(h[at'], answer')
             /\ resp'.status = 304 /\ q'.condition # AnyTag => Alike(h[at'], answer')
  <2>1. answer' = x /\ resp' = x /\ x.status # 304 /\ Entity(x)
    BY <1>2 DEF Begins, Answers, Entity
  <2>2. at' = Len(chain) /\ Fresh(app, Base(q), x)
    BY <1>2, <2>1 DEF Begins, Answers
  <2>3. Fresh(app, Base(held.q), h[Len(chain)])
    BY <1>2 DEF Way
  <2>4. Base(q).op = q.op /\ Base(held.q).op = held.q.op /\ held.q.op = q.op
    BY <1>2, BaseIs DEF AskInv
  <2>5. PICK v : x = FromEndpoint(Success(q.op), Data(Shape(q.op), v, app.fields))
    BY <2>2, <2>4 DEF Fresh
  <2>6. PICK w : h[Len(chain)] = FromEndpoint(Success(q.op), Data(Shape(q.op), w, app.fields))
    BY <2>3, <2>4 DEF Fresh
  <2>7. Alike(h[Len(chain)], x)
    BY <2>5, <2>6, AlikeAtFirst, Zenon
  <2> QED BY <2>1, <2>2, <2>7
<1>3. CASE Tells /\ UNCHANGED <<app, chain, q, held, resp, answer, at>>
  BY <1>3 DEF BothInv
<1> QED BY <1>1, <1>2, <1>3, HowTells

(* Who is told "not modified" has the same version, and the same view.     *)
LEMMA ToldIsTrue ==
  ASSUME StartInv, AskInv, TwinInv, WayInv, HeldInv, BothInv
  PROVE  NotModifiedIsTrue
<1> DEFINE now == answer.data
           had == held.resp.data
<1> SUFFICES ASSUME phase = "sent", resp.status = 304, q.condition # AnyTag
             PROVE  /\ held # None /\ held.q.op = q.op
                    /\ IF q.op = "list" THEN now.version = had.version
                       ELSE RecordVersions[now.version] = RecordVersions[had.version]
                    /\ SameView(q, held.q) => now = [had EXCEPT !.version = now.version]
  BY DEF NotModifiedIsTrue
<1>1. Tells
  BY DEF Tells
<1>2. /\ at = 0 /\ q.method = "GET" /\ Entity(answer) /\ IsResponse(answer)
      /\ held # None /\ answer.tag # None /\ answer.tag = held.resp.tag
  BY <1>1 DEF TwinInv, Has
<1>3. Asking(q) /\ Asking(held.q) /\ held.q.method = "GET" /\ Entity(held.resp)
  BY <1>2 DEF AskInv, HeldInv
<1>4. Len(chain) \in Nat /\ 0 \in 0 .. Len(chain)
  BY ChainIs
<1>5. PICK g : Way(app, chain, g, 0, Base(q)) /\ g[0] = answer
  BY <1>1, <1>2 DEF WayInv
<1>6. PICK h : Way(app, chain, h, 0, Base(held.q)) /\ h[0] = held.resp
  BY <1>2 DEF HeldInv
<1>7. /\ now.shape = Shape(q.op) /\ TagOf(answer)
      /\ had.shape = Shape(held.q.op) /\ TagOf(held.resp) /\ IsResponse(held.resp)
  BY <1>3, <1>4, <1>5, <1>6, BaseIs DEF Way, On
<1>8. q.op \in {"get", "list", "health"} /\ held.q.op \in {"get", "list", "health"}
  BY <1>2, <1>3 DEF Asking, Scoped
<1>9. /\ now.shape = had.shape
      /\ now.shape = "list" => now.version = had.version
      /\ now.shape = "entity" => RecordVersions[now.version] = RecordVersions[had.version]
  <2>1. CASE now.shape = "entity"
    <3>1. answer.tag = EntityTag(now)
      BY <1>2, <1>7, <2>1 DEF TagOf
    <3>2. had.shape = "entity" /\ held.resp.tag = EntityTag(had)
      BY <1>2, <1>3, <1>7, <3>1 DEF TagOf, EntityTag, Entity
    <3>3. (IF now.version = None THEN << >> ELSE <<RecordVersions[now.version]>>)
            = (IF had.version = None THEN << >> ELSE <<RecordVersions[had.version]>>)
      <4> HIDE DEF now, had
      <4>1. EntityTag(now) = EntityTag(had)
        BY <1>2, <3>1, <3>2, Zenon
      <4>2. \A e : EntityTag(e).version
                     = (IF e.version = None THEN << >> ELSE <<RecordVersions[e.version]>>)
        BY DEF EntityTag
      <4> QED BY <4>1, <4>2
    <3> QED BY <2>1, <3>2, <3>3
  <2>2. CASE now.shape = "list"
    <3>1. answer.tag = [of |-> "list", version |-> now.version, fields |-> answer.tag.fields]
      BY <1>2, <1>7, <2>2 DEF TagOf
    <3>2. had.shape = "list"
      BY <1>2, <1>3, <1>7, <3>1 DEF TagOf, EntityTag, Entity
    <3>3. held.resp.tag = [of |-> "list", version |-> had.version, fields |-> held.resp.tag.fields]
      BY <1>2, <1>7, <3>2 DEF TagOf
    <3> QED BY <1>2, <2>2, <3>1, <3>2, <3>3
  <2> QED BY <1>2, <2>1, <2>2 DEF Entity
<1>10. held.q.op = q.op /\ now.shape = IF q.op = "list" THEN "list" ELSE "entity"
  BY <1>2, <1>7, <1>8, <1>9 DEF Shape, Entity
<1>11. ASSUME SameView(q, held.q) PROVE now = [had EXCEPT !.version = now.version]
  <2>1. Alike(h[0], answer)
    BY <1>1, <1>2, <1>6, <1>10, <1>11 DEF BothInv
  <2>2. AlikeData(had, now) /\ IsData(had) /\ IsData(now)
    BY <1>2, <1>6, <1>7, <2>1, ResponseData DEF Alike
  <2> HIDE DEF now, had
  <2> QED BY <2>2 DEF AlikeData, IsData
<1> QED BY <1>2, <1>9, <1>10, <1>11

-----------------------------------------------------------------------------
(* The theorems.                                                           *)
IInv ==
  /\ StartInv /\ AskInv
  /\ RunInv
  /\ AnswerInv /\ ContextInv
  /\ TraceInv /\ StepsInv /\ GuardInv
  /\ ShowInv
  /\ CondInv /\ TwinInv /\ WayInv /\ HeldInv /\ BothInv

(* What the theorems below rest on: see the head of this module.           *)
LEMMA FrontIsInductive == Spec => []IInv
<1>1. Init => IInv
  <2>1. Init => ShowInv
    BY DEF Init, ShowInv
  <2>2. Init => ~Tells /\ CondInv /\ HeldInv
    BY DEF Init, Tells, CondInv, HeldInv
  <2>3. ~Tells => TwinInv /\ WayInv /\ BothInv
    BY DEF TwinInv, WayInv, BothInv
  <2> QED BY <2>1, <2>2, <2>3, InitStart DEF IInv
<1>2. IInv /\ [Next]_vars => IInv'
  <2> SUFFICES ASSUME IInv, [Next]_vars PROVE IInv'
    OBVIOUS
  <2>1. StartInv' /\ AskInv'
    BY StartStep, AskStep DEF IInv
  <2>2. RunInv'
    BY RunStep DEF IInv
  <2>3. AnswerInv' /\ ContextInv'
    BY AnswerStep, ContextStep DEF IInv
  <2>4. TraceInv' /\ StepsInv' /\ GuardInv'
    BY TraceStep, StepsStep, GuardStep DEF IInv
  <2>5. ShowInv'
    BY ShowStep DEF IInv
  <2>6. CondInv' /\ TwinInv'
    BY CondStep, TwinStep DEF IInv
  <2>7. WayInv' /\ HeldInv' /\ BothInv'
    BY WayStep, HeldStep, BothStep DEF IInv
  <2> QED BY <2>1, <2>2, <2>3, <2>4, <2>5, <2>6, <2>7 DEF IInv
<1> QED BY <1>1, <1>2, PTL DEF Spec

(* Whatever is declared, in whatever order, the executor runs the last of  *)
(* the most specific handlers that fit the request's version and channel,  *)
(* else that of the controllers module, else the service.                  *)
THEOREM MostSpecificRunsCorrect == Spec => []MostSpecificRuns
<1>1. IInv => MostSpecificRuns
  BY RunIsBest DEF IInv
<1> QED BY <1>1, FrontIsInductive, PTL

(* Nothing runs, over HTTP or over a socket, that a guard of its operation,*)
(* batch, channel and version has not let pass; nothing over HTTP that     *)
(* authentication or the policy has not.  Over a socket those two are      *)
(* passed by: see EveryRequestIsFiltered.                                  *)
THEOREM NothingRunsUnguardedCorrect == Spec => []NothingRunsUnguarded
<1>1. IInv => NothingRunsUnguarded
  BY NothingUnguarded DEF IInv
<1> QED BY <1>1, FrontIsInductive, PTL

(* With a projection, the values that a REST client sees are of the fields *)
(* it asked for and, where the path names the schema, of those that its    *)
(* role may see, whatever other filters the chain has.  It says nothing of *)
(* the names that come with null, nor of documents that look like an       *)
(* envelope.                                                               *)
THEOREM ShowsWhatIsAllowedCorrect == Spec => []ShowsWhatIsAllowed
<1>1. IInv => ShowsWhatIsAllowed
  BY ShownIsAllowed DEF IInv
<1> QED BY <1>1, FrontIsInductive, PTL

(* A client that presents a tag and is told "not modified" has a document  *)
(* of the same number, or the very same list, whatever was written in      *)
(* between, whatever filters the chain has and whatever the two requests   *)
(* select; of the same view it has what it would be sent.                  *)
THEOREM NotModifiedIsTrueCorrect == Spec => []NotModifiedIsTrue
<1>1. IInv => NotModifiedIsTrue
  BY ToldIsTrue DEF IInv
<1> QED BY <1>1, FrontIsInductive, PTL
=============================================================================
