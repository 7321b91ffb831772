--------------------------- MODULE Listing_proofs ---------------------------
(***************************************************************************)
(* Proofs about lists: WalkShowsAll, ShownInOrder and ShownIsMeant hold of *)
(* every specification Listing, and a where clause is translated as it is  *)
(* meant (TranslationCorrect).                                             *)
(*                                                                         *)
(* The three follow from the inductive invariant ListInv.  Its heart is    *)
(* that a cursor divides the list: what was shown is not beyond it         *)
(* (OrderInv), and what is not beyond it was shown (CoverInv).  Neither    *)
(* speaks of the latest versions alone, for a document that was shown may  *)
(* have been replaced; a write adds a document, and changes nothing of     *)
(* those that are there (Extends).  With offsets a place is a rank: how    *)
(* many of the list come before it (OffsetInv).                            *)
(***************************************************************************)
EXTENDS Listing, FiniteSetTheorems, SequenceTheorems, WellFoundedInduction, TLAPS

-----------------------------------------------------------------------------
(* The operators of Listing, of a given collection d and a given walk w.   *)

(* Every version of an entity is stored once.                              *)
Collection(d) ==
  /\ IsFiniteSet(DOMAIN d) /\ DOMAIN d \subseteq Nat \ {0}
  /\ \A i \in DOMAIN d : d[i] \in Doc
  /\ \A i, j \in DOMAIN d : d[i].entity = d[j].entity /\ d[i].version = d[j].version => i = j

Finds(d, w, i) == Matches(ToMongo(Clauses[w.where]), d[i])

ActiveIn(d, w) ==
  {i \in DOMAIN d :
     /\ Finds(d, w, i) /\ d[i].deleted_at = Null
     /\ \A j \in DOMAIN d :
          Finds(d, w, j) /\ d[j].entity = d[i].entity => d[j].version <= d[i].version}

FieldIn(d, w, i) == d[i][w.sort_by]

(* i is before j by the field alone.                                       *)
Ahead(d, w, order, i, j) ==
  IF order = "asc" THEN SortsBefore(FieldIn(d, w, i), FieldIn(d, w, j))
  ELSE SortsBefore(FieldIn(d, w, j), FieldIn(d, w, i))

AfterIn(d, w, i, order, c) ==
  IF order = "asc" THEN IsLess(c.value, FieldIn(d, w, i)) ELSE IsLess(FieldIn(d, w, i), c.value)

CursorIn(d, w, i) == [value |-> Str(FieldIn(d, w, i)), id |-> i]

AloneIn(d, e) ==
  \A i, j \in DOMAIN d : d[i].entity = e /\ d[j].entity # e => d[i].updated_by # d[j].updated_by

ComparableIn(d, w) == w.sort_by = "updated_by" /\ \A i \in DOMAIN d : IsString(d[i].updated_by)

StraightOn(d, w) ==
  \/ w.order = "asc"
  \/ ~\E i, j \in DOMAIN d : d[i].updated_by = Null /\ IsString(d[j].updated_by) /\ IsLess(d[j].updated_by, Str(Null))

(* What a walk has to show: nobody touched it, and its place is its own.   *)
Settled(d, w, t) == {i \in ActiveIn(d, w) : d[i].entity \notin t /\ AloneIn(d, d[i].entity)}

ComesIn(d, w, order, i, j) ==
  IF FieldIn(d, w, i) = FieldIn(d, w, j) THEN i > j ELSE Ahead(d, w, order, i, j)

Order(d, w, order) ==
  {p \in (DOMAIN d) \X (DOMAIN d) : ComesIn(d, w, order, p[1], p[2])}

Below(R, S, x) == {y \in S : <<y, x>> \in R}

(* How many come before i in the list.                                     *)
Place(d, w, i) == Cardinality(Below(Order(d, w, w.order), ActiveIn(d, w), i))

Shows(s, i) == \E n \in DOMAIN s : s[n] = i

InOrder(d, w, s) ==
  \A m, n \in DOMAIN s : m < n => s[m] # s[n] /\ ~Ahead(d, w, w.order, s[n], s[m])

-----------------------------------------------------------------------------
(* The inductive invariant.                                                *)

BasicInv ==
  /\ Collection(docs)
  /\ phase \in {"idle", "asks", "counts", "done", "refused"} /\ leg \in {"forth", "back"}
  /\ shown \in [forth : Seq(DOMAIN docs), back : Seq(DOMAIN docs)]
  /\ leg = "forth" => shown.back = << >>
  /\ phase \in {"idle", "refused"} => leg = "forth" /\ shown.forth = << >>
  /\ phase # "idle" => walk \in Walk
  /\ phase = "counts" => walk.mode = "offset"
  /\ leg = "back" => walk.mode = "cursor"
  /\ phase # "idle" /\ walk.mode = "offset" => cursor \in Nat

(* What was shown was found, and still is unless somebody wrote.           *)
ShownInv ==
  phase # "idle" =>
    \A l \in {"forth", "back"} : \A n \in DOMAIN shown[l] :
      /\ Finds(docs, walk, shown[l][n]) /\ docs[shown[l][n]].deleted_at = Null
      /\ docs[shown[l][n]].entity \notin touched => shown[l][n] \in ActiveIn(docs, walk)

(* A cursor is that of a document; on the way back, that of a string.      *)
CursorInv ==
  phase # "idle" /\ walk.mode = "cursor" =>
    /\ cursor # None => cursor.id \in DOMAIN docs /\ cursor = CursorIn(docs, walk, cursor.id)
    /\ cursor = None /\ phase = "asks" => leg = "forth" /\ shown.forth = << >>
    /\ leg = "back" => cursor # None /\ IsString(FieldIn(docs, walk, cursor.id))

(* What was shown is not beyond the cursor.                                *)
OrderInv ==
  phase # "idle" /\ walk.mode = "cursor" /\ StraightOn(docs, walk) =>
    /\ InOrder(docs, walk, shown.forth) /\ InOrder(docs, walk, shown.back)
    /\ phase = "asks" /\ leg = "forth" /\ cursor # None =>
         \A n \in DOMAIN shown.forth : ~Ahead(docs, walk, walk.order, cursor.id, shown.forth[n])
    /\ phase = "asks" /\ leg = "back" =>
         \A n \in DOMAIN shown.back : ~Ahead(docs, walk, walk.order, shown.back[n], cursor.id)

(* What is not beyond the cursor was shown.                                *)
CoverInv ==
  phase # "idle" /\ walk.mode = "cursor" /\ ComparableIn(docs, walk) =>
    \A i \in Settled(docs, walk, touched) :
      /\ phase = "asks" /\ leg = "forth" /\ cursor # None =>
           AfterIn(docs, walk, i, walk.order, cursor) \/ Shows(shown.forth, i)
      /\ phase = "done" \/ leg = "back" => Shows(shown.forth, i)
      /\ phase = "asks" /\ leg = "back" =>
           AfterIn(docs, walk, i, Opposite[walk.order], cursor) \/ Shows(shown.back, i)
      /\ phase = "done" /\ leg = "back" => Shows(shown.back, i)

(* With offsets, if nobody wrote, a walk has shown the list so far.        *)
OffsetInv ==
  phase # "idle" /\ walk.mode = "offset" /\ touched = {} =>
    /\ \A n \in DOMAIN shown.forth :
         /\ shown.forth[n] \in ActiveIn(docs, walk)
         /\ Place(docs, walk, shown.forth[n]) = n - 1
    /\ phase = "asks" => cursor = Len(shown.forth)
    /\ phase = "counts" =>
         Len(shown.forth) > cursor \/ ~(Len(shown.forth) < Cardinality(ActiveIn(docs, walk)))
    /\ phase = "done" => ~(Len(shown.forth) < Cardinality(ActiveIn(docs, walk)))

ListInv == BasicInv /\ ShownInv /\ CursorInv /\ OrderInv /\ CoverInv /\ OffsetInv
-----------------------------------------------------------------------------
(* Values are ordered.                                                     *)

Value == [type : {"null", "string", "date"}, at : Seq(Nat)]

Same(s, t, i) == i \in DOMAIN s /\ i \in DOMAIN t /\ s[i] = t[i]

LEMMA LessIs ==
  ASSUME NEW s \in Seq(Nat), NEW t \in Seq(Nat), NEW i \in DOMAIN t,
         \A j \in 1 .. i - 1 : Same(s, t, j), i \in DOMAIN s => s[i] < t[i]
  PROVE  Less(s, t)
BY DEF Less, Same

LEMMA LessGives ==
  ASSUME NEW s \in Seq(Nat), NEW t \in Seq(Nat), Less(s, t)
  PROVE  \E i \in DOMAIN t :
           (\A j \in 1 .. i - 1 : Same(s, t, j)) /\ (i \in DOMAIN s => s[i] < t[i])
<1>1. PICK i \in DOMAIN t :
        /\ \A j \in 1 .. i - 1 : j \in DOMAIN s /\ s[j] = t[j]
        /\ i \in DOMAIN s => s[i] < t[i]
  BY DEF Less
<1>2. ASSUME NEW j \in 1 .. i - 1 PROVE Same(s, t, j)
  <2>1. j \in DOMAIN t
    OBVIOUS
  <2> QED BY <1>1, <2>1 DEF Same
<1> QED BY <1>1, <1>2

LEMMA LessIsIrreflexive ==
  ASSUME NEW s \in Seq(Nat)
  PROVE  ~Less(s, s)
BY DEF Less

LEMMA LessIsTransitive ==
  ASSUME NEW s \in Seq(Nat), NEW t \in Seq(Nat), NEW u \in Seq(Nat), Less(s, t), Less(t, u)
  PROVE  Less(s, u)
<1>1. PICK i \in DOMAIN t :
        (\A j \in 1 .. i - 1 : Same(s, t, j)) /\ (i \in DOMAIN s => s[i] < t[i])
  BY LessGives
<1>2. PICK k \in DOMAIN u :
        (\A j \in 1 .. k - 1 : Same(t, u, j)) /\ (k \in DOMAIN t => t[k] < u[k])
  BY LessGives
<1>3. i \in Nat /\ k \in Nat
  OBVIOUS
<1>4. CASE i < k
  <2>1. \A j \in 1 .. i : Same(t, u, j)
    BY <1>2, <1>3, <1>4
  <2>2. i \in DOMAIN u /\ t[i] = u[i]
    BY <1>3, <2>1 DEF Same
  <2>3. ASSUME NEW j \in 1 .. i - 1 PROVE Same(s, u, j)
    <3>1. Same(s, t, j) /\ Same(t, u, j)
      BY <1>1, <1>3, <2>1
    <3> QED BY <3>1 DEF Same
  <2> QED BY <1>1, <2>2, <2>3, LessIs
<1>5. CASE k <= i
  <2>1. ASSUME NEW j \in 1 .. k - 1 PROVE Same(s, u, j)
    <3>1. Same(s, t, j) /\ Same(t, u, j)
      BY <1>1, <1>2, <1>3, <1>5
    <3> QED BY <3>1 DEF Same
  <2>2. ASSUME k \in DOMAIN s PROVE s[k] < u[k]
    <3>1. k \in DOMAIN t
      BY <1>3, <1>5
    <3>2. s[k] \in Nat /\ t[k] \in Nat /\ u[k] \in Nat
      BY <2>2, <3>1
    <3>3. CASE k = i
      BY <1>1, <1>2, <2>2, <3>1, <3>2, <3>3
    <3>4. CASE k < i
      <4>1. Same(s, t, k)
        BY <1>1, <1>3, <3>4
      <4> QED BY <1>2, <3>1, <4>1 DEF Same
    <3> QED BY <1>3, <1>5, <3>3, <3>4
  <2> QED BY <2>1, <2>2, LessIs
<1> QED BY <1>3, <1>4, <1>5

(* The first place where two sequences differ.                             *)
LEMMA LessIsTotal ==
  ASSUME NEW s \in Seq(Nat), NEW t \in Seq(Nat), s # t
  PROVE  Less(s, t) \/ Less(t, s)
<1> DEFINE D == {i \in DOMAIN s \cup DOMAIN t : ~Same(s, t, i)}
<1>1. D \subseteq Nat /\ D # {}
  <2>1. D \subseteq Nat
    OBVIOUS
  <2>2. ASSUME D = {} PROVE FALSE
    <3>1. \A i \in DOMAIN s \cup DOMAIN t : i \in DOMAIN s /\ i \in DOMAIN t /\ s[i] = t[i]
      BY <2>2 DEF Same
    <3>2. DOMAIN s = DOMAIN t
      BY <3>1
    <3>3. s = [i \in DOMAIN s |-> s[i]] /\ t = [i \in DOMAIN t |-> t[i]]
      OBVIOUS
    <3> QED BY <3>1, <3>2, <3>3
  <2> QED BY <2>1, <2>2
<1>2. PICK i \in D : \A j \in D : ~(<<j, i>> \in OpToRel(<, Nat))
  BY <1>1, NatLessThanWellFounded, WFMin
<1>3. \A j \in D : ~(j < i)
  BY <1>1, <1>2 DEF OpToRel
<1>4. i \in Nat \ {0} /\ Len(s) \in Nat /\ Len(t) \in Nat
  OBVIOUS
<1>5. ASSUME NEW j \in 1 .. i - 1 PROVE Same(s, t, j)
  <2>1. j \in DOMAIN s \cup DOMAIN t /\ j < i
    BY <1>4
  <2> QED BY <1>3, <2>1
<1>6. Same(s, t, i) = FALSE /\ \A j \in 1 .. i - 1 : Same(t, s, j)
  BY <1>5 DEF Same
<1>7. CASE i \in DOMAIN s /\ i \in DOMAIN t
  <2>1. s[i] \in Nat /\ t[i] \in Nat /\ s[i] # t[i]
    BY <1>6, <1>7 DEF Same
  <2>2. s[i] < t[i] \/ t[i] < s[i]
    BY <2>1
  <2> QED BY <1>5, <1>6, <1>7, <2>2, LessIs
<1>8. CASE i \notin DOMAIN s
  BY <1>5, <1>8, LessIs
<1>9. CASE i \notin DOMAIN t
  BY <1>6, <1>9, LessIs
<1> QED BY <1>7, <1>8, <1>9

LEMMA IsLessOrders ==
  ASSUME NEW u \in Value, NEW v \in Value, NEW w \in Value
  PROVE  /\ ~IsLess(u, u)
         /\ IsLess(u, v) /\ IsLess(v, w) => IsLess(u, w)
         /\ u.type = v.type /\ u # v => IsLess(u, v) \/ IsLess(v, u)
<1>1. u.at \in Seq(Nat) /\ v.at \in Seq(Nat) /\ w.at \in Seq(Nat)
  BY DEF Value
<1>2. ASSUME u.type = v.type, u # v PROVE u.at # v.at
  BY <1>2 DEF Value
<1> QED BY <1>1, <1>2, LessIsIrreflexive, LessIsTransitive, LessIsTotal DEF IsLess

LEMMA TypesAreOrdered ==
  ASSUME NEW v \in Value, NEW w \in Value
  PROVE  /\ TypeOrder[v.type] \in Nat /\ TypeOrder[w.type] \in Nat
         /\ TypeOrder[v.type] = TypeOrder[w.type] <=> v.type = w.type
BY DEF Value, TypeOrder

LEMMA SortsBeforeOrders ==
  ASSUME NEW u \in Value, NEW v \in Value, NEW w \in Value
  PROVE  /\ ~SortsBefore(u, u)
         /\ SortsBefore(u, v) /\ SortsBefore(v, w) => SortsBefore(u, w)
         /\ u # v => SortsBefore(u, v) \/ SortsBefore(v, u)
         /\ IsLess(u, v) => SortsBefore(u, v)
         /\ u.type = v.type /\ SortsBefore(u, v) => IsLess(u, v)
<1> DEFINE a == TypeOrder[u.type]
           b == TypeOrder[v.type]
           c == TypeOrder[w.type]
<1>1. a \in Nat /\ b \in Nat /\ c \in Nat
  BY TypesAreOrdered
<1>2. (a = b <=> u.type = v.type) /\ (b = c <=> v.type = w.type) /\ (a = c <=> u.type = w.type)
  BY TypesAreOrdered
<1>3. (IsLess(u, v) => u.type = v.type) /\ (IsLess(v, w) => v.type = w.type)
  BY DEF IsLess
<1>4. /\ SortsBefore(u, u) <=> a < a \/ IsLess(u, u)
      /\ SortsBefore(u, v) <=> a < b \/ IsLess(u, v)
      /\ SortsBefore(v, u) <=> b < a \/ IsLess(v, u)
      /\ SortsBefore(v, w) <=> b < c \/ IsLess(v, w)
      /\ SortsBefore(u, w) <=> a < c \/ IsLess(u, w)
  BY DEF SortsBefore
<1>5. /\ ~IsLess(u, u)
      /\ IsLess(u, v) /\ IsLess(v, w) => IsLess(u, w)
      /\ u.type = v.type /\ u # v => IsLess(u, v) \/ IsLess(v, u)
  BY IsLessOrders
<1> HIDE DEF a, b, c
<1> QED BY <1>1, <1>2, <1>3, <1>4, <1>5

LEMMA TextsAreValues ==
  /\ Text \cup {Null} \subseteq Value
  /\ Dates \subseteq Value
  /\ \A v \in Text \cup {Null} : ~IsString(v) => v = Null
<1>1. << >> \in Seq(Nat)
  OBVIOUS
<1>2. Null \in Value
  BY <1>1 DEF Null, Value
<1>3. Text \subseteq Value /\ Dates \subseteq Value
  BY DEF Text, Dates, Value
<1>4. \A v \in Text : IsString(v)
  BY DEF Text, IsString
<1> QED BY <1>2, <1>3, <1>4

LEMMA StrIs ==
  ASSUME NEW v \in Value
  PROVE  /\ Str(v) \in Value /\ IsString(Str(v))
         /\ IsString(v) => Str(v) = v
<1>1. v.type \in {"null", "string", "date"}
  BY DEF Value
<1>2. CASE v.type = "string"
  BY <1>2 DEF Str, IsString
<1>3. CASE v.type = "null"
  <2>1. Str(v) = String(<<78, 111, 110, 101>>)
    BY <1>3 DEF Str
  <2> QED BY <1>3, <2>1 DEF String, Value, IsString
<1>4. CASE v.type = "date"
  <2>1. Str(v) = String(<<50>>)
    BY <1>4 DEF Str
  <2> QED BY <1>4, <2>1 DEF String, Value, IsString
<1> QED BY <1>1, <1>2, <1>3, <1>4

-----------------------------------------------------------------------------
(* Ranks in finite sets.                                                   *)

(* R is a strict total order of the members of S.                          *)
Orders(R, S) ==
  \A x, y \in S :
    /\ <<x, y>> \in R => <<y, x>> \notin R
    /\ x # y => <<x, y>> \in R \/ <<y, x>> \in R
    /\ \A z \in S : <<x, y>> \in R /\ <<y, z>> \in R => <<x, z>> \in R

LEMMA RankIsBounded ==
  ASSUME NEW S, IsFiniteSet(S), NEW R, Orders(R, S), NEW x \in S
  PROVE  /\ IsFiniteSet(Below(R, S, x))
         /\ Cardinality(Below(R, S, x)) \in 0 .. Cardinality(S) - 1
<1>1. x \in S \ Below(R, S, x) /\ Below(R, S, x) \subseteq S
  BY DEF Orders, Below
<1>2. Below(R, S, x) # S
  BY <1>1
<1> QED
  BY <1>1, <1>2, FS_Subset, FS_CardinalityType

LEMMA RankGrows ==
  ASSUME NEW S, IsFiniteSet(S), NEW R, Orders(R, S), NEW a \in S, NEW b \in S, <<a, b>> \in R
  PROVE  Cardinality(Below(R, S, a)) < Cardinality(Below(R, S, b))
<1>1. Below(R, S, a) \subseteq Below(R, S, b)
  BY DEF Orders, Below
<1>2. a \in Below(R, S, b) \ Below(R, S, a)
  BY DEF Orders, Below
<1>3. IsFiniteSet(Below(R, S, b)) /\ Below(R, S, a) # Below(R, S, b)
  BY <1>2, RankIsBounded
<1> QED
  BY <1>1, <1>3, FS_Subset, FS_CardinalityType

LEMMA RankTellsApart ==
  ASSUME NEW S, IsFiniteSet(S), NEW R, Orders(R, S), NEW x \in S, NEW y \in S,
         Cardinality(Below(R, S, x)) = Cardinality(Below(R, S, y))
  PROVE  x = y
<1>1. Cardinality(Below(R, S, x)) \in Int /\ Cardinality(Below(R, S, y)) \in Int
  BY RankIsBounded
<1>2. <<x, y>> \notin R
  BY <1>1, RankGrows
<1>3. <<y, x>> \notin R
  BY <1>1, RankGrows
<1> QED
  BY <1>2, <1>3 DEF Orders

(* A sequence of members by their ranks takes all of them.                 *)
Ranks(s, R, S) ==
  \A n \in 1 .. Cardinality(S), x \in S :
    Cardinality(Below(R, S, x)) = n - 1
      => s[n] \in S /\ Cardinality(Below(R, S, s[n])) = n - 1

LEMMA RankedTakesAll ==
  ASSUME NEW S, IsFiniteSet(S), NEW R, Orders(R, S), NEW s, Ranks(s, R, S), NEW x \in S
  PROVE  /\ Cardinality(Below(R, S, x)) + 1 \in 1 .. Cardinality(S)
         /\ s[Cardinality(Below(R, S, x)) + 1] = x
<1>1. PICK k \in 0 .. Cardinality(S) - 1 : Cardinality(Below(R, S, x)) = k
  BY RankIsBounded
<1>2. Cardinality(S) \in Nat
  BY FS_CardinalityType
<1>3. k + 1 \in 1 .. Cardinality(S) /\ (k + 1) - 1 = k
  BY <1>1, <1>2
<1>4. s[k + 1] \in S /\ Cardinality(Below(R, S, s[k + 1])) = k
  BY <1>1, <1>3 DEF Ranks
<1>5. s[k + 1] = x
  BY <1>1, <1>4, RankTellsApart
<1> QED BY <1>1, <1>3, <1>5

LEMMA EveryRankIsTaken ==
  ASSUME NEW S, IsFiniteSet(S), NEW R, Orders(R, S), NEW n \in 1 .. Cardinality(S)
  PROVE  \E x \in S : Cardinality(Below(R, S, x)) = n - 1
<1> DEFINE T == 0 .. Cardinality(S) - 1
           rank == [x \in S |-> Cardinality(Below(R, S, x))]
<1>1. Cardinality(S) \in Nat
  BY FS_CardinalityType
<1>2. rank \in [S -> T]
  BY RankIsBounded
<1>3. \A x, y \in S : rank[x] = rank[y] => x = y
  BY RankTellsApart
<1>4. rank \in Injection(S, T)
  BY <1>2, <1>3 DEF Injection, IsInjective
<1>5. IsFiniteSet(T) /\ Cardinality(T) = Cardinality(S)
  <2>1. 0 \in Int /\ Cardinality(S) - 1 \in Int
    BY <1>1
  <2>2. /\ IsFiniteSet(T)
        /\ Cardinality(T) = IF 0 > Cardinality(S) - 1 THEN 0 ELSE (Cardinality(S) - 1) - 0 + 1
    BY <2>1, FS_Interval, Zenon
  <2> QED BY <1>1, <2>2
<1>6. rank \in Surjection(S, T)
  <2> HIDE DEF rank, T
  <2> QED BY <1>4, <1>5, FS_Injection
<1>7. n - 1 \in T
  BY <1>1
<1>8. PICK x \in S : rank[x] = n - 1
  BY <1>6, <1>7 DEF Surjection
<1>9. Cardinality(Below(R, S, x)) = n - 1
  BY <1>8
<1> QED BY <1>9

LEMMA RankedAreMembers ==
  ASSUME NEW S, IsFiniteSet(S), NEW R, Orders(R, S), NEW s, Ranks(s, R, S),
         NEW n \in 1 .. Cardinality(S)
  PROVE  s[n] \in S
BY EveryRankIsTaken DEF Ranks

-----------------------------------------------------------------------------
(* The order of a walk.                                                    *)

LEMMA FieldIsValue ==
  ASSUME NEW d, Collection(d), NEW w \in Walk, NEW i \in DOMAIN d
  PROVE  /\ FieldIn(d, w, i) \in Value /\ d[i] \in Doc
         /\ w.sort_by = "updated_by" => FieldIn(d, w, i) = d[i].updated_by
<1>1. d[i] \in Doc
  BY DEF Collection
<1>2. w.sort_by \in {"updated_by", "created_at"}
  BY DEF Walk
<1>3. d[i].updated_by \in Value /\ d[i].created_at \in Value
  BY <1>1, TextsAreValues DEF Doc
<1> QED BY <1>1, <1>2, <1>3 DEF FieldIn

LEMMA AheadOrders ==
  ASSUME NEW d, Collection(d), NEW w \in Walk, NEW order \in {"asc", "desc"},
         NEW i \in DOMAIN d, NEW j \in DOMAIN d, NEW k \in DOMAIN d
  PROVE  /\ ~Ahead(d, w, order, i, i)
         /\ Ahead(d, w, order, i, j) /\ Ahead(d, w, order, j, k) => Ahead(d, w, order, i, k)
         /\ FieldIn(d, w, i) # FieldIn(d, w, j)
              => Ahead(d, w, order, i, j) \/ Ahead(d, w, order, j, i)
         /\ FieldIn(d, w, i) = FieldIn(d, w, j) => ~Ahead(d, w, order, i, j)
<1> DEFINE x == FieldIn(d, w, i)
           y == FieldIn(d, w, j)
           z == FieldIn(d, w, k)
<1>1. x \in Value /\ y \in Value /\ z \in Value
  BY FieldIsValue
<1>2. ~SortsBefore(x, x) /\ ~SortsBefore(y, y)
  BY <1>1, SortsBeforeOrders
<1>3. /\ SortsBefore(x, y) /\ SortsBefore(y, z) => SortsBefore(x, z)
      /\ SortsBefore(z, y) /\ SortsBefore(y, x) => SortsBefore(z, x)
      /\ x # y => SortsBefore(x, y) \/ SortsBefore(y, x)
  BY <1>1, SortsBeforeOrders
<1>4. CASE order = "asc"
  BY <1>2, <1>3, <1>4 DEF Ahead
<1>5. CASE order = "desc"
  BY <1>2, <1>3, <1>5 DEF Ahead
<1> QED BY <1>4, <1>5

LEMMA OppositeIs ==
  ASSUME NEW d, NEW w \in Walk, NEW i, NEW j
  PROVE  /\ w.order \in {"asc", "desc"} /\ Opposite[w.order] \in {"asc", "desc"}
         /\ Ahead(d, w, Opposite[w.order], i, j) <=> Ahead(d, w, w.order, j, i)
<1>1. w.order \in {"asc", "desc"}
  BY DEF Walk
<1>2. CASE w.order = "asc"
  BY <1>2 DEF Opposite, Ahead
<1>3. CASE w.order = "desc"
  BY <1>3 DEF Opposite, Ahead
<1> QED BY <1>1, <1>2, <1>3

(* What is after a cursor is after the document the cursor is of, but for  *)
(* what comes below the string "None".                                     *)
LEMMA AfterIsAhead ==
  ASSUME NEW d, Collection(d), NEW w \in Walk, NEW order \in {"asc", "desc"},
         NEW c \in DOMAIN d, NEW i \in DOMAIN d, AfterIn(d, w, i, order, CursorIn(d, w, c))
  PROVE  /\ IsString(FieldIn(d, w, i))
         /\ IsString(FieldIn(d, w, c)) => Ahead(d, w, order, c, i)
         /\ order = w.order /\ StraightOn(d, w) => Ahead(d, w, order, c, i)
<1> DEFINE x == FieldIn(d, w, c)
           y == FieldIn(d, w, i)
<1>1. x \in Value /\ y \in Value /\ d[c] \in Doc /\ d[i] \in Doc
  BY FieldIsValue
<1>2. Str(x) \in Value /\ IsString(Str(x)) /\ (IsString(x) => Str(x) = x)
  BY <1>1, StrIs
<1>3. IF order = "asc" THEN IsLess(Str(x), y) ELSE IsLess(y, Str(x))
  BY DEF AfterIn, CursorIn
<1>4. IsString(y)
  BY <1>2, <1>3 DEF IsLess, IsString
<1>5. ASSUME IsString(x) PROVE Ahead(d, w, order, c, i)
  <2>1. IF order = "asc" THEN IsLess(x, y) ELSE IsLess(y, x)
    BY <1>2, <1>3, <1>5
  <2> QED BY <1>1, <2>1, SortsBeforeOrders DEF Ahead
<1>6. ASSUME ~IsString(x), order = w.order, StraightOn(d, w)
      PROVE  Ahead(d, w, order, c, i)
  <2>1. w.sort_by = "updated_by"
    <3>1. w.sort_by \in {"updated_by", "created_at"}
      BY DEF Walk
    <3>2. ASSUME w.sort_by = "created_at" PROVE FALSE
      <4>1. y.type = "date"
        BY <1>1, <3>2 DEF FieldIn, Doc, Dates
      <4> QED BY <1>4, <4>1 DEF IsString
    <3> QED BY <3>1, <3>2
  <2>2. x = d[c].updated_by /\ y = d[i].updated_by /\ x = Null
    <3>1. x = d[c].updated_by /\ y = d[i].updated_by
      BY <2>1, FieldIsValue
    <3>2. d[c].updated_by \in Text \cup {Null}
      BY <1>1 DEF Doc
    <3> QED BY <1>6, <3>1, <3>2, TextsAreValues
  <2>3. CASE order = "asc"
    <3>1. x.type = "null" /\ y.type = "string"
      BY <1>4, <2>2 DEF Null, IsString
    <3>2. SortsBefore(x, y)
      BY <3>1 DEF SortsBefore, TypeOrder
    <3> QED BY <2>3, <3>2 DEF Ahead
  <2>4. CASE order = "desc"
    <3>1. IsLess(y, Str(Null))
      BY <1>3, <2>2, <2>4
    <3> QED BY <1>4, <1>6, <2>2, <2>4, <3>1 DEF StraightOn
  <2> QED BY <2>3, <2>4
<1> QED BY <1>4, <1>5, <1>6

(* Of strings, what comes after a document is after its cursor.            *)
LEMMA AheadIsAfter ==
  ASSUME NEW d, Collection(d), NEW w \in Walk, ComparableIn(d, w), NEW order \in {"asc", "desc"},
         NEW c \in DOMAIN d, NEW i \in DOMAIN d, Ahead(d, w, order, c, i)
  PROVE  AfterIn(d, w, i, order, CursorIn(d, w, c))
<1> DEFINE x == FieldIn(d, w, c)
           y == FieldIn(d, w, i)
<1>1. x \in Value /\ y \in Value /\ x = d[c].updated_by /\ y = d[i].updated_by
  BY FieldIsValue DEF ComparableIn
<1>2. IsString(x) /\ IsString(y)
  BY <1>1 DEF ComparableIn
<1>3. Str(x) = x /\ x.type = y.type
  BY <1>1, <1>2, StrIs DEF IsString
<1>4. IF order = "asc" THEN SortsBefore(x, y) ELSE SortsBefore(y, x)
  BY DEF Ahead
<1>5. IF order = "asc" THEN IsLess(x, y) ELSE IsLess(y, x)
  BY <1>1, <1>3, <1>4, SortsBeforeOrders
<1> QED BY <1>3, <1>5 DEF AfterIn, CursorIn

LEMMA OrderIs ==
  ASSUME NEW d, NEW w, NEW order, NEW i \in DOMAIN d, NEW j \in DOMAIN d
  PROVE  <<i, j>> \in Order(d, w, order) <=> ComesIn(d, w, order, i, j)
BY DEF Order

LEMMA OrderOrders ==
  ASSUME NEW d, Collection(d), NEW w \in Walk, NEW order \in {"asc", "desc"},
         NEW S \in SUBSET DOMAIN d
  PROVE  Orders(Order(d, w, order), S)
<1> SUFFICES ASSUME NEW i \in S, NEW j \in S, NEW k \in S
             PROVE  /\ ComesIn(d, w, order, i, j) => ~ComesIn(d, w, order, j, i)
                    /\ i # j => ComesIn(d, w, order, i, j) \/ ComesIn(d, w, order, j, i)
                    /\ ComesIn(d, w, order, i, j) /\ ComesIn(d, w, order, j, k)
                         => ComesIn(d, w, order, i, k)
  BY OrderIs, Zenon DEF Orders
<1> DEFINE F(n) == FieldIn(d, w, n)
           A(m, n) == Ahead(d, w, order, m, n)
<1>1. i \in Nat /\ j \in Nat /\ k \in Nat
  BY DEF Collection
<1>2. /\ ComesIn(d, w, order, i, j) <=> IF F(i) = F(j) THEN i > j ELSE A(i, j)
      /\ ComesIn(d, w, order, j, i) <=> IF F(i) = F(j) THEN j > i ELSE A(j, i)
      /\ ComesIn(d, w, order, j, k) <=> IF F(j) = F(k) THEN j > k ELSE A(j, k)
      /\ ComesIn(d, w, order, i, k) <=> IF F(i) = F(k) THEN i > k ELSE A(i, k)
  BY DEF ComesIn
<1>3. i \in DOMAIN d /\ j \in DOMAIN d /\ k \in DOMAIN d
  OBVIOUS
<1>4. ~A(i, i) /\ (A(i, j) /\ A(j, i) => A(i, i)) /\ (F(i) # F(j) => A(i, j) \/ A(j, i))
  BY <1>3, AheadOrders
<1>5. (A(i, j) /\ A(j, k) => A(i, k)) /\ (F(i) = F(k) => ~A(i, k)) /\ (F(i) = F(j) => ~A(i, j))
  BY <1>3, AheadOrders
<1>6. (F(i) = F(j) => (A(i, k) <=> A(j, k))) /\ (F(j) = F(k) => (A(i, j) <=> A(i, k)))
  BY DEF Ahead
<1> HIDE DEF F, A
<1> QED BY <1>1, <1>2, <1>4, <1>5, <1>6

LEMMA ComesIs ==
  ASSUME NEW order, NEW i, NEW j
  PROVE  Comes(order, i, j) <=> ComesIn(docs, walk, order, i, j)
BY DEF Comes, ComesIn, Ahead, Field, FieldIn

LEMMA SortedRanks ==
  ASSUME Collection(docs), walk \in Walk, NEW order \in {"asc", "desc"}, NEW S \in SUBSET DOMAIN docs
  PROVE  /\ IsFiniteSet(S) /\ Orders(Order(docs, walk, order), S) /\ Cardinality(S) \in Nat
         /\ Ranks(Sorted(S, order), Order(docs, walk, order), S)
<1> DEFINE R == Order(docs, walk, order)
<1>1. IsFiniteSet(S) /\ Orders(R, S) /\ Cardinality(S) \in Nat
  BY OrderOrders, FS_Subset, FS_CardinalityType DEF Collection
<1>2. ASSUME NEW n \in 1 .. Cardinality(S), NEW x \in S, Cardinality(Below(R, S, x)) = n - 1
      PROVE  /\ Sorted(S, order)[n] \in S
             /\ Cardinality(Below(R, S, Sorted(S, order)[n])) = n - 1
  <2> DEFINE P(y) == Cardinality({j \in S : Comes(order, j, y)}) = n - 1
  <2>1. ASSUME NEW y \in S PROVE {j \in S : Comes(order, j, y)} = Below(R, S, y)
    BY ComesIs, OrderIs DEF Below
  <2>2. P(x)
    BY <1>2, <2>1
  <2>3. Sorted(S, order)[n] = CHOOSE y \in S : P(y)
    BY DEF Sorted
  <2>4. Sorted(S, order)[n] \in S /\ P(Sorted(S, order)[n])
    <3> HIDE DEF P
    <3> QED BY <2>2, <2>3
  <2> QED BY <2>1, <2>4
<1>3. Ranks(Sorted(S, order), R, S)
  BY <1>2 DEF Ranks
<1> QED BY <1>1, <1>3

(* Sorting a set keeps each of its members once, in order.                 *)
LEMMA SortedTakes ==
  ASSUME Collection(docs), walk \in Walk, NEW order \in {"asc", "desc"}, NEW S \in SUBSET DOMAIN docs,
         NEW n \in 1 .. Cardinality(S)
  PROVE  /\ Sorted(S, order)[n] \in S
         /\ Cardinality(Below(Order(docs, walk, order), S, Sorted(S, order)[n])) = n - 1
BY SortedRanks, EveryRankIsTaken DEF Ranks

LEMMA SortedIs ==
  ASSUME Collection(docs), walk \in Walk, NEW order \in {"asc", "desc"}, NEW S \in SUBSET DOMAIN docs
  PROVE  /\ Cardinality(S) \in Nat /\ Len(Sorted(S, order)) = Cardinality(S)
         /\ Sorted(S, order) \in Seq(S)
         /\ \A i \in S : Shows(Sorted(S, order), i)
         /\ \A m, n \in 1 .. Cardinality(S) : m < n =>
              /\ Sorted(S, order)[m] # Sorted(S, order)[n]
              /\ ~Ahead(docs, walk, order, Sorted(S, order)[n], Sorted(S, order)[m])
<1> DEFINE R == Order(docs, walk, order)
           s == Sorted(S, order)
           N == Cardinality(S)
<1>1. /\ IsFiniteSet(S) /\ Orders(R, S) /\ N \in Nat
      /\ Ranks(s, R, S)
  BY SortedRanks
<1>2. s = [n \in 1 .. N |-> s[n]]
  <2> DEFINE Nth(n) == CHOOSE i \in S : Cardinality({j \in S : Comes(order, j, i)}) = n - 1
  <2>1. s = [n \in 1 .. N |-> Nth(n)]
    BY DEF Sorted
  <2> HIDE DEF Nth, s, N
  <2> QED BY <2>1
<1>3. ASSUME NEW n \in 1 .. N
      PROVE  s[n] \in S /\ Cardinality(Below(R, S, s[n])) = n - 1
  BY <1>1, EveryRankIsTaken DEF Ranks
<1>4. s \in Seq(S) /\ Len(s) = N
  <2> HIDE DEF s, N
  <2>1. s \in [1 .. N -> S]
    BY <1>2, <1>3
  <2> QED BY <1>1, <2>1
<1>5. ASSUME NEW i \in S PROVE Shows(s, i)
  <2> DEFINE n == Cardinality(Below(R, S, i)) + 1
  <2>1. n \in 1 .. N /\ s[n] = i
    <3> HIDE DEF s
    <3> QED BY <1>1, RankedTakesAll
  <2>2. n \in DOMAIN s
    BY <1>2, <2>1
  <2> QED BY <2>1, <2>2 DEF Shows
<1>6. ASSUME NEW m \in 1 .. N, NEW n \in 1 .. N, m < n
      PROVE  s[m] # s[n] /\ ~Ahead(docs, walk, order, s[n], s[m])
  <2> DEFINE x == s[m]
             y == s[n]
  <2>1. x \in S /\ y \in S /\ Cardinality(Below(R, S, x)) = m - 1 /\ Cardinality(Below(R, S, y)) = n - 1
    BY <1>3
  <2> HIDE DEF x, y
  <2>2. <<y, x>> \notin R
    <3> SUFFICES ASSUME <<y, x>> \in R PROVE FALSE
      OBVIOUS
    <3>1. Cardinality(Below(R, S, y)) < Cardinality(Below(R, S, x))
      BY <1>1, <2>1, RankGrows
    <3> QED BY <1>1, <1>6, <2>1, <3>1
  <2>3. x # y
    BY <1>1, <1>6, <2>1
  <2>4. ~ComesIn(docs, walk, order, y, x) /\ x \in DOMAIN docs /\ y \in DOMAIN docs
    BY <2>1, <2>2, OrderIs
  <2>5. ~Ahead(docs, walk, order, y, x)
    <3> SUFFICES ASSUME Ahead(docs, walk, order, y, x) PROVE FALSE
      OBVIOUS
    <3>1. FieldIn(docs, walk, y) # FieldIn(docs, walk, x)
      BY <2>4, AheadOrders
    <3> QED BY <2>4, <3>1 DEF ComesIn
  <2> QED BY <2>3, <2>5 DEF x, y
<1> QED BY <1>1, <1>4, <1>5, <1>6

-----------------------------------------------------------------------------
(* A page.                                                                 *)

LEMMA TakeIs ==
  ASSUME NEW T, NEW s \in Seq(T), NEW k \in Nat
  PROVE  /\ Take(s, k) \in Seq(T)
         /\ Len(Take(s, k)) = IF k < Len(s) THEN k ELSE Len(s)
         /\ \A n \in 1 .. Len(Take(s, k)) : Take(s, k)[n] = s[n]
<1> DEFINE m == IF k < Len(s) THEN k ELSE Len(s)
<1>1. m \in Nat /\ m <= Len(s) /\ Take(s, k) = SubSeq(s, 1, m)
  BY DEF Take
<1>2. \A n \in 1 .. m : s[n] \in T
  BY <1>1
<1> HIDE DEF m
<1>3. SubSeq(s, 1, m) \in Seq(T) /\ Len(SubSeq(s, 1, m)) = m
  BY <1>1, <1>2
<1>4. \A n \in 1 .. m : SubSeq(s, 1, m)[n] = s[n]
  BY <1>1, <1>2
<1> QED BY <1>1, <1>3, <1>4 DEF m

LEMMA ReverseIs ==
  ASSUME NEW T, NEW s \in Seq(T)
  PROVE  /\ Reverse(s) \in Seq(T) /\ Len(Reverse(s)) = Len(s)
         /\ \A n \in 1 .. Len(s) : Len(s) - n + 1 \in 1 .. Len(s) /\ Reverse(s)[n] = s[Len(s) - n + 1]
<1>1. \A n \in 1 .. Len(s) : Len(s) - n + 1 \in 1 .. Len(s)
  OBVIOUS
<1>2. Reverse(s) = [n \in 1 .. Len(s) |-> s[Len(s) - n + 1]]
  BY DEF Reverse
<1>3. Reverse(s) \in [1 .. Len(s) -> T]
  BY <1>1, <1>2
<1>4. Reverse(s) \in Seq(T) /\ Len(Reverse(s)) = Len(s)
  BY <1>3
<1> QED BY <1>1, <1>2, <1>4

FirstOf(ids, order) == Take(Take(Sorted(ids, order), walk.size + 1), walk.size)
More(ids, order) == Len(Take(Sorted(ids, order), walk.size + 1)) > walk.size

LEMMA FirstOfIs ==
  ASSUME Collection(docs), walk \in Walk, NEW order \in {"asc", "desc"}, NEW S \in SUBSET DOMAIN docs
  PROVE  LET p == FirstOf(S, order)
         IN  /\ p \in Seq(S)
             /\ \A m, n \in DOMAIN p : m < n => p[m] # p[n] /\ ~Ahead(docs, walk, order, p[n], p[m])
             /\ ~More(S, order) => \A i \in S : Shows(p, i)
             /\ More(S, order) =>
                  /\ p # << >> /\ p[Len(p)] \in S
                  /\ \A i \in S : \/ Shows(p, i)
                                  \/ i # p[Len(p)] /\ ~Ahead(docs, walk, order, i, p[Len(p)])
<1> DEFINE s == Sorted(S, order)
           N == Cardinality(S)
           k == walk.size
           raw == Take(s, k + 1)
           p == FirstOf(S, order)
<1>1. k \in Nat \ {0}
  BY DEF Walk
<1>2. N \in Nat /\ Len(s) = N /\ s \in Seq(S) /\ \A i \in S : Shows(s, i)
  BY SortedIs
<1>3. ASSUME NEW m \in 1 .. N, NEW n \in 1 .. N, m < n
      PROVE  s[m] # s[n] /\ ~Ahead(docs, walk, order, s[n], s[m])
  BY <1>3, SortedIs
<1>4. p = Take(raw, k) /\ (More(S, order) <=> Len(raw) > k)
  BY DEF FirstOf, More
<1> HIDE DEF s, N, k
<1>5. /\ raw \in Seq(S) /\ Len(raw) = IF k + 1 < N THEN k + 1 ELSE N
      /\ \A n \in 1 .. Len(raw) : raw[n] = s[n]
  BY <1>1, <1>2, TakeIs
<1> HIDE DEF raw, p
<1>6. /\ p \in Seq(S) /\ Len(p) = IF k < Len(raw) THEN k ELSE Len(raw)
      /\ \A n \in 1 .. Len(p) : p[n] = raw[n]
  BY <1>1, <1>4, <1>5, TakeIs
<1>7. /\ Len(p) = IF k < N THEN k ELSE N
      /\ More(S, order) <=> k < N
  BY <1>1, <1>2, <1>4, <1>5, <1>6
<1>8. \A n \in 1 .. Len(p) : p[n] = s[n] /\ n \in 1 .. N
  BY <1>1, <1>2, <1>5, <1>6, <1>7
<1>9. DOMAIN p = 1 .. Len(p) /\ DOMAIN s = 1 .. N
  BY <1>2, <1>6
<1>10. ASSUME NEW m \in DOMAIN p, NEW n \in DOMAIN p, m < n
       PROVE  p[m] # p[n] /\ ~Ahead(docs, walk, order, p[n], p[m])
  BY <1>3, <1>8, <1>9, <1>10
<1>11. ASSUME ~More(S, order), NEW i \in S PROVE Shows(p, i)
  <2>1. PICK n \in DOMAIN s : s[n] = i
    BY <1>2 DEF Shows
  <2>2. n \in 1 .. Len(p)
    BY <1>1, <1>2, <1>7, <1>9, <1>11, <2>1
  <2> QED BY <1>8, <1>9, <2>1, <2>2 DEF Shows
<1>12. ASSUME More(S, order) PROVE p # << >> /\ Len(p) = k /\ p[k] = s[k] /\ k \in 1 .. N /\ s[k] \in S
  <2>1. Len(p) = k /\ k \in 1 .. N /\ k \in 1 .. Len(p)
    BY <1>1, <1>2, <1>7, <1>12
  <2>2. p[k] = s[k] /\ s[k] \in S
    BY <1>2, <1>8, <2>1
  <2>3. p # << >>
    BY <1>1, <2>1
  <2> QED BY <2>1, <2>2, <2>3
<1>13. ASSUME More(S, order), NEW i \in S, ~Shows(p, i)
       PROVE  i # p[Len(p)] /\ ~Ahead(docs, walk, order, i, p[Len(p)])
  <2>1. PICK n \in DOMAIN s : s[n] = i
    BY <1>2 DEF Shows
  <2>2. n \notin 1 .. Len(p)
    BY <1>8, <1>9, <1>13, <2>1 DEF Shows
  <2>3. n \in 1 .. N /\ k < n
    BY <1>1, <1>2, <1>9, <1>12, <1>13, <2>1, <2>2
  <2>4. s[k] # s[n] /\ ~Ahead(docs, walk, order, s[n], s[k])
    BY <1>3, <1>12, <1>13, <2>3
  <2> QED BY <1>12, <1>13, <2>1, <2>4
<1>14. p \in Seq(S) /\ (More(S, order) => p # << >> /\ p[Len(p)] \in S)
  BY <1>6, <1>12
<1> QED BY <1>10, <1>11, <1>13, <1>14 DEF p

LEMMA ActiveIs ==
  ASSUME Collection(docs)
  PROVE  Active = ActiveIn(docs, walk) /\ Active \subseteq DOMAIN docs
<1>1. \A i \in DOMAIN docs : docs[i].version \in Nat
  BY DEF Collection, Doc
<1>2. \A i, j \in DOMAIN docs : docs[j].version > docs[i].version <=> ~(docs[j].version <= docs[i].version)
  BY <1>1
<1> QED BY <1>2 DEF Active, ActiveIn, LatestAmong, Finds

Way == IF leg = "back" THEN Opposite[walk.order] ELSE walk.order
Wanted == {i \in Active : cursor = None \/ IsAfter(i, Way, cursor)}

(* The last one of a page on its way.                                      *)
End(items) == IF leg = "back" THEN Head(items) ELSE Last(items)

LEMMA CursorPageIs ==
  ASSUME Collection(docs), walk \in Walk, leg \in {"forth", "back"}
  PROVE  LET items == CursorPage.items
         IN  /\ Way \in {"asc", "desc"}
             /\ items \in Seq(Wanted) /\ InOrder(docs, walk, items)
             /\ ~CursorPage.more => \A i \in Wanted : Shows(items, i)
             /\ CursorPage.more =>
                  /\ items # << >> /\ End(items) \in Wanted
                  /\ \A i \in Wanted :
                       Shows(items, i) \/ (i # End(items) /\ ~Ahead(docs, walk, Way, i, End(items)))
             /\ leg = "back" =>
                  \A n \in DOMAIN items : ~Ahead(docs, walk, walk.order, items[n], Head(items))
             /\ leg = "forth" =>
                  \A n \in DOMAIN items : ~Ahead(docs, walk, walk.order, Last(items), items[n])
<1> DEFINE p == FirstOf(Wanted, Way)
           items == CursorPage.items
<1>1. Wanted \subseteq DOMAIN docs /\ Wanted \in SUBSET DOMAIN docs
  BY ActiveIs DEF Wanted
<1>2. Way \in {"asc", "desc"}
  BY OppositeIs DEF Way
<1>3. /\ items = IF leg = "back" THEN Reverse(p) ELSE p
      /\ CursorPage.more <=> More(Wanted, Way)
  <2> DEFINE sorted == Sorted({i \in Active : cursor = None \/ IsAfter(i, Way, cursor)}, Way)
  <2>1. CursorPage = [items |-> IF leg = "back" THEN Reverse(Take(Take(sorted, walk.size + 1), walk.size))
                                ELSE Take(Take(sorted, walk.size + 1), walk.size),
                      more  |-> Len(Take(sorted, walk.size + 1)) > walk.size]
    BY Zenon DEF CursorPage, Way
  <2>2. sorted = Sorted(Wanted, Way)
    BY DEF Wanted
  <2> HIDE DEF sorted
  <2>3. /\ CursorPage.items = IF leg = "back" THEN Reverse(Take(Take(sorted, walk.size + 1), walk.size))
                              ELSE Take(Take(sorted, walk.size + 1), walk.size)
        /\ CursorPage.more = (Len(Take(sorted, walk.size + 1)) > walk.size)
    BY <2>1
  <2> QED BY <2>2, <2>3, Zenon DEF FirstOf, More
<1>4. p \in Seq(Wanted)
  BY <1>1, <1>2, FirstOfIs
<1>5. ASSUME NEW m \in DOMAIN p, NEW n \in DOMAIN p, m < n
      PROVE  p[m] # p[n] /\ ~Ahead(docs, walk, Way, p[n], p[m])
  BY <1>1, <1>2, <1>5, FirstOfIs
<1>6. ~More(Wanted, Way) => \A i \in Wanted : Shows(p, i)
  BY <1>1, <1>2, FirstOfIs
<1>7. More(Wanted, Way) =>
        /\ p # << >> /\ p[Len(p)] \in Wanted
        /\ \A i \in Wanted : \/ Shows(p, i)
                             \/ i # p[Len(p)] /\ ~Ahead(docs, walk, Way, i, p[Len(p)])
  BY <1>1, <1>2, FirstOfIs
<1> HIDE DEF p, items
<1>8. \A n \in DOMAIN p : ~Ahead(docs, walk, Way, p[Len(p)], p[n]) /\ p[n] \in DOMAIN docs
  <2> SUFFICES ASSUME NEW n \in DOMAIN p
               PROVE  ~Ahead(docs, walk, Way, p[Len(p)], p[n]) /\ p[n] \in DOMAIN docs
    OBVIOUS
  <2>1. Len(p) \in DOMAIN p /\ n <= Len(p) /\ p[n] \in DOMAIN docs
    BY <1>1, <1>4
  <2>2. CASE n < Len(p)
    BY <1>5, <2>1, <2>2
  <2>3. CASE n = Len(p)
    BY <1>2, <2>1, <2>3, AheadOrders
  <2> QED BY <1>4, <2>1, <2>2, <2>3
<1>9. CASE leg = "forth"
  <2>1. items = p /\ Way = walk.order /\ End(items) = p[Len(p)] /\ Last(items) = p[Len(p)]
    BY <1>3, <1>9 DEF Way, End, Last
  <2>2. InOrder(docs, walk, items)
    BY <1>5, <2>1 DEF InOrder
  <2> QED BY <1>2, <1>3, <1>4, <1>6, <1>7, <1>8, <1>9, <2>1, <2>2 DEF items
<1>10. CASE leg = "back"
  <2>1. items = Reverse(p) /\ Way = Opposite[walk.order]
    BY <1>3, <1>10 DEF Way
  <2>2. /\ items \in Seq(Wanted) /\ Len(items) = Len(p)
        /\ \A n \in 1 .. Len(p) : Len(p) - n + 1 \in 1 .. Len(p) /\ items[n] = p[Len(p) - n + 1]
    BY <1>4, <2>1, ReverseIs
  <2>3. DOMAIN p = 1 .. Len(p) /\ DOMAIN items = 1 .. Len(p) /\ Len(p) \in Nat
    BY <1>4, <2>2
  <2>4. \A i : Shows(p, i) <=> Shows(items, i)
    <3>1. ASSUME NEW n \in 1 .. Len(p)
          PROVE  items[Len(p) - n + 1] = p[n] /\ Len(p) - n + 1 \in 1 .. Len(p)
      <4> DEFINE k == Len(p) - n + 1
      <4>1. k \in 1 .. Len(p) /\ Len(p) - k + 1 = n
        BY <2>3
      <4> HIDE DEF k
      <4>2. items[k] = p[Len(p) - k + 1]
        BY <2>2, <4>1, Zenon
      <4> QED BY <4>1, <4>2 DEF k
    <3>2. ASSUME NEW i, NEW n \in 1 .. Len(p), p[n] = i PROVE \E k \in 1 .. Len(p) : items[k] = i
      BY <3>1, <3>2, Zenon
    <3>3. ASSUME NEW i, NEW n \in 1 .. Len(p), items[n] = i PROVE \E k \in 1 .. Len(p) : p[k] = i
      BY <2>2, <3>3, Zenon
    <3> QED BY <2>3, <3>2, <3>3, Zenon DEF Shows
  <2>5. InOrder(docs, walk, items)
    <3> SUFFICES ASSUME NEW m \in DOMAIN items, NEW n \in DOMAIN items, m < n
                 PROVE  items[m] # items[n] /\ ~Ahead(docs, walk, walk.order, items[n], items[m])
      BY DEF InOrder
    <3>1. /\ Len(p) - m + 1 \in DOMAIN p /\ Len(p) - n + 1 \in DOMAIN p
          /\ Len(p) - n + 1 < Len(p) - m + 1
      <4>1. m \in 1 .. Len(p) /\ n \in 1 .. Len(p)
        BY <2>3
      <4>2. Len(p) - n + 1 < Len(p) - m + 1
        BY <2>3, <4>1
      <4> QED BY <2>2, <2>3, <4>1, <4>2
    <3>2. /\ p[Len(p) - n + 1] # p[Len(p) - m + 1]
          /\ ~Ahead(docs, walk, Way, p[Len(p) - m + 1], p[Len(p) - n + 1])
      BY <1>5, <3>1
    <3>3. items[m] = p[Len(p) - m + 1] /\ items[n] = p[Len(p) - n + 1]
      BY <2>2, <2>3
    <3> QED BY <2>1, <3>2, <3>3, OppositeIs
  <2>6. ASSUME p # << >>
        PROVE  End(items) = p[Len(p)] /\ Head(items) = p[Len(p)]
    <3>1. 1 \in 1 .. Len(p) /\ Len(p) - 1 + 1 = Len(p)
      BY <1>4, <2>3, <2>6
    <3>2. items[1] = p[Len(p)]
      BY <2>2, <3>1
    <3>3. items # << >> /\ Head(items) = items[1]
      BY <2>2, <3>1
    <3> QED BY <1>10, <3>2, <3>3 DEF End
  <2>7. ASSUME NEW n \in DOMAIN items PROVE ~Ahead(docs, walk, walk.order, items[n], Head(items))
    <3>1. Len(p) - n + 1 \in DOMAIN p /\ items[n] = p[Len(p) - n + 1] /\ p # << >>
      BY <2>2, <2>3
    <3>2. ~Ahead(docs, walk, Way, p[Len(p)], items[n])
      BY <1>8, <3>1
    <3> QED BY <2>1, <2>6, <3>1, <3>2, OppositeIs
  <2>8. ASSUME More(Wanted, Way)
        PROVE  /\ items # << >> /\ End(items) \in Wanted
               /\ \A i \in Wanted :
                    Shows(items, i) \/ (i # End(items) /\ ~Ahead(docs, walk, Way, i, End(items)))
    <3>1. p # << >> /\ items # << >>
      BY <1>4, <1>7, <2>2, <2>8
    <3> QED BY <1>7, <2>4, <2>6, <2>8, <3>1
  <2>9. ~More(Wanted, Way) => \A i \in Wanted : Shows(items, i)
    BY <1>6, <2>4
  <2>10. leg # "forth"
    BY <1>10
  <2> QED BY <1>2, <1>3, <2>2, <2>5, <2>7, <2>8, <2>9, <2>10 DEF items
<1> QED BY <1>9, <1>10

-----------------------------------------------------------------------------
(* The latest version.                                                     *)

LEMMA GreatestExists ==
  ASSUME NEW S, IsFiniteSet(S), S # {}, NEW v, \A i \in S : v[i] \in Nat
  PROVE  \E i \in S : \A j \in S : v[j] <= v[i]
<1> DEFINE Above(i) == {j \in S : v[j] > v[i]}
           T == {Above(i) : i \in S}
<1>1. IsWellFoundedOn(StrictSubsetOrdering(S), FiniteSubsetsOf(S))
  BY FS_StrictSubsetOrderingWellFounded
<1>2. T \subseteq FiniteSubsetsOf(S) /\ T # {}
  <2>1. ASSUME NEW i \in S PROVE Above(i) \in SUBSET S /\ IsFiniteSet(Above(i))
    BY FS_Subset
  <2> HIDE DEF Above
  <2> QED BY <2>1 DEF FiniteSubsetsOf
<1>3. PICK U \in T : \A V \in T : ~(<<V, U>> \in StrictSubsetOrdering(S))
  <2> HIDE DEF T
  <2> QED BY <1>1, <1>2, WFMin
<1>4. PICK i \in S : U = Above(i)
  BY <1>3
<1>5. ASSUME NEW j \in S PROVE v[j] <= v[i]
  <2> SUFFICES ASSUME v[j] > v[i] PROVE FALSE
    OBVIOUS
  <2>1. j \in Above(i) /\ j \notin Above(j)
    OBVIOUS
  <2>2. Above(j) \subseteq Above(i)
    OBVIOUS
  <2>3. Above(j) \in T /\ Above(j) \in SUBSET S /\ Above(i) \in SUBSET S
    OBVIOUS
  <2> HIDE DEF Above, T
  <2>4. <<Above(j), Above(i)>> \in StrictSubsetOrdering(S)
    BY <2>1, <2>2, <2>3 DEF StrictSubsetOrdering
  <2> QED BY <1>3, <1>4, <2>3, <2>4
<1> QED BY <1>5

LEMMA LatestIs ==
  ASSUME Collection(docs), NEW e, \E i \in DOMAIN docs : docs[i].entity = e
  PROVE  /\ Latest(e) \in DOMAIN docs /\ docs[Latest(e)] \in Doc /\ docs[Latest(e)].entity = e
         /\ \A j \in DOMAIN docs : docs[j].entity = e => docs[j].version <= docs[Latest(e)].version
<1> DEFINE S == {i \in DOMAIN docs : docs[i].entity = e}
           v == [i \in DOMAIN docs |-> docs[i].version]
<1>1. \A i \in DOMAIN docs : docs[i].version \in Nat
  BY DEF Collection, Doc
<1>2. S # {} /\ IsFiniteSet(S) /\ \A i \in S : v[i] \in Nat
  <2>1. S \in SUBSET DOMAIN docs /\ S # {}
    OBVIOUS
  <2> QED BY <1>1, <2>1, FS_Subset DEF Collection
<1>3. PICK i \in S : \A j \in S : v[j] <= v[i]
  <2> HIDE DEF S, v
  <2> QED BY <1>2, GreatestExists
<1>4. i \in LatestAmong(DOMAIN docs) /\ docs[i].entity = e
  <2> SUFFICES ASSUME NEW j \in DOMAIN docs, docs[j].entity = docs[i].entity, docs[j].version > docs[i].version
               PROVE  FALSE
    BY <1>3 DEF LatestAmong
  <2> QED BY <1>1, <1>3
<1>5. Latest(e) \in LatestAmong(DOMAIN docs) /\ docs[Latest(e)].entity = e
  BY <1>4 DEF Latest
<1>6. /\ Latest(e) \in DOMAIN docs
      /\ \A j \in DOMAIN docs : docs[j].entity = e => ~(docs[j].version > docs[Latest(e)].version)
  BY <1>5 DEF LatestAmong
<1> QED BY <1>1, <1>5, <1>6 DEF Collection

-----------------------------------------------------------------------------
(* What somebody writes changes nothing about what was there.              *)

(* g has what d has, and else documents of e.                              *)
Extends(d, g, e) ==
  /\ DOMAIN d \subseteq DOMAIN g /\ \A i \in DOMAIN d : g[i] = d[i]
  /\ \A i \in DOMAIN g : i \notin DOMAIN d => g[i].entity = e

LEMMA ExtendsKeeps ==
  ASSUME NEW d, NEW g, NEW e, Extends(d, g, e), NEW w
  PROVE  /\ \A i \in DOMAIN d : FieldIn(g, w, i) = FieldIn(d, w, i) /\ CursorIn(g, w, i) = CursorIn(d, w, i)
         /\ \A i \in DOMAIN d : Finds(g, w, i) <=> Finds(d, w, i)
         /\ \A i \in DOMAIN d : \A order, c : AfterIn(g, w, i, order, c) <=> AfterIn(d, w, i, order, c)
         /\ \A i, j \in DOMAIN d : \A order : Ahead(g, w, order, i, j) <=> Ahead(d, w, order, i, j)
         /\ ComparableIn(g, w) => ComparableIn(d, w)
         /\ StraightOn(g, w) => StraightOn(d, w)
<1>1. \A i \in DOMAIN d : i \in DOMAIN g /\ g[i] = d[i]
  BY DEF Extends
<1>2. \A i \in DOMAIN d : FieldIn(g, w, i) = FieldIn(d, w, i)
  BY <1>1 DEF FieldIn
<1>3. \A i \in DOMAIN d : CursorIn(g, w, i) = CursorIn(d, w, i)
  BY <1>2 DEF CursorIn
<1>4. \A i \in DOMAIN d : Finds(g, w, i) <=> Finds(d, w, i)
  BY <1>1, Zenon DEF Finds
<1>5. \A i \in DOMAIN d : \A order, c : AfterIn(g, w, i, order, c) <=> AfterIn(d, w, i, order, c)
  BY <1>2, Zenon DEF AfterIn
<1>6. \A i, j \in DOMAIN d : \A order : Ahead(g, w, order, i, j) <=> Ahead(d, w, order, i, j)
  BY <1>2, Zenon DEF Ahead
<1>7. ComparableIn(g, w) => ComparableIn(d, w)
  BY <1>1 DEF ComparableIn
<1>8. StraightOn(g, w) => StraightOn(d, w)
  BY <1>1 DEF StraightOn
<1> QED BY <1>2, <1>3, <1>4, <1>5, <1>6, <1>7, <1>8

LEMMA ExtendsActive ==
  ASSUME NEW d, NEW g, NEW e, Extends(d, g, e), NEW w
  PROVE  /\ \A i \in DOMAIN d : d[i].entity # e => (i \in ActiveIn(g, w) <=> i \in ActiveIn(d, w))
         /\ \A t : Settled(g, w, t \cup {e}) \subseteq Settled(d, w, t)
<1>1. \A i \in DOMAIN d : i \in DOMAIN g /\ g[i] = d[i]
  BY DEF Extends
<1>2. \A i \in DOMAIN g : i \notin DOMAIN d => g[i].entity = e
  BY DEF Extends
<1>3. \A i \in DOMAIN d : Finds(g, w, i) <=> Finds(d, w, i)
  BY ExtendsKeeps
<1>4. ASSUME NEW i \in DOMAIN d, d[i].entity # e
      PROVE  i \in ActiveIn(g, w) <=> i \in ActiveIn(d, w)
  <2>1. ASSUME NEW j \in DOMAIN g, g[j].entity = d[i].entity PROVE j \in DOMAIN d
    BY <1>2, <1>4, <2>1
  <2> QED BY <1>1, <1>3, <2>1 DEF ActiveIn
<1>5. ASSUME NEW t, NEW i \in Settled(g, w, t \cup {e}) PROVE i \in Settled(d, w, t)
  <2>1. /\ i \in ActiveIn(g, w) /\ g[i].entity \notin t /\ g[i].entity # e
        /\ AloneIn(g, g[i].entity)
    BY DEF Settled
  <2>2. i \in DOMAIN g
    BY <2>1 DEF ActiveIn
  <2>3. i \in DOMAIN d /\ g[i] = d[i]
    BY <1>1, <1>2, <2>1, <2>2
  <2>4. AloneIn(d, d[i].entity)
    BY <1>1, <2>1, <2>3 DEF AloneIn
  <2> QED BY <1>4, <2>1, <2>3, <2>4 DEF Settled
<1> QED BY <1>4, <1>5

LEMMA ExtendsInOrder ==
  ASSUME NEW d, NEW g, NEW e, Extends(d, g, e), NEW w, NEW s \in Seq(DOMAIN d), InOrder(d, w, s)
  PROVE  InOrder(g, w, s)
<1>1. \A m, n \in DOMAIN s :
        Ahead(g, w, w.order, s[n], s[m]) <=> Ahead(d, w, w.order, s[n], s[m])
  <2>1. \A n \in DOMAIN s : s[n] \in DOMAIN d
    OBVIOUS
  <2> QED BY <2>1, ExtendsKeeps
<1> QED BY <1>1 DEF InOrder

LEMMA ExtendsInv ==
  ASSUME ListInv, NEW e, Extends(docs, docs', e), Collection(docs'),
         touched' = touched \cup {e}, UNCHANGED client
  PROVE  ListInv'
<1>1. /\ phase' = phase /\ walk' = walk /\ leg' = leg /\ cursor' = cursor /\ shown' = shown
  BY DEF client
<1>2. /\ BasicInv /\ ShownInv /\ CursorInv /\ OrderInv /\ CoverInv /\ OffsetInv
  BY DEF ListInv
<1>3. \A i \in DOMAIN docs : i \in DOMAIN docs' /\ docs'[i] = docs[i]
  BY DEF Extends
<1>4. shown.forth \in Seq(DOMAIN docs) /\ shown.back \in Seq(DOMAIN docs)
  BY <1>2 DEF BasicInv
<1>5. \A l \in {"forth", "back"} : \A n \in DOMAIN shown[l] : shown[l][n] \in DOMAIN docs
  BY <1>4
<1>6. BasicInv'
  <2>1. DOMAIN docs \subseteq DOMAIN docs'
    BY <1>3
  <2>2. shown.forth \in Seq(DOMAIN docs') /\ shown.back \in Seq(DOMAIN docs')
    BY <1>4, <2>1, SeqMonotonic
  <2>3. shown \in [forth : Seq(DOMAIN docs), back : Seq(DOMAIN docs)]
    BY <1>2 DEF BasicInv
  <2>4. shown' \in [forth : Seq(DOMAIN docs'), back : Seq(DOMAIN docs')]
    BY <1>1, <2>2, <2>3
  <2> QED BY <1>1, <1>2, <2>4, Zenon DEF BasicInv
<1>7. ShownInv'
  <2> SUFFICES ASSUME phase # "idle", NEW l \in {"forth", "back"}, NEW n \in DOMAIN shown[l]
               PROVE  /\ Finds(docs', walk, shown[l][n]) /\ docs'[shown[l][n]].deleted_at = Null
                      /\ docs'[shown[l][n]].entity \notin touched \cup {e}
                           => shown[l][n] \in ActiveIn(docs', walk)
    BY <1>1 DEF ShownInv
  <2> DEFINE i == shown[l][n]
  <2>1. i \in DOMAIN docs /\ docs'[i] = docs[i]
    BY <1>3, <1>5
  <2>2. /\ Finds(docs, walk, i) /\ docs[i].deleted_at = Null
        /\ docs[i].entity \notin touched => i \in ActiveIn(docs, walk)
    BY <1>2 DEF ShownInv
  <2> HIDE DEF i
  <2>3. Finds(docs', walk, i)
    BY <2>1, <2>2, ExtendsKeeps
  <2>4. ASSUME docs[i].entity \notin touched \cup {e} PROVE i \in ActiveIn(docs', walk)
    <3>1. i \in ActiveIn(docs, walk) /\ docs[i].entity # e
      BY <2>2, <2>4
    <3> QED BY <2>1, <3>1, ExtendsActive
  <2> QED BY <2>1, <2>2, <2>3, <2>4 DEF i
<1>8. CursorInv'
  <2> SUFFICES ASSUME phase # "idle", walk.mode = "cursor"
               PROVE  /\ cursor # None => cursor.id \in DOMAIN docs' /\ cursor = CursorIn(docs', walk, cursor.id)
                      /\ cursor = None /\ phase = "asks" => leg = "forth" /\ shown.forth = << >>
                      /\ leg = "back" => cursor # None /\ IsString(FieldIn(docs', walk, cursor.id))
    BY <1>1 DEF CursorInv
  <2>1. /\ cursor # None => cursor.id \in DOMAIN docs /\ cursor = CursorIn(docs, walk, cursor.id)
        /\ cursor = None /\ phase = "asks" => leg = "forth" /\ shown.forth = << >>
        /\ leg = "back" => cursor # None /\ IsString(FieldIn(docs, walk, cursor.id))
    BY <1>2 DEF CursorInv
  <2>2. ASSUME cursor.id \in DOMAIN docs
        PROVE  /\ CursorIn(docs', walk, cursor.id) = CursorIn(docs, walk, cursor.id)
               /\ FieldIn(docs', walk, cursor.id) = FieldIn(docs, walk, cursor.id)
    BY <2>2, ExtendsKeeps
  <2> QED BY <1>3, <2>1, <2>2
<1>9. OrderInv'
  <2> SUFFICES ASSUME phase # "idle", walk.mode = "cursor", StraightOn(docs', walk)
               PROVE  /\ InOrder(docs', walk, shown.forth) /\ InOrder(docs', walk, shown.back)
                      /\ phase = "asks" /\ leg = "forth" /\ cursor # None =>
                           \A n \in DOMAIN shown.forth :
                             ~Ahead(docs', walk, walk.order, cursor.id, shown.forth[n])
                      /\ phase = "asks" /\ leg = "back" =>
                           \A n \in DOMAIN shown.back :
                             ~Ahead(docs', walk, walk.order, shown.back[n], cursor.id)
    BY <1>1 DEF OrderInv
  <2>1. StraightOn(docs, walk)
    BY ExtendsKeeps
  <2>2. /\ InOrder(docs, walk, shown.forth) /\ InOrder(docs, walk, shown.back)
        /\ phase = "asks" /\ leg = "forth" /\ cursor # None =>
             \A n \in DOMAIN shown.forth : ~Ahead(docs, walk, walk.order, cursor.id, shown.forth[n])
        /\ phase = "asks" /\ leg = "back" =>
             \A n \in DOMAIN shown.back : ~Ahead(docs, walk, walk.order, shown.back[n], cursor.id)
    BY <1>2, <2>1 DEF OrderInv
  <2>3. /\ cursor # None => cursor.id \in DOMAIN docs
        /\ leg = "back" => cursor # None
    BY <1>2 DEF CursorInv
  <2>4. /\ \A n \in DOMAIN shown.forth : shown.forth[n] \in DOMAIN docs
        /\ \A n \in DOMAIN shown.back : shown.back[n] \in DOMAIN docs
    BY <1>5
  <2>5. InOrder(docs', walk, shown.forth) /\ InOrder(docs', walk, shown.back)
    BY <1>4, <2>2, ExtendsInOrder
  <2>6. \A i, j \in DOMAIN docs :
          Ahead(docs', walk, walk.order, i, j) <=> Ahead(docs, walk, walk.order, i, j)
    BY ExtendsKeeps
  <2> QED BY <2>2, <2>3, <2>4, <2>5, <2>6
<1>10. CoverInv'
  <2> DEFINE Covered(i, d) ==
        /\ phase = "asks" /\ leg = "forth" /\ cursor # None =>
             AfterIn(d, walk, i, walk.order, cursor) \/ Shows(shown.forth, i)
        /\ phase = "done" \/ leg = "back" => Shows(shown.forth, i)
        /\ phase = "asks" /\ leg = "back" =>
             AfterIn(d, walk, i, Opposite[walk.order], cursor) \/ Shows(shown.back, i)
        /\ phase = "done" /\ leg = "back" => Shows(shown.back, i)
  <2> SUFFICES ASSUME phase # "idle", walk.mode = "cursor", ComparableIn(docs', walk),
                      NEW i \in Settled(docs', walk, touched \cup {e})
               PROVE  Covered(i, docs')
    BY <1>1 DEF CoverInv
  <2>1. ComparableIn(docs, walk)
    BY ExtendsKeeps
  <2>2. i \in Settled(docs, walk, touched)
    BY ExtendsActive
  <2>3. Covered(i, docs)
    BY <1>2, <2>1, <2>2 DEF CoverInv
  <2>4. i \in DOMAIN docs
    BY <2>2 DEF Settled, ActiveIn
  <2>5. \A order : AfterIn(docs', walk, i, order, cursor) <=> AfterIn(docs, walk, i, order, cursor)
    BY <2>4, ExtendsKeeps
  <2> QED BY <2>3, <2>5
<1>11. OffsetInv'
  BY DEF OffsetInv
<1> QED BY <1>6, <1>7, <1>8, <1>9, <1>10, <1>11 DEF ListInv

LEMMA WritesInv ==
  ASSUME ListInv, NEW e \in Entities, NEW doc \in Doc, Writes(e, doc), doc.entity = e,
         \A j \in DOMAIN docs : docs[j].entity = e => docs[j].version # doc.version
  PROVE  ListInv'
<1>1. PICK id \in FreshIds : Stored(id, doc)
  BY DEF Writes
<1>2. id \in Nat \ {0} /\ id \notin DOMAIN docs
  BY IdsAssumption DEF FreshIds
<1>3. /\ DOMAIN docs' = DOMAIN docs \cup {id} /\ docs'[id] = doc
      /\ \A i \in DOMAIN docs : docs'[i] = docs[i]
  BY <1>1, <1>2 DEF Stored
<1>4. Extends(docs, docs', e)
  BY <1>3 DEF Extends
<1>5. Collection(docs)
  BY DEF ListInv, BasicInv
<1>6. Collection(docs')
  <2>1. IsFiniteSet(DOMAIN docs') /\ DOMAIN docs' \subseteq Nat \ {0}
    BY <1>2, <1>3, <1>5, FS_AddElement DEF Collection
  <2>2. \A i \in DOMAIN docs' : docs'[i] \in Doc
    BY <1>3, <1>5 DEF Collection
  <2>3. ASSUME NEW i \in DOMAIN docs', NEW j \in DOMAIN docs',
               docs'[i].entity = docs'[j].entity, docs'[i].version = docs'[j].version
        PROVE  i = j
    <3>1. CASE i = id /\ j = id
      BY <3>1
    <3>2. CASE i = id /\ j \in DOMAIN docs
      BY <1>3, <2>3, <3>2
    <3>3. CASE i \in DOMAIN docs /\ j = id
      BY <1>3, <2>3, <3>3
    <3>4. CASE i \in DOMAIN docs /\ j \in DOMAIN docs
      BY <1>3, <1>5, <2>3, <3>4 DEF Collection
    <3> QED BY <1>3, <3>1, <3>2, <3>3, <3>4
  <2> QED BY <2>1, <2>2, <2>3 DEF Collection
<1> QED BY <1>4, <1>6, ExtendsInv DEF Writes

LEMMA DateIs ==
  ASSUME NEW n \in Nat
  PROVE  Date(n) \in Dates
BY DEF Date, Dates

LEMMA NowIs ==
  ASSUME ListInv
  PROVE  Now \in Dates
<1>1. Cardinality(DOMAIN docs) + 1 \in Nat
  BY FS_CardinalityType DEF ListInv, BasicInv, Collection
<1> QED BY <1>1, DateIs DEF Now

LEMMA CreateInv ==
  ASSUME ListInv, Create
  PROVE  ListInv'
<1>1. PICK e \in Entities, user \in Users :
        /\ ~\E i \in DOMAIN docs : docs[i].entity = e
        /\ Writes(e, Document(e, user, Now))
  BY DEF Create
<1>2. user \in Text \cup {Null} /\ Now \in Dates
  BY UsersAssumption, NowIs
<1>3. Document(e, user, Now) \in Doc /\ Document(e, user, Now).entity = e
  BY <1>2 DEF Document, Doc
<1> QED BY <1>1, <1>3, WritesInv

Changed(old, u) == [old EXCEPT !.version = @ + 1, !.updated_by = u]
Deleted(old, u, at) == [old EXCEPT !.version = @ + 1, !.updated_by = u, !.deleted_at = at]
Succeeds(doc, old) == doc \in Doc /\ doc.entity = old.entity /\ doc.version = old.version + 1

LEMMA NextVersions ==
  ASSUME NEW old \in Doc, NEW u \in Text \cup {Null}, NEW at \in Dates
  PROVE  Succeeds(Changed(old, u), old) /\ Succeeds(Deleted(old, u, at), old)
<1> DEFINE N == Text \cup {Null}
           C == Dates
           D == Dates \cup {Null}
<1>1. Doc = [entity : Entities, version : Nat, updated_by : N, created_at : C, deleted_at : D]
  BY DEF Doc
<1>2. u \in N /\ at \in D
  OBVIOUS
<1> HIDE DEF N, C, D
<1>3. ASSUME NEW o \in Doc, NEW k \in Nat
      PROVE  LET c == [o EXCEPT !.version = k] IN c \in Doc /\ c.entity = o.entity /\ c.version = k
  BY <1>1
<1>4. ASSUME NEW o \in Doc, NEW m \in N
      PROVE  LET c == [o EXCEPT !.updated_by = m] IN c \in Doc /\ c.entity = o.entity /\ c.version = o.version
  BY <1>1
<1>5. ASSUME NEW o \in Doc, NEW t \in D
      PROVE  LET c == [o EXCEPT !.deleted_at = t] IN c \in Doc /\ c.entity = o.entity /\ c.version = o.version
  BY <1>1
<1>6. \A k, m, t :
        /\ [old EXCEPT !.version = k, !.updated_by = m] = [[old EXCEPT !.version = k] EXCEPT !.updated_by = m]
        /\ [old EXCEPT !.version = k, !.updated_by = m, !.deleted_at = t]
             = [[[old EXCEPT !.version = k] EXCEPT !.updated_by = m] EXCEPT !.deleted_at = t]
  OBVIOUS
<1>7. old.version + 1 \in Nat
  BY <1>1
<1> DEFINE k == old.version + 1
           a == [old EXCEPT !.version = k]
           b == [a EXCEPT !.updated_by = u]
           c == [b EXCEPT !.deleted_at = at]
<1>8. Changed(old, u) = b
  BY <1>6 DEF Changed
<1>9. Deleted(old, u, at) = c
  BY <1>6 DEF Deleted
<1>10. a \in Doc /\ a.entity = old.entity /\ a.version = old.version + 1
  BY <1>3, <1>7
<1> HIDE DEF a
<1>11. b \in Doc /\ b.entity = old.entity /\ b.version = old.version + 1
  BY <1>2, <1>4, <1>10
<1> HIDE DEF b
<1>12. c \in Doc /\ c.entity = old.entity /\ c.version = old.version + 1
  BY <1>2, <1>5, <1>11
<1> HIDE DEF c
<1> QED BY <1>8, <1>9, <1>11, <1>12 DEF Succeeds

(* The latest version of an entity, and a successor of it.                 *)
LEMMA SuccessorInv ==
  ASSUME ListInv, NEW e \in Live, NEW doc, Writes(e, doc), Succeeds(doc, docs[Latest(e)])
  PROVE  ListInv'
<1>1. e \in Entities /\ docs[Latest(e)] \in Doc /\ docs[Latest(e)].entity = e
      /\ \A j \in DOMAIN docs : docs[j].entity = e => docs[j].version <= docs[Latest(e)].version
  BY LatestIs DEF ListInv, BasicInv, Live
<1>2. doc \in Doc /\ doc.entity = e /\ doc.version = docs[Latest(e)].version + 1
  BY <1>1 DEF Succeeds
<1>3. \A j \in DOMAIN docs : docs[j].version \in Nat
  BY DEF ListInv, BasicInv, Collection, Doc
<1>4. docs[Latest(e)].version \in Nat
  BY <1>1 DEF Doc
<1>5. \A j \in DOMAIN docs : docs[j].entity = e => docs[j].version # doc.version
  BY <1>1, <1>2, <1>3, <1>4
<1> QED BY <1>1, <1>2, <1>5, WritesInv

LEMMA UpdateInv ==
  ASSUME ListInv, Update
  PROVE  ListInv'
<1>1. PICK e \in Live, user \in Users : Writes(e, Changed(docs[Latest(e)], user))
  BY Zenon DEF Update, Changed
<1>2. docs[Latest(e)] \in Doc
  BY LatestIs DEF ListInv, BasicInv, Live
<1>3. user \in Text \cup {Null} /\ Now \in Dates
  BY UsersAssumption, NowIs
<1>4. Succeeds(Changed(docs[Latest(e)], user), docs[Latest(e)])
  BY <1>2, <1>3, NextVersions
<1> QED BY <1>1, <1>4, SuccessorInv

LEMMA DeleteInv ==
  ASSUME ListInv, Delete
  PROVE  ListInv'
<1>1. PICK e \in Live, user \in Users : Writes(e, Deleted(docs[Latest(e)], user, Now))
  BY Zenon DEF Delete, Deleted
<1>2. docs[Latest(e)] \in Doc
  BY LatestIs DEF ListInv, BasicInv, Live
<1>3. user \in Text \cup {Null} /\ Now \in Dates
  BY UsersAssumption, NowIs
<1>4. Succeeds(Deleted(docs[Latest(e)], user, Now), docs[Latest(e)])
  BY <1>2, <1>3, NextVersions
<1> QED BY <1>1, <1>4, SuccessorInv

-----------------------------------------------------------------------------
(* Steps of the client.                                                    *)

LEMMA ConcatIs ==
  ASSUME NEW T, NEW s \in Seq(T), NEW t \in Seq(T)
  PROVE  /\ s \o t \in Seq(T)
         /\ \A n \in DOMAIN (s \o t) :
              \/ n \in DOMAIN s /\ (s \o t)[n] = s[n]
              \/ n \notin DOMAIN s /\ n - Len(s) \in DOMAIN t /\ (s \o t)[n] = t[n - Len(s)]
         /\ \A i : Shows(s \o t, i) <=> Shows(s, i) \/ Shows(t, i)
<1>1. /\ s \o t \in Seq(T) /\ Len(s \o t) = Len(s) + Len(t)
      /\ \A n \in 1 .. Len(s) + Len(t) : (s \o t)[n] = IF n <= Len(s) THEN s[n] ELSE t[n - Len(s)]
  BY ConcatProperties
<1>2. Len(s) \in Nat /\ Len(t) \in Nat /\ DOMAIN s = 1 .. Len(s) /\ DOMAIN t = 1 .. Len(t)
  OBVIOUS
<1>3. DOMAIN (s \o t) = 1 .. Len(s) + Len(t)
  BY <1>1
<1> DEFINE u == s \o t
<1> HIDE DEF u
<1>4. \A n \in DOMAIN u :
        \/ n \in DOMAIN s /\ u[n] = s[n]
        \/ n \notin DOMAIN s /\ n - Len(s) \in DOMAIN t /\ u[n] = t[n - Len(s)]
  BY <1>1, <1>2, <1>3 DEF u
<1>5. /\ \A n \in DOMAIN s : n \in DOMAIN u /\ u[n] = s[n]
      /\ \A n \in DOMAIN t : n + Len(s) \in DOMAIN u /\ u[n + Len(s)] = t[n]
  <2>1. \A n \in DOMAIN t : (n + Len(s)) - Len(s) = n
    BY <1>2
  <2> QED BY <1>1, <1>2, <1>3, <2>1 DEF u
<1>6. \A i : Shows(u, i) <=> Shows(s, i) \/ Shows(t, i)
  BY <1>4, <1>5 DEF Shows
<1> QED BY <1>1, <1>4, <1>6 DEF u

LEMMA ConcatInOrder ==
  ASSUME NEW d, NEW w, NEW T, NEW s \in Seq(T), NEW t \in Seq(T),
         InOrder(d, w, s), InOrder(d, w, t),
         \A m \in DOMAIN s, n \in DOMAIN t : s[m] # t[n] /\ ~Ahead(d, w, w.order, t[n], s[m])
  PROVE  InOrder(d, w, s \o t)
<1> DEFINE u == s \o t
<1>1. \A n \in DOMAIN u :
        \/ n \in DOMAIN s /\ u[n] = s[n]
        \/ n \notin DOMAIN s /\ n - Len(s) \in DOMAIN t /\ u[n] = t[n - Len(s)]
  BY ConcatIs
<1>2. u \in Seq(T) /\ Len(s) \in Nat /\ DOMAIN s = 1 .. Len(s)
  BY ConcatIs
<1> HIDE DEF u
<1> SUFFICES ASSUME NEW m \in DOMAIN u, NEW n \in DOMAIN u, m < n
             PROVE  u[m] # u[n] /\ ~Ahead(d, w, w.order, u[n], u[m])
  BY DEF InOrder, u
<1>3. m \in Nat \ {0} /\ n \in Nat
  BY <1>2
<1>4. CASE m \in DOMAIN s /\ n \in DOMAIN s
  BY <1>1, <1>4 DEF InOrder
<1>5. CASE m \in DOMAIN s /\ n \notin DOMAIN s
  BY <1>1, <1>5
<1>6. CASE m \notin DOMAIN s /\ n \notin DOMAIN s
  <2>1. /\ m - Len(s) \in DOMAIN t /\ u[m] = t[m - Len(s)]
        /\ n - Len(s) \in DOMAIN t /\ u[n] = t[n - Len(s)]
    BY <1>1, <1>6
  <2>2. m - Len(s) < n - Len(s)
    BY <1>2, <1>3
  <2> QED BY <2>1, <2>2 DEF InOrder
<1>7. ~(m \notin DOMAIN s /\ n \in DOMAIN s)
  BY <1>2, <1>3
<1> QED BY <1>4, <1>5, <1>6, <1>7

LEMMA WantedIs ==
  ASSUME Collection(docs)
  PROVE  /\ Wanted \subseteq ActiveIn(docs, walk) /\ ActiveIn(docs, walk) \subseteq DOMAIN docs
         /\ \A i \in ActiveIn(docs, walk) :
              i \in Wanted <=> cursor = None \/ AfterIn(docs, walk, i, Way, cursor)
<1>1. \A i, order : IsAfter(i, order, cursor) <=> AfterIn(docs, walk, i, order, cursor)
  BY Zenon DEF IsAfter, AfterIn, Field, FieldIn
<1> QED BY <1>1, ActiveIs DEF Wanted, ActiveIn

LEMMA CursorIs ==
  ASSUME Collection(docs), NEW i \in DOMAIN docs
  PROVE  Cursor(i) = CursorIn(docs, walk, i) /\ Cursor(i).id = i /\ Cursor(i) # None
<1>1. i # 0
  BY DEF Collection
<1> QED BY <1>1 DEF Cursor, CursorIn, Field, FieldIn, None

(* What a page wants follows the document that the cursor is of.           *)
LEMMA PageFollows ==
  ASSUME ListInv, phase # "idle", walk.mode = "cursor", cursor # None, NEW i \in Wanted
  PROVE  /\ cursor.id \in DOMAIN docs /\ i \in DOMAIN docs /\ IsString(FieldIn(docs, walk, i))
         /\ StraightOn(docs, walk) => Ahead(docs, walk, Way, cursor.id, i)
<1>1. Collection(docs) /\ walk \in Walk /\ leg \in {"forth", "back"}
  BY DEF ListInv, BasicInv
<1>2. i \in DOMAIN docs /\ AfterIn(docs, walk, i, Way, cursor)
  BY <1>1, WantedIs
<1>3. /\ cursor.id \in DOMAIN docs /\ cursor = CursorIn(docs, walk, cursor.id)
      /\ leg = "back" => IsString(FieldIn(docs, walk, cursor.id))
  BY DEF ListInv, CursorInv
<1>4. Way \in {"asc", "desc"} /\ (leg = "forth" => Way = walk.order)
  BY <1>1, OppositeIs DEF Way
<1>5. AfterIn(docs, walk, i, Way, CursorIn(docs, walk, cursor.id))
  BY <1>2, <1>3
<1> QED BY <1>1, <1>2, <1>3, <1>4, <1>5, AfterIsAhead

LEMMA ActiveAreApart ==
  ASSUME NEW d, Collection(d), NEW w, NEW i \in ActiveIn(d, w), NEW j \in ActiveIn(d, w),
         d[i].entity = d[j].entity
  PROVE  i = j
<1>1. i \in DOMAIN d /\ j \in DOMAIN d
  BY DEF ActiveIn
<1>2. d[i].version \in Nat /\ d[j].version \in Nat
  BY <1>1 DEF Collection, Doc
<1>3. d[j].version <= d[i].version /\ d[i].version <= d[j].version
  BY <1>1 DEF ActiveIn
<1>4. d[i].version = d[j].version
  BY <1>2, <1>3
<1> QED BY <1>1, <1>4 DEF Collection

(* What has its own place, and is wanted, is on the page or after its end. *)
LEMMA PageCovers ==
  ASSUME Collection(docs), walk \in Walk, leg \in {"forth", "back"}, ComparableIn(docs, walk),
         NEW i \in Settled(docs, walk, touched), i \in Wanted
  PROVE  \/ Shows(CursorPage.items, i)
         \/ /\ CursorPage.more
            /\ AfterIn(docs, walk, i, Way, CursorIn(docs, walk, End(CursorPage.items)))
<1> DEFINE items == CursorPage.items
           c == End(items)
<1>1. /\ Way \in {"asc", "desc"}
      /\ ~CursorPage.more => \A j \in Wanted : Shows(items, j)
      /\ CursorPage.more =>
           /\ c \in Wanted
           /\ \A j \in Wanted : Shows(items, j) \/ (j # c /\ ~Ahead(docs, walk, Way, j, c))
  BY CursorPageIs
<1> HIDE DEF items, c
<1> SUFFICES ASSUME CursorPage.more, c \in Wanted, i # c, ~Ahead(docs, walk, Way, i, c)
             PROVE  AfterIn(docs, walk, i, Way, CursorIn(docs, walk, c))
  BY <1>1 DEF items, c
<1>2. i \in ActiveIn(docs, walk) /\ c \in ActiveIn(docs, walk) /\ i \in DOMAIN docs /\ c \in DOMAIN docs
  BY WantedIs
<1>3. docs[i].entity # docs[c].entity
  BY <1>2, ActiveAreApart
<1>4. docs[i].updated_by # docs[c].updated_by
  BY <1>2, <1>3 DEF Settled, AloneIn
<1>5. FieldIn(docs, walk, i) # FieldIn(docs, walk, c)
  BY <1>2, <1>4, FieldIsValue DEF ComparableIn
<1>6. Ahead(docs, walk, Way, c, i)
  BY <1>1, <1>2, <1>5, AheadOrders
<1> QED BY <1>1, <1>2, <1>6, AheadIsAfter

(* What was shown was found, one by one.                                   *)
Found(d, w, t, i) ==
  /\ Finds(d, w, i) /\ d[i].deleted_at = Null
  /\ d[i].entity \notin t => i \in ActiveIn(d, w)

LEMMA PageIsFound ==
  ASSUME NEW d, NEW w, NEW t, NEW s \in Seq(ActiveIn(d, w)), NEW n \in DOMAIN s
  PROVE  Found(d, w, t, s[n])
<1>1. s[n] \in ActiveIn(d, w)
  OBVIOUS
<1> QED BY <1>1 DEF Found, ActiveIn

LEMMA ShownIs ==
  ASSUME phase # "idle"
  PROVE  ShownInv <=> /\ \A n \in DOMAIN shown.forth : Found(docs, walk, touched, shown.forth[n])
                      /\ \A n \in DOMAIN shown.back : Found(docs, walk, touched, shown.back[n])
BY DEF ShownInv, Found

LEMMA GoForthInv ==
  ASSUME ListInv, GoForth
  PROVE  ListInv'
<1> DEFINE items == CursorPage.items
           more == CursorPage.more
           turns == ~more /\ cursor # None /\ items # << >>
           c == Last(items)
           h == Head(items)
<1>1. /\ phase = "asks" /\ walk.mode = "cursor" /\ leg = "forth"
      /\ docs' = docs /\ walk' = walk /\ touched' = touched
  BY DEF GoForth
<1>2. shown' = [forth |-> shown.forth \o items, back |-> IF turns THEN items ELSE << >>]
  BY DEF GoForth
<1>3. \/ more /\ cursor' = Cursor(c) /\ phase' = "asks" /\ leg' = "forth"
      \/ turns /\ leg' = "back" /\ cursor' = Cursor(h) /\ phase' = "asks"
      \/ ~more /\ ~turns /\ phase' = "done" /\ leg' = "forth" /\ cursor' = cursor
  BY <1>1 DEF GoForth
<1>4. BasicInv /\ ShownInv /\ CursorInv /\ OrderInv /\ CoverInv /\ phase # "idle"
  BY <1>1 DEF ListInv
<1>5. /\ Collection(docs) /\ walk \in Walk /\ leg \in {"forth", "back"}
      /\ shown.forth \in Seq(DOMAIN docs)
  BY <1>4 DEF BasicInv
<1>6. Way = walk.order /\ End(items) = c
  BY <1>1 DEF Way, End
<1>7. /\ items \in Seq(Wanted) /\ InOrder(docs, walk, items)
      /\ ~more => \A i \in Wanted : Shows(items, i)
      /\ more => items # << >>
      /\ \A n \in DOMAIN items : ~Ahead(docs, walk, walk.order, c, items[n])
  BY <1>1, <1>5, CursorPageIs
<1>8. Wanted \subseteq ActiveIn(docs, walk) /\ ActiveIn(docs, walk) \subseteq DOMAIN docs
  BY <1>5, WantedIs
<1> HIDE DEF items, more
<1>9. items \in Seq(ActiveIn(docs, walk)) /\ items \in Seq(DOMAIN docs)
  BY <1>7, <1>8, SeqMonotonic
<1>10. ASSUME items # << >> PROVE c \in Wanted /\ h \in Wanted /\ 1 \in DOMAIN items /\ h = items[1]
  BY <1>7, <1>10 DEF Last
<1>11. /\ \A n \in DOMAIN (shown.forth \o items) :
            \/ n \in DOMAIN shown.forth /\ (shown.forth \o items)[n] = shown.forth[n]
            \/ n \notin DOMAIN shown.forth /\ n - Len(shown.forth) \in DOMAIN items
               /\ (shown.forth \o items)[n] = items[n - Len(shown.forth)]
       /\ \A i : Shows(shown.forth \o items, i) <=> Shows(shown.forth, i) \/ Shows(items, i)
       /\ shown.forth \o items \in Seq(DOMAIN docs)
  BY <1>5, <1>9, ConcatIs
<1>12. /\ shown'.forth = shown.forth \o items
       /\ turns => shown'.back = items
       /\ ~turns => shown'.back = << >>
  BY <1>2
<1> HIDE DEF turns, c, h
<1>13. turns => cursor # None /\ items # << >> /\ ~more
  BY DEF turns
<1>14. BasicInv'
  <2> DEFINE forth == shown.forth \o items
             back  == IF turns THEN items ELSE << >>
             T     == Seq(DOMAIN docs)
  <2>0. << >> \in Seq(DOMAIN docs) /\ items \in Seq(DOMAIN docs)
    BY <1>9
  <2>1. forth \in T /\ back \in T /\ shown' = [forth |-> forth, back |-> back]
    BY <1>2, <1>11, <2>0, Zenon
  <2> HIDE DEF forth, back, T
  <2>2. shown' \in [forth : T, back : T]
    BY <2>1
  <2>3. phase' \in {"asks", "done"} /\ leg' \in {"forth", "back"} /\ (leg' = "forth" => ~turns)
    BY <1>3, <1>13
  <2> QED BY <1>1, <1>5, <1>12, <2>2, <2>3 DEF BasicInv, T
<1>15. ShownInv'
  <2>1. \A n \in DOMAIN items : Found(docs, walk, touched, items[n])
    BY <1>9, PageIsFound
  <2>2. \A n \in DOMAIN shown.forth : Found(docs, walk, touched, shown.forth[n])
    BY <1>4, ShownIs
  <2>3. \A n \in DOMAIN shown'.forth : Found(docs, walk, touched, shown'.forth[n])
    BY <1>11, <1>12, <2>1, <2>2
  <2>4. \A n \in DOMAIN shown'.back : Found(docs, walk, touched, shown'.back[n])
    BY <1>12, <2>1
  <2>5. phase' # "idle"
    BY <1>3
  <2>6. \A l \in {"forth", "back"} : \A n \in DOMAIN shown'[l] : Found(docs, walk, touched, shown'[l][n])
    BY <2>3, <2>4
  <2> QED BY <1>1, <2>5, <2>6 DEF ShownInv, Found
<1>16. CursorInv'
  <2>1. ASSUME items # << >>
        PROVE  /\ c \in DOMAIN docs /\ Cursor(c) = CursorIn(docs, walk, c) /\ Cursor(c).id = c
               /\ h \in DOMAIN docs /\ Cursor(h) = CursorIn(docs, walk, h) /\ Cursor(h).id = h
               /\ Cursor(c) # None /\ Cursor(h) # None
    BY <1>5, <1>8, <1>10, <2>1, CursorIs
  <2>2. CASE more /\ cursor' = Cursor(c) /\ phase' = "asks" /\ leg' = "forth"
    BY <1>1, <1>7, <2>1, <2>2 DEF CursorInv
  <2>3. CASE turns /\ leg' = "back" /\ cursor' = Cursor(h) /\ phase' = "asks"
    <3>1. IsString(FieldIn(docs, walk, h))
      BY <1>1, <1>4, <1>10, <1>13, <2>3, PageFollows
    <3> QED BY <1>1, <1>13, <2>1, <2>3, <3>1 DEF CursorInv
  <2>4. CASE ~more /\ ~turns /\ phase' = "done" /\ leg' = "forth" /\ cursor' = cursor
    BY <1>1, <1>4, <2>4 DEF CursorInv
  <2> QED BY <1>3, <2>2, <2>3, <2>4
<1>17. OrderInv'
  <2> SUFFICES ASSUME StraightOn(docs, walk)
               PROVE  /\ InOrder(docs, walk, shown'.forth) /\ InOrder(docs, walk, shown'.back)
                      /\ phase' = "asks" /\ leg' = "forth" /\ cursor' # None =>
                           \A n \in DOMAIN shown'.forth :
                             ~Ahead(docs, walk, walk.order, cursor'.id, shown'.forth[n])
                      /\ phase' = "asks" /\ leg' = "back" =>
                           \A n \in DOMAIN shown'.back :
                             ~Ahead(docs, walk, walk.order, shown'.back[n], cursor'.id)
    BY <1>1 DEF OrderInv
  <2>1. /\ InOrder(docs, walk, shown.forth)
        /\ cursor # None => \A n \in DOMAIN shown.forth :
             ~Ahead(docs, walk, walk.order, cursor.id, shown.forth[n])
    BY <1>1, <1>4 DEF OrderInv
  <2>2. cursor = None => shown.forth = << >>
    BY <1>1, <1>4 DEF CursorInv
  <2>3. ASSUME NEW m \in DOMAIN shown.forth, NEW j \in Wanted
        PROVE  shown.forth[m] # j /\ ~Ahead(docs, walk, walk.order, j, shown.forth[m])
    <3> DEFINE i == shown.forth[m]
    <3>1. cursor # None /\ i \in DOMAIN docs
      BY <1>5, <2>2, <2>3
    <3>2. ~Ahead(docs, walk, walk.order, cursor.id, i)
      BY <2>1, <3>1
    <3>3. cursor.id \in DOMAIN docs /\ j \in DOMAIN docs /\ Ahead(docs, walk, walk.order, cursor.id, j)
      BY <1>1, <1>4, <1>6, <2>3, <3>1, PageFollows
    <3> HIDE DEF i
    <3>4. walk.order \in {"asc", "desc"}
      BY <1>5 DEF Walk
    <3>5. ~Ahead(docs, walk, walk.order, j, i)
      BY <1>5, <3>1, <3>2, <3>3, <3>4, AheadOrders
    <3> QED BY <3>2, <3>3, <3>5 DEF i
  <2>4. InOrder(docs, walk, shown.forth \o items)
    <3>1. \A m \in DOMAIN shown.forth, n \in DOMAIN items :
            shown.forth[m] # items[n] /\ ~Ahead(docs, walk, walk.order, items[n], shown.forth[m])
      <4>1. \A n \in DOMAIN items : items[n] \in Wanted
        BY <1>7
      <4> QED BY <2>3, <4>1
    <3> QED BY <1>5, <1>7, <1>9, <2>1, <3>1, ConcatInOrder
  <2>5. InOrder(docs, walk, shown'.back)
    <3>1. InOrder(docs, walk, << >>)
      BY DEF InOrder
    <3> QED BY <1>7, <1>12, <3>1
  <2>6. ASSUME phase' = "asks", leg' = "forth", NEW n \in DOMAIN shown'.forth
        PROVE  ~Ahead(docs, walk, walk.order, cursor'.id, shown'.forth[n])
    <3>1. more /\ items # << >> /\ cursor' = Cursor(c)
      BY <1>3, <1>7, <2>6
    <3>2. c \in Wanted /\ cursor'.id = c
      BY <1>5, <1>8, <1>10, <3>1, CursorIs
    <3>3. CASE n \in DOMAIN shown.forth /\ shown'.forth[n] = shown.forth[n]
      BY <2>3, <3>2, <3>3
    <3>4. CASE n - Len(shown.forth) \in DOMAIN items /\ shown'.forth[n] = items[n - Len(shown.forth)]
      BY <1>7, <3>2, <3>4
    <3> QED BY <1>11, <1>12, <2>6, <3>3, <3>4
  <2>7. ASSUME phase' = "asks", leg' = "back", NEW n \in DOMAIN shown'.back
        PROVE  ~Ahead(docs, walk, walk.order, shown'.back[n], cursor'.id)
    <3>1. turns /\ items # << >> /\ cursor' = Cursor(h) /\ shown'.back = items
      BY <1>3, <1>12, <1>13, <2>7
    <3>2. cursor'.id = h /\ h = items[1] /\ 1 \in DOMAIN items /\ h \in DOMAIN docs
      BY <1>5, <1>8, <1>10, <3>1, CursorIs
    <3>3. CASE n = 1
      <4>1. walk.order \in {"asc", "desc"}
        BY <1>5 DEF Walk
      <4> QED BY <1>5, <3>1, <3>2, <3>3, <4>1, AheadOrders
    <3>4. CASE n # 1
      <4>1. 1 < n /\ n \in DOMAIN items
        BY <1>9, <2>7, <3>1, <3>4
      <4> QED BY <1>7, <3>1, <3>2, <4>1 DEF InOrder
    <3> QED BY <3>3, <3>4
  <2> QED BY <1>12, <2>4, <2>5, <2>6, <2>7
<1>18. CoverInv'
  <2> SUFFICES ASSUME ComparableIn(docs, walk), NEW i \in Settled(docs, walk, touched)
               PROVE  /\ phase' = "asks" /\ leg' = "forth" /\ cursor' # None =>
                           AfterIn(docs, walk, i, walk.order, cursor') \/ Shows(shown'.forth, i)
                      /\ phase' = "done" \/ leg' = "back" => Shows(shown'.forth, i)
                      /\ phase' = "asks" /\ leg' = "back" =>
                           AfterIn(docs, walk, i, Opposite[walk.order], cursor') \/ Shows(shown'.back, i)
                      /\ phase' = "done" /\ leg' = "back" => Shows(shown'.back, i)
    BY <1>1 DEF CoverInv
  <2>1. i \in ActiveIn(docs, walk) /\ i \in DOMAIN docs
    BY <1>8 DEF Settled
  <2>2. i \in Wanted \/ Shows(shown.forth, i)
    <3>1. cursor # None => AfterIn(docs, walk, i, walk.order, cursor) \/ Shows(shown.forth, i)
      BY <1>1, <1>4 DEF CoverInv
    <3> QED BY <1>5, <1>6, <2>1, <3>1, WantedIs
  <2>3. \/ Shows(shown'.forth, i)
        \/ more /\ AfterIn(docs, walk, i, walk.order, CursorIn(docs, walk, c))
    <3>1. CASE Shows(shown.forth, i)
      BY <1>11, <1>12, <3>1
    <3>2. CASE i \in Wanted
      <4>1. \/ Shows(items, i)
            \/ more /\ AfterIn(docs, walk, i, walk.order, CursorIn(docs, walk, c))
        BY <1>5, <1>6, <3>2, PageCovers DEF items, more
      <4> QED BY <1>11, <1>12, <4>1
    <3> QED BY <2>2, <3>1, <3>2
  <2>4. CASE more /\ cursor' = Cursor(c) /\ phase' = "asks" /\ leg' = "forth"
    <3>1. Cursor(c) = CursorIn(docs, walk, c)
      BY <1>5, <1>7, <1>8, <1>10, <2>4, CursorIs
    <3> QED BY <2>3, <2>4, <3>1
  <2>5. CASE turns /\ leg' = "back" /\ cursor' = Cursor(h) /\ phase' = "asks"
    <3>1. ~more /\ cursor # None /\ items # << >> /\ shown'.back = items
      BY <1>12, <1>13, <2>5
    <3>2. h \in Wanted /\ h \in ActiveIn(docs, walk) /\ h \in DOMAIN docs
          /\ Cursor(h) = CursorIn(docs, walk, h)
      BY <1>5, <1>8, <1>10, <3>1, CursorIs
    <3>3. AfterIn(docs, walk, i, Opposite[walk.order], CursorIn(docs, walk, h)) \/ Shows(items, i)
      <4>1. CASE i \in Wanted
        BY <1>7, <3>1, <4>1
      <4>2. CASE i \notin Wanted
        <5>1. /\ ~AfterIn(docs, walk, i, walk.order, cursor)
              /\ AfterIn(docs, walk, h, walk.order, cursor)
          BY <1>5, <1>6, <2>1, <3>1, <3>2, <4>2, WantedIs
        <5> DEFINE x == cursor.value
                   y == FieldIn(docs, walk, h)
                   z == FieldIn(docs, walk, i)
        <5>2. /\ cursor.id \in DOMAIN docs /\ cursor = CursorIn(docs, walk, cursor.id)
          BY <1>1, <1>4, <3>1 DEF CursorInv
        <5>3. /\ FieldIn(docs, walk, cursor.id) \in Value /\ IsString(FieldIn(docs, walk, cursor.id))
              /\ y \in Value /\ IsString(y) /\ z \in Value /\ IsString(z)
          BY <1>5, <2>1, <3>2, <5>2, FieldIsValue DEF ComparableIn
        <5>4. x = FieldIn(docs, walk, cursor.id)
          <6>1. cursor.value = Str(FieldIn(docs, walk, cursor.id))
            BY <5>2 DEF CursorIn
          <6> QED BY <5>3, <6>1, StrIs
        <5>5. x \in Value /\ y.type = z.type /\ x.type = y.type
          BY <5>3, <5>4 DEF IsString
        <5>6. walk.order \in {"asc", "desc"}
          BY <1>5 DEF Walk
        <5>7. IF walk.order = "asc" THEN IsLess(x, y) /\ ~IsLess(x, z) ELSE IsLess(y, x) /\ ~IsLess(z, x)
          BY <5>1 DEF AfterIn
        <5> HIDE DEF x, y, z
        <5>8. IF walk.order = "asc" THEN IsLess(z, y) ELSE IsLess(y, z)
          <6>1. /\ IsLess(x, y) /\ IsLess(y, z) => IsLess(x, z)
                /\ IsLess(z, y) /\ IsLess(y, x) => IsLess(z, x)
                /\ y # z => IsLess(y, z) \/ IsLess(z, y)
            BY <5>3, <5>5, IsLessOrders DEF y, z
          <6> QED BY <5>7, <6>1
        <5>9. Str(y) = y
          BY <5>3, StrIs DEF y
        <5>10. IF Opposite[walk.order] = "asc" THEN IsLess(y, z) ELSE IsLess(z, y)
          BY <5>6, <5>8 DEF Opposite
        <5> QED BY <5>9, <5>10 DEF AfterIn, CursorIn, y, z
      <4> QED BY <4>1, <4>2
    <3> QED BY <2>3, <2>5, <3>1, <3>2, <3>3
  <2>6. CASE ~more /\ ~turns /\ phase' = "done" /\ leg' = "forth" /\ cursor' = cursor
    BY <2>3, <2>6
  <2> QED BY <1>3, <2>4, <2>5, <2>6
<1>19. OffsetInv'
  BY <1>1 DEF OffsetInv
<1> QED BY <1>14, <1>15, <1>16, <1>17, <1>18, <1>19 DEF ListInv

LEMMA GoBackInv ==
  ASSUME ListInv, GoBack
  PROVE  ListInv'
<1> DEFINE items == CursorPage.items
           more == CursorPage.more
           h == Head(items)
<1>1. /\ phase = "asks" /\ walk.mode = "cursor" /\ leg = "back"
      /\ docs' = docs /\ walk' = walk /\ touched' = touched /\ leg' = leg
  BY DEF GoBack
<1>2. shown' = [shown EXCEPT !.back = items \o shown.back]
  BY DEF GoBack
<1>3. \/ more /\ cursor' = Cursor(h) /\ phase' = "asks"
      \/ ~more /\ phase' = "done" /\ cursor' = cursor
  BY <1>1 DEF GoBack
<1>4. BasicInv /\ ShownInv /\ CursorInv /\ OrderInv /\ CoverInv /\ phase # "idle"
  BY <1>1 DEF ListInv
<1>5. /\ Collection(docs) /\ walk \in Walk /\ leg \in {"forth", "back"}
      /\ shown \in [forth : Seq(DOMAIN docs), back : Seq(DOMAIN docs)]
      /\ shown.forth \in Seq(DOMAIN docs) /\ shown.back \in Seq(DOMAIN docs)
  BY <1>4 DEF BasicInv
<1>6. Way = Opposite[walk.order] /\ End(items) = h
  BY <1>1 DEF Way, End
<1>7. /\ items \in Seq(Wanted) /\ InOrder(docs, walk, items)
      /\ ~more => \A i \in Wanted : Shows(items, i)
      /\ more => items # << >>
      /\ \A n \in DOMAIN items : ~Ahead(docs, walk, walk.order, items[n], h)
  BY <1>1, <1>5, CursorPageIs
<1>8. Wanted \subseteq ActiveIn(docs, walk) /\ ActiveIn(docs, walk) \subseteq DOMAIN docs
  BY <1>5, WantedIs
<1> HIDE DEF items, more
<1>9. items \in Seq(ActiveIn(docs, walk)) /\ items \in Seq(DOMAIN docs)
  BY <1>7, <1>8, SeqMonotonic
<1>10. ASSUME items # << >> PROVE h \in Wanted
  BY <1>7, <1>10
<1>11. /\ \A n \in DOMAIN (items \o shown.back) :
            \/ n \in DOMAIN items /\ (items \o shown.back)[n] = items[n]
            \/ n \notin DOMAIN items /\ n - Len(items) \in DOMAIN shown.back
               /\ (items \o shown.back)[n] = shown.back[n - Len(items)]
       /\ \A i : Shows(items \o shown.back, i) <=> Shows(items, i) \/ Shows(shown.back, i)
       /\ items \o shown.back \in Seq(DOMAIN docs)
  BY <1>5, <1>9, ConcatIs
<1>12. shown'.forth = shown.forth /\ shown'.back = items \o shown.back
  BY <1>2, <1>5
<1> HIDE DEF h
<1>13. cursor # None /\ cursor.id \in DOMAIN docs /\ IsString(FieldIn(docs, walk, cursor.id))
       /\ cursor = CursorIn(docs, walk, cursor.id)
  BY <1>1, <1>4 DEF CursorInv
<1>14. BasicInv'
  <2> DEFINE back == items \o shown.back
             T    == Seq(DOMAIN docs)
  <2>1. back \in T /\ shown' = [shown EXCEPT !.back = back] /\ shown \in [forth : T, back : T]
    BY <1>2, <1>5, <1>11
  <2> HIDE DEF back, T
  <2>2. shown' \in [forth : T, back : T]
    BY <2>1
  <2>3. phase' \in {"asks", "done"}
    BY <1>3
  <2> QED BY <1>1, <1>5, <2>2, <2>3 DEF BasicInv, T
<1>15. ShownInv'
  <2>1. \A n \in DOMAIN items : Found(docs, walk, touched, items[n])
    BY <1>9, PageIsFound
  <2>2. /\ \A n \in DOMAIN shown.forth : Found(docs, walk, touched, shown.forth[n])
        /\ \A n \in DOMAIN shown.back : Found(docs, walk, touched, shown.back[n])
    BY <1>4, ShownIs
  <2>3. \A n \in DOMAIN shown'.back : Found(docs, walk, touched, shown'.back[n])
    BY <1>11, <1>12, <2>1, <2>2
  <2>4. \A l \in {"forth", "back"} : \A n \in DOMAIN shown'[l] : Found(docs, walk, touched, shown'[l][n])
    BY <1>12, <2>2, <2>3
  <2>5. phase' # "idle"
    BY <1>3
  <2> QED BY <1>1, <2>4, <2>5 DEF ShownInv, Found
<1>16. CursorInv'
  <2>1. CASE more /\ cursor' = Cursor(h) /\ phase' = "asks"
    <3>1. h \in Wanted /\ h \in DOMAIN docs
      BY <1>7, <1>8, <1>10, <2>1
    <3>2. Cursor(h) = CursorIn(docs, walk, h) /\ Cursor(h).id = h /\ Cursor(h) # None
      BY <1>5, <3>1, CursorIs
    <3>3. IsString(FieldIn(docs, walk, h))
      BY <1>1, <1>4, <1>13, <3>1, PageFollows
    <3> QED BY <1>1, <2>1, <3>1, <3>2, <3>3 DEF CursorInv
  <2>2. CASE ~more /\ phase' = "done" /\ cursor' = cursor
    BY <1>1, <1>4, <1>13, <2>2 DEF CursorInv
  <2> QED BY <1>3, <2>1, <2>2
<1>17. OrderInv'
  <2> SUFFICES ASSUME StraightOn(docs, walk)
               PROVE  /\ InOrder(docs, walk, shown'.forth) /\ InOrder(docs, walk, shown'.back)
                      /\ phase' = "asks" =>
                           \A n \in DOMAIN shown'.back :
                             ~Ahead(docs, walk, walk.order, shown'.back[n], cursor'.id)
    BY <1>1 DEF OrderInv
  <2>1. /\ InOrder(docs, walk, shown.forth) /\ InOrder(docs, walk, shown.back)
        /\ \A n \in DOMAIN shown.back : ~Ahead(docs, walk, walk.order, shown.back[n], cursor.id)
    BY <1>1, <1>4 DEF OrderInv
  <2>2. walk.order \in {"asc", "desc"}
    BY <1>5 DEF Walk
  <2>3. ASSUME NEW n \in DOMAIN shown.back, NEW j \in Wanted
        PROVE  shown.back[n] # j /\ ~Ahead(docs, walk, walk.order, shown.back[n], j)
    <3> DEFINE i == shown.back[n]
    <3>1. i \in DOMAIN docs /\ ~Ahead(docs, walk, walk.order, i, cursor.id)
      BY <1>5, <2>1, <2>3
    <3>2. j \in DOMAIN docs /\ Ahead(docs, walk, Way, cursor.id, j)
      BY <1>1, <1>4, <1>13, <2>3, PageFollows
    <3>3. Ahead(docs, walk, walk.order, j, cursor.id)
      BY <1>5, <1>6, <3>2, OppositeIs
    <3> HIDE DEF i
    <3>4. ~Ahead(docs, walk, walk.order, i, j)
      BY <1>5, <1>13, <2>2, <3>1, <3>2, <3>3, AheadOrders
    <3> QED BY <3>1, <3>3, <3>4 DEF i
  <2>4. InOrder(docs, walk, items \o shown.back)
    <3>1. \A m \in DOMAIN items, n \in DOMAIN shown.back :
            items[m] # shown.back[n] /\ ~Ahead(docs, walk, walk.order, shown.back[n], items[m])
      <4>1. \A m \in DOMAIN items : items[m] \in Wanted
        BY <1>7
      <4> QED BY <2>3, <4>1
    <3> QED BY <1>5, <1>7, <1>9, <2>1, <3>1, ConcatInOrder
  <2>5. ASSUME phase' = "asks", NEW n \in DOMAIN shown'.back
        PROVE  ~Ahead(docs, walk, walk.order, shown'.back[n], cursor'.id)
    <3>1. more /\ items # << >> /\ cursor' = Cursor(h)
      BY <1>3, <1>7, <2>5
    <3>2. h \in Wanted /\ cursor'.id = h
      BY <1>5, <1>8, <1>10, <3>1, CursorIs
    <3>3. CASE n \in DOMAIN items /\ shown'.back[n] = items[n]
      BY <1>7, <3>2, <3>3
    <3>4. CASE n - Len(items) \in DOMAIN shown.back /\ shown'.back[n] = shown.back[n - Len(items)]
      BY <2>3, <3>2, <3>4
    <3> QED BY <1>11, <1>12, <2>5, <3>3, <3>4
  <2> QED BY <1>12, <2>1, <2>4, <2>5
<1>18. CoverInv'
  <2> SUFFICES ASSUME ComparableIn(docs, walk), NEW i \in Settled(docs, walk, touched)
               PROVE  /\ Shows(shown'.forth, i)
                      /\ phase' = "asks" =>
                           AfterIn(docs, walk, i, Opposite[walk.order], cursor') \/ Shows(shown'.back, i)
                      /\ phase' = "done" => Shows(shown'.back, i)
    BY <1>1 DEF CoverInv
  <2>1. i \in ActiveIn(docs, walk) /\ i \in DOMAIN docs
    BY <1>8 DEF Settled
  <2>2. /\ Shows(shown.forth, i)
        /\ AfterIn(docs, walk, i, Opposite[walk.order], cursor) \/ Shows(shown.back, i)
    BY <1>1, <1>4 DEF CoverInv
  <2>3. i \in Wanted \/ Shows(shown.back, i)
    BY <1>5, <1>6, <2>1, <2>2, WantedIs
  <2>4. \/ Shows(shown'.back, i)
        \/ more /\ AfterIn(docs, walk, i, Opposite[walk.order], CursorIn(docs, walk, h))
    <3>1. CASE Shows(shown.back, i)
      BY <1>11, <1>12, <3>1
    <3>2. CASE i \in Wanted
      <4>1. \/ Shows(items, i)
            \/ more /\ AfterIn(docs, walk, i, Opposite[walk.order], CursorIn(docs, walk, h))
        BY <1>5, <1>6, <3>2, PageCovers DEF items, more
      <4> QED BY <1>11, <1>12, <4>1
    <3> QED BY <2>3, <3>1, <3>2
  <2>5. CASE more /\ cursor' = Cursor(h) /\ phase' = "asks"
    <3>1. Cursor(h) = CursorIn(docs, walk, h)
      BY <1>5, <1>7, <1>8, <1>10, <2>5, CursorIs
    <3> QED BY <1>12, <2>2, <2>4, <2>5, <3>1
  <2>6. CASE ~more /\ phase' = "done" /\ cursor' = cursor
    BY <1>12, <2>2, <2>4, <2>6
  <2> QED BY <1>3, <2>5, <2>6
<1>19. OffsetInv'
  BY <1>1 DEF OffsetInv
<1> QED BY <1>14, <1>15, <1>16, <1>17, <1>18, <1>19 DEF ListInv

-----------------------------------------------------------------------------
(* Offsets.                                                                *)

LEMMA DropIs ==
  ASSUME NEW T, NEW s \in Seq(T), NEW k \in Nat
  PROVE  /\ Drop(s, k) \in Seq(T) /\ Len(Drop(s, k)) = IF k <= Len(s) THEN Len(s) - k ELSE 0
         /\ \A n \in 1 .. Len(Drop(s, k)) : Drop(s, k)[n] = s[k + n]
<1>1. k + 1 \in Int /\ Len(s) \in Int /\ \A n \in k + 1 .. Len(s) : s[n] \in T
  OBVIOUS
<1>2. /\ SubSeq(s, k + 1, Len(s)) \in Seq(T)
      /\ Len(SubSeq(s, k + 1, Len(s))) = IF k + 1 <= Len(s) THEN Len(s) - (k + 1) + 1 ELSE 0
      /\ \A n \in 1 .. Len(s) - (k + 1) + 1 : SubSeq(s, k + 1, Len(s))[n] = s[k + 1 + n - 1]
  BY <1>1, SubSeqProperties
<1>3. Len(SubSeq(s, k + 1, Len(s))) = IF k <= Len(s) THEN Len(s) - k ELSE 0
  BY <1>1, <1>2
<1>4. ASSUME NEW n \in 1 .. Len(SubSeq(s, k + 1, Len(s)))
      PROVE  n \in 1 .. Len(s) - (k + 1) + 1 /\ k + 1 + n - 1 = k + n
  BY <1>3
<1> QED BY <1>2, <1>3, <1>4 DEF Drop

(* A page of an offset goes on where the offset is.                        *)
LEMMA OffsetPageIs ==
  ASSUME Collection(docs), walk \in Walk, cursor \in Nat
  PROVE  /\ OffsetPage \in Seq(ActiveIn(docs, walk))
         /\ \A n \in 1 .. Len(OffsetPage) :
              /\ OffsetPage[n] \in ActiveIn(docs, walk)
              /\ Place(docs, walk, OffsetPage[n]) = cursor + n - 1
         /\ Len(OffsetPage) = 0 => ~(cursor < Cardinality(ActiveIn(docs, walk)))
<1> DEFINE A == ActiveIn(docs, walk)
           s == Sorted(A, walk.order)
           N == Cardinality(A)
           R == Order(docs, walk, walk.order)
<1>1. walk.order \in {"asc", "desc"} /\ walk.size \in Nat \ {0}
  BY DEF Walk
<1>2. A \in SUBSET DOMAIN docs /\ Active = A
  BY ActiveIs
<1>3. N \in Nat /\ Len(s) = N /\ s \in Seq(A)
  BY <1>1, <1>2, SortedIs
<1>4. OffsetPage = Take(Drop(s, cursor), walk.size)
  BY <1>2 DEF OffsetPage
<1>5. \A i : Place(docs, walk, i) = Cardinality(Below(R, A, i))
  BY DEF Place
<1>6. ASSUME NEW n \in 1 .. N PROVE s[n] \in A /\ Cardinality(Below(R, A, s[n])) = n - 1
  BY <1>1, <1>2, SortedTakes
<1> HIDE DEF A, s, N, R
<1>7. /\ Drop(s, cursor) \in Seq(A) /\ Len(Drop(s, cursor)) = IF cursor <= N THEN N - cursor ELSE 0
      /\ \A n \in 1 .. Len(Drop(s, cursor)) : Drop(s, cursor)[n] = s[cursor + n]
  BY <1>3, DropIs
<1>8. /\ OffsetPage \in Seq(A)
      /\ Len(OffsetPage) = IF walk.size < Len(Drop(s, cursor)) THEN walk.size ELSE Len(Drop(s, cursor))
      /\ \A n \in 1 .. Len(OffsetPage) : OffsetPage[n] = Drop(s, cursor)[n]
  BY <1>1, <1>4, <1>7, TakeIs
<1>9. ASSUME NEW n \in 1 .. Len(OffsetPage)
      PROVE  n \in 1 .. Len(Drop(s, cursor)) /\ cursor + n \in 1 .. N
  <2>1. Len(Drop(s, cursor)) \in Nat /\ Len(OffsetPage) <= Len(Drop(s, cursor))
    BY <1>1, <1>3, <1>7, <1>8
  <2>2. n \in 1 .. Len(Drop(s, cursor))
    BY <1>1, <1>8, <2>1
  <2> QED BY <1>3, <1>7, <2>2
<1>10. ASSUME NEW n \in 1 .. Len(OffsetPage)
       PROVE  OffsetPage[n] \in A /\ Place(docs, walk, OffsetPage[n]) = cursor + n - 1
  <2>1. OffsetPage[n] = s[cursor + n] /\ cursor + n \in 1 .. N
    BY <1>7, <1>8, <1>9
  <2> QED BY <1>5, <1>6, <2>1
<1>11. Len(OffsetPage) = 0 => ~(cursor < N)
  BY <1>1, <1>3, <1>7, <1>8
<1> QED BY <1>8, <1>10, <1>11 DEF A, N

LEMMA SkipInv ==
  ASSUME ListInv, Skip
  PROVE  ListInv'
<1> DEFINE T == Seq(DOMAIN docs)
           forth == shown.forth \o OffsetPage
<1>1. /\ phase = "asks" /\ walk.mode = "offset" /\ phase' = "counts"
      /\ docs' = docs /\ walk' = walk /\ touched' = touched /\ leg' = leg /\ cursor' = cursor
  BY DEF Skip
<1>2. shown' = [shown EXCEPT !.forth = forth]
  BY DEF Skip
<1>3. BasicInv /\ ShownInv /\ OffsetInv
  BY DEF ListInv
<1>4. /\ Collection(docs) /\ walk \in Walk /\ leg = "forth" /\ cursor \in Nat
      /\ shown \in [forth : T, back : T] /\ shown.back = << >>
      /\ shown.forth \in T /\ shown.back \in T
  BY <1>1, <1>3 DEF BasicInv
<1>5. /\ OffsetPage \in Seq(ActiveIn(docs, walk))
      /\ \A n \in 1 .. Len(OffsetPage) :
           /\ OffsetPage[n] \in ActiveIn(docs, walk)
           /\ Place(docs, walk, OffsetPage[n]) = cursor + n - 1
      /\ Len(OffsetPage) = 0 => ~(cursor < Cardinality(ActiveIn(docs, walk)))
  BY <1>4, OffsetPageIs
<1>6. ActiveIn(docs, walk) \subseteq DOMAIN docs
  BY DEF ActiveIn
<1>7. OffsetPage \in T
  BY <1>5, <1>6, SeqMonotonic
<1>8. /\ forth \in T
      /\ \A n \in DOMAIN forth :
           \/ n \in DOMAIN shown.forth /\ forth[n] = shown.forth[n]
           \/ n \notin DOMAIN shown.forth /\ n - Len(shown.forth) \in DOMAIN OffsetPage
              /\ forth[n] = OffsetPage[n - Len(shown.forth)]
  BY <1>4, <1>7, ConcatIs
<1>9. DOMAIN OffsetPage = 1 .. Len(OffsetPage) /\ Len(shown.forth) \in Nat
      /\ DOMAIN forth \subseteq Nat /\ DOMAIN shown.forth = 1 .. Len(shown.forth)
  BY <1>4, <1>7, <1>8
<1>10. Len(forth) = Len(shown.forth) + Len(OffsetPage) /\ Len(OffsetPage) \in Nat
  BY <1>4, <1>7, ConcatProperties
<1> HIDE DEF T, forth
<1>11. shown' \in [forth : T, back : T] /\ shown'.forth = forth /\ shown'.back = shown.back
  BY <1>2, <1>4, <1>8
<1>12. BasicInv'
  BY <1>1, <1>4, <1>11 DEF BasicInv, T
<1>13. ShownInv'
  <2>1. \A n \in DOMAIN OffsetPage : Found(docs, walk, touched, OffsetPage[n])
    BY <1>5, PageIsFound
  <2>2. /\ \A n \in DOMAIN shown.forth : Found(docs, walk, touched, shown.forth[n])
        /\ \A n \in DOMAIN shown.back : Found(docs, walk, touched, shown.back[n])
    BY <1>1, <1>3, ShownIs
  <2>3. \A n \in DOMAIN shown'.forth : Found(docs, walk, touched, shown'.forth[n])
    BY <1>8, <1>11, <2>1, <2>2
  <2>4. \A l \in {"forth", "back"} : \A n \in DOMAIN shown'[l] : Found(docs, walk, touched, shown'[l][n])
    BY <1>11, <2>2, <2>3
  <2> QED BY <1>1, <2>4 DEF ShownInv, Found
<1>14. CursorInv' /\ OrderInv' /\ CoverInv'
  BY <1>1 DEF CursorInv, OrderInv, CoverInv
<1>15. OffsetInv'
  <2>1. ASSUME touched = {}
        PROVE  Len(forth) > cursor \/ ~(Len(forth) < Cardinality(ActiveIn(docs, walk)))
    <3>1. cursor = Len(shown.forth)
      BY <1>1, <1>3, <2>1 DEF OffsetInv
    <3>2. Len(OffsetPage) # 0 => Len(forth) > cursor
      BY <1>9, <1>10, <3>1
    <3>3. Len(OffsetPage) = 0 => Len(forth) = cursor
      BY <1>9, <1>10, <3>1
    <3> QED BY <1>5, <3>2, <3>3
  <2> SUFFICES ASSUME touched = {}, NEW n \in DOMAIN forth
               PROVE  forth[n] \in ActiveIn(docs, walk) /\ Place(docs, walk, forth[n]) = n - 1
    BY <1>1, <1>11, <2>1 DEF OffsetInv
  <2>2. /\ cursor = Len(shown.forth)
        /\ \A m \in DOMAIN shown.forth :
             shown.forth[m] \in ActiveIn(docs, walk) /\ Place(docs, walk, shown.forth[m]) = m - 1
    BY <1>1, <1>3 DEF OffsetInv
  <2>3. CASE n \in DOMAIN shown.forth /\ forth[n] = shown.forth[n]
    BY <2>2, <2>3
  <2>4. CASE n - Len(shown.forth) \in DOMAIN OffsetPage /\ forth[n] = OffsetPage[n - Len(shown.forth)]
    <3> DEFINE k == n - Len(shown.forth)
    <3>1. k \in 1 .. Len(OffsetPage) /\ n \in Nat /\ cursor + k - 1 = n - 1
      BY <1>9, <2>2, <2>4
    <3> HIDE DEF k
    <3>2. OffsetPage[k] \in ActiveIn(docs, walk) /\ Place(docs, walk, OffsetPage[k]) = n - 1
      BY <1>5, <3>1
    <3> QED BY <2>4, <3>2 DEF k
  <2> QED BY <1>8, <2>3, <2>4
<1> QED BY <1>12, <1>13, <1>14, <1>15 DEF ListInv

LEMMA CountInv ==
  ASSUME ListInv, Count
  PROVE  ListInv'
<1>1. /\ phase = "counts" /\ docs' = docs /\ walk' = walk /\ touched' = touched /\ leg' = leg
      /\ shown' = shown
  BY DEF Count
<1>2. BasicInv /\ ShownInv /\ OffsetInv /\ walk.mode = "offset"
  BY <1>1 DEF ListInv, BasicInv
<1>3. /\ Collection(docs) /\ walk \in Walk /\ leg = "forth" /\ cursor \in Nat
      /\ shown \in [forth : Seq(DOMAIN docs), back : Seq(DOMAIN docs)] /\ shown.back = << >>
  BY <1>1, <1>2 DEF BasicInv
<1>4. Len(shown.forth) \in Nat
  BY <1>3
<1>5. Active = ActiveIn(docs, walk)
  BY <1>3, ActiveIs
<1>6. \/ cursor' = Len(shown.forth) /\ phase' = "asks"
      \/ /\ phase' = "done" /\ cursor' = cursor
         /\ ~(Len(shown.forth) < Cardinality(ActiveIn(docs, walk))) \/ ~(Len(shown.forth) > cursor)
  BY <1>5 DEF Count
<1>7. cursor' \in Nat /\ phase' \in {"asks", "done"}
  BY <1>3, <1>4, <1>6
<1>8. BasicInv'
  BY <1>1, <1>2, <1>3, <1>7 DEF BasicInv
<1>9. ShownInv'
  BY <1>1, <1>2, <1>7 DEF ShownInv
<1>10. CursorInv' /\ OrderInv' /\ CoverInv'
  BY <1>1, <1>2 DEF CursorInv, OrderInv, CoverInv
<1>11. OffsetInv'
  BY <1>1, <1>2, <1>6 DEF OffsetInv
<1> QED BY <1>8, <1>9, <1>10, <1>11 DEF ListInv

LEMMA BeginInv ==
  ASSUME ListInv, Begin
  PROVE  ListInv'
<1>1. PICK w \in Walks :
        /\ walk' = w
        /\ cursor' = IF w.mode = "cursor" THEN None ELSE 0
        /\ phase' = IF Valid(Clauses[w.where]) THEN "asks" ELSE "refused"
  BY DEF Begin
<1>2. phase = "idle" /\ touched' = {} /\ docs' = docs /\ leg' = leg /\ shown' = shown
  BY DEF Begin
<1>3. phase' \in {"asks", "refused"} /\ walk' \in Walk
  BY <1>1, WalksAssumption
<1>4. /\ Collection(docs) /\ leg = "forth" /\ shown.forth = << >> /\ shown.back = << >>
      /\ shown \in [forth : Seq(DOMAIN docs), back : Seq(DOMAIN docs)]
  BY <1>2 DEF ListInv, BasicInv
<1>5. BasicInv'
  BY <1>1, <1>2, <1>3, <1>4 DEF BasicInv
<1>6. DOMAIN shown.forth = {} /\ DOMAIN shown.back = {} /\ Len(shown.forth) = 0
  BY <1>4
<1>7. ShownInv'
  BY <1>2, <1>6 DEF ShownInv
<1>8. CursorInv'
  BY <1>1, <1>2, <1>3, <1>4 DEF CursorInv
<1>9. OrderInv'
  BY <1>2, <1>4, <1>6 DEF OrderInv, InOrder
<1>10. CoverInv'
  BY <1>1, <1>2, <1>3, <1>4 DEF CoverInv
<1>11. OffsetInv'
  BY <1>1, <1>2, <1>3, <1>6 DEF OffsetInv
<1> QED BY <1>5, <1>7, <1>8, <1>9, <1>10, <1>11 DEF ListInv

LEMMA InitInv ==
  ASSUME Init
  PROVE  ListInv
<1>1. /\ docs \in Initial /\ phase = "idle" /\ leg = "forth"
      /\ shown = [forth |-> << >>, back |-> << >>]
  BY DEF Init
<1>2. Collection(docs)
  BY <1>1, InitialAssumption, IdsAssumption DEF Collection
<1>3. BasicInv
  <2>1. << >> \in Seq(DOMAIN docs)
    OBVIOUS
  <2> QED BY <1>1, <1>2, <2>1 DEF BasicInv
<1>4. ShownInv /\ CursorInv /\ OrderInv /\ CoverInv /\ OffsetInv
  BY <1>1 DEF ShownInv, CursorInv, OrderInv, CoverInv, OffsetInv
<1> QED BY <1>3, <1>4 DEF ListInv

LEMMA StutterInv ==
  ASSUME ListInv, UNCHANGED vars
  PROVE  ListInv'
<1>1. /\ docs' = docs /\ phase' = phase /\ walk' = walk /\ leg' = leg /\ cursor' = cursor
      /\ shown' = shown /\ touched' = touched
  BY DEF vars, client
<1>2. BasicInv'
  BY <1>1 DEF ListInv, BasicInv
<1>3. ShownInv' /\ CursorInv'
  BY <1>1 DEF ListInv, ShownInv, CursorInv
<1>4. OrderInv' /\ CoverInv'
  BY <1>1 DEF ListInv, OrderInv, CoverInv
<1>5. OffsetInv'
  BY <1>1 DEF ListInv, OffsetInv
<1> QED BY <1>2, <1>3, <1>4, <1>5 DEF ListInv

(* The inductive invariant of a walk: it keeps the documents it was shown, *)
(* the place of its cursor among them and what it has still to show, in    *)
(* every interleaving with the writes of others.                           *)
THEOREM ListInvariant == Spec => []ListInv
<1>1. Init => ListInv
  BY InitInv
<1>2. ListInv /\ [Next]_vars => ListInv'
  <2> SUFFICES ASSUME ListInv, [Next]_vars PROVE ListInv'
    OBVIOUS
  <2> QED BY BeginInv, GoForthInv, GoBackInv, SkipInv, CountInv, CreateInv, UpdateInv, DeleteInv,
             StutterInv DEF Next
<1> QED BY <1>1, <1>2, PTL DEF Spec

-----------------------------------------------------------------------------
(* The translation of clauses.                                             *)

LEMMA ComparisonOpsAre ==
  /\ DOMAIN ComparisonOps = {"_eq", "_neq", "_gt", "_gte", "_lt", "_lte", "_in", "_nin"}
  /\ ComparisonOps["_eq"] = "$eq" /\ ComparisonOps["_neq"] = "$ne" /\ ComparisonOps["_gt"] = "$gt"
  /\ ComparisonOps["_gte"] = "$gte" /\ ComparisonOps["_lt"] = "$lt" /\ ComparisonOps["_lte"] = "$lte"
  /\ ComparisonOps["_in"] = "$in" /\ ComparisonOps["_nin"] = "$nin"
BY DEF ComparisonOps

(* All of the translation of an operator holds of a value.                 *)
Keeps(op, arg, v) ==
  \A m \in DOMAIN Translate(op, arg) : Holds(m, Translate(op, arg)[m], v)

LEMMA ConditionIs ==
  ASSUME NEW op, NEW arg, NEW m, NEW a, Translate(op, arg) = Condition(m, a), NEW v
  PROVE  Keeps(op, arg, v) <=> Holds(m, a, v)
<1>1. DOMAIN Condition(m, a) = {m} /\ Condition(m, a)[m] = a
  BY DEF Condition
<1> QED BY <1>1 DEF Keeps

(* What MongoDB does with an operator is what it means, but for patterns   *)
(* and objects.                                                            *)
LEMMA OperatorIsKept ==
  ASSUME NEW op \in Ops, op # "_like", NEW arg, op = "_is_null" => arg \in BOOLEAN, ~IsRaw(op, arg),
         NEW v
  PROVE  Keeps(op, arg, v) <=> Means(op, arg, v)
<1>1. ASSUME op \in DOMAIN ComparisonOps
      PROVE  Keeps(op, arg, v) <=> Holds(ComparisonOps[op], arg, v)
  <2>1. op \notin TextOps /\ op # "_is_null"
    BY <1>1, ComparisonOpsAre DEF TextOps
  <2>2. Translate(op, arg) = Condition(ComparisonOps[op], arg)
    BY <1>1, <2>1 DEF Translate
  <2> QED BY <2>2, ConditionIs
<1>2. CASE op = "_eq"
  <2>1. Keeps(op, arg, v) <=> Holds("$eq", arg, v)
    BY <1>1, <1>2, ComparisonOpsAre
  <2>2. Holds("$eq", arg, v) <=> Means(op, arg, v)
    BY <1>2 DEF Holds, Means
  <2> QED BY <2>1, <2>2
<1>3. CASE op = "_neq"
  <2>1. Keeps(op, arg, v) <=> Holds("$ne", arg, v)
    BY <1>1, <1>3, ComparisonOpsAre
  <2>2. Holds("$ne", arg, v) <=> Means(op, arg, v)
    BY <1>3 DEF Holds, Means
  <2> QED BY <2>1, <2>2
<1>4. CASE op = "_gt"
  <2>1. Keeps(op, arg, v) <=> Holds("$gt", arg, v)
    BY <1>1, <1>4, ComparisonOpsAre
  <2>2. Holds("$gt", arg, v) <=> Means(op, arg, v)
    BY <1>4 DEF Holds, Means
  <2> QED BY <2>1, <2>2
<1>5. CASE op = "_gte"
  <2>1. Keeps(op, arg, v) <=> Holds("$gte", arg, v)
    BY <1>1, <1>5, ComparisonOpsAre
  <2>2. Holds("$gte", arg, v) <=> Means(op, arg, v)
    BY <1>5 DEF Holds, Means
  <2> QED BY <2>1, <2>2
<1>6. CASE op = "_lt"
  <2>1. Keeps(op, arg, v) <=> Holds("$lt", arg, v)
    BY <1>1, <1>6, ComparisonOpsAre
  <2>2. Holds("$lt", arg, v) <=> Means(op, arg, v)
    BY <1>6 DEF Holds, Means
  <2> QED BY <2>1, <2>2
<1>7. CASE op = "_lte"
  <2>1. Keeps(op, arg, v) <=> Holds("$lte", arg, v)
    BY <1>1, <1>7, ComparisonOpsAre
  <2>2. Holds("$lte", arg, v) <=> Means(op, arg, v)
    BY <1>7 DEF Holds, Means
  <2> QED BY <2>1, <2>2
<1>8. CASE op = "_in"
  <2>1. Keeps(op, arg, v) <=> Holds("$in", arg, v)
    BY <1>1, <1>8, ComparisonOpsAre
  <2>2. Holds("$in", arg, v) <=> Means(op, arg, v)
    BY <1>8 DEF Holds, Means
  <2> QED BY <2>1, <2>2
<1>9. CASE op = "_nin"
  <2>1. Keeps(op, arg, v) <=> Holds("$nin", arg, v)
    BY <1>1, <1>9, ComparisonOpsAre
  <2>2. Holds("$nin", arg, v) <=> Means(op, arg, v)
    BY <1>9 DEF Holds, Means
  <2> QED BY <2>1, <2>2
<1>10. CASE op = "_is_null"
  <2>1. Translate(op, arg) = IF arg THEN Condition("$eq", Null) ELSE Condition("$ne", Null)
    BY <1>10, ComparisonOpsAre DEF Translate, TextOps
  <2>2. arg \in BOOLEAN
    BY <1>10
  <2>3. CASE arg = TRUE
    <3>1. Translate(op, arg) = Condition("$eq", Null)
      BY <2>1, <2>3
    <3>2. Keeps(op, arg, v) <=> Holds("$eq", Null, v)
      BY <3>1, ConditionIs
    <3>3. Means(op, arg, v) <=> v = Null
      BY <1>10, <2>3 DEF Means
    <3> QED BY <3>2, <3>3 DEF Holds
  <2>4. CASE arg = FALSE
    <3>1. Translate(op, arg) = Condition("$ne", Null)
      BY <2>1, <2>4
    <3>2. Keeps(op, arg, v) <=> Holds("$ne", Null, v)
      BY <3>1, ConditionIs
    <3>3. Means(op, arg, v) <=> v # Null
      BY <1>10, <2>4 DEF Means
    <3> QED BY <3>2, <3>3 DEF Holds
  <2> QED BY <2>2, <2>3, <2>4
<1>11. CASE op \in {"_contains", "_startswith", "_endswith"}
  <2> DEFINE regex == [kind |-> op, text |-> arg.at]
  <2>1. Translate(op, arg) = Condition("$regex", regex)
    BY <1>11, ComparisonOpsAre DEF Translate, TextOps, Regex
  <2>2. regex.kind = op /\ regex.text = arg.at
    OBVIOUS
  <2> HIDE DEF regex
  <2>3. Keeps(op, arg, v) <=> RegexMatches(regex, v)
    <3>1. Keeps(op, arg, v) <=> Holds("$regex", regex, v)
      BY <2>1, ConditionIs
    <3> QED BY <3>1 DEF Holds
  <2>4. RegexMatches(regex, v) <=> Means(op, arg, v)
    BY <1>11, <2>2 DEF RegexMatches, Means
  <2> QED BY <2>3, <2>4
<1> QED BY <1>2, <1>3, <1>4, <1>5, <1>6, <1>7, <1>8, <1>9, <1>10, <1>11 DEF Ops, TextOps

Apart(ops, i, j) ==
  DOMAIN Translate(ops[i].op, ops[i].value) \cap DOMAIN Translate(ops[j].op, ops[j].value) # {} => i = j

(* If no two operators of a field are one of MongoDB's, none is lost.      *)
LEMMA FieldIsKept ==
  ASSUME NEW T, NEW ops \in Seq(T), NEW v,
         \A i \in DOMAIN ops :
           /\ ops[i].op \in Ops /\ ops[i].op # "_like" /\ ~IsRaw(ops[i].op, ops[i].value)
           /\ ops[i].op = "_is_null" => ops[i].value \in BOOLEAN,
         \A i, j \in DOMAIN ops : Apart(ops, i, j)
  PROVE  (\A m \in DOMAIN FieldFilter(ops) : Holds(m, FieldFilter(ops)[m], v))
           <=> \A i \in DOMAIN ops : Means(ops[i].op, ops[i].value, v)
<1> DEFINE c == [i \in DOMAIN ops |-> Translate(ops[i].op, ops[i].value)]
           Pick(m) == CHOOSE i \in DOMAIN ops :
                        m \in DOMAIN c[i] /\ \A j \in DOMAIN ops : m \in DOMAIN c[j] => j <= i
           Named == UNION {DOMAIN c[i] : i \in DOMAIN ops}
           F == FieldFilter(ops)
<1>1. F = [m \in Named |-> c[Pick(m)][m]]
  BY DEF FieldFilter
<1>2. \A i, j \in DOMAIN ops : DOMAIN c[i] \cap DOMAIN c[j] # {} => i = j
  BY DEF Apart
<1>3. ASSUME NEW i \in DOMAIN ops
      PROVE  (\A m \in DOMAIN c[i] : Holds(m, c[i][m], v)) <=> Means(ops[i].op, ops[i].value, v)
  <2>1. Keeps(ops[i].op, ops[i].value, v) <=> Means(ops[i].op, ops[i].value, v)
    BY OperatorIsKept
  <2>2. c[i] = Translate(ops[i].op, ops[i].value)
    OBVIOUS
  <2> QED BY <2>1, <2>2 DEF Keeps
<1> HIDE DEF F, c
<1>4. ASSUME NEW i \in DOMAIN ops, NEW m \in DOMAIN c[i] PROVE m \in Named /\ Pick(m) = i
  <2>1. \A j \in DOMAIN ops : m \in DOMAIN c[j] => j = i
    BY <1>2
  <2>2. i \in Nat
    OBVIOUS
  <2> QED BY <2>1, <2>2
<1>5. \A m \in Named : \E i \in DOMAIN ops : m \in DOMAIN c[i]
  OBVIOUS
<1> HIDE DEF Pick, Named
<1>6. DOMAIN F = Named /\ \A i \in DOMAIN ops : \A m \in DOMAIN c[i] : F[m] = c[i][m]
  <2>1. DOMAIN F = Named /\ \A m \in Named : F[m] = c[Pick(m)][m]
    BY <1>1
  <2> QED BY <1>4, <2>1
<1>7. (\A m \in DOMAIN F : Holds(m, F[m], v))
        <=> \A i \in DOMAIN ops : \A m \in DOMAIN c[i] : Holds(m, c[i][m], v)
  <2>1. ASSUME \A m \in DOMAIN F : Holds(m, F[m], v), NEW i \in DOMAIN ops, NEW m \in DOMAIN c[i]
        PROVE  Holds(m, c[i][m], v)
    <3>1. m \in DOMAIN F /\ F[m] = c[i][m]
      BY <1>4, <1>6
    <3> QED BY <2>1, <3>1, Zenon
  <2>2. ASSUME \A i \in DOMAIN ops : \A m \in DOMAIN c[i] : Holds(m, c[i][m], v), NEW m \in DOMAIN F
        PROVE  Holds(m, F[m], v)
    <3>1. PICK i \in DOMAIN ops : m \in DOMAIN c[i]
      BY <1>5, <1>6
    <3>2. F[m] = c[i][m]
      BY <1>6, <3>1
    <3> QED BY <2>2, <3>1, <3>2, Zenon
  <2> QED BY <2>1, <2>2
<1> QED BY <1>3, <1>7 DEF F

(* One object of a clause and of its translation, whatever their operands  *)
(* say.                                                                    *)
LEMMA EntryIsKept ==
  ASSUME NEW c, IsClause(c), Faithful(c), NEW d, NEW f, NEW n \in DOMAIN c, NEW k \in DOMAIN c[n]
  PROVE  LET e == c[n][k]
             q == ToMongo(c)[n][k]
         IN  (CASE q.key = "$and" -> \A p \in DOMAIN q.of : f[q.of[p]]
                [] q.key = "$or"  -> \E p \in DOMAIN q.of : f[q.of[p]]
                [] q.key = "$nor" -> ~\E p \in DOMAIN q.of : f[q.of[p]]
                [] q.key \notin MongoLogicOps ->
                     \A op \in DOMAIN q.ops : Holds(op, q.ops[op], d[q.key]))
             <=> (CASE e.key = "_and" -> \A p \in DOMAIN e.of : f[e.of[p]]
                    [] e.key = "_or"  -> \E p \in DOMAIN e.of : f[e.of[p]]
                    [] e.key = "_not" -> ~f[e.of[1]]
                    [] e.key \notin LogicOps ->
                         \A i \in DOMAIN e.ops : Means(e.ops[i].op, e.ops[i].value, d[e.key]))
<1> DEFINE e == c[n][k]
           q == ToMongo(c)[n][k]
<1>1. q = IF e.key \in LogicOps THEN [key |-> MongoLogic[e.key], of |-> e.of]
          ELSE [key |-> e.key, ops |-> FieldFilter(e.ops)]
  BY DEF ToMongo
<1>2. IF e.key \in LogicOps
      THEN e.key = "_not" => DOMAIN e.of = {1}
      ELSE /\ e.key \notin MongoLogicOps /\ e.ops \in Seq(Range(e.ops))
           /\ \A i \in DOMAIN e.ops :
                e.ops[i].op \in Ops /\ (e.ops[i].op = "_is_null" => e.ops[i].value \in BOOLEAN)
  BY DEF IsClause
<1>3. ASSUME e.key \notin LogicOps
      PROVE  \A i \in DOMAIN e.ops :
               /\ e.ops[i].op # "_like" /\ ~IsRaw(e.ops[i].op, e.ops[i].value)
               /\ \A j \in DOMAIN e.ops : Apart(e.ops, i, j)
  BY <1>3 DEF Faithful, Apart
<1>4. /\ MongoLogic["_and"] = "$and" /\ MongoLogic["_or"] = "$or" /\ MongoLogic["_not"] = "$nor"
      /\ LogicOps = {"_and", "_or", "_not"} /\ MongoLogicOps = {"$and", "$or", "$nor"}
  BY DEF MongoLogic, LogicOps, MongoLogicOps
<1> HIDE DEF e, q
<1>5. CASE e.key = "_and"
  <2>1. q.key = "$and" /\ q.of = e.of
    BY <1>1, <1>4, <1>5
  <2> QED BY <1>4, <1>5, <2>1 DEF e, q
<1>6. CASE e.key = "_or"
  <2>1. q.key = "$or" /\ q.of = e.of
    BY <1>1, <1>4, <1>6
  <2> QED BY <1>4, <1>6, <2>1 DEF e, q
<1>7. CASE e.key = "_not"
  <2>1. q.key = "$nor" /\ q.of = e.of /\ DOMAIN e.of = {1}
    BY <1>1, <1>2, <1>4, <1>7
  <2> QED BY <1>4, <1>7, <2>1 DEF e, q
<1>8. CASE e.key \notin LogicOps
  <2>1. q.key = e.key /\ q.ops = FieldFilter(e.ops) /\ e.key \notin MongoLogicOps
    BY <1>1, <1>2, <1>8
  <2>2. (\A op \in DOMAIN q.ops : Holds(op, q.ops[op], d[q.key]))
          <=> \A i \in DOMAIN e.ops : Means(e.ops[i].op, e.ops[i].value, d[e.key])
    <3>1. /\ e.ops \in Seq(Range(e.ops))
          /\ \A i \in DOMAIN e.ops :
               /\ e.ops[i].op \in Ops /\ e.ops[i].op # "_like" /\ ~IsRaw(e.ops[i].op, e.ops[i].value)
               /\ e.ops[i].op = "_is_null" => e.ops[i].value \in BOOLEAN
          /\ \A i, j \in DOMAIN e.ops : Apart(e.ops, i, j)
      BY <1>2, <1>3, <1>8
    <3> QED BY <2>1, <3>1, FieldIsKept
  <2> QED BY <1>4, <1>8, <2>1, <2>2 DEF e, q
<1> QED BY <1>4, <1>5, <1>6, <1>7, <1>8

(* QueryDSL: MongoDB finds what a clause means, however it is nested, if   *)
(* it has no pattern (_text_op_to_mongo), no object for _eq                *)
(* (_translate_op) and no two operators of a field that MongoDB has one    *)
(* for (_parse_field_ops).  What it finds with one of these is said by     *)
(* EveryOperatorCounts, which does not hold.                               *)
THEOREM TranslationCorrect ==
  \A c, d : IsClause(c) /\ Faithful(c) => Matches(ToMongo(c), d) = Meant(c, d)
<1> SUFFICES ASSUME NEW c, NEW d, IsClause(c), Faithful(c)
             PROVE  Matches(ToMongo(c), d) = Meant(c, d)
  OBVIOUS
<1> DEFINE q == ToMongo(c)
           Q(f, n) == \A k \in DOMAIN q[n] :
                        LET e == q[n][k]
                        IN  CASE e.key = "$and" -> \A p \in DOMAIN e.of : f[e.of[p]]
                              [] e.key = "$or"  -> \E p \in DOMAIN e.of : f[e.of[p]]
                              [] e.key = "$nor" -> ~\E p \in DOMAIN e.of : f[e.of[p]]
                              [] e.key \notin MongoLogicOps ->
                                   \A op \in DOMAIN e.ops : Holds(op, e.ops[op], d[e.key])
           M(f, n) == \A k \in DOMAIN c[n] :
                        LET e == c[n][k]
                        IN  CASE e.key = "_and" -> \A p \in DOMAIN e.of : f[e.of[p]]
                              [] e.key = "_or"  -> \E p \in DOMAIN e.of : f[e.of[p]]
                              [] e.key = "_not" -> ~f[e.of[1]]
                              [] e.key \notin LogicOps ->
                                   \A i \in DOMAIN e.ops : Means(e.ops[i].op, e.ops[i].value, d[e.key])
<1>1. Matches(q, d) = (CHOOSE f : f = [n \in DOMAIN q |-> Q(f, n)])[Len(q)]
  BY Zenon DEF Matches
<1>2. Meant(c, d) = (CHOOSE f : f = [n \in DOMAIN c |-> M(f, n)])[Len(c)]
  BY Zenon DEF Meant
<1>3. DOMAIN q = DOMAIN c /\ Len(q) = Len(c)
  BY DEF IsClause, ToMongo
<1>4. ASSUME NEW f, NEW n \in DOMAIN c PROVE Q(f, n) <=> M(f, n)
  <2>1. DOMAIN q[n] = DOMAIN c[n]
    BY DEF ToMongo
  <2> QED BY <2>1, EntryIsKept, Zenon
<1>5. ASSUME NEW f, NEW n \in DOMAIN c PROVE Q(f, n) = M(f, n)
  BY <1>4
<1> HIDE DEF q, Q, M
<1>6. ASSUME NEW f PROVE [n \in DOMAIN q |-> Q(f, n)] = [n \in DOMAIN c |-> M(f, n)]
  BY <1>3, <1>5
<1>7. (CHOOSE f : f = [n \in DOMAIN q |-> Q(f, n)]) = CHOOSE f : f = [n \in DOMAIN c |-> M(f, n)]
  BY <1>6
<1> QED BY <1>1, <1>2, <1>3, <1>7 DEF q

-----------------------------------------------------------------------------
(* What a client is shown.                                                 *)

LEMMA LegsAre ==
  ASSUME BasicInv
  PROVE  Legs \subseteq {"forth", "back"} /\ (phase # "idle" /\ walk.mode = "offset" => Legs = {"forth"})
BY DEF Legs, BasicInv

LEMMA WhereIsClause ==
  ASSUME walk \in Walk
  PROVE  IsClause(Clauses[walk.where])
BY ClausesAssumption DEF Walk

(* ShownIsMeant: whatever others write while a client walks, what it was   *)
(* shown is what its where clause means (_parse_where) and no tombstone,   *)
(* and of an entity nobody wrote it is the last version that the clause    *)
(* means ($match before $group): it need not be the latest of all.         *)
THEOREM ShownIsMeantCorrect == Spec => []ShownIsMeant
<1>1. ListInv => ShownIsMeant
  <2> SUFFICES ASSUME ListInv, phase # "idle", Faithful(Clauses[walk.where]), NEW l \in Legs,
                      NEW n \in DOMAIN shown[l]
               PROVE  LET i == shown[l][n]
                      IN  /\ Meant(Clauses[walk.where], docs[i]) /\ docs[i].deleted_at = Null
                          /\ Untouched(i) => \A j \in DOMAIN docs :
                               docs[j].entity = docs[i].entity /\ Meant(Clauses[walk.where], docs[j])
                                 => docs[j].version <= docs[i].version
    BY DEF ShownIsMeant
  <2> DEFINE i == shown[l][n]
  <2>1. walk \in Walk /\ l \in {"forth", "back"}
    BY LegsAre DEF ListInv, BasicInv
  <2>2. /\ Finds(docs, walk, i) /\ docs[i].deleted_at = Null
        /\ docs[i].entity \notin touched => i \in ActiveIn(docs, walk)
    BY <2>1 DEF ListInv, ShownInv
  <2> HIDE DEF i
  <2>3. \A j : Finds(docs, walk, j) <=> Meant(Clauses[walk.where], docs[j])
    BY <2>1, WhereIsClause, TranslationCorrect DEF Finds
  <2>4. Untouched(i) => \A j \in DOMAIN docs :
          docs[j].entity = docs[i].entity /\ Meant(Clauses[walk.where], docs[j])
            => docs[j].version <= docs[i].version
    BY <2>2, <2>3 DEF Untouched, ActiveIn
  <2> QED BY <2>2, <2>3, <2>4 DEF i
<1> QED BY <1>1, ListInvariant, PTL

(* Documents that are live and in their places are in the list once.       *)
LEMMA PlacesAre ==
  ASSUME Collection(docs), walk \in Walk,
         NEW i \in ActiveIn(docs, walk), NEW j \in ActiveIn(docs, walk)
  PROVE  /\ Place(docs, walk, i) \in 0 .. Cardinality(ActiveIn(docs, walk)) - 1
         /\ Cardinality(ActiveIn(docs, walk)) \in Nat
         /\ Place(docs, walk, i) = Place(docs, walk, j) => i = j
         /\ Place(docs, walk, i) < Place(docs, walk, j) => ~Ahead(docs, walk, walk.order, j, i)
<1> DEFINE A == ActiveIn(docs, walk)
           R == Order(docs, walk, walk.order)
<1>1. walk.order \in {"asc", "desc"} /\ A \in SUBSET DOMAIN docs
  BY DEF Walk, ActiveIn
<1>2. IsFiniteSet(A) /\ Orders(R, A) /\ Cardinality(A) \in Nat
  BY <1>1, SortedRanks
<1>3. Place(docs, walk, i) = Cardinality(Below(R, A, i)) /\ Place(docs, walk, j) = Cardinality(Below(R, A, j))
  BY DEF Place
<1>4. i \in A /\ j \in A /\ i \in DOMAIN docs /\ j \in DOMAIN docs
  BY <1>1
<1>5. ASSUME Ahead(docs, walk, walk.order, j, i) PROVE <<j, i>> \in R
  <2>1. FieldIn(docs, walk, j) # FieldIn(docs, walk, i)
    BY <1>1, <1>4, <1>5, AheadOrders
  <2>2. ComesIn(docs, walk, walk.order, j, i)
    BY <1>5, <2>1 DEF ComesIn
  <2> QED BY <1>4, <2>2, OrderIs
<1> HIDE DEF A, R
<1>6. Cardinality(Below(R, A, i)) \in 0 .. Cardinality(A) - 1 /\ Cardinality(Below(R, A, j)) \in 0 .. Cardinality(A) - 1
  BY <1>2, <1>4, RankIsBounded
<1>7. Cardinality(Below(R, A, i)) = Cardinality(Below(R, A, j)) => i = j
  BY <1>2, <1>4, RankTellsApart
<1>8. <<j, i>> \in R => Cardinality(Below(R, A, j)) < Cardinality(Below(R, A, i))
  BY <1>2, <1>4, RankGrows
<1>9. Place(docs, walk, i) < Place(docs, walk, j) => ~Ahead(docs, walk, walk.order, j, i)
  BY <1>2, <1>3, <1>5, <1>6, <1>8
<1> QED BY <1>2, <1>3, <1>6, <1>7, <1>9 DEF A

LEMMA InvShowsInOrder ==
  ASSUME ListInv
  PROVE  ShownInOrder
<1> SUFFICES ASSUME phase # "idle",
                    IF walk.mode = "cursor" THEN walk.order = "asc" \/ ~Restarts ELSE touched = {},
                    NEW l \in Legs, NEW m \in DOMAIN shown[l], NEW n \in DOMAIN shown[l], m < n
             PROVE  LET i == shown[l][m]
                        j == shown[l][n]
                    IN  /\ i # j
                        /\ Untouched(i) => docs[i].entity # docs[j].entity
                        /\ IF walk.order = "asc" THEN ~SortsBefore(Field(j), Field(i))
                           ELSE ~SortsBefore(Field(i), Field(j))
  BY DEF ShownInOrder
<1> DEFINE i == shown[l][m]
           j == shown[l][n]
<1>1. /\ walk \in Walk /\ Collection(docs) /\ l \in {"forth", "back"}
      /\ shown \in [forth : Seq(DOMAIN docs), back : Seq(DOMAIN docs)]
      /\ walk.mode = "offset" => l = "forth"
  BY LegsAre DEF ListInv, BasicInv
<1>2. walk.mode \in {"cursor", "offset"}
  BY <1>1 DEF Walk
<1>3. shown[l] \in Seq(DOMAIN docs) /\ m \in Nat /\ n \in Nat
  BY <1>1
<1>4. i # j /\ ~Ahead(docs, walk, walk.order, j, i)
  <2>1. CASE walk.mode = "cursor"
    <3>1. StraightOn(docs, walk)
      BY <2>1 DEF StraightOn, Restarts
    <3>2. InOrder(docs, walk, shown.forth) /\ InOrder(docs, walk, shown.back)
      BY <2>1, <3>1 DEF ListInv, OrderInv
    <3>3. InOrder(docs, walk, shown[l])
      BY <1>1, <3>2
    <3> QED BY <3>3 DEF InOrder
  <2>2. CASE walk.mode = "offset"
    <3>1. /\ i \in ActiveIn(docs, walk) /\ Place(docs, walk, i) = m - 1
          /\ j \in ActiveIn(docs, walk) /\ Place(docs, walk, j) = n - 1
      BY <1>1, <2>2 DEF ListInv, OffsetInv
    <3> HIDE DEF i, j
    <3>2. Place(docs, walk, i) < Place(docs, walk, j) /\ Place(docs, walk, i) # Place(docs, walk, j)
      BY <1>3, <3>1
    <3> QED BY <1>1, <3>1, <3>2, PlacesAre
  <2> QED BY <1>2, <2>1, <2>2
<1>5. ASSUME Untouched(i), docs[i].entity = docs[j].entity PROVE FALSE
  <2>1. Found(docs, walk, touched, i) /\ Found(docs, walk, touched, j)
    BY <1>1 DEF ListInv, ShownInv, Found
  <2> HIDE DEF i, j
  <2>2. i \in ActiveIn(docs, walk) /\ j \in ActiveIn(docs, walk)
    BY <1>5, <2>1 DEF Untouched, Found
  <2> QED BY <1>1, <1>4, <1>5, <2>2, ActiveAreApart
<1>6. IF walk.order = "asc" THEN ~SortsBefore(Field(j), Field(i)) ELSE ~SortsBefore(Field(i), Field(j))
  BY <1>4 DEF Ahead, Field, FieldIn
<1> QED BY <1>4, <1>5, <1>6

(* ShownInOrder: on any walk, of list_latest_active_cursor by fields of    *)
(* any type whatever others write, of list_latest_active while nobody      *)
(* does, nothing is shown twice or after what it comes before.             *)
THEOREM ShownInOrderCorrect == Spec => []ShownInOrder
BY InvShowsInOrder, ListInvariant, PTL

(* What a walk should show is found by its pages.                          *)
LEMMA LatestIsActive ==
  ASSUME BasicInv, phase # "idle", Faithful(Clauses[walk.where]), NEW e \in Live,
         Meant(Clauses[walk.where], docs[Latest(e)])
  PROVE  Latest(e) \in ActiveIn(docs, walk) /\ docs[Latest(e)].entity = e
<1>1. Collection(docs) /\ walk \in Walk
  BY DEF BasicInv
<1>2. (\E i \in DOMAIN docs : docs[i].entity = e) /\ docs[Latest(e)].deleted_at = Null
  BY DEF Live
<1>3. /\ Latest(e) \in DOMAIN docs /\ docs[Latest(e)].entity = e
      /\ \A j \in DOMAIN docs : docs[j].entity = e => docs[j].version <= docs[Latest(e)].version
  BY <1>1, <1>2, LatestIs
<1>4. Matches(ToMongo(Clauses[walk.where]), docs[Latest(e)])
        = Meant(Clauses[walk.where], docs[Latest(e)])
  BY <1>1, WhereIsClause, TranslationCorrect
<1>5. Finds(docs, walk, Latest(e))
  BY <1>4 DEF Finds
<1> QED BY <1>2, <1>3, <1>5 DEF ActiveIn

LEMMA InvShowsAll ==
  ASSUME ListInv
  PROVE  WalkShowsAll
<1> SUFFICES ASSUME phase = "done", Faithful(Clauses[walk.where]),
                    IF walk.mode = "cursor" THEN Comparable ELSE touched = {},
                    NEW e \in Live \ touched,
                    Meant(Clauses[walk.where], docs[Latest(e)]), walk.mode = "cursor" => Alone(e),
                    NEW l \in Legs
             PROVE  Times(l, e) = 1
  BY DEF WalkShowsAll
<1> DEFINE i == Latest(e)
<1>1. BasicInv /\ walk \in Walk /\ Collection(docs)
      /\ shown \in [forth : Seq(DOMAIN docs), back : Seq(DOMAIN docs)]
  BY DEF ListInv, BasicInv
<1>2. i \in ActiveIn(docs, walk) /\ docs[i].entity = e
  BY <1>1, LatestIsActive
<1>3. l \in {"forth", "back"} /\ (l = "back" => leg = "back") /\ walk.mode \in {"cursor", "offset"}
      /\ (walk.mode = "offset" => l = "forth")
  BY <1>1, LegsAre DEF Legs, Walk
<1> HIDE DEF i
<1>4. Shows(shown[l], i)
  <2>1. CASE walk.mode = "cursor"
    <3>1. ComparableIn(docs, walk)
      BY <2>1 DEF Comparable, ComparableIn
    <3>2. i \in Settled(docs, walk, touched)
      BY <1>2, <2>1 DEF Settled, Alone, AloneIn
    <3>3. Shows(shown.forth, i) /\ (leg = "back" => Shows(shown.back, i))
      BY <2>1, <3>1, <3>2 DEF ListInv, CoverInv
    <3> QED BY <1>3, <3>3
  <2>2. CASE walk.mode = "offset"
    <3> DEFINE N == Cardinality(ActiveIn(docs, walk))
               r == Place(docs, walk, i) + 1
    <3>1. /\ \A n \in DOMAIN shown.forth :
               /\ shown.forth[n] \in ActiveIn(docs, walk)
               /\ Place(docs, walk, shown.forth[n]) = n - 1
          /\ ~(Len(shown.forth) < N)
      BY <2>2 DEF ListInv, OffsetInv
    <3>2. Place(docs, walk, i) \in 0 .. N - 1 /\ N \in Nat
      BY <1>1, <1>2, PlacesAre
    <3>3. Len(shown.forth) \in Nat /\ DOMAIN shown.forth = 1 .. Len(shown.forth)
      BY <1>1
    <3> HIDE DEF N
    <3>4. r \in DOMAIN shown.forth /\ r - 1 = Place(docs, walk, i)
      BY <3>1, <3>2, <3>3
    <3> HIDE DEF r
    <3>5. shown.forth[r] = i
      BY <1>1, <1>2, <3>1, <3>4, PlacesAre
    <3> QED BY <1>3, <2>2, <3>4, <3>5 DEF Shows
  <2> QED BY <1>3, <2>1, <2>2
<1>5. IF walk.mode = "cursor" THEN walk.order = "asc" \/ ~Restarts ELSE touched = {}
  <2>1. ASSUME Comparable PROVE ~Restarts
    BY <2>1 DEF Comparable, Restarts, IsString, Null
  <2> QED BY <2>1
<1>6. shown[l] \in Seq(DOMAIN docs) /\ DOMAIN shown[l] \subseteq Nat
  BY <1>1, <1>3
<1>7. ASSUME NEW m \in DOMAIN shown[l], NEW n \in DOMAIN shown[l],
             docs[shown[l][m]].entity = e, docs[shown[l][n]].entity = e
      PROVE  m = n
  <2>1. Untouched(shown[l][m]) /\ Untouched(shown[l][n])
    BY <1>7 DEF Untouched
  <2>2. ShownInOrder /\ phase # "idle"
    BY InvShowsInOrder
  <2>3. ~(m < n)
    BY <1>5, <1>7, <2>1, <2>2 DEF ShownInOrder
  <2>4. ~(n < m)
    BY <1>5, <1>7, <2>1, <2>2 DEF ShownInOrder
  <2> QED BY <1>6, <2>3, <2>4
<1>8. PICK n \in DOMAIN shown[l] : shown[l][n] = i
  BY <1>4 DEF Shows
<1>9. {k \in DOMAIN shown[l] : docs[shown[l][k]].entity = e} = {n}
  BY <1>2, <1>7, <1>8
<1> QED BY <1>9, FS_Singleton DEF Times

(* WalkShowsAll: a walk of list_latest_active_cursor, forth and back by    *)
(* strings, shows every live entity that its clause means, that nobody     *)
(* wrote and whose place is its own exactly once on each way, whatever     *)
(* others write around it; the offsets of list_latest_active with          *)
(* count_active do so if nobody writes.                                    *)
THEOREM WalkShowsAllCorrect == Spec => []WalkShowsAll
BY InvShowsAll, ListInvariant, PTL
=============================================================================
