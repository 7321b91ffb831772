------------------------------ MODULE Listing -------------------------------
(***************************************************************************)
(* Lists: the list endpoint (endpoint_factory.py), execute_list            *)
(* (operation.py), and list_latest_active, list_latest_active_cursor and   *)
(* count_active of the repository (generic_crud.py) with the cursors of    *)
(* core/pagination.py.                                                     *)
(*                                                                         *)
(* A client walks through a list, page by page, while others write.  With  *)
(* cursors it goes forth until there is no next page, and back again until *)
(* there is no previous one; with offsets it goes on until it has as many  *)
(* as the total count.  A page is one aggregation, the count another.      *)
(***************************************************************************)
EXTENDS Queries, FiniteSets

CONSTANTS
  Entities,   \* identities
  Users,      \* values of updated_by
  Ids,        \* values of _id
  Initial,    \* collections that are there at first
  Clauses,    \* where clauses explored, a sequence
  Walks,      \* walks explored: see Walk
  MaxWrites   \* bound of the model: writes by others

Dates == [type : {"date"}, at : Seq(Nat)]

(* The fields that lists are sorted and filtered by.                       *)
Doc ==
  [entity : Entities, version : Nat, updated_by : Text \cup {Null}, created_at : Dates,
   deleted_at : Dates \cup {Null}]

(* Fields of the schema are refused by parse_sort_param.                   *)
Walk ==
  [mode : {"cursor", "offset"}, sort_by : {"updated_by", "created_at"}, order : {"asc", "desc"},
   size : Nat \ {0}, where : DOMAIN Clauses]

ASSUME WalksAssumption == Walks \subseteq Walk
ASSUME ClausesAssumption == \A n \in DOMAIN Clauses : IsClause(Clauses[n])
ASSUME IdsAssumption == Ids \subseteq Nat \ {0}
ASSUME UsersAssumption == Users \subseteq Text \cup {Null}
(* No two writers gave one number twice.                                   *)
ASSUME InitialAssumption ==
  \A c \in Initial :
    /\ IsFiniteSet(DOMAIN c) /\ DOMAIN c \subseteq Ids
    /\ \A i \in DOMAIN c : c[i] \in Doc
    /\ \A i, j \in DOMAIN c : c[i].entity = c[j].entity /\ c[i].version = c[j].version => i = j
ASSUME MaxWritesAssumption == MaxWrites \in Nat

VARIABLES
  docs,     \* the collection: _id -> document
  writes,   \* how many writes there were
  phase,    \* of the client
  walk,     \* its walk
  leg,      \* "forth" or "back"
  cursor,   \* of the next page: a Cursor, an offset, or None
  shown,    \* history: leg -> the _ids it was shown, page next to page
  touched   \* history: entities written since the walk began

client == <<phase, walk, leg, cursor, shown>>
vars == <<docs, writes, client, touched>>

-----------------------------------------------------------------------------
(* The repository.                                                         *)

None == [value |-> Null, id |-> 0]

(* _id is a random UUID.                                                   *)
FreshIds == Ids \ DOMAIN docs
Stored(id, doc) == docs' = [i \in DOMAIN docs \cup {id} |-> IF i = id THEN doc ELSE docs[i]]

Now == Date(Cardinality(DOMAIN docs) + 1)

Document(e, user, created) ==
  [entity |-> e, version |-> 1, updated_by |-> user, created_at |-> created, deleted_at |-> Null]

LatestAmong(ids) ==
  {i \in ids : ~\E j \in ids : docs[j].entity = docs[i].entity /\ docs[j].version > docs[i].version}

(* The pipeline before sorting: the filter, then the latest version of     *)
(* what it leaves, unless deleted.                                         *)
Active ==
  LET query == ToMongo(Clauses[walk.where])
      found == {i \in DOMAIN docs : Matches(query, docs[i])}
  IN  {i \in LatestAmong(found) : docs[i].deleted_at = Null}

Opposite == [asc |-> "desc", desc |-> "asc"]

Field(i) == docs[i][walk.sort_by]

(* $sort by the field, then by descending _id.                             *)
Comes(order, i, j) ==
  LET v == Field(i)
      w == Field(j)
  IN  IF v = w THEN i > j
      ELSE IF order = "asc" THEN SortsBefore(v, w) ELSE SortsBefore(w, v)

Sorted(ids, order) ==
  [n \in 1 .. Cardinality(ids) |->
     CHOOSE i \in ids : Cardinality({j \in ids : Comes(order, j, i)}) = n - 1]

(* encode_cursor: strings; str of None is "None", of a date begins with a  *)
(* digit.  No document lacks the field, of which str would be "".  An _id  *)
(* is a UUID, which never compares with a string.                          *)
Str(v) ==
  CASE v.type = "string" -> v
    [] v.type = "null"   -> String(<<78, 111, 110, 101>>)
    [] v.type = "date"   -> String(<<50>>)
Cursor(i) == [value |-> Str(Field(i)), id |-> i]

(* Mutant of IsAfter: what equals the cursor comes after it, too.          *)
MutIsAfter(i, order, c) ==
  \/ Field(i) = c.value
  \/ IF order = "asc" THEN IsLess(c.value, Field(i)) ELSE IsLess(Field(i), c.value)

(* The keyset filter: of the two alternatives the one for ties compares    *)
(* the _id with a string and never holds.                                  *)
IsAfter(i, order, c) ==
  IF order = "asc" THEN IsLess(c.value, Field(i)) ELSE IsLess(Field(i), c.value)

Take(s, n) == SubSeq(s, 1, IF n < Len(s) THEN n ELSE Len(s))
Drop(s, n) == SubSeq(s, n + 1, Len(s))

(* Mutant of CursorPage: on the way back, too, a page comes after a cursor *)
(* in the order of the walk.                                               *)
MutCursorPage ==
  LET order == IF leg = "back" THEN Opposite[walk.order] ELSE walk.order
      ids   == {i \in Active : cursor = None \/ IsAfter(i, walk.order, cursor)}
      raw   == Take(Sorted(ids, order), walk.size + 1)
      page  == Take(raw, walk.size)
  IN  [items |-> IF leg = "back" THEN Reverse(page) ELSE page,
       more  |-> Len(raw) > walk.size]

(* list_latest_active_cursor: one document more than the page tells        *)
(* whether there are more.                                                 *)
CursorPage ==
  LET order == IF leg = "back" THEN Opposite[walk.order] ELSE walk.order
      ids   == {i \in Active : cursor = None \/ IsAfter(i, order, cursor)}
      raw   == Take(Sorted(ids, order), walk.size + 1)
      page  == Take(raw, walk.size)
  IN  [items |-> IF leg = "back" THEN Reverse(page) ELSE page,
       more  |-> Len(raw) > walk.size]

(* list_latest_active.                                                     *)
OffsetPage == Take(Drop(Sorted(Active, walk.order), cursor), walk.size)

-----------------------------------------------------------------------------
(* The client.                                                             *)

Begin ==
  /\ phase = "idle"
  /\ \E w \in Walks :
       /\ walk' = w
       /\ cursor' = IF w.mode = "cursor" THEN None ELSE 0
       /\ phase' = IF Valid(Clauses[w.where]) THEN "asks" ELSE "refused"
  /\ touched' = {}
  /\ UNCHANGED <<docs, writes, leg, shown>>

(* A page with after.                                                      *)
GoForth ==
  /\ phase = "asks" /\ walk.mode = "cursor" /\ leg = "forth"
  /\ LET page == CursorPage
         turns == ~page.more /\ cursor # None /\ page.items # << >>
     IN  /\ shown' = [forth |-> shown.forth \o page.items,
                      back  |-> IF turns THEN page.items ELSE << >>]
         /\ CASE page.more -> cursor' = Cursor(Last(page.items)) /\ UNCHANGED <<phase, leg>>
              [] turns -> /\ leg' = "back"
                          /\ cursor' = Cursor(Head(page.items))
                          /\ UNCHANGED phase
              [] OTHER -> phase' = "done" /\ UNCHANGED <<leg, cursor>>
  /\ UNCHANGED <<docs, writes, walk, touched>>

(* A page with before and last.                                            *)
GoBack ==
  /\ phase = "asks" /\ walk.mode = "cursor" /\ leg = "back"
  /\ LET page == CursorPage
     IN  /\ shown' = [shown EXCEPT !.back = page.items \o @]
         /\ IF page.more THEN cursor' = Cursor(Head(page.items)) /\ UNCHANGED phase
            ELSE phase' = "done" /\ UNCHANGED cursor
  /\ UNCHANGED <<docs, writes, walk, leg, touched>>

(* A page with skip and limit.                                             *)
Skip ==
  /\ phase = "asks" /\ walk.mode = "offset"
  /\ shown' = [shown EXCEPT !.forth = @ \o OffsetPage]
  /\ phase' = "counts"
  /\ UNCHANGED <<docs, writes, walk, leg, cursor, touched>>

(* count_active comes after the list; the envelope tells whether there is  *)
(* more.  If counting fails it does not, and the client goes on until a    *)
(* page is empty.                                                          *)
Count ==
  /\ phase = "counts"
  /\ \E more \in {Len(shown.forth) < Cardinality(Active), Len(shown.forth) > cursor} :
       IF more THEN cursor' = Len(shown.forth) /\ phase' = "asks"
       ELSE phase' = "done" /\ UNCHANGED cursor
  /\ UNCHANGED <<docs, writes, walk, leg, shown, touched>>

-----------------------------------------------------------------------------
(* Others write.                                                           *)

Latest(e) == CHOOSE i \in LatestAmong(DOMAIN docs) : docs[i].entity = e
Live ==
  {e \in Entities : (\E i \in DOMAIN docs : docs[i].entity = e) /\ docs[Latest(e)].deleted_at = Null}

Writes(e, doc) ==
  /\ writes < MaxWrites
  /\ writes' = writes + 1
  /\ \E id \in FreshIds : Stored(id, doc)
  /\ touched' = touched \cup {e}
  /\ UNCHANGED client

Create ==
  \E e \in Entities, user \in Users :
    /\ ~\E i \in DOMAIN docs : docs[i].entity = e
    /\ Writes(e, Document(e, user, Now))

Update ==
  \E e \in Live, user \in Users :
    Writes(e, [docs[Latest(e)] EXCEPT !.version = @ + 1, !.updated_by = user])

Delete ==
  \E e \in Live, user \in Users :
    Writes(e, [docs[Latest(e)] EXCEPT !.version = @ + 1, !.updated_by = user, !.deleted_at = Now])

Init ==
  /\ docs \in Initial
  /\ writes = 0
  /\ phase = "idle"
  /\ walk = None /\ leg = "forth" /\ cursor = None
  /\ shown = [forth |-> << >>, back |-> << >>]
  /\ touched = {}

Next == Begin \/ GoForth \/ GoBack \/ Skip \/ Count \/ Create \/ Update \/ Delete

Spec == Init /\ [][Next]_vars
-----------------------------------------------------------------------------
Legs == IF leg = "back" THEN {"forth", "back"} ELSE {"forth"}

Untouched(i) == docs[i].entity \notin touched

Times(l, e) == Cardinality({n \in DOMAIN shown[l] : docs[shown[l][n]].entity = e})

(* No other entity has, or had, the same value in the field.               *)
Alone(e) ==
  \A i, j \in DOMAIN docs :
    docs[i].entity = e /\ docs[j].entity # e => docs[i].updated_by # docs[j].updated_by

(* A cursor is all a later page knows of an earlier one: that suffices for *)
(* strings.                                                                *)
Comparable ==
  walk.sort_by = "updated_by" /\ \A i \in DOMAIN docs : IsString(docs[i].updated_by)

(* A null has the cursor of the string "None", and strings that were shown *)
(* before it come after that.                                              *)
Restarts ==
  \E i, j \in DOMAIN docs :
    /\ docs[i].updated_by = Null /\ IsString(docs[j].updated_by)
    /\ IsLess(docs[j].updated_by, Str(Null))

(* At the end of its walk a client has seen every entity that the where    *)
(* clause means, that nobody wrote, and whose place in the list is its     *)
(* own, exactly once on every way, whatever others did to the entities     *)
(* around it; with offsets only if nobody wrote at all.                    *)
WalkShowsAll ==
  /\ phase = "done" /\ Faithful(Clauses[walk.where])
  /\ IF walk.mode = "cursor" THEN Comparable ELSE touched = {}
  => \A e \in Live \ touched :
       Meant(Clauses[walk.where], docs[Latest(e)]) /\ (walk.mode = "cursor" => Alone(e)) =>
         \A l \in Legs : Times(l, e) = 1

(* Nothing is shown twice, no entity that nobody wrote is, and everything  *)
(* is shown before what follows it, on any walk with cursors, by fields of *)
(* any type, unless it begins again after a null.                          *)
ShownInOrder ==
  /\ phase # "idle"
  /\ IF walk.mode = "cursor" THEN walk.order = "asc" \/ ~Restarts ELSE touched = {}
  => \A l \in Legs : \A m, n \in DOMAIN shown[l] :
       LET i == shown[l][m]
           j == shown[l][n]
       IN  m < n =>
             /\ i # j
             /\ Untouched(i) => docs[i].entity # docs[j].entity
             /\ IF walk.order = "asc" THEN ~SortsBefore(Field(j), Field(i))
                ELSE ~SortsBefore(Field(i), Field(j))

(* What is shown is what the clause means and no tombstone, and unless     *)
(* somebody wrote the entity meanwhile it is the last of its versions that *)
(* the clause means.  It may not be the latest of all: see ShownIsLatest.  *)
ShownIsMeant ==
  LET means(i) == Meant(Clauses[walk.where], docs[i])
  IN  phase # "idle" /\ Faithful(Clauses[walk.where]) =>
        \A l \in Legs : \A n \in DOMAIN shown[l] :
          LET i == shown[l][n]
          IN  /\ means(i) /\ docs[i].deleted_at = Null
              /\ Untouched(i) => \A j \in DOMAIN docs :
                   docs[j].entity = docs[i].entity /\ means(j) => docs[j].version <= docs[i].version

-----------------------------------------------------------------------------
(* What the documentation says and the code does not keep.                 *)

(* tests/test_cursor_pagination.py:167: after an end_cursor in the default *)
(* order, by created_at, "we get a non-empty response".  A date is never   *)
(* greater or less than the string in the cursor: the page is empty.       *)
NextPageShows ==
  [][GoForth /\ cursor # None /\ touched = {} => Len(shown'.forth) > Len(shown.forth)]_vars

(* generic_crud.py:233: a next page has the "rows that come *after* the    *)
(* cursor in the effective sort order".  A null comes after every string   *)
(* in descending order, and the page after it begins with those below its  *)
(* cursor, "None".                                                         *)
NextPageFollows ==
  phase = "asks" /\ walk.mode = "cursor" /\ leg = "forth" /\ cursor # None =>
    \A n \in DOMAIN CursorPage.items : ~Comes(walk.order, CursorPage.items[n], cursor.id)

(* generic_crud.py:267: ties are broken by _id "for stability".  The next  *)
(* page begins after all that ties with the end of this one.               *)
TiesAreShown ==
  phase = "done" /\ walk.mode = "cursor" /\ touched = {} /\ Comparable =>
    \A e \in Live : Meant(Clauses[walk.where], docs[Latest(e)]) => Times("forth", e) = 1

(* generic_crud.py:168: the list is of the "latest active versions".  The  *)
(* clause comes before the latest version is chosen: an older one that it  *)
(* means is shown, even of an entity that is deleted.                      *)
ShownIsLatest ==
  phase # "idle" =>
    \A n \in DOMAIN shown.forth :
      LET i == shown.forth[n]
      IN  Untouched(i) => docs[i].entity \in Live /\ i = Latest(docs[i].entity)

(* endpoint_factory.py:642: {"name":{"_eq":"Alice"},"age":{"_gt":18}} is   *)
(* the example of a where clause.  Nothing tells the endpoint that a       *)
(* schema has such a field, and it answers 400.                            *)
ExampleIsAnswered ==
  phase = "refused" =>
    ~\E value \in Users : Clauses[walk.where] = <<<<On("name", <<Op("_eq", value)>>)>>>>

(* core/query.py:268: "SQL LIKE: % -> .*", of the operators of a field all *)
(* count (query.py:213), and MongoDB's language "is never exposed"         *)
(* (query.py:6).  Patterns are literal, an operator replaces one before it *)
(* with the same name for MongoDB, and an object that a field should equal *)
(* is taken for operators.                                                 *)
EveryOperatorCounts ==
  phase \notin {"idle", "refused"} =>
    \A i \in DOMAIN docs : Matches(ToMongo(Clauses[walk.where]), docs[i])
                              = Meant(Clauses[walk.where], docs[i])
=============================================================================
