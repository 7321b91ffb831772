----------------------------- MODULE MCListing ------------------------------
(* Three entities and one to come, or two of which one has a history;      *)
(* walks by updated_by with every kind of clause, and by creation with     *)
(* none.                                                                   *)
EXTENDS Listing

seven == String(<<55>>)
a  == String(<<97>>)
ab == String(<<97, 98>>)
b  == String(<<98>>)

MCUsers == {seven, a, ab, Null}

Fresh ==
  {[i \in {1, 3, 4} |-> Document(i, by[i], Date(i))] : by \in [{1, 3, 4} -> MCUsers]}

(* The first entity has a second version, which may be a tombstone.        *)
Histories ==
  {[i \in {1, 3, 4} |->
      CASE i = 1 -> Document(1, by[1], Date(1))
        [] i = 3 -> [Document(1, by[3], Date(1)) EXCEPT !.version = 2, !.deleted_at = deleted]
        [] i = 4 -> Document(2, by[4], Date(2))] :
     by \in [{1, 3, 4} -> {a, ab}], deleted \in {Null, Date(3)}}

MCInitial == Fresh \cup Histories

One(op, value) == <<On("updated_by", <<Op(op, value)>>)>>

MCClauses ==
  <<<< << >> >>,
    <<<<On("updated_by", <<Op("_gte", seven), Op("_lt", ab)>>)>>>>,
    <<One("_startswith", a), <<Logic("_not", <<1>>)>>>>,
    <<One("_is_null", TRUE), One("_endswith", b), <<Logic("_or", <<1, 2>>)>>>>,
    <<One("_nin", {ab})>>,
    << << >>, <<Logic("_and", <<1>>)>>, <<Logic("_and", <<2>>)>>>>,
    <<<<On("deleted_at", <<Op("_is_null", TRUE)>>), On("updated_by", <<Op("_neq", Null)>>)>>>>,
    <<<<On("name", <<Op("_eq", a)>>)>>>>,
    <<<<On("updated_by", <<Op("_startswith", a), Op("_endswith", b)>>)>>>>,
    <<One("_like", String(<<97, Percent>>))>>,
    <<One("_eq", Object([x \in {"$gte"} |-> a]))>>,
    <<<<On("updated_by", <<Op("_gte", ab), Op("_eq", Object([x \in {"$gte"} |-> a]))>>)>>>>>>

Cursors ==
  {w \in [mode : {"cursor"}, sort_by : {"updated_by"}, order : {"asc", "desc"}, size : {1, 2},
          where : 1 .. 5] : w.size = 2 => w.where \in {1, 4}}
ByCreation == [mode : {"cursor"}, sort_by : {"created_at"}, order : {"desc"}, size : {2}, where : {1}]
Offsets == [mode : {"offset"}, sort_by : {"updated_by"}, order : {"asc"}, size : {2},
            where : {1, 6, 7, 8, 11}]

MCWalks == Cursors \cup ByCreation \cup Offsets

(* Walks with clauses that are not translated as they are meant.           *)
Mistranslated ==
  [mode : {"offset"}, sort_by : {"updated_by"}, order : {"asc"}, size : {2}, where : 9 .. 12]
Patterns == {w \in Mistranslated : w.where = 10}
=============================================================================
