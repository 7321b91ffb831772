------------------------------ MODULE Queries -------------------------------
(***************************************************************************)
(* The where clauses of a list request (core/query.py): what they mean,    *)
(* the MongoDB filter QueryDSL makes of them, and what MongoDB does with   *)
(* that.                                                                   *)
(*                                                                         *)
(* A value has a BSON type and a content, by which values of one type are  *)
(* ordered; that of a string is the sequence of its character codes, of    *)
(* one case.  A clause, a nested JSON object, is the table of the objects  *)
(* in it, each before the one it is in and the clause itself as the last.  *)
(* An object is a sequence of entries: a field with operators, or a        *)
(* logical operator with the places of its operands in the table.          *)
(*                                                                         *)
(* Documents have every field a valid clause may name; paths into fields   *)
(* are left out, as are _exists, the letter case of _ilike and objects     *)
(* that hold no operator.                                                  *)
(***************************************************************************)
EXTENDS Naturals, Sequences, SequencesExt

CONSTANT MaxDepth     \* _MAX_DEPTH

ASSUME MaxDepthAssumption == MaxDepth \in Nat

String(codes) == [type |-> "string", at |-> codes]
Date(n)       == [type |-> "date", at |-> <<n>>]
Null          == [type |-> "null", at |-> << >>]

(* A JSON object given for a value: names of operators with their values.  *)
Object(operators) == [type |-> "object", operators |-> operators]
IsObject(v) == v.type = "object"

Text == [type : {"string"}, at : Seq(Nat)]

(* At the first place where they differ, s has ended or has less.          *)
Less(s, t) ==
  \E i \in DOMAIN t :
    /\ \A j \in 1 .. i - 1 : j \in DOMAIN s /\ s[j] = t[j]
    /\ i \in DOMAIN s => s[i] < t[i]

(* Comparisons do not cross types; sorting does.                           *)
IsLess(v, w) == v.type = w.type /\ Less(v.at, w.at)
TypeOrder == [null |-> 0, string |-> 1, date |-> 2]
SortsBefore(v, w) == TypeOrder[v.type] < TypeOrder[w.type] \/ IsLess(v, w)

IsString(v) == v.type = "string"
IsWithin(p, s) == \E i \in 0 .. Len(s) : IsPrefix(p, SubSeq(s, i + 1, Len(s)))

-----------------------------------------------------------------------------
(* Clauses.                                                                *)

LogicOps == {"_and", "_or", "_not"}
TextOps  == {"_like", "_contains", "_startswith", "_endswith"}
Ops == {"_eq", "_neq", "_gt", "_gte", "_lt", "_lte", "_in", "_nin", "_is_null"} \cup TextOps

On(field, ops) == [key |-> field, ops |-> ops]
Op(op, value)  == [op |-> op, value |-> value]
Logic(op, operands) == [key |-> op, of |-> operands]

MongoLogicOps == {"$and", "$or", "$nor"}

(* MongoDB refuses "$and" and "$or" of nothing, and fields of their names. *)
IsClause(clause) ==
  /\ clause \in Seq(Range(clause)) /\ clause # << >>
  /\ \A n \in DOMAIN clause : \A k \in DOMAIN clause[n] :
       LET e == clause[n][k]
       IN  IF e.key \in LogicOps
           THEN /\ e.of # << >> /\ \A p \in DOMAIN e.of : e.of[p] \in 1 .. n - 1
                /\ e.key = "_not" => DOMAIN e.of = {1}
           ELSE /\ e.key \notin MongoLogicOps /\ e.ops \in Seq(Range(e.ops))
                /\ \A i \in DOMAIN e.ops :
                     /\ e.ops[i].op \in Ops
                     /\ e.ops[i].op = "_is_null" => e.ops[i].value \in BOOLEAN

Percent == 37
Underscore == 95
Like(pattern, s) ==
  LET like[i \in 0 .. Len(pattern), j \in 0 .. Len(s)] ==
        CASE i = 0 -> j = 0
          [] i > 0 /\ pattern[i] = Percent -> \E l \in 0 .. j : like[i - 1, l]
          [] i > 0 /\ pattern[i] # Percent ->
               j > 0 /\ pattern[i] \in {Underscore, s[j]} /\ like[i - 1, j - 1]
  IN  like[Len(pattern), Len(s)]

(* What an operator says of a value.                                       *)
Means(op, arg, v) ==
  CASE op = "_eq"  -> v = arg
    [] op = "_neq" -> v # arg
    [] op = "_gt"  -> IsLess(arg, v)
    [] op = "_gte" -> v = arg \/ IsLess(arg, v)
    [] op = "_lt"  -> IsLess(v, arg)
    [] op = "_lte" -> v = arg \/ IsLess(v, arg)
    [] op = "_in"  -> v \in arg
    [] op = "_nin" -> v \notin arg
    [] op = "_like"       -> IsString(v) /\ Like(arg.at, v.at)
    [] op = "_startswith" -> IsString(v) /\ IsPrefix(arg.at, v.at)
    [] op = "_endswith"   -> IsString(v) /\ IsSuffix(arg.at, v.at)
    [] op = "_contains"   -> IsString(v) /\ IsWithin(arg.at, v.at)
    [] op = "_is_null"    -> (v = Null) = arg

(* Everything a clause says holds of a document.                           *)
Meant(clause, doc) ==
  LET meant[n \in DOMAIN clause] ==
        \A k \in DOMAIN clause[n] :
          LET e == clause[n][k]
          IN  CASE e.key = "_and" -> \A p \in DOMAIN e.of : meant[e.of[p]]
                [] e.key = "_or"  -> \E p \in DOMAIN e.of : meant[e.of[p]]
                [] e.key = "_not" -> ~meant[e.of[1]]
                [] e.key \notin LogicOps ->
                     \A i \in DOMAIN e.ops : Means(e.ops[i].op, e.ops[i].value, doc[e.key])
  IN  meant[Len(clause)]

-----------------------------------------------------------------------------
(* QueryDSL.                                                               *)

(* The fields of the framework, of which documents of the model have       *)
(* these.  A registration has no schema_dict, from which the endpoint and  *)
(* the resolver would learn those of the schema.                           *)
Filterable == {"created_at", "updated_by", "deleted_at"}

(* _parse_where raises nothing.                                            *)
Valid(clause) ==
  LET valid[n \in DOMAIN clause, depth \in 0 .. MaxDepth + 1] ==
        /\ depth <= MaxDepth
        /\ \A k \in DOMAIN clause[n] :
             LET e == clause[n][k]
             IN  IF e.key \in LogicOps THEN \A p \in DOMAIN e.of : valid[e.of[p], depth + 1]
                 ELSE /\ e.key \in Filterable
                      /\ \A i \in DOMAIN e.ops :
                           e.ops[i].op \in TextOps => IsString(e.ops[i].value)
  IN  valid[Len(clause), 0]

Condition(mongo, arg) == [op \in {mongo} |-> arg]
Regex(kind, arg) == Condition("$regex", [kind |-> kind, text |-> arg.at])

(* Mutant of ComparisonOps: _lt includes what it is given.                 *)
MutComparisonOps ==
  [_eq |-> "$eq", _neq |-> "$ne", _gt |-> "$gt", _gte |-> "$gte", _lt |-> "$lte",
   _lte |-> "$lte", _in |-> "$in", _nin |-> "$nin"]

ComparisonOps ==
  [_eq |-> "$eq", _neq |-> "$ne", _gt |-> "$gt", _gte |-> "$gte", _lt |-> "$lt",
   _lte |-> "$lte", _in |-> "$in", _nin |-> "$nin"]

IsRaw(op, arg) == op = "_eq" /\ IsObject(arg)

(* _translate_op, to operators of MongoDB: the value of _eq is returned as *)
(* it is, and one that is an object is taken for operators.                *)
Translate(op, arg) ==
  CASE op \in DOMAIN ComparisonOps ->
         IF IsRaw(op, arg) THEN arg.operators ELSE Condition(ComparisonOps[op], arg)
    [] op \in TextOps  -> Regex(op, arg)
    [] op = "_is_null" -> IF arg THEN Condition("$eq", Null) ELSE Condition("$ne", Null)

(* _parse_field_ops: one dictionary, in which a later operator replaces    *)
(* one of the same name.                                                   *)
FieldFilter(ops) ==
  LET dicts == [i \in DOMAIN ops |-> Translate(ops[i].op, ops[i].value)]
      last(mongo) == CHOOSE i \in DOMAIN ops :
                       /\ mongo \in DOMAIN dicts[i]
                       /\ \A j \in DOMAIN ops : mongo \in DOMAIN dicts[j] => j <= i
  IN  [mongo \in UNION {DOMAIN dicts[i] : i \in DOMAIN ops} |-> dicts[last(mongo)][mongo]]

MongoLogic == [_and |-> "$and", _or |-> "$or", _not |-> "$nor"]

(* _parse_where.                                                           *)
ToMongo(clause) ==
  [n \in DOMAIN clause |->
     [k \in DOMAIN clause[n] |->
        LET e == clause[n][k]
        IN  IF e.key \in LogicOps THEN [key |-> MongoLogic[e.key], of |-> e.of]
            ELSE [key |-> e.key, ops |-> FieldFilter(e.ops)]]]

-----------------------------------------------------------------------------
(* MongoDB.                                                                *)

(* re.escape leaves % and _ alone: a LIKE pattern is matched literally.    *)
RegexMatches(regex, v) ==
  /\ IsString(v)
  /\ CASE regex.kind = "_like"       -> v.at = regex.text
       [] regex.kind = "_contains"   -> IsWithin(regex.text, v.at)
       [] regex.kind = "_startswith" -> IsPrefix(regex.text, v.at)
       [] regex.kind = "_endswith"   -> IsSuffix(regex.text, v.at)

Holds(op, arg, v) ==
  CASE op = "$eq"  -> v = arg
    [] op = "$ne"  -> v # arg
    [] op = "$gt"  -> IsLess(arg, v)
    [] op = "$gte" -> v = arg \/ IsLess(arg, v)
    [] op = "$lt"  -> IsLess(v, arg)
    [] op = "$lte" -> v = arg \/ IsLess(v, arg)
    [] op = "$in"  -> v \in arg
    [] op = "$nin" -> v \notin arg
    [] op = "$regex" -> RegexMatches(arg, v)

Matches(query, doc) ==
  LET matches[n \in DOMAIN query] ==
        \A k \in DOMAIN query[n] :
          LET e == query[n][k]
          IN  CASE e.key = "$and" -> \A p \in DOMAIN e.of : matches[e.of[p]]
                [] e.key = "$or"  -> \E p \in DOMAIN e.of : matches[e.of[p]]
                [] e.key = "$nor" -> ~\E p \in DOMAIN e.of : matches[e.of[p]]
                [] e.key \notin MongoLogicOps ->
                     \A op \in DOMAIN e.ops : Holds(op, e.ops[op], doc[e.key])
  IN  matches[Len(query)]

-----------------------------------------------------------------------------
(* The clauses that are translated as they are meant: no pattern, no       *)
(* object, and no two operators of a field that are one of MongoDB's.      *)
Faithful(clause) ==
  \A n \in DOMAIN clause : \A k \in DOMAIN clause[n] :
    LET e == clause[n][k]
        mongo(i) == DOMAIN Translate(e.ops[i].op, e.ops[i].value)
    IN  e.key \notin LogicOps =>
          \A i \in DOMAIN e.ops :
            /\ e.ops[i].op # "_like" /\ ~IsRaw(e.ops[i].op, e.ops[i].value)
            /\ \A j \in DOMAIN e.ops : mongo(i) \cap mongo(j) # {} => i = j
=============================================================================
