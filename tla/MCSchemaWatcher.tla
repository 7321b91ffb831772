-------------------------- MODULE MCSchemaWatcher ---------------------------
(* Schemas of their own, or a schema that refers to all the others.        *)
EXTENDS SchemaWatcher, TLC

NoRefs == [s \in Schemas |-> {}]

OneRefersToOthers ==
  LET one == CHOOSE s \in Schemas : TRUE
  IN  [s \in Schemas |-> IF s = one THEN Schemas \ {one} ELSE {}]

Symmetry == Permutations(Schemas) \cup Permutations(Bodies)
=============================================================================
