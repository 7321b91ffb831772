-------------------------- MODULE MCVersionedCRUD --------------------------
(* Model values for VersionedCRUD: clients and contents are                *)
(* interchangeable, and so are the entities of either kind of id.          *)
EXTENDS VersionedCRUD, TLC

Symmetry ==
  UNION {Permutations(S) : S \in {Clients, Values, GivenIds, Entities \ GivenIds}}
=============================================================================
