-------------------------- MODULE MCSchemaStorages --------------------------
(* The directory of the service alone; a local cache, or the database, in  *)
(* front of another service's registry.                                    *)
EXTENDS SchemaStorages, TLC

Deploy(chain, through, shared) ==
  [chain |-> chain, through |-> through, shared |-> shared]

MCDeployments ==
  {Deploy(<<"file">>, TRUE, TRUE),
   Deploy(<<"file", "http">>, TRUE, FALSE),
   Deploy(<<"mongo", "http">>, FALSE, FALSE)}

Symmetry == Permutations(Bodies)
=============================================================================
