------------------------- MODULE MCRequestLifecycle -------------------------
(* Handlers for RequestLifecycle: the ETag filter and the audit trail are  *)
(* registered globally, an application hook on the schema; nobody listens  *)
(* to post_bulk.                                                           *)
EXTENDS RequestLifecycle, TLC

MCGlobal ==
  [e \in Events |-> CASE e = "pre"  -> <<"etag">>
                      [] e = "post" -> <<"audit">>
                      [] OTHER      -> << >>]

MCSchema ==
  [e \in Events |-> IF e = "post_bulk" THEN << >> ELSE <<"user">>]

(* A smaller instance: the application's hook only guards writes.          *)
MCGuard ==
  [e \in Events |-> IF e = "pre" THEN <<"user">> ELSE << >>]

(* No application hook.                                                    *)
MCNobody == [e \in Events |-> << >>]

Symmetry ==
  Permutations(Clients) \cup Permutations(Entities) \cup Permutations(Values)
=============================================================================
