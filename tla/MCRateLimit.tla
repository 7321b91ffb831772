---------------------------- MODULE MCRateLimit -----------------------------
(* A route that is narrow and strict, and one that is wide and generous.   *)
EXTENDS RateLimit

MCLimit  == [r \in Routes |-> IF r = "narrow" THEN 2 ELSE 3]
MCWindow == [r \in Routes |-> IF r = "narrow" THEN 3 ELSE 5]
=============================================================================
