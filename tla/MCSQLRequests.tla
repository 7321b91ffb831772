--------------------------- MODULE MCSQLRequests ----------------------------
(* Webhooks that are tried once or twice, and one adapter.                 *)
EXTENDS SQLRequests, TLC

Postgres == [snapshot |-> FALSE, aborts |-> TRUE]
MySQL    == [snapshot |-> TRUE,  aborts |-> FALSE]

MCBackends   == {Postgres, MySQL}
Urgent       == CHOOSE u \in Urls : TRUE
MCWants      == [u \in Urls |-> Ops]
MCMaxRetries == [u \in Urls |-> IF u = Urgent THEN 2 ELSE 1]
MCCalls      == << CHOOSE a \in Adapters : TRUE >>

Plain == CHOOSE v \in Values \ Arrays : TRUE
Array == CHOOSE v \in Arrays : TRUE
Update(e, v) == [op |-> "update", entity |-> e, value |-> v]
Delete(e)    == [op |-> "delete", entity |-> e, value |-> NoValue]

Single(items) == [mode : {"single"}, items : {<<i>> : i \in items}]

(* Two writes that succeed; one that does not after one that does.         *)
BothPass == {<<Update(e, NoValue), Update(e, NoValue)>> : e \in Entities}
Half     == {<<Update(e, NoValue), Update(e, Array)>> : e \in Entities}
Twice    == {<<Delete(e), Delete(e)>> : e \in Entities}

MCBodies ==
  Single(Items) \cup [mode : {"bulk", "atomic"}, items : BothPass \cup Half \cup Twice]

Quiet == [first |-> "answer", events |-> 0, hooks |-> 0]

(* Requests race where nobody listens.                                     *)
Racing(b) ==
  Quiet @@ [on |-> b, users |-> Clients,
            bodies |-> Single({i \in Items : i.value = (IF i.op = "create" THEN Plain ELSE NoValue)})
                       \cup [mode : {"atomic"}, items : Half]]

Alone(c) ==
  [Quiet EXCEPT !.first = "commit"] @@ [on |-> Postgres, users |-> {c}, bodies |-> MCBodies]

(* Two events for one webhook, or one for two.                             *)
Telling(c, events) ==
  [on |-> Postgres, first |-> "answer", users |-> {c}, events |-> events,
   hooks |-> 3 - events,
   bodies |-> IF events = 1 THEN Single({Update(e, NoValue) : e \in Entities})
              ELSE [mode : {"bulk"}, items : BothPass]]

MCScenarios ==
  {Racing(b) : b \in Backends} \cup {Alone(c) : c \in Clients}
  \cup {Telling(c, n) : c \in Clients, n \in 1 .. 2}

Symmetry == Permutations(Clients) \cup Permutations(Entities)
=============================================================================
