---------------------------- MODULE SQLRequests -----------------------------
(***************************************************************************)
(* A request on an entity that is stored in an SQL database: the executor  *)
(* (core/operation.py) over SQLRepository, inside the session that app.py  *)
(* opens for the request, with the webhooks and streams of Notifications   *)
(* as its post handlers.                                                   *)
(*                                                                         *)
(* The session is a FastAPI dependency: it commits after the endpoint has  *)
(* returned, and rolls back when an exception leaves the endpoint.  The    *)
(* exceptions of the items of a bulk request do not leave it, unless the   *)
(* request is atomic.  FastAPI before 0.118 commits before it sends the    *)
(* answer, later ones after it; the project allows both.  In any case the  *)
(* post handlers have run before the commit.                               *)
(***************************************************************************)
EXTENDS Integers, Sequences, Functions

CONSTANTS
  Clients,                                      \* concurrent requests
  Entities, Values, NoValue, Arrays, Backends, MaxRows,  \* SQLRepository
  Urls, Wants, MaxRetries, Adapters, Calls, MaxHooks,    \* Notifications
  Ops,          \* "create", "update", "delete"
  Bodies,       \* what the clients send: see Body
  Scenarios,    \* the scenarios and the traffic explored: see Scenario
  MaxEvents     \* bound of the model: events of a client

ASSUME OpsAssumption == Ops = {"create", "update", "delete"}

VARIABLES
  backend, table, view, own, draft, aborted, raced,             \* SQLRepository
  webhooks, job, emitted, records, inbox, air, stream,          \* Notifications
  scenario,   \* which of them it is
  req         \* client -> its request

repoVars  == <<backend, table, view, own, draft, aborted, raced>>
tellVars  == <<webhooks, job, emitted, records, inbox, air, stream>>
vars == <<repoVars, tellVars, scenario, req>>

Repo == INSTANCE SQLRepository WITH Sessions <- Clients

NoRow   == << >>
Results == {s \in Seq(Repo!Row) : Len(s) <= 1}

Tell == INSTANCE Notifications

ASSUME ParametersAssumption == Repo!Parameters /\ Tell!Parameters

NoEntity == "none"
Items ==
  [op : {"create"}, entity : {NoEntity}, value : Repo!Payloads]
  \cup [op : {"update"}, entity : Entities, value : Repo!Payloads]
  \cup [op : {"delete"}, entity : Entities, value : {NoValue}]

(* A bulk request is all of one operation; atomic=true makes it atomic.    *)
Body == [mode : {"single", "bulk", "atomic"}, items : Seq(Items)]

ASSUME BodiesAssumption ==
  /\ Bodies \subseteq Body
  /\ \A b \in Bodies :
       /\ b.items # << >>
       /\ b.mode = "single" => Len(b.items) = 1
       /\ \A i \in DOMAIN b.items : b.items[i].op = b.items[1].op

Idle ==
  [phase   |-> "idle",
   mode    |-> "single",
   items   |-> << >>,
   entity  |-> NoRow,    \* ctx.entity
   result  |-> NoRow,    \* ctx.result
   results |-> << >>,    \* one per item done: [ok, row]
   wrote   |-> {},       \* history: rows this request inserted
   failed  |-> FALSE,    \* history: the database failed in this request
   unsure  |-> FALSE,    \* history: its commit raised
   status  |-> "none"]   \* what the client was answered

(* The database; what FastAPI does first when an endpoint has returned;    *)
(* who sends requests, and which; bounds of the events of a client and of  *)
(* the webhooks: without events, no webhook or stream is set up.           *)
Scenario == [on : Backends, first : {"answer", "commit"}, users : SUBSET Clients,
             bodies : SUBSET Bodies, events : 0 .. MaxEvents, hooks : 0 .. MaxHooks]

Tells == scenario.events > 0

ASSUME ScenariosAssumption == Scenarios \subseteq Scenario

-----------------------------------------------------------------------------
Current(r) == r.items[Len(r.results) + 1]

(* An item is hydrated first, unless it is created.                        *)
Begin(r) ==
  [r EXCEPT !.phase  = IF Current(r).op = "create" THEN "pre" ELSE "hydrate",
            !.entity = NoRow, !.result = NoRow]

(* The endpoint returns: the dependency commits, before or after the       *)
(* answer is sent.                                                         *)
Returns(r) ==
  IF scenario.first = "answer"
  THEN [r EXCEPT !.phase = "commit", !.status = "ok"]
  ELSE [r EXCEPT !.phase = "commit"]

NextItem(r) == IF Len(r.results) = Len(r.items) THEN Returns(r) ELSE Begin(r)

ItemDone(r) ==
  NextItem([r EXCEPT !.results = Append(@, [ok |-> TRUE, row |-> r.result])])

(* An exception leaves the endpoint, or is the item's result.              *)
Raised(r) ==
  LET s == [r EXCEPT !.results = Append(@, [ok |-> FALSE, row |-> NoRow])]
  IN  IF r.mode = "bulk" THEN NextItem(s) ELSE [s EXCEPT !.phase = "rollback"]

(* The service has returned: a row, or None.                               *)
Served(r, result) ==
  [r EXCEPT !.phase  = "post",
            !.result = IF result = NoRow /\ Current(r).op = "update"
                       THEN r.entity ELSE result]

Sets(c, r) == req' = [req EXCEPT ![c] = r]

-----------------------------------------------------------------------------
Init ==
  /\ Repo!Init
  /\ Tell!Init
  /\ scenario \in Scenarios
  /\ scenario.on = backend
  /\ req = [c \in Clients |-> Idle]

(* A request arrives, with a session of its own.                           *)
Receive(c) ==
  /\ req[c].phase = "idle"
  /\ c \in scenario.users
  /\ \E b \in scenario.bodies :
       /\ Tells => emitted[c] + Len(b.items) <= scenario.events
       /\ Sets(c, Begin([Idle EXCEPT !.mode = b.mode, !.items = b.items]))
  /\ UNCHANGED <<repoVars, tellVars, scenario>>

(* Mutant of Hydrate: what is not found rolls the session back.            *)
MutNotFoundRollsBack(c) ==
  /\ req[c].phase = "hydrate"
  /\ LET rows == Repo!Rows(c)
         e == Current(req[c]).entity
     IN  \/ /\ Repo!Select(c)
            /\ \E i \in Repo!GetsIn(rows, e) :
                 Sets(c, IF Repo!Validates(rows[i])
                         THEN [req[c] EXCEPT !.entity = <<rows[i]>>, !.phase = "pre"]
                         ELSE Raised(req[c]))
         \/ /\ Repo!GetsIn(rows, e) = {}
            /\ Repo!Rollback(c)
            /\ Sets(c, Raised(req[c]))
  /\ UNCHANGED <<tellVars, scenario>>

(* get_by_entity_id: not found raises, and so does a row that the document *)
(* model refuses.                                                          *)
Hydrate(c) ==
  /\ req[c].phase = "hydrate"
  /\ Repo!Select(c)
  /\ LET rows == Repo!Rows(c)
         e == Current(req[c]).entity
     IN  \/ \E i \in Repo!GetsIn(rows, e) :
              Sets(c, IF Repo!Validates(rows[i])
                      THEN [req[c] EXCEPT !.entity = <<rows[i]>>, !.phase = "pre"]
                      ELSE Raised(req[c]))
         \/ /\ Repo!GetsIn(rows, e) # Repo!LatestIn(rows, e) \/ Repo!LatestIn(rows, e) = {}
            /\ Sets(c, Raised(req[c]))
  /\ UNCHANGED <<tellVars, scenario>>

(* The pre_* handlers pass or raise.                                       *)
RunPreHooks(c) ==
  /\ req[c].phase = "pre"
  /\ \E r \in {[req[c] EXCEPT !.phase = "call"], Raised(req[c])} : Sets(c, r)
  /\ UNCHANGED <<repoVars, tellVars, scenario>>

Inserted(c, row) ==
  LET r == [req[c] EXCEPT !.wrote = @ \cup {row}]
  IN  IF Repo!Validates(row) THEN Served(r, <<row>>) ELSE Raised(r)

CallCreate(c) ==
  /\ req[c].phase = "call"
  /\ Current(req[c]).op = "create"
  /\ Repo!Create(c, Current(req[c]).value)
  /\ Sets(c, Inserted(c, own'[c][Len(own'[c])]))
  /\ UNCHANGED <<tellVars, scenario>>

(* update and delete: the select ...                                       *)
CallWrite(c) ==
  /\ req[c].phase = "call"
  /\ draft[c] = << >>
  /\ Current(req[c]).op # "create"
  /\ \/ Repo!SelectNone(c, Current(req[c])) /\ Sets(c, Served(req[c], NoRow))
     \/ Repo!SelectLatest(c, Current(req[c])) /\ UNCHANGED req
  /\ UNCHANGED <<tellVars, scenario>>

(* ... and the insert.                                                     *)
Insert(c) ==
  /\ req[c].phase = "call"
  /\ Repo!InsertDraft(c)
  /\ Sets(c, Inserted(c, draft[c][1]))
  /\ UNCHANGED <<tellVars, scenario>>

(* A statement raises; all of them do once the transaction is aborted.     *)
StatementFails(c) ==
  /\ req[c].phase \in {"hydrate", "call"}
  /\ Repo!Fail(c)
  /\ Sets(c, Raised([req[c] EXCEPT !.failed = TRUE]))
  /\ UNCHANGED <<tellVars, scenario>>

-----------------------------------------------------------------------------
(* The post_* event: webhooks and streams, and the application's hooks     *)
(* before, between and after them.                                         *)

StartPost(c) ==
  /\ Tells
  /\ req[c].phase = "post"
  /\ Tell!Emit(c, Current(req[c]).op, req[c].result)
  /\ Sets(c, [req[c] EXCEPT !.phase = "telling"])
  /\ UNCHANGED <<repoVars, scenario>>

RunPost(c) ==
  /\ req[c].phase = "telling"
  /\ Tell!Handle(c)
  /\ UNCHANGED <<repoVars, scenario, req>>

FinishPost(c) ==
  /\ IF Tells
     THEN req[c].phase = "telling" /\ Tell!Finish(c)
     ELSE req[c].phase = "post" /\ UNCHANGED tellVars
  /\ Sets(c, ItemDone(req[c]))
  /\ UNCHANGED <<repoVars, scenario>>

(* EventBus.emit runs the handlers in their order, and ends at the first   *)
(* that raises: a hook of the application before the webhooks, of whom     *)
(* then nobody hears of the event, or a handler after them.                *)
PostRaises(c) ==
  /\ \/ req[c].phase = "post" /\ UNCHANGED tellVars
     \/ req[c].phase = "telling" /\ Tell!Raise(c)
  /\ Sets(c, Raised(req[c]))
  /\ UNCHANGED <<repoVars, scenario>>

-----------------------------------------------------------------------------
(* get_sql_db after its yield.                                             *)

CommitSession(c) ==
  /\ req[c].phase = "commit"
  /\ Repo!Commit(c)
  /\ Sets(c, [req[c] EXCEPT !.phase = "done", !.status = "ok"])
  /\ UNCHANGED <<tellVars, scenario>>

(* The commit raises: rollback, and an error unless the answer is gone.    *)
(* The rollback comes too late if only the database's answer was lost.     *)
CommitFails(c) ==
  /\ req[c].phase = "commit"
  /\ Repo!Rollback(c) \/ Repo!Commit(c)
  /\ Sets(c, [req[c] EXCEPT !.phase = "done", !.failed = TRUE, !.unsure = TRUE,
                            !.status = IF @ = "ok" THEN "ok" ELSE "error"])
  /\ UNCHANGED <<tellVars, scenario>>

(* Mutant of RollbackSession: the dependency commits in any case.          *)
MutCommitsAlways(c) ==
  /\ req[c].phase = "rollback"
  /\ Repo!Commit(c)
  /\ Sets(c, [req[c] EXCEPT !.phase = "done", !.status = "error"])
  /\ UNCHANGED <<tellVars, scenario>>

(* An exception has left the endpoint: rollback, then the error is sent.   *)
RollbackSession(c) ==
  /\ req[c].phase = "rollback"
  /\ Repo!Rollback(c)
  /\ Sets(c, [req[c] EXCEPT !.phase = "done", !.status = "error"])
  /\ UNCHANGED <<tellVars, scenario>>

Forget(c) ==
  /\ req[c].phase = "done"
  /\ Sets(c, Idle)
  /\ UNCHANGED <<repoVars, tellVars, scenario>>

(* Mutant of Die: the handlers of the event outlive the request.           *)
MutDieGoesOn(c) ==
  /\ req[c].phase \notin {"idle", "done"}
  /\ Repo!Rollback(c)
  /\ Sets(c, Idle)
  /\ UNCHANGED <<tellVars, scenario>>

(* The worker dies: the database rolls the session back.                   *)
Die(c) ==
  /\ req[c].phase \notin {"idle", "done"}
  /\ Repo!Rollback(c)
  /\ IF Tell!Busy(c) THEN Tell!Abandon(c) ELSE UNCHANGED tellVars
  /\ Sets(c, Idle)
  /\ UNCHANGED scenario

(* Registration and late copies, whatever the requests do.                 *)
Outside ==
  /\ (Tell!Configure /\ Len(webhooks') <= scenario.hooks) \/ Tell!Arrive
  /\ UNCHANGED <<repoVars, scenario, req>>

Step(c) ==
  \/ Hydrate(c)
  \/ RunPreHooks(c)
  \/ CallCreate(c)
  \/ CallWrite(c)
  \/ Insert(c)
  \/ StatementFails(c)
  \/ StartPost(c)
  \/ RunPost(c)
  \/ FinishPost(c)
  \/ PostRaises(c)
  \/ CommitSession(c)
  \/ CommitFails(c)
  \/ RollbackSession(c)

Next ==
  \/ \E c \in Clients : Receive(c) \/ Step(c) \/ Forget(c) \/ Die(c)
  \/ Outside

Spec == Init /\ [][Next]_vars

-----------------------------------------------------------------------------
Request ==
  [phase : {"idle", "hydrate", "pre", "call", "post", "telling", "commit",
            "rollback", "done"},
   mode : {"single", "bulk", "atomic"}, items : Seq(Items),
   entity : Results, result : Results,
   results : Seq([ok : BOOLEAN, row : Results]),
   wrote : SUBSET Repo!Row, failed : BOOLEAN, unsure : BOOLEAN,
   status : {"none", "ok", "error"}]

TypeOK ==
  /\ Repo!TypeOK
  /\ Tell!TypeOK
  /\ scenario \in Scenarios
  /\ req \in [Clients -> Request]
  /\ \A c \in Clients : Tell!Busy(c) <=> req[c].phase = "telling"

Stored(row) == \E i \in DOMAIN table : table[i] = row

(* Whoever is answered with an error has stored nothing: neither the items *)
(* of an atomic request before the one that failed, nor a row that was     *)
(* inserted before a post_* handler or the document model raised.  Only if *)
(* it was the commit that raised may the rows be there, and then all are.  *)
ErrorStoresNoPart ==
  \A c \in Clients : req[c].status = "error" =>
    \/ \A row \in req[c].wrote : ~Stored(row)
    \/ req[c].unsure /\ \A row \in req[c].wrote : Stored(row)

(* As long as the database does not fail in the request, the rows its      *)
(* results and its events show are stored when it is over, whatever else   *)
(* runs, dies or is rolled back.                                           *)
SettledIsStored ==
  \A c \in Clients :
    req[c].phase = "done" /\ req[c].status = "ok" /\ ~req[c].failed =>
      /\ \A k \in DOMAIN req[c].results :
           req[c].results[k].row # NoRow => Stored(req[c].results[k].row[1])
      /\ \A row \in req[c].wrote : Stored(row)

(* The requests are just sessions to the repository.                       *)
ImplementsTree == Repo!ImplementsTree
LinearUnlessRaced == Repo!LinearUnlessRaced

AcknowledgedIsNotResent == Tell!AcknowledgedIsNotResent
InOrder == Tell!InOrder
NobodyIsSkipped == Tell!NobodyIsSkipped

-----------------------------------------------------------------------------
(* What a client or a reader may take for granted and the code does not    *)
(* keep.                                                                   *)

(* An error has stored nothing: not if it is the commit's, whose answer    *)
(* may be lost (app.py:380-384).                                           *)
ErrorStoresNothing ==
  \A c \in Clients : req[c].status = "error" =>
    \A row \in req[c].wrote : ~Stored(row)

(* docs/events.md:115: post_update fires "After update" with the "updated  *)
(* doc" (and so do the others); with SQL, what was published may never be  *)
(* stored.                                                                 *)
PublishedIsStored ==
  \A a \in Adapters : \A i \in DOMAIN stream[a] :
    LET p == stream[a][i]
    IN  p.shows # NoRow /\ req[p.event.by].phase \in {"idle", "done"}
        => Stored(p.shows[1])

(* core/bulk.py:1: an item with status "error" failed; it may be stored.   *)
FailedItemIsNotStored ==
  \A c \in Clients :
    req[c].phase = "done" /\ (\A k \in DOMAIN req[c].results : ~req[c].results[k].ok)
    => \A row \in req[c].wrote : ~Stored(row)
=============================================================================
