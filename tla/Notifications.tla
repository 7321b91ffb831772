--------------------------- MODULE Notifications ----------------------------
(***************************************************************************)
(* WebhookDispatcher (core/webhooks.py), EventStreamBridge                 *)
(* (adapters/streaming/base.py) and the @publish hooks (registry.py): what *)
(* the post_create, post_update and post_delete handlers tell the outside. *)
(*                                                                         *)
(* The handlers run inside the request: they await one delivery after the  *)
(* other and swallow what a delivery raises.  A webhook is tried up to     *)
(* max_retries times, until it answers 2xx.  An attempt without an answer  *)
(* in time may have been received, or be received later.  A stream adapter *)
(* is called once: by the bridge with what the request submitted, by       *)
(* @publish with the result of the request.                                *)
(***************************************************************************)
EXTENDS Naturals, Sequences, Functions

CONSTANTS
  Clients,     \* those whose requests emit events
  Ops,         \* "create", "update", "delete"
  Results,     \* what ctx.result may be
  Urls,        \* receivers of webhooks
  Wants,       \* url -> events it is registered for
  MaxRetries,  \* url -> max_retries
  Adapters,    \* stream adapters
  Calls,       \* the adapters called for an event, bridge and @publish hooks in order
  MaxHooks,    \* bound of the model: registered webhooks
  MaxEvents    \* bound of the model: events of a client

(* What is assumed of them, by the modules that instantiate this one.      *)
Parameters ==
  /\ Wants \in [Urls -> SUBSET Ops]
  /\ MaxRetries \in [Urls -> Nat]
  /\ Calls \in Seq(Adapters)
  /\ MaxHooks \in Nat /\ MaxEvents \in Nat

VARIABLES
  webhooks,    \* registered urls, in the order of registration
  job,         \* client -> what its post handlers still have to do
  emitted,     \* client -> number of its events
  records,     \* _deliveries, as a set
  inbox,       \* url -> the copies it received, in order
  air,         \* attempts that timed out and may still be received
  stream       \* adapter -> what was published to it, in order

vars == <<webhooks, job, emitted, records, inbox, air, stream>>

Event == [by : Clients, nth : 1 .. MaxEvents, op : Ops]

NoJob == [stage |-> "none"]

Busy(c) == job[c] # NoJob

(* matched: the webhooks found for the event; hooks: those not yet done;   *)
(* tries: attempts made for the first of them; calls: the adapters not yet *)
(* called.                                                                 *)
Job == [stage : {"hooks", "streams"}, event : Event, result : Results,
        matched : Seq(Urls), hooks : Seq(Urls), tries : Nat,
        calls : Seq(Adapters)]

(* A copy of an event: left tells the webhooks of one dispatch apart; the  *)
(* sender had given up waiting for a late one.                             *)
Copy == [event : Event, left : Nat, acked : BOOLEAN, late : BOOLEAN]

Publication == [event : Event, shows : Results]

Init ==
  /\ webhooks = << >>
  /\ job = [c \in Clients |-> NoJob]
  /\ emitted = [c \in Clients |-> 0]
  /\ records = {}
  /\ inbox = [u \in Urls |-> << >>]
  /\ air = {}
  /\ stream = [a \in Adapters |-> << >>]

-----------------------------------------------------------------------------
(* A list comprehension: those of the list s that are in the set S.        *)
Keep(s, S) ==
  LET kept[n \in 0 .. Len(s)] ==
        IF n = 0 THEN << >>
        ELSE IF s[n] \in S THEN Append(kept[n - 1], s[n]) ELSE kept[n - 1]
  IN  kept[Len(s)]

(* Registration, at any time.                                              *)

Add(u) ==
  /\ Len(webhooks) < MaxHooks
  /\ webhooks' = Append(webhooks, u)
  /\ UNCHANGED <<job, emitted, records, inbox, air, stream>>

(* All webhooks of the url go, from a new list: a dispatch under way goes  *)
(* on with the webhooks it has found.                                      *)
Remove(u) ==
  /\ u \in Range(webhooks)
  /\ webhooks' = Keep(webhooks, Urls \ {u})
  /\ UNCHANGED <<job, emitted, records, inbox, air, stream>>

-----------------------------------------------------------------------------
(* The handlers of one event.                                              *)

(* _matching_webhooks.                                                     *)
Matching(op) == Keep(webhooks, {u \in Urls : op \in Wants[u]})

(* The post event of an operation is emitted: _dispatch.                   *)
Emit(c, op, result) ==
  /\ ~Busy(c)
  /\ emitted[c] < MaxEvents
  /\ emitted' = [emitted EXCEPT ![c] = @ + 1]
  /\ job' = [job EXCEPT ![c] =
       [stage |-> "hooks", event |-> [by |-> c, nth |-> emitted'[c], op |-> op],
        result |-> result, matched |-> Matching(op), hooks |-> Matching(op),
        tries |-> 0, calls |-> Calls]]
  /\ UNCHANGED <<webhooks, records, inbox, air, stream>>

Tries(c) ==
  /\ job[c].stage = "hooks"
  /\ job[c].hooks # << >>
  /\ job[c].tries < MaxRetries[Head(job[c].hooks)]

(* What _deliver appends to _deliveries.                                   *)
Recorded(c, success) ==
  records' = records \cup
    {[url |-> Head(job[c].hooks), event |-> job[c].event, success |-> success]}

Sent(c) == [event |-> job[c].event, left |-> Len(job[c].hooks),
            acked |-> FALSE, late |-> FALSE]

Receives(u, copy) == inbox' = [inbox EXCEPT ![u] = Append(@, copy)]

Retried(j)  == [j EXCEPT !.tries = @ + 1]
NextHook(j) == [j EXCEPT !.hooks = Tail(@), !.tries = 0]

(* Mutant of AttemptAcknowledged: the loop goes on after a success.        *)
MutGoesOnTrying(c) ==
  /\ Tries(c)
  /\ Receives(Head(job[c].hooks), [Sent(c) EXCEPT !.acked = TRUE])
  /\ Recorded(c, TRUE)
  /\ job' = [job EXCEPT ![c] = Retried(@)]
  /\ UNCHANGED <<webhooks, emitted, air, stream>>

(* The receiver answers 2xx.                                               *)
AttemptAcknowledged(c) ==
  /\ Tries(c)
  /\ Receives(Head(job[c].hooks), [Sent(c) EXCEPT !.acked = TRUE])
  /\ Recorded(c, TRUE)
  /\ job' = [job EXCEPT ![c] = NextHook(@)]
  /\ UNCHANGED <<webhooks, emitted, air, stream>>

(* Mutant of AttemptRefused: the retry is left to the background.          *)
MutRetriesInBackground(c) ==
  /\ Tries(c)
  /\ Recorded(c, FALSE)
  /\ air' = air \cup {[url |-> Head(job[c].hooks), copy |-> Sent(c)]}
  /\ job' = [job EXCEPT ![c] = NextHook(@)]
  /\ UNCHANGED <<webhooks, emitted, inbox, stream>>

(* The receiver answers something else.                                    *)
AttemptRefused(c) ==
  /\ Tries(c)
  /\ Receives(Head(job[c].hooks), Sent(c))
  /\ Recorded(c, FALSE)
  /\ job' = [job EXCEPT ![c] = Retried(@)]
  /\ UNCHANGED <<webhooks, emitted, air, stream>>

(* No answer in time: it was received, it will be, or it never is.         *)
AttemptUnanswered(c) ==
  /\ Tries(c)
  /\ LET u == Head(job[c].hooks) IN
       \/ Receives(u, Sent(c)) /\ UNCHANGED air
       \/ air' = air \cup {[url |-> u, copy |-> [Sent(c) EXCEPT !.late = TRUE]]} /\ UNCHANGED inbox
       \/ UNCHANGED <<inbox, air>>
  /\ job' = [job EXCEPT ![c] = Retried(@)]
  /\ UNCHANGED <<webhooks, emitted, records, stream>>

(* Mutant of GiveUp: a webhook that fails ends the loop.                   *)
MutGiveUpOnAll(c) ==
  /\ job[c].stage = "hooks"
  /\ job[c].hooks # << >>
  /\ ~Tries(c)
  /\ Recorded(c, FALSE)
  /\ job' = [job EXCEPT ![c].hooks = << >>]
  /\ UNCHANGED <<webhooks, emitted, inbox, air, stream>>

(* All attempts have failed: one more record, and the next webhook.        *)
GiveUp(c) ==
  /\ job[c].stage = "hooks"
  /\ job[c].hooks # << >>
  /\ ~Tries(c)
  /\ Recorded(c, FALSE)
  /\ job' = [job EXCEPT ![c] = NextHook(@)]
  /\ UNCHANGED <<webhooks, emitted, inbox, air, stream>>

(* A copy whose sender has given up waiting.                               *)
Arrive ==
  /\ \E m \in air :
       /\ Receives(m.url, m.copy)
       /\ air' = air \ {m}
  /\ UNCHANGED <<webhooks, job, emitted, records, stream>>

StartStreams(c) ==
  /\ job[c].stage = "hooks"
  /\ job[c].hooks = << >>
  /\ job' = [job EXCEPT ![c].stage = "streams"]
  /\ UNCHANGED <<webhooks, emitted, records, inbox, air, stream>>

(* publish_hook, and _publish_event likewise: what an adapter raises is    *)
(* logged, and costs it the event.                                         *)
Published(a, event, result) ==
  stream' \in {stream, [stream EXCEPT ![a] = Append(@, [event |-> event, shows |-> result])]}

Publish(c) ==
  /\ job[c].stage = "streams"
  /\ job[c].calls # << >>
  /\ Published(Head(job[c].calls), job[c].event, job[c].result)
  /\ job' = [job EXCEPT ![c].calls = Tail(@)]
  /\ UNCHANGED <<webhooks, emitted, records, inbox, air>>

(* A handler after the webhooks raises, and the handlers after it do not   *)
(* run: publish_hook itself, when a template does not fit or the result    *)
(* cannot be dumped, _publish_event likewise, or the application's own.    *)
Raise(c) ==
  /\ job[c].stage = "streams"
  /\ job' = [job EXCEPT ![c] = NoJob]
  /\ UNCHANGED <<webhooks, emitted, records, inbox, air, stream>>

(* All the handlers have returned.                                         *)
Finish(c) ==
  /\ job[c].stage = "streams"
  /\ job[c].calls = << >>
  /\ job' = [job EXCEPT ![c] = NoJob]
  /\ UNCHANGED <<webhooks, emitted, records, inbox, air, stream>>

(* The worker dies in the middle.                                          *)
Abandon(c) ==
  /\ job' = [job EXCEPT ![c] = NoJob]
  /\ UNCHANGED <<webhooks, emitted, records, inbox, air, stream>>

Handle(c) ==
  \/ AttemptAcknowledged(c)
  \/ AttemptRefused(c)
  \/ AttemptUnanswered(c)
  \/ GiveUp(c)
  \/ StartStreams(c)
  \/ Publish(c)

Configure == \E u \in Urls : Add(u) \/ Remove(u)

Next ==
  \/ Configure
  \/ Arrive
  \/ \E c \in Clients :
       \/ \E op \in Ops, r \in Results : Emit(c, op, r)
       \/ Handle(c)
       \/ Finish(c) \/ Raise(c)
       \/ Busy(c) /\ Abandon(c)

Spec == Init /\ [][Next]_vars

-----------------------------------------------------------------------------
TypeOK ==
  /\ webhooks \in Seq(Urls)
  /\ job \in [Clients -> {NoJob} \cup Job]
  /\ emitted \in [Clients -> 0 .. MaxEvents]
  /\ records \subseteq [url : Urls, event : Event, success : BOOLEAN]
  /\ inbox \in [Urls -> Seq(Copy)]
  /\ air \subseteq [url : Urls, copy : Copy]
  /\ stream \in [Adapters -> Seq(Publication)]

(* Once a receiver has acknowledged an event, its webhook is not sent it   *)
(* again: what still comes is a copy whose attempt had timed out before.   *)
AcknowledgedIsNotResent ==
  \A u \in Urls : \A i, j \in DOMAIN inbox[u] :
    /\ i < j
    /\ inbox[u][i].acked
    /\ inbox[u][j].event = inbox[u][i].event
    /\ inbox[u][j].left = inbox[u][i].left
    => inbox[u][j].late

(* A receiver, and an adapter, sees the events of a client that waits for  *)
(* its answers in the order in which they happened, retries included: the  *)
(* handlers run inside the request.  Only a copy whose attempt has timed   *)
(* out comes late.                                                         *)
InOrder ==
  /\ \A u \in Urls : \A i, j \in DOMAIN inbox[u] :
       /\ i < j
       /\ ~inbox[u][j].late
       /\ inbox[u][i].event.by = inbox[u][j].event.by
       => inbox[u][i].event.nth <= inbox[u][j].event.nth
  /\ \A a \in Adapters : \A i, j \in DOMAIN stream[a] :
       i < j /\ stream[a][i].event.by = stream[a][j].event.by
       => stream[a][i].event.nth <= stream[a][j].event.nth

(* No receiver is skipped because of another one: when the dispatch is     *)
(* past a webhook, _deliveries says what became of it, and a success is    *)
(* only recorded of what was received.                                     *)
NobodyIsSkipped ==
  /\ \A c \in Clients : Busy(c) =>
       \A i \in 1 .. Len(job[c].matched) - Len(job[c].hooks) :
         \E r \in records : r.event = job[c].event /\ r.url = job[c].matched[i]
  /\ \A r \in records : r.success =>
       \E i \in DOMAIN inbox[r.url] : inbox[r.url][i].event = r.event
=============================================================================
