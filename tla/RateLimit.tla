----------------------------- MODULE RateLimit ------------------------------
(***************************************************************************)
(* RateLimitFilter (adapters/api/filters/rate_limit.py): one deque of      *)
(* timestamps per key, shared by all the routes, each of which has its own *)
(* limit and window.  A request drops the head of its key's deque with the *)
(* window of ITS route, then is rejected or appended.  Nothing is awaited  *)
(* while the lock is held, so a request is one step.                       *)
(*                                                                         *)
(* Time is an integer number of ticks, Second of which make a second:      *)
(* Retry-After is in whole seconds.                                        *)
(***************************************************************************)
EXTENDS Integers, Sequences

CONSTANTS
  Keys,           \* rate-limit keys: client addresses, users
  Routes,         \* route classes, the default one included
  Limit, Window,  \* of each route, as _resolve_limit gives them
  DefaultWindow,  \* the window cleanup_expired uses
  Second,         \* ticks in a second
  MaxTime         \* bound of the model: the clock stops there

ASSUME LimitAssumption   == Limit \in [Routes -> Nat]
ASSUME WindowAssumption  == Window \in [Routes -> Nat]
ASSUME DefaultAssumption == DefaultWindow \in Nat
ASSUME SecondAssumption  == Second \in Nat \ {0}

VARIABLES
  now,      \* the monotonic clock
  store,    \* key -> deque of timestamps; << >> when the key is absent
  log,      \* history: key -> all accepted requests, oldest first
  last      \* the answer to the latest request

vars == <<now, store, log, last>>

Accepted == [at : Nat, route : Routes]

NoAnswer == [status |-> 0]

(* The while loop of _evict_expired stops after n timestamps.              *)
Drops(times, cutoff, n) ==
  /\ n \in 0 .. Len(times)
  /\ \A i \in 1 .. n : times[i] < cutoff
  /\ n < Len(times) => times[n + 1] >= cutoff

From(times, n) == SubSeq(times, n + 1, Len(times))

(* Mutant of Kept: the window's edge is dropped too (<= for <).            *)
MutKeptWithoutEdge(k, w) ==
  {From(store[k], n) : n \in {m \in 0 .. Len(store[k]) :
                                Drops(store[k], now - w + 1, m)}}

(* The deque of key k after eviction with window w: a set with one member. *)
Kept(k, w) ==
  {From(store[k], n) : n \in {m \in 0 .. Len(store[k]) :
                                Drops(store[k], now - w, m)}}

(* _reset_in: the oldest timestamp kept leaves the window then.            *)
ResetIn(times, w) ==
  IF times = << >> \/ times[1] + w < now THEN 0 ELSE times[1] + w - now

(* Mutant of RetryAfter: rounded down.                                     *)
MutRetryRoundsDown(times, w) == ResetIn(times, w) \div Second

RetryAfter(times, w) == ResetIn(times, w) \div Second + 1

-----------------------------------------------------------------------------
Init ==
  /\ now = 0
  /\ store = [k \in Keys |-> << >>]
  /\ log = [k \in Keys |-> << >>]
  /\ last = NoAnswer

(* on_request, below the limit.                                            *)
Accept(k, r) ==
  \E times \in Kept(k, Window[r]) :
    /\ Len(times) < Limit[r]
    /\ store' = [store EXCEPT ![k] = Append(times, now)]
    /\ log' = [log EXCEPT ![k] = Append(@, [at |-> now, route |-> r])]
    /\ last' = [status |-> 200, key |-> k, route |-> r, at |-> now]
    /\ UNCHANGED now

(* Mutant of Reject: a rejected request is counted too.                    *)
MutRejectCounts(k, r) ==
  \E times \in Kept(k, Window[r]) :
    /\ Len(times) >= Limit[r]
    /\ store' = [store EXCEPT ![k] = Append(times, now)]
    /\ last' = [status |-> 429, key |-> k, route |-> r, at |-> now,
                retry |-> RetryAfter(times, Window[r]), held |-> times]
    /\ UNCHANGED <<now, log>>

(* on_request, at the limit: 429 with Retry-After, not counted.            *)
Reject(k, r) ==
  \E times \in Kept(k, Window[r]) :
    /\ Len(times) >= Limit[r]
    /\ store' = [store EXCEPT ![k] = times]
    /\ last' = [status |-> 429, key |-> k, route |-> r, at |-> now,
                retry |-> RetryAfter(times, Window[r]), held |-> times]
    /\ UNCHANGED <<now, log>>

(* cleanup_expired: every key, with the default window.                    *)
Cleanup ==
  /\ \E kept \in [Keys -> UNION {Kept(k, DefaultWindow) : k \in Keys}] :
       /\ \A k \in Keys : kept[k] \in Kept(k, DefaultWindow)
       /\ store' = kept
  /\ UNCHANGED <<now, log, last>>

Tick ==
  /\ now < MaxTime
  /\ now' = now + 1
  /\ UNCHANGED <<store, log, last>>

Next ==
  \/ \E k \in Keys, r \in Routes : Accept(k, r) \/ Reject(k, r)
  \/ Cleanup
  \/ Tick

Spec == Init /\ [][Next]_vars

-----------------------------------------------------------------------------
Answers ==
  {NoAnswer}
  \cup [status : {200}, key : Keys, route : Routes, at : Nat]
  \cup [status : {429}, key : Keys, route : Routes, at : Nat, retry : Nat,
        held : Seq(Nat)]

TypeOK ==
  /\ now \in Nat
  /\ store \in [Keys -> Seq(Nat)]
  /\ log \in [Keys -> Seq(Accepted)]
  /\ last \in Answers
  /\ \A k \in Keys : Len(store[k]) <= Len(log[k])

(* The n requests accepted last for key k all came within w of time t.     *)
Within(k, n, w, t) ==
  n <= Len(log[k]) /\ \A i \in Len(log[k]) - n + 1 .. Len(log[k]) : log[k][i].at >= t - w

(* A key is never rejected because of requests that were rejected, are     *)
(* older than the window, or were made by others: it really had Limit      *)
(* accepted requests within the route's window.                            *)
RejectedMeansFull ==
  last.status = 429 => Within(last.key, Limit[last.route], Window[last.route], last.at)

(* The limit of route r: among any Limit + 1 requests that a key makes in  *)
(* a row, the last one on r, the first is out of the last one's window.    *)
LimitHoldsFor(r) ==
  \A k \in Keys : \A i \in DOMAIN log[k] :
    log[k][i].route = r =>
      /\ Limit[r] > 0
      /\ i > Limit[r] => log[k][i - Limit[r]].at < log[k][i].at - Window[r]

Narrowest(r) ==
  /\ Window[r] <= DefaultWindow
  /\ \A s \in Routes : Window[r] <= Window[s]

(* The routes with the narrowest window are limited exactly, whatever the  *)
(* traffic on the other routes and whenever the cleanup runs.              *)
NarrowestIsLimited == \A r \in Routes : Narrowest(r) => LimitHoldsFor(r)

MostGenerous(r) == \A s \in Routes : Limit[s] <= Limit[r]

(* Who waits for Retry-After and is alone with the key is let in again:    *)
(* fewer than Limit of the timestamps held then are still in the window.   *)
RetrySuffices ==
  LET expired == {i \in DOMAIN last.held :
                    last.held[i] < last.at + last.retry * Second - Window[last.route]}
  IN  \E n \in 0 .. Len(last.held) :
        1 .. n \subseteq expired /\ Len(last.held) - n < Limit[last.route]

(* ... for the route with the highest limit: the others may be full many   *)
(* times over.                                                             *)
RetryAfterIsEnough ==
  last.status = 429 /\ MostGenerous(last.route) /\ Limit[last.route] > 0
  => RetrySuffices

-----------------------------------------------------------------------------
(* What the documentation says and the code does not keep.                 *)

(* adapters/api/filters/rate_limit.py:50: "If the key has made more than   *)
(* limit requests within the last window seconds the filter raises".       *)
LimitHolds == \A r \in Routes : LimitHoldsFor(r)

(* adapters/api/filters/rate_limit.py:142: "Retry after {retry_after}s."   *)
RetryAfterHolds ==
  last.status = 429 /\ Limit[last.route] > 0 => RetrySuffices
=============================================================================
