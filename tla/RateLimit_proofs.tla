-------------------------- MODULE RateLimit_proofs --------------------------
(***************************************************************************)
(* Proofs about RateLimit, for every set of keys and routes and every      *)
(* configuration of limits and windows.                                    *)
(*                                                                         *)
(* The argument: a deque is a suffix of the key's accepted requests, in    *)
(* the order of their times (SuffixInv); what is missing from it is older  *)
(* than the narrowest window (DroppedInv), since every eviction uses a     *)
(* window at least that wide; and it never outgrows the highest limit      *)
(* (BoundedInv).                                                           *)
(***************************************************************************)
EXTENDS RateLimit, SequenceTheorems, TLAPS

(* Accepted requests are logged in the order of their times.               *)
OrderInv ==
  \A k \in Keys :
    /\ \A i \in DOMAIN log[k] : log[k][i].at <= now
    /\ \A i, j \in DOMAIN log[k] : i <= j => log[k][i].at <= log[k][j].at

Missing(k) == Len(log[k]) - Len(store[k])

SuffixInv ==
  \A k \in Keys :
    \A i \in 1 .. Len(store[k]) : store[k][i] = log[k][Missing(k) + i].at

DroppedInv ==
  \A r \in Routes : Narrowest(r) =>
    \A k \in Keys : \A i \in 1 .. Missing(k) : log[k][i].at < now - Window[r]

BoundedInv ==
  \A r \in Routes : MostGenerous(r) => \A k \in Keys : Len(store[k]) <= Limit[r]

IInv ==
  /\ TypeOK
  /\ OrderInv
  /\ SuffixInv
  /\ DroppedInv
  /\ BoundedInv
  /\ NarrowestIsLimited
  /\ RejectedMeansFull
  /\ RetryAfterIsEnough

-----------------------------------------------------------------------------
(* Lemmas about the operators.                                             *)

LEMMA FromFacts ==
  ASSUME NEW times \in Seq(Nat), NEW n \in 0 .. Len(times)
  PROVE  /\ From(times, n) \in Seq(Nat)
         /\ Len(From(times, n)) = Len(times) - n
         /\ \A i \in 1 .. Len(times) - n : From(times, n)[i] = times[n + i]
BY DEF From

LEMMA LogType ==
  ASSUME TypeOK, NEW k \in Keys
  PROVE  /\ log[k] \in Seq(Accepted) /\ Len(log[k]) \in Nat
         /\ store[k] \in Seq(Nat) /\ Len(store[k]) \in Nat
         /\ Missing(k) \in Nat /\ now \in Nat
         /\ Len(log[k]) = Missing(k) + Len(store[k])
         /\ \A i \in 1 .. Len(log[k]) : log[k][i].at \in Nat /\ log[k][i].route \in Routes
<1>1. log[k] \in Seq(Accepted) /\ store[k] \in Seq(Nat) /\ now \in Nat
  BY DEF TypeOK
<1>2. Len(store[k]) <= Len(log[k])
  BY DEF TypeOK
<1>3. \A i \in 1 .. Len(log[k]) : log[k][i].at \in Nat /\ log[k][i].route \in Routes
  <2> TAKE i \in 1 .. Len(log[k])
  <2>1. log[k][i] \in Accepted
    BY <1>1
  <2> QED BY <2>1 DEF Accepted
<1>4. Len(log[k]) \in Nat /\ Len(store[k]) \in Nat
  BY <1>1
<1>5. Missing(k) \in Nat /\ Len(log[k]) = Missing(k) + Len(store[k])
  BY <1>2, <1>4 DEF Missing
<1> QED BY <1>1, <1>3, <1>4, <1>5

LEMMA ResetInType ==
  ASSUME TypeOK, NEW times \in Seq(Nat), NEW w \in Nat
  PROVE  ResetIn(times, w) \in Nat
BY DEF ResetIn, TypeOK

LEMMA RoundUp ==
  ASSUME NEW a \in Nat, NEW b \in Nat \ {0}
  PROVE  a \div b \in Nat /\ (a \div b + 1) * b > a
<1>1. a \div b \in Int /\ a % b \in 0 .. b - 1
  OBVIOUS
<1>2. a = b * (a \div b) + (a % b)
  OBVIOUS
<1>3. (a \div b + 1) * b > a
  BY Z3
<1>4. a \div b >= 0
  BY <1>1, <1>3, Z3
<1> QED BY <1>1, <1>3, <1>4

LEMMA ProductType ==
  ASSUME NEW a \in Nat, NEW b \in Nat
  PROVE  a * b \in Nat
OBVIOUS

(* Retry-After, in ticks, is later than the oldest timestamp's expiry.     *)
LEMMA RetryIsLater ==
  ASSUME TypeOK, NEW times \in Seq(Nat), NEW w \in Nat
  PROVE  /\ RetryAfter(times, w) \in Nat
         /\ RetryAfter(times, w) * Second > ResetIn(times, w)
<1> DEFINE x == ResetIn(times, w)
<1>1. x \in Nat
  BY ResetInType
<1> HIDE DEF x
<1>2. x \div Second \in Nat /\ (x \div Second + 1) * Second > x
  BY <1>1, RoundUp, SecondAssumption
<1> QED
  BY <1>2 DEF RetryAfter, x

-----------------------------------------------------------------------------
LEMMA InitInv == Init => IInv
<1> SUFFICES ASSUME Init PROVE IInv
  OBVIOUS
<1>1. TypeOK
  BY DEF Init, TypeOK, Answers, Accepted
<1>2. OrderInv /\ SuffixInv /\ DroppedInv /\ BoundedInv /\ NarrowestIsLimited
  BY LimitAssumption DEF Init, OrderInv, SuffixInv, DroppedInv, BoundedInv, Missing,
     NarrowestIsLimited, LimitHoldsFor, MostGenerous
<1>3. RejectedMeansFull /\ RetryAfterIsEnough
  BY DEF Init, NoAnswer, RejectedMeansFull, RetryAfterIsEnough
<1> QED BY <1>1, <1>2, <1>3 DEF IInv

LEMMA TickInv == IInv /\ Tick => IInv'
<1> SUFFICES ASSUME IInv, Tick PROVE IInv'
  OBVIOUS
<1>1. now' = now + 1 /\ UNCHANGED <<store, log, last>>
  BY DEF Tick
<1>2. TypeOK /\ TypeOK'
  BY <1>1 DEF IInv, TypeOK
<1>3. now \in Nat
  BY <1>2 DEF TypeOK
<1>4. OrderInv'
  <2>1. ASSUME NEW k \in Keys, NEW i \in DOMAIN log[k]
        PROVE  log[k][i].at <= now + 1
    <3>1. log[k][i].at <= now
      BY DEF IInv, OrderInv
    <3>2. log[k][i].at \in Nat
      BY <1>2, LogType
    <3> QED BY <1>3, <3>1, <3>2
  <2>2. \A k \in Keys : \A i, j \in DOMAIN log[k] :
          i <= j => log[k][i].at <= log[k][j].at
    BY DEF IInv, OrderInv
  <2> QED BY <1>1, <2>1, <2>2 DEF OrderInv
<1>5. SuffixInv' /\ BoundedInv' /\ NarrowestIsLimited'
  BY <1>1 DEF IInv, SuffixInv, BoundedInv, NarrowestIsLimited, LimitHoldsFor, Missing
<1>6. DroppedInv'
  <2>1. ASSUME NEW r \in Routes, Narrowest(r), NEW k \in Keys, NEW i \in 1 .. Missing(k)
        PROVE  log[k][i].at < (now + 1) - Window[r]
    <3>1. log[k][i].at < now - Window[r]
      BY <2>1 DEF IInv, DroppedInv
    <3>2. Missing(k) \in Nat /\ Len(log[k]) \in Nat /\ Missing(k) <= Len(log[k])
      BY <1>2, LogType
    <3>3. i \in 1 .. Len(log[k])
      BY <3>2
    <3>4. log[k][i].at \in Nat
      BY <1>2, <3>3, LogType
    <3>5. Window[r] \in Nat
      BY WindowAssumption
    <3> QED BY <1>3, <3>1, <3>4, <3>5
  <2> QED BY <1>1, <2>1 DEF DroppedInv, Missing, Narrowest
<1>7. RejectedMeansFull' /\ RetryAfterIsEnough'
  BY <1>1 DEF IInv, RejectedMeansFull, RetryAfterIsEnough, RetrySuffices, Within
<1> QED BY <1>2, <1>4, <1>5, <1>6, <1>7 DEF IInv

(* times are those of the entries after the first m, the younger ones; the *)
(* first p had been dropped before.                                        *)
LeftOf(entries, cutoff, times, p, m) ==
  /\ times \in Seq(Nat)
  /\ Len(entries) = m + Len(times)
  /\ \A i \in 1 .. Len(times) : times[i] = entries[m + i].at
  /\ \A i \in 1 .. Len(times) : times[i] >= cutoff
  /\ \A i \in 1 .. m : i <= p \/ entries[i].at < cutoff

(* Dropping the n oldest timestamps of a deque that is a suffix of entries *)
(* leaves a suffix of entries, whose times are not older than the cutoff.  *)
LEMMA DropOldest ==
  ASSUME NEW old \in Seq(Nat), NEW entries \in Seq(Accepted), NEW cutoff \in Int,
         NEW p \in Nat, Len(entries) = p + Len(old),
         \A i \in 1 .. Len(old) : old[i] = entries[p + i].at,
         \A i, j \in DOMAIN entries : i <= j => entries[i].at <= entries[j].at,
         NEW n \in 0 .. Len(old), Drops(old, cutoff, n)
  PROVE  LeftOf(entries, cutoff, From(old, n), p, p + n)
<1> DEFINE times == From(old, n)
<1>1. /\ times \in Seq(Nat)
      /\ Len(times) = Len(old) - n
      /\ \A i \in 1 .. Len(times) : times[i] = old[n + i]
  BY FromFacts
<1> HIDE DEF times
<1>2. \A i \in 1 .. Len(times) : times[i] = entries[(p + n) + i].at
  <2> TAKE i \in 1 .. Len(times)
  <2>1. n + i \in 1 .. Len(old)
    BY <1>1
  <2>2. times[i] = old[n + i] /\ old[n + i] = entries[p + (n + i)].at
    BY <1>1, <2>1
  <2>3. p + (n + i) = (p + n) + i
    BY <1>1
  <2> QED BY <2>2, <2>3
<1>3. \A i \in 1 .. Len(times) : times[i] >= cutoff
  <2> TAKE i \in 1 .. Len(times)
  <2>1. n < Len(old) /\ 1 \in 1 .. Len(times)
    BY <1>1
  <2>2. old[n + 1] >= cutoff
    BY <2>1 DEF Drops
  <2>3. times[1] = old[n + 1]
    BY <1>1, <2>1
  <2>4. /\ (p + n) + 1 \in DOMAIN entries /\ (p + n) + i \in DOMAIN entries
        /\ (p + n) + 1 <= (p + n) + i
    BY <1>1
  <2>5. entries[(p + n) + 1].at <= entries[(p + n) + i].at
    BY <2>4
  <2>6. times[1] <= times[i]
    BY <1>2, <2>1, <2>5
  <2>7. times[1] \in Nat /\ times[i] \in Nat
    BY <1>1, <2>1, ElementOfSeq
  <2> QED BY <2>2, <2>3, <2>6, <2>7
<1>4. \A i \in 1 .. p + n : i <= p \/ entries[i].at < cutoff
  <2> SUFFICES ASSUME NEW i \in 1 .. p + n, i > p
               PROVE  entries[i].at < cutoff
    OBVIOUS
  <2>1. i - p \in 1 .. n /\ i - p \in 1 .. Len(old) /\ p + (i - p) = i
    OBVIOUS
  <2>2. old[i - p] < cutoff /\ old[i - p] = entries[p + (i - p)].at
    BY <2>1 DEF Drops
  <2> QED BY <2>1, <2>2
<1>5. Len(entries) = (p + n) + Len(times)
  BY <1>1
<1> QED BY <1>1, <1>2, <1>3, <1>4, <1>5 DEF LeftOf, times

(* An eviction in a reachable state: m requests of the key are missing     *)
(* from what is left of its deque.                                         *)
Left(k, w, times, m) ==
  /\ LeftOf(log[k], now - w, times, Missing(k), m)
  /\ Len(times) <= Len(store[k])

LEMMA Eviction ==
  ASSUME IInv, NEW k \in Keys, NEW w \in Nat, NEW times \in Kept(k, w)
  PROVE  \E m \in Nat : Left(k, w, times, m)
<1>1. PICK n \in 0 .. Len(store[k]) :
        Drops(store[k], now - w, n) /\ times = From(store[k], n)
  BY DEF Kept
<1>2. /\ now \in Nat /\ Missing(k) \in Nat
      /\ log[k] \in Seq(Accepted) /\ store[k] \in Seq(Nat)
      /\ Len(log[k]) = Missing(k) + Len(store[k])
  BY LogType DEF IInv
<1>3. \A i \in 1 .. Len(store[k]) : store[k][i] = log[k][Missing(k) + i].at
  BY DEF IInv, SuffixInv
<1>4. \A i, j \in DOMAIN log[k] : i <= j => log[k][i].at <= log[k][j].at
  BY DEF IInv, OrderInv
<1>5. now - w \in Int
  BY <1>2
<1>6. LeftOf(log[k], now - w, From(store[k], n), Missing(k), Missing(k) + n)
  BY <1>1, <1>2, <1>3, <1>4, <1>5, DropOldest
<1>7. Len(times) <= Len(store[k])
  BY <1>1, <1>2, FromFacts
<1>8. Missing(k) + n \in Nat
  BY <1>1, <1>2
<1> QED BY <1>1, <1>6, <1>7, <1>8 DEF Left

(* Nothing younger than the narrowest window is ever missing.              *)
LEMMA MissingIsOld ==
  ASSUME IInv, NEW k \in Keys, NEW w \in Nat, NEW times, NEW m \in Nat,
         Left(k, w, times, m), NEW r \in Routes, Narrowest(r), Window[r] <= w
  PROVE  \A i \in 1 .. m : log[k][i].at < now - Window[r]
<1> TAKE i \in 1 .. m
<1>1. /\ log[k][i].at \in Nat /\ now \in Nat /\ Window[r] \in Nat /\ Missing(k) \in Nat
  <2>1. times \in Seq(Nat) /\ Len(log[k]) = m + Len(times)
    BY DEF Left, LeftOf
  <2>2. i \in 1 .. Len(log[k])
    BY <2>1
  <2> QED BY <2>2, LogType, WindowAssumption DEF IInv
<1>2. CASE i <= Missing(k)
  BY <1>1, <1>2 DEF IInv, DroppedInv
<1>3. CASE log[k][i].at < now - w
  BY <1>1, <1>3
<1> QED BY <1>2, <1>3 DEF Left, LeftOf

LEMMA AppendFacts ==
  ASSUME NEW S, NEW s \in Seq(S), NEW x \in S
  PROVE  /\ Append(s, x) \in Seq(S)
         /\ Len(Append(s, x)) = Len(s) + 1
         /\ \A i \in 1 .. Len(s) : Append(s, x)[i] = s[i]
         /\ Append(s, x)[Len(s) + 1] = x
OBVIOUS

-----------------------------------------------------------------------------
(* A step that only evicts keeps what the deques satisfy.                  *)
Evicted(k) ==
  \E w \in Nat, m \in Nat :
    /\ \A r \in Routes : Narrowest(r) => Window[r] <= w
    /\ Left(k, w, store'[k], m)

LEMMA EvictionInv ==
  ASSUME IInv, UNCHANGED <<now, log>>, store' \in [Keys -> Seq(Nat)],
         \A k \in Keys : store'[k] = store[k] \/ Evicted(k)
  PROVE  /\ \A k \in Keys : Len(store'[k]) <= Len(log'[k])
         /\ OrderInv' /\ SuffixInv' /\ DroppedInv' /\ BoundedInv'
         /\ NarrowestIsLimited'
<1>1. ASSUME NEW k \in Keys
      PROVE  /\ Len(store'[k]) <= Len(store[k])
             /\ Missing(k)' \in Nat
             /\ \A i \in 1 .. Len(store'[k]) :
                  store'[k][i] = log[k][Missing(k)' + i].at
             /\ \A r \in Routes : Narrowest(r) =>
                  \A i \in 1 .. Missing(k)' : log[k][i].at < now - Window[r]
  <2>0. /\ Len(log[k]) \in Nat /\ Len(store[k]) \in Nat /\ Missing(k) \in Nat
        /\ store'[k] \in Seq(Nat)
        /\ Missing(k)' = Len(log[k]) - Len(store'[k])
    BY LogType DEF IInv, Missing
  <2>1. CASE store'[k] = store[k]
    <3>1. Missing(k)' = Missing(k)
      BY <2>1, <2>0 DEF Missing
    <3>2. \A i \in 1 .. Len(store'[k]) : store'[k][i] = log[k][Missing(k)' + i].at
      BY <2>1, <3>1 DEF IInv, SuffixInv
    <3>3. \A r \in Routes : Narrowest(r) =>
            \A i \in 1 .. Missing(k)' : log[k][i].at < now - Window[r]
      BY <3>1 DEF IInv, DroppedInv
    <3>4. Missing(k)' \in Nat
      BY <2>0, <3>1
    <3>5. Len(store'[k]) <= Len(store[k])
      <4>1. Len(store'[k]) = Len(store[k])
        BY <2>1
      <4> QED BY <2>0, <4>1
    <3> QED BY <3>2, <3>3, <3>4, <3>5
  <2>2. CASE Evicted(k)
    <3>1. PICK w \in Nat : \E m \in Nat :
            /\ \A r \in Routes : Narrowest(r) => Window[r] <= w
            /\ Left(k, w, store'[k], m)
      BY <2>2 DEF Evicted
    <3>2. PICK m \in Nat :
            /\ \A r \in Routes : Narrowest(r) => Window[r] <= w
            /\ Left(k, w, store'[k], m)
      BY <3>1
    <3>3. Missing(k)' = m
      BY <2>0, <3>2 DEF Left, LeftOf
    <3>4. ASSUME NEW r \in Routes, Narrowest(r)
          PROVE  \A i \in 1 .. m : log[k][i].at < now - Window[r]
      BY <3>2, <3>4, MissingIsOld
    <3>5. /\ Len(store'[k]) <= Len(store[k])
          /\ \A i \in 1 .. Len(store'[k]) : store'[k][i] = log[k][m + i].at
      BY <3>2 DEF Left, LeftOf
    <3>6. \A i \in 1 .. Len(store'[k]) : store'[k][i] = log[k][Missing(k)' + i].at
      BY <3>3, <3>5
    <3>7. \A r \in Routes : Narrowest(r) =>
            \A i \in 1 .. Missing(k)' : log[k][i].at < now - Window[r]
      BY <3>3, <3>4
    <3> QED BY <3>2, <3>3, <3>5, <3>6, <3>7
  <2> QED BY <2>1, <2>2
<1>2. \A k \in Keys : Len(store'[k]) <= Len(log'[k])
  <2> TAKE k \in Keys
  <2>1. Len(store[k]) \in Nat /\ Len(log[k]) \in Nat /\ Len(store[k]) <= Len(log[k])
    BY LogType DEF IInv, TypeOK
  <2>2. Len(store'[k]) \in Nat
    OBVIOUS
  <2> QED BY <1>1, <2>1, <2>2
<1>3. OrderInv' /\ NarrowestIsLimited'
  BY DEF IInv, OrderInv, NarrowestIsLimited, LimitHoldsFor
<1>4. SuffixInv'
  BY <1>1 DEF SuffixInv
<1>5. DroppedInv'
  BY <1>1 DEF DroppedInv
<1>6. BoundedInv'
  <2> SUFFICES ASSUME NEW r \in Routes, MostGenerous(r), NEW k \in Keys
               PROVE  Len(store'[k]) <= Limit[r]
    BY DEF BoundedInv, MostGenerous
  <2>1. Len(store[k]) <= Limit[r]
    BY DEF IInv, BoundedInv
  <2>2. Len(store'[k]) \in Nat /\ Len(store[k]) \in Nat /\ Limit[r] \in Nat
    BY LogType, LimitAssumption DEF IInv
  <2> QED BY <1>1, <2>1, <2>2
<1> QED BY <1>2, <1>3, <1>4, <1>5, <1>6

LEMMA CleanupInv == IInv /\ Cleanup => IInv'
<1> SUFFICES ASSUME IInv, Cleanup PROVE IInv'
  OBVIOUS
<1>1. \A k \in Keys : store'[k] \in Kept(k, DefaultWindow)
  BY DEF Cleanup
<1>2. ASSUME NEW k \in Keys PROVE Evicted(k) /\ store'[k] \in Seq(Nat)
  <2>1. PICK m \in Nat : Left(k, DefaultWindow, store'[k], m)
    BY <1>1, DefaultAssumption, Eviction
  <2>2. \A r \in Routes : Narrowest(r) => Window[r] <= DefaultWindow
    BY DEF Narrowest
  <2> QED BY <2>1, <2>2, DefaultAssumption DEF Evicted, Left, LeftOf
<1>3. store' \in [Keys -> Seq(Nat)]
  BY <1>2 DEF Cleanup
<1>4. UNCHANGED <<now, log, last>>
  BY DEF Cleanup
<1>5. /\ \A k \in Keys : Len(store'[k]) <= Len(log'[k])
      /\ OrderInv' /\ SuffixInv' /\ DroppedInv' /\ BoundedInv'
      /\ NarrowestIsLimited'
  BY <1>2, <1>3, <1>4, EvictionInv
<1>6. TypeOK'
  BY <1>3, <1>4, <1>5 DEF IInv, TypeOK
<1>7. RejectedMeansFull' /\ RetryAfterIsEnough'
  BY <1>4 DEF IInv, RejectedMeansFull, RetryAfterIsEnough, RetrySuffices, Within
<1> QED BY <1>5, <1>6, <1>7 DEF IInv

(* A rejected request only evicts, and its answer is right.                *)
LEMMA RejectInv ==
  ASSUME IInv, NEW k \in Keys, NEW r \in Routes, Reject(k, r)
  PROVE  IInv'
<1>1. PICK times \in Kept(k, Window[r]) :
        /\ Len(times) >= Limit[r]
        /\ store' = [store EXCEPT ![k] = times]
        /\ last' = [status |-> 429, key |-> k, route |-> r, at |-> now,
                    retry |-> RetryAfter(times, Window[r]), held |-> times]
        /\ UNCHANGED <<now, log>>
  BY DEF Reject
<1>2. Window[r] \in Nat /\ Limit[r] \in Nat /\ now \in Nat /\ Len(log[k]) \in Nat
  BY WindowAssumption, LimitAssumption, LogType DEF IInv
<1>3. PICK m \in Nat : Left(k, Window[r], times, m)
  BY <1>2, Eviction
<1>4. times \in Seq(Nat)
  BY <1>3 DEF Left, LeftOf
<1>5. store'[k] = times /\ store' \in [Keys -> Seq(Nat)]
      /\ \A j \in Keys \ {k} : store'[j] = store[j]
  BY <1>1, <1>4 DEF IInv, TypeOK
<1>6. Evicted(k)
  <2>1. \A s \in Routes : Narrowest(s) => Window[s] <= Window[r]
    BY DEF Narrowest
  <2> QED BY <2>1, <1>2, <1>3, <1>5 DEF Evicted
<1>7. /\ \A j \in Keys : Len(store'[j]) <= Len(log'[j])
      /\ OrderInv' /\ SuffixInv' /\ DroppedInv' /\ BoundedInv'
      /\ NarrowestIsLimited'
  BY <1>1, <1>5, <1>6, EvictionInv
<1>8. RetryAfter(times, Window[r]) \in Nat
      /\ RetryAfter(times, Window[r]) * Second > ResetIn(times, Window[r])
  BY <1>2, <1>4, RetryIsLater DEF IInv
<1>9. TypeOK'
  <2>1. last' \in Answers
    BY <1>1, <1>2, <1>4, <1>8 DEF Answers
  <2> QED BY <1>1, <1>5, <1>7, <2>1 DEF IInv, TypeOK
<1>10. RejectedMeansFull'
  <2>1. Within(k, Limit[r], Window[r], now)
    <3>1. /\ Len(log[k]) = m + Len(times) /\ Len(times) \in Nat
          /\ \A i \in 1 .. Len(times) : times[i] = log[k][m + i].at /\ times[i] >= now - Window[r]
      BY <1>3, <1>4 DEF Left, LeftOf
    <3>2. Limit[r] <= Len(log[k])
      BY <1>1, <1>2, <3>1
    <3>3. ASSUME NEW i \in Len(log[k]) - Limit[r] + 1 .. Len(log[k])
          PROVE  log[k][i].at >= now - Window[r]
      <4>1. i - m \in 1 .. Len(times) /\ m + (i - m) = i
        BY <1>1, <1>2, <3>1
      <4>2. times[i - m] = log[k][m + (i - m)].at /\ times[i - m] >= now - Window[r]
        BY <3>1, <4>1
      <4> QED BY <4>1, <4>2
    <3> QED BY <3>2, <3>3 DEF Within
  <2> QED BY <1>1, <2>1 DEF RejectedMeansFull, Within
<1>11. RetryAfterIsEnough'
  <2> SUFFICES ASSUME MostGenerous(r), Limit[r] > 0
               PROVE  RetrySuffices'
    BY <1>1 DEF RetryAfterIsEnough, MostGenerous
  <2>1. Len(times) <= Limit[r]
    BY <1>5, <1>7 DEF BoundedInv, MostGenerous
  <2>2. Len(times) \in Nat /\ 1 \in 1 .. Len(times)
    BY <1>1, <1>2, <1>4
  <2>3. times[1] \in Nat
    BY <1>4, <2>2, ElementOfSeq
  <2>4. ResetIn(times, Window[r]) >= times[1] + Window[r] - now
    BY <1>2, <2>2, <2>3 DEF ResetIn
  <2> DEFINE t == RetryAfter(times, Window[r]) * Second
  <2>5. t \in Nat /\ t > ResetIn(times, Window[r]) /\ ResetIn(times, Window[r]) \in Nat
    <3>1. ResetIn(times, Window[r]) \in Nat
      BY <1>2, <1>4, ResetInType DEF IInv
    <3>2. t \in Nat
      BY <1>8, SecondAssumption, ProductType
    <3> QED BY <1>8, <3>1, <3>2
  <2> HIDE DEF t
  <2>6. times[1] < now + t - Window[r]
    BY <1>2, <2>3, <2>4, <2>5
  <2>7. times[1] < now + RetryAfter(times, Window[r]) * Second - Window[r]
    BY <2>6 DEF t
  <2>8. 1 .. 1 \subseteq {i \in DOMAIN times : times[i] < now + RetryAfter(times, Window[r]) * Second - Window[r]}
    BY <2>2, <2>7, <1>4
  <2>9. Len(times) - 1 < Limit[r] /\ 1 \in 0 .. Len(times)
    BY <2>1, <2>2, <1>2
  <2>10. /\ last'.held = times /\ last'.at = now /\ last'.route = r
         /\ last'.retry = RetryAfter(times, Window[r])
    BY <1>1
  <2> QED BY <2>8, <2>9, <2>10 DEF RetrySuffices
<1> QED BY <1>7, <1>9, <1>10, <1>11 DEF IInv

(* An accepted request only evicts, then joins the deque and the log.      *)
LEMMA AcceptInv ==
  ASSUME IInv, NEW k \in Keys, NEW r \in Routes, Accept(k, r)
  PROVE  IInv'
<1> DEFINE e == [at |-> now, route |-> r]
<1>1. PICK times \in Kept(k, Window[r]) :
        /\ Len(times) < Limit[r]
        /\ store' = [store EXCEPT ![k] = Append(times, now)]
        /\ log' = [log EXCEPT ![k] = Append(@, e)]
        /\ last' = [status |-> 200, key |-> k, route |-> r, at |-> now]
        /\ UNCHANGED now
  BY DEF Accept
<1>2. /\ Window[r] \in Nat /\ Limit[r] \in Nat /\ now \in Nat
      /\ Len(log[k]) \in Nat /\ log[k] \in Seq(Accepted)
      /\ Len(store[k]) \in Nat
  BY WindowAssumption, LimitAssumption, LogType DEF IInv
<1>3. PICK m \in Nat : Left(k, Window[r], times, m)
  BY <1>2, Eviction
<1>4. /\ times \in Seq(Nat) /\ Len(times) \in Nat
      /\ Len(log[k]) = m + Len(times)
      /\ \A i \in 1 .. Len(times) : times[i] = log[k][m + i].at
  BY <1>3 DEF Left, LeftOf
<1>5. e \in Accepted /\ e.at = now /\ e.route = r
  BY <1>2 DEF Accepted
<1> HIDE DEF e
<1>6. /\ store'[k] = Append(times, now) /\ store' \in [Keys -> Seq(Nat)]
      /\ log'[k] = Append(log[k], e) /\ log' \in [Keys -> Seq(Accepted)]
      /\ \A j \in Keys \ {k} : store'[j] = store[j] /\ log'[j] = log[j]
  BY <1>1, <1>2, <1>4, <1>5 DEF IInv, TypeOK
<1>7. /\ Len(store'[k]) = Len(times) + 1
      /\ \A i \in 1 .. Len(times) : store'[k][i] = times[i]
      /\ store'[k][Len(times) + 1] = now
  BY <1>2, <1>4, <1>6, AppendFacts
<1>8. /\ Len(log'[k]) = Len(log[k]) + 1
      /\ \A i \in 1 .. Len(log[k]) : log'[k][i] = log[k][i]
      /\ log'[k][Len(log[k]) + 1] = e
  BY <1>2, <1>5, <1>6, AppendFacts
<1>9. Missing(k)' = m /\ \A j \in Keys \ {k} : Missing(j)' = Missing(j)
  <2>1. Len(log'[k]) - Len(store'[k]) = m
    BY <1>2, <1>4, <1>7, <1>8
  <2>2. \A j \in Keys \ {k} :
          Len(log'[j]) - Len(store'[j]) = Len(log[j]) - Len(store[j])
    BY <1>6
  <2> QED BY <2>1, <2>2 DEF Missing
<1>10. TypeOK'
  <2>1. last' \in Answers
    BY <1>1, <1>2 DEF Answers
  <2>2. Len(store'[k]) <= Len(log'[k])
    BY <1>2, <1>4, <1>7, <1>8
  <2>3. \A j \in Keys : Len(store'[j]) <= Len(log'[j])
    BY <1>6, <2>2 DEF IInv, TypeOK
  <2> QED BY <1>1, <1>2, <1>6, <2>1, <2>3 DEF TypeOK
<1>11. DOMAIN log'[k] = 1 .. Len(log[k]) + 1 /\ DOMAIN log[k] = 1 .. Len(log[k])
  BY <1>2, <1>6, <1>8
<1>12. \A i \in 1 .. Len(log[k]) : log[k][i].at \in Nat /\ log[k][i].at <= now
  BY <1>11, LogType DEF IInv, OrderInv
<1>13. OrderInv'
  <2>1. \A i \in DOMAIN log'[k] : log'[k][i].at <= now
    <3> TAKE i \in DOMAIN log'[k]
    <3>1. CASE i = Len(log[k]) + 1
      BY <3>1, <1>2, <1>5, <1>8
    <3>2. CASE i # Len(log[k]) + 1
      <4>1. i \in 1 .. Len(log[k])
        BY <3>2, <1>2, <1>11
      <4> QED BY <4>1, <1>8, <1>12
    <3> QED BY <3>1, <3>2
  <2>2. ASSUME NEW i \in DOMAIN log'[k], NEW j \in DOMAIN log'[k], i <= j
        PROVE  log'[k][i].at <= log'[k][j].at
    <3>1. CASE j = Len(log[k]) + 1
      BY <3>1, <2>1, <1>5, <1>8
    <3>2. CASE j # Len(log[k]) + 1
      <4>1. i \in 1 .. Len(log[k]) /\ j \in 1 .. Len(log[k])
        BY <2>2, <3>2, <1>2, <1>11
      <4>2. log[k][i].at <= log[k][j].at
        BY <4>1, <2>2, <1>11 DEF IInv, OrderInv
      <4> QED BY <4>1, <4>2, <1>8
    <3> QED BY <3>1, <3>2
  <2>3. ASSUME NEW q \in Keys \ {k}
        PROVE  /\ \A i \in DOMAIN log'[q] : log'[q][i].at <= now
               /\ \A i, j \in DOMAIN log'[q] : i <= j => log'[q][i].at <= log'[q][j].at
    BY <1>6 DEF IInv, OrderInv
  <2>4. now' = now
    BY <1>1
  <2> QED BY <2>1, <2>2, <2>3, <2>4 DEF OrderInv
<1>14. SuffixInv'
  <2>1. ASSUME NEW i \in 1 .. Len(store'[k])
        PROVE  store'[k][i] = log'[k][m + i].at
    <3>1. CASE i = Len(times) + 1
      <4>1. m + i = Len(log[k]) + 1
        BY <3>1, <1>4
      <4> QED BY <3>1, <4>1, <1>5, <1>7, <1>8
    <3>2. CASE i # Len(times) + 1
      <4>1. i \in 1 .. Len(times) /\ m + i \in 1 .. Len(log[k])
        BY <3>2, <1>4, <1>7
      <4> QED BY <4>1, <1>4, <1>7, <1>8
    <3> QED BY <3>1, <3>2
  <2>2. ASSUME NEW j \in Keys \ {k}, NEW i \in 1 .. Len(store'[j])
        PROVE  store'[j][i] = log'[j][Missing(j)' + i].at
    BY <1>6, <1>9 DEF IInv, SuffixInv
  <2>3. ASSUME NEW j \in Keys, NEW i \in 1 .. Len(store'[j])
        PROVE  store'[j][i] = log'[j][Missing(j)' + i].at
    BY <2>1, <2>2, <1>9
  <2> QED BY <2>3 DEF SuffixInv
<1>15. ASSUME NEW s \in Routes, Narrowest(s), NEW i \in 1 .. m
       PROVE  log[k][i].at < now - Window[s]
  <2>1. Window[s] <= Window[r]
    BY <1>15 DEF Narrowest
  <2> QED BY <1>2, <1>3, <1>15, <2>1, MissingIsOld
<1>16. DroppedInv'
  <2>1. ASSUME NEW s \in Routes, Narrowest(s), NEW i \in 1 .. m
        PROVE  log'[k][i].at < now - Window[s]
    <3>1. i \in 1 .. Len(log[k])
      BY <1>4
    <3> QED BY <2>1, <3>1, <1>8, <1>15
  <2>2. ASSUME NEW s \in Routes, Narrowest(s), NEW j \in Keys \ {k}, NEW i \in 1 .. Missing(j)'
        PROVE  log'[j][i].at < now - Window[s]
    BY <2>2, <1>6, <1>9 DEF IInv, DroppedInv
  <2>3. ASSUME NEW s \in Routes, Narrowest(s), NEW j \in Keys, NEW i \in 1 .. Missing(j)'
        PROVE  log'[j][i].at < now - Window[s]
    BY <2>1, <2>2, <2>3, <1>9
  <2>4. now' = now
    BY <1>1
  <2> QED BY <2>3, <2>4 DEF DroppedInv, Narrowest
<1>17. BoundedInv'
  <2> SUFFICES ASSUME NEW g \in Routes, MostGenerous(g), NEW j \in Keys
               PROVE  Len(store'[j]) <= Limit[g]
    BY DEF BoundedInv, MostGenerous
  <2>1. CASE j = k
    <3>1. Limit[r] <= Limit[g] /\ Limit[g] \in Nat
      BY LimitAssumption DEF MostGenerous
    <3> QED BY <2>1, <3>1, <1>1, <1>2, <1>4, <1>7
  <2>2. CASE j # k
    BY <2>2, <1>6 DEF IInv, BoundedInv
  <2> QED BY <2>1, <2>2
<1>18. NarrowestIsLimited'
  <2> SUFFICES ASSUME NEW s \in Routes, Narrowest(s), NEW j \in Keys,
                      NEW i \in DOMAIN log'[j], log'[j][i].route = s
               PROVE  /\ Limit[s] > 0
                      /\ i > Limit[s] => log'[j][i - Limit[s]].at < log'[j][i].at - Window[s]
    BY DEF NarrowestIsLimited, LimitHoldsFor, Narrowest
  <2>0. Limit[s] \in Nat
    BY LimitAssumption
  <2>1. CASE j # k
    <3>1. log'[j] = log[j]
      BY <2>1, <1>6
    <3>2. LimitHoldsFor(s)
      BY DEF IInv, NarrowestIsLimited
    <3> QED BY <3>1, <3>2 DEF LimitHoldsFor
  <2>2. CASE j = k /\ i # Len(log[k]) + 1
    <3>1. i \in 1 .. Len(log[k])
      BY <2>2, <1>2, <1>11
    <3>2. log'[k][i] = log[k][i]
      BY <3>1, <1>8
    <3>3. /\ Limit[s] > 0
          /\ i > Limit[s] => log[k][i - Limit[s]].at < log[k][i].at - Window[s]
      BY <2>2, <3>1, <3>2, <1>11 DEF IInv, NarrowestIsLimited, LimitHoldsFor
    <3>4. i > Limit[s] => i - Limit[s] \in 1 .. Len(log[k])
      BY <2>0, <3>1, <1>2
    <3> QED BY <2>2, <3>2, <3>3, <3>4, <1>8
  <2>3. CASE j = k /\ i = Len(log[k]) + 1
    <3>1. s = r
      BY <2>3, <1>5, <1>8
    <3>2. Limit[s] > 0
      BY <3>1, <1>1, <1>2, <1>4
    <3>3. ASSUME i > Limit[s]
          PROVE  log'[j][i - Limit[s]].at < log'[j][i].at - Window[s]
      <4>1. i - Limit[s] \in 1 .. m /\ i - Limit[s] \in 1 .. Len(log[k])
        <5>1. Len(times) + 1 <= Limit[s]
          BY <3>1, <1>1, <1>2, <1>4
        <5>2. i = m + Len(times) + 1 /\ Len(log[k]) = m + Len(times)
          BY <2>3, <1>4
        <5> QED BY <5>1, <5>2, <2>0, <3>3, <1>4
      <4>2. log[k][i - Limit[s]].at < now - Window[s]
        BY <4>1, <1>15
      <4> QED BY <2>3, <4>1, <4>2, <1>5, <1>8
    <3> QED BY <3>2, <3>3
  <2> QED BY <2>1, <2>2, <2>3
<1>19. RejectedMeansFull' /\ RetryAfterIsEnough'
  BY <1>1 DEF RejectedMeansFull, RetryAfterIsEnough
<1> QED BY <1>10, <1>13, <1>14, <1>16, <1>17, <1>18, <1>19 DEF IInv

LEMMA NextInv == IInv /\ [Next]_vars => IInv'
<1> SUFFICES ASSUME IInv, [Next]_vars PROVE IInv'
  OBVIOUS
<1>1. ASSUME NEW k \in Keys, NEW r \in Routes, Accept(k, r) PROVE IInv'
  BY <1>1, AcceptInv
<1>2. ASSUME NEW k \in Keys, NEW r \in Routes, Reject(k, r) PROVE IInv'
  BY <1>2, RejectInv
<1>3. CASE Cleanup
  BY <1>3, CleanupInv
<1>4. CASE Tick
  BY <1>4, TickInv
<1>5. CASE UNCHANGED vars
  BY <1>5 DEF vars, IInv, TypeOK, OrderInv, SuffixInv, DroppedInv, BoundedInv, Missing,
     NarrowestIsLimited, LimitHoldsFor, RejectedMeansFull, RetryAfterIsEnough,
     RetrySuffices, Within
<1> QED BY <1>1, <1>2, <1>3, <1>4, <1>5 DEF Next

(* IInv is inductive.                                                      *)
LEMMA Invariance == Spec => []IInv
<1> QED BY InitInv, NextInv, PTL DEF Spec

-----------------------------------------------------------------------------
(* The filter's state stays well formed: times, deques, and answers; a     *)
(* deque never holds more than the requests that were accepted.            *)
THEOREM TypeCorrect == Spec => []TypeOK
<1>1. IInv => TypeOK
  BY DEF IInv
<1> QED BY <1>1, Invariance, PTL

(* on_request rejects only a key that really had Limit accepted requests   *)
(* within the route's window.                                              *)
THEOREM RejectedMeansFullCorrect == Spec => []RejectedMeansFull
<1>1. IInv => RejectedMeansFull
  BY DEF IInv
<1> QED BY <1>1, Invariance, PTL

(* The routes with the narrowest window never let through more than their  *)
(* limit in a window, for any other routes and any cleanup.                *)
THEOREM NarrowestIsLimitedCorrect == Spec => []NarrowestIsLimited
<1>1. IInv => NarrowestIsLimited
  BY DEF IInv
<1> QED BY <1>1, Invariance, PTL

(* Retry-After is long enough for the route with the highest limit.        *)
THEOREM RetryAfterIsEnoughCorrect == Spec => []RetryAfterIsEnough
<1>1. IInv => RetryAfterIsEnough
  BY DEF IInv
<1> QED BY <1>1, Invariance, PTL
=============================================================================
