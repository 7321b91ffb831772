------------------------- MODULE SQLRequests_proofs -------------------------
(***************************************************************************)
(* Proofs about SQLRequests, and about the two modules it composes: the    *)
(* sessions of SQLRepository and the handlers of Notifications.            *)
(*                                                                         *)
(* The invariant IInv has one part for each of them, and the first two are *)
(* inductive by themselves: RepoInv under the steps of the sessions,       *)
(* TellInv under those of the handlers.  RequestInv ties what a request    *)
(* has written and shown to its session.                                   *)
(***************************************************************************)
EXTENDS SQLRequests, WellFoundedInduction, TLAPS

(* parent may be the row that row was built from.                          *)
IsParent(parent, row) ==
  /\ parent.entity = row.entity
  /\ parent.version + 1 = row.version
  /\ parent.creator = row.creator
  /\ ~parent.deleted
  /\ row.deleted => row.value = parent.value

(* ... and is among rows, or among the first n - 1 of mine.                *)
HasParent(rows, mine, row, n) ==
  \/ \E i \in DOMAIN rows : IsParent(rows[i], row)
  \/ \E k \in DOMAIN mine : k < n /\ IsParent(mine[k], row)

(* An uncommitted row above version 1 was built from a committed row, or   *)
(* from an earlier one of the session.                                     *)
UncommittedHasParent ==
  \A s \in Clients :
    /\ \A k \in DOMAIN own[s] :
         own[s][k].version > 1 => HasParent(table, own[s], own[s][k], k)
    /\ \A k \in DOMAIN draft[s] :
         /\ draft[s][k].version > 1
         /\ HasParent(table, own[s], draft[s][k], Len(own[s]) + 1)

(* A first version is the only row of its entity, but for those that its   *)
(* session has built on it.                                                *)
RootIsAlone ==
  \A s \in Clients : \A k \in DOMAIN own[s] :
    own[s][k].version = 1 =>
      LET row == own[s][k]
      IN  /\ ~row.deleted /\ row.editor = row.creator
          /\ Repo!VersionsIn(table, row.entity) = {}
          /\ \A j \in DOMAIN own[s] : j < k => own[s][j].entity # row.entity
          /\ \A t \in Clients \ {s} :
               /\ Repo!VersionsIn(own[t], row.entity) = {}
               /\ Repo!VersionsIn(draft[t], row.entity) = {}

(* Who has begun has a snapshot, and what a session writes is its own: in  *)
(* the table, its rows were there before the snapshot.                     *)
SessionInv ==
  \A s \in Clients :
    /\ view[s] = Repo!NotBegun => draft[s] = << >>
    /\ \A k \in DOMAIN own[s] : own[s][k].editor = s
    /\ \A k \in DOMAIN draft[s] : draft[s][k].editor = s
    /\ view[s] # Repo!NotBegun =>
         \A i \in DOMAIN table : table[i].editor = s => i <= view[s]

(* What a session writes comes after all it has written of the entity.     *)
NewerThanOwn ==
  \A s \in Clients :
    /\ \A k \in DOMAIN own[s], i \in DOMAIN table :
         table[i].entity = own[s][k].entity /\ table[i].editor = s
         => table[i].version < own[s][k].version
    /\ \A k \in DOMAIN draft[s], i \in DOMAIN table :
         table[i].entity = draft[s][k].entity /\ table[i].editor = s
         => table[i].version < draft[s][k].version

Pending(s, e) ==
  Repo!VersionsIn(own[s], e) # {} \/ Repo!VersionsIn(draft[s], e) # {}

(* While nobody has raced for an entity, one session at most has written   *)
(* it, sees all its rows, and numbers its own above them.                  *)
PendingIsNextUnlessRaced ==
  \A s \in Clients, e \in Entities \ raced : Pending(s, e) =>
    /\ \A t \in Clients \ {s} : ~Pending(t, e)
    /\ \A i \in DOMAIN table, k \in DOMAIN own[s] :
         table[i].entity = e /\ own[s][k].entity = e
         => table[i].version < own[s][k].version
    /\ \A i \in DOMAIN table, k \in DOMAIN draft[s] :
         table[i].entity = e /\ draft[s][k].entity = e
         => table[i].version < draft[s][k].version

(* The rows of a session are numbered upwards.                             *)
OwnIncreases ==
  \A s \in Clients :
    /\ \A j, k \in DOMAIN own[s] :
         j < k /\ own[s][j].entity = own[s][k].entity
         => own[s][j].version < own[s][k].version
    /\ \A j \in DOMAIN own[s], k \in DOMAIN draft[s] :
         own[s][j].entity = draft[s][k].entity
         => own[s][j].version < draft[s][k].version

RepoInv ==
  /\ Repo!TypeOK
  /\ UncommittedHasParent /\ RootIsAlone
  /\ SessionInv /\ NewerThanOwn /\ OwnIncreases
  /\ LinearUnlessRaced /\ PendingIsNextUnlessRaced

-----------------------------------------------------------------------------
(* Notifications.                                                          *)

(* A job is about the last event of its client, and has done with the      *)
(* webhooks in front of those that are left.                               *)
JobInv ==
  \A c \in Clients : Tell!Busy(c) =>
    /\ job[c].event.by = c /\ job[c].event.nth = emitted[c]
    /\ Len(job[c].hooks) <= Len(job[c].matched)
    /\ \A i \in DOMAIN job[c].hooks :
         job[c].hooks[i] = job[c].matched[Len(job[c].matched) - Len(job[c].hooks) + i]

(* Nobody hears of what has not happened, and only late copies are under   *)
(* way.                                                                    *)
HeardInv ==
  /\ \A u \in Urls : \A i \in DOMAIN inbox[u] :
       inbox[u][i].event.nth <= emitted[inbox[u][i].event.by]
  /\ \A m \in air : /\ m.copy.event.nth <= emitted[m.copy.event.by]
                    /\ m.copy.late /\ ~m.copy.acked
  /\ \A a \in Adapters : \A i \in DOMAIN stream[a] :
       stream[a][i].event.nth <= emitted[stream[a][i].event.by]

(* An acknowledged copy was sent before the webhooks that are left.        *)
AcknowledgedIsPast ==
  \A c \in Clients : Tell!Busy(c) =>
    \A u \in Urls : \A i \in DOMAIN inbox[u] :
      inbox[u][i].acked /\ inbox[u][i].event = job[c].event
      => inbox[u][i].left > Len(job[c].hooks)

TellInv ==
  /\ Tell!TypeOK
  /\ JobInv /\ HeardInv /\ AcknowledgedIsPast
  /\ AcknowledgedIsNotResent /\ InOrder /\ NobodyIsSkipped

-----------------------------------------------------------------------------
(* Requests.                                                               *)

Open(r) == r.phase \notin {"idle", "done"}

(* row is among rows, or among mine.                                       *)
Known(rows, mine, row) ==
  (\E i \in DOMAIN rows : rows[i] = row) \/ \E k \in DOMAIN mine : mine[k] = row

(* So are all the rows that a request has found and shown.                 *)
Shows(rows, mine, r) ==
  /\ r.entity # NoRow => Known(rows, mine, r.entity[1])
  /\ r.result # NoRow => Known(rows, mine, r.result[1])
  /\ \A k \in DOMAIN r.results :
       r.results[k].row # NoRow => Known(rows, mine, r.results[k].row[1])

(* A request that has not returned has an item to work on.                 *)
Progress ==
  \A c \in Clients :
    req[c].phase \notin {"idle", "done", "commit", "rollback"} =>
      Len(req[c].results) < Len(req[c].items)

(* The session of a request is open with it; what the request has shown is *)
(* committed or its own.                                                   *)
OpenInv(c) ==
  LET r == req[c]
  IN  /\ r.wrote = {own[c][k] : k \in DOMAIN own[c]}
      /\ ~r.failed => ~aborted[c]
      /\ Shows(table, own[c], r)
      /\ draft[c] # << >> => r.phase = "call"
      /\ r.status # "error"

ClosedInv(c) ==
  /\ Repo!EmptySession(c)
  /\ \A row \in req[c].wrote : row.editor = c

(* ErrorStoresNoPart and SettledIsStored, for one request.                 *)
StoresNoPart(c) ==
  req[c].status = "error" =>
    \/ \A row \in req[c].wrote : ~Stored(row)
    \/ req[c].unsure /\ \A row \in req[c].wrote : Stored(row)

Settled(c) ==
  req[c].phase = "done" /\ req[c].status = "ok" /\ ~req[c].failed =>
    /\ \A k \in DOMAIN req[c].results :
         req[c].results[k].row # NoRow => Stored(req[c].results[k].row[1])
    /\ \A row \in req[c].wrote : Stored(row)

RequestInv ==
  /\ TypeOK /\ Progress
  /\ \A c \in Clients : IF Open(req[c]) THEN OpenInv(c) ELSE ClosedInv(c)
  /\ \A c \in Clients : StoresNoPart(c) /\ Settled(c)

IInv == RepoInv /\ TellInv /\ RequestInv

-----------------------------------------------------------------------------
(* Sequences and rows.                                                     *)

LEMMA AppendFacts ==
  ASSUME NEW S, NEW q \in Seq(S), NEW x \in S
  PROVE  /\ Append(q, x) \in Seq(S)
         /\ Len(Append(q, x)) = Len(q) + 1
         /\ \A i \in DOMAIN q : i \in DOMAIN Append(q, x) /\ i < Len(q) + 1
                                /\ Append(q, x)[i] = q[i]
         /\ Len(q) + 1 \in DOMAIN Append(q, x)
         /\ Append(q, x)[Len(q) + 1] = x
         /\ \A i \in DOMAIN Append(q, x) : i \in DOMAIN q \/ i = Len(q) + 1
OBVIOUS

(* The elements of a concatenation are those of its parts, in their order. *)
LEMMA ConcatFacts ==
  ASSUME NEW S, NEW p \in Seq(S), NEW q \in Seq(S)
  PROVE  /\ p \o q \in Seq(S)
         /\ Len(p \o q) = Len(p) + Len(q)
         /\ \A i \in DOMAIN p : i \in DOMAIN (p \o q) /\ (p \o q)[i] = p[i]
         /\ \A k \in DOMAIN q : Len(p) + k \in DOMAIN (p \o q)
                                /\ (p \o q)[Len(p) + k] = q[k]
         /\ \A i \in DOMAIN (p \o q) :
              i \in DOMAIN p \/ \E k \in DOMAIN q : i = Len(p) + k
<1>1. /\ p \o q \in Seq(S)
      /\ Len(p \o q) = Len(p) + Len(q)
      /\ \A i \in DOMAIN p : i \in DOMAIN (p \o q) /\ (p \o q)[i] = p[i]
      /\ \A k \in DOMAIN q : Len(p) + k \in DOMAIN (p \o q)
                             /\ (p \o q)[Len(p) + k] = q[k]
  OBVIOUS
<1>2. ASSUME NEW i \in DOMAIN (p \o q), i \notin DOMAIN p
      PROVE  \E k \in DOMAIN q : i = Len(p) + k
  <2>1. i - Len(p) \in DOMAIN q /\ i = Len(p) + (i - Len(p))
    BY <1>2, <1>1
  <2> QED BY <2>1
<1> QED BY <1>1, <1>2

(* The fields of a row.                                                    *)
LEMMA RowFields ==
  ASSUME NEW row \in Repo!Row
  PROVE  /\ row.entity \in Entities /\ row.version \in Nat \ {0}
         /\ row.value \in Repo!Payloads /\ row.deleted \in BOOLEAN
         /\ row.creator \in Clients /\ row.editor \in Clients
BY DEF Repo!Row

LEMMA FirstVersionFacts ==
  ASSUME NEW e \in Entities, NEW v \in Repo!Payloads, NEW s \in Clients,
         NEW row, row = Repo!FirstVersion(e, v, s)
  PROVE  /\ row \in Repo!Row
         /\ row.entity = e /\ row.version = 1 /\ row.creator = s /\ row.editor = s
         /\ ~row.deleted
<1>1. row \in Repo!Row
  BY SMT DEF Repo!FirstVersion, Repo!Row
<1>2. row.entity = e /\ row.version = 1 /\ row.creator = s /\ row.editor = s
  BY DEF Repo!FirstVersion
<1>3. ~row.deleted
  BY Zenon DEF Repo!FirstVersion
<1> QED BY <1>1, <1>2, <1>3

(* The next version of a live row is its child, and written by the user.   *)
LEMMA NextVersionFacts ==
  ASSUME NEW row \in Repo!Row, NEW item \in Repo!Item, NEW s \in Clients,
         ~row.deleted, NEW next, next = Repo!NextVersion(row, item, s)
  PROVE  /\ next \in Repo!Row
         /\ IsParent(row, next)
         /\ next.editor = s
<1>1. /\ row.entity \in Entities /\ row.version \in Nat \ {0}
      /\ row.value \in Repo!Payloads /\ row.creator \in Clients
  BY RowFields
<1> DEFINE v == IF item.op = "update" /\ item.value # NoValue THEN item.value ELSE row.value
<1>2. v \in Repo!Payloads
  BY <1>1 DEF Repo!Item
<1>3. (item.op = "delete") \in BOOLEAN
  OBVIOUS
<1>4. row.version + 1 \in Nat \ {0} /\ row.version + 1 > row.version
  BY <1>1
<1>5. next = [row EXCEPT !.version = row.version + 1, !.value = v,
                         !.deleted = (item.op = "delete"), !.editor = s]
  BY DEF Repo!NextVersion, Repo!Row
<1> HIDE DEF v
<1>6. \A n \in Nat \ {0}, w \in Repo!Payloads, del \in BOOLEAN :
        [row EXCEPT !.version = n, !.value = w, !.deleted = del, !.editor = s] \in Repo!Row
  BY DEF Repo!Row
<1>7. next \in Repo!Row
  <2> DEFINE n == row.version + 1  del == (item.op = "delete")
  <2>1. n \in Nat \ {0} /\ del \in BOOLEAN
    BY <1>3, <1>4
  <2>2. next = [row EXCEPT !.version = n, !.value = v, !.deleted = del, !.editor = s]
    BY <1>5
  <2> HIDE DEF n, del
  <2>3. [row EXCEPT !.version = n, !.value = v, !.deleted = del, !.editor = s] \in Repo!Row
    BY <2>1, <1>2, <1>6, Zenon
  <2> QED BY <2>2, <2>3
<1>8. /\ next.entity = row.entity /\ next.version = row.version + 1
      /\ next.creator = row.creator /\ next.editor = s /\ next.value = v
  BY <1>5 DEF Repo!Row
<1>9. next.deleted = (item.op = "delete")
  BY <1>5 DEF Repo!Row
<1>10. next.deleted => next.value = row.value
  BY <1>8, <1>9 DEF v
<1> QED BY <1>7, <1>8, <1>10 DEF IsParent

(* What a session sees.                                                    *)
LEMMA SeesType ==
  ASSUME Repo!TypeOK, NEW s \in Clients
  PROVE  /\ Repo!Sees(s) \in 0 .. Len(table)
         /\ Repo!Sees(s) # Repo!NotBegun
BY DEF Repo!TypeOK, Repo!Sees, Repo!NotBegun

(* A statement works on committed rows, the ones its session sees, and on  *)
(* the rows of its session.                                                *)
LEMMA RowsFacts ==
  ASSUME Repo!TypeOK, NEW s \in Clients
  PROVE  /\ Repo!Rows(s) \in Seq(Repo!Row)
         /\ \A i \in 1 .. Repo!Sees(s) :
              i \in DOMAIN Repo!Rows(s) /\ Repo!Rows(s)[i] = table[i]
         /\ \A k \in DOMAIN own[s] : \E i \in DOMAIN Repo!Rows(s) :
              Repo!Rows(s)[i] = own[s][k]
         /\ \A i \in DOMAIN Repo!Rows(s) :
              \/ \E k \in DOMAIN table : Repo!Rows(s)[i] = table[k]
              \/ \E k \in DOMAIN own[s] : Repo!Rows(s)[i] = own[s][k]
<1> DEFINE seen == SubSeq(table, 1, Repo!Sees(s))
<1>1. table \in Seq(Repo!Row) /\ own[s] \in Seq(Repo!Row)
  BY DEF Repo!TypeOK
<1>2. Repo!Sees(s) \in 0 .. Len(table)
  BY SeesType
<1>3. /\ seen \in Seq(Repo!Row) /\ DOMAIN seen = 1 .. Repo!Sees(s)
      /\ \A i \in DOMAIN seen : seen[i] = table[i] /\ i \in DOMAIN table
  BY <1>1, <1>2
<1> HIDE DEF seen
<1>4. Repo!Rows(s) = seen \o own[s]
  BY DEF Repo!Rows, seen
<1>5. /\ seen \o own[s] \in Seq(Repo!Row)
      /\ \A i \in DOMAIN seen : i \in DOMAIN (seen \o own[s]) /\ (seen \o own[s])[i] = seen[i]
      /\ \A k \in DOMAIN own[s] : Len(seen) + k \in DOMAIN (seen \o own[s])
                                  /\ (seen \o own[s])[Len(seen) + k] = own[s][k]
      /\ \A i \in DOMAIN (seen \o own[s]) :
           i \in DOMAIN seen \/ \E k \in DOMAIN own[s] : i = Len(seen) + k
  <2> DEFINE mine == own[s]
  <2>1. seen \in Seq(Repo!Row) /\ mine \in Seq(Repo!Row)
    BY <1>1, <1>3
  <2> HIDE DEF mine
  <2>2. /\ seen \o mine \in Seq(Repo!Row)
        /\ \A i \in DOMAIN seen : i \in DOMAIN (seen \o mine) /\ (seen \o mine)[i] = seen[i]
        /\ \A k \in DOMAIN mine : Len(seen) + k \in DOMAIN (seen \o mine)
                                   /\ (seen \o mine)[Len(seen) + k] = mine[k]
        /\ \A i \in DOMAIN (seen \o mine) :
             i \in DOMAIN seen \/ \E k \in DOMAIN mine : i = Len(seen) + k
    BY <2>1, ConcatFacts
  <2> QED BY <2>2 DEF mine
<1>6. \A i \in 1 .. Repo!Sees(s) :
        i \in DOMAIN Repo!Rows(s) /\ Repo!Rows(s)[i] = table[i]
  BY <1>3, <1>4, <1>5
<1>7. \A k \in DOMAIN own[s] : \E i \in DOMAIN Repo!Rows(s) :
        Repo!Rows(s)[i] = own[s][k]
  BY <1>4, <1>5
<1>8. \A i \in DOMAIN Repo!Rows(s) :
        \/ \E k \in DOMAIN table : Repo!Rows(s)[i] = table[k]
        \/ \E k \in DOMAIN own[s] : Repo!Rows(s)[i] = own[s][k]
  BY <1>3, <1>4, <1>5
<1> QED BY <1>4, <1>5, <1>6, <1>7, <1>8

-----------------------------------------------------------------------------
(* Types of the sessions.                                                  *)

LEMMA RepoTypeInit ==
  ASSUME Repo!Init
  PROVE  Repo!TypeOK
<1>1. Repo!Parameters
  BY ParametersAssumption
<1>2. table \in Seq(Repo!Row)
  <2>1. CASE table = << >>
    BY <2>1
  <2>2. CASE \E e \in Entities, v \in Values \ Arrays, u \in Clients :
               table = <<Repo!FirstVersion(e, v, u)>>
    <3>1. PICK e \in Entities, v \in Values \ Arrays, u \in Clients :
                 table = <<Repo!FirstVersion(e, v, u)>>
      BY <2>2
    <3> DEFINE row == Repo!FirstVersion(e, v, u)
    <3>2. v \in Repo!Payloads
      BY DEF Repo!Payloads
    <3>3. row \in Repo!Row
      BY <3>2, FirstVersionFacts
    <3> HIDE DEF row
    <3> QED BY <3>1, <3>3 DEF row
  <2> QED BY <2>1, <2>2 DEF Repo!Init
<1>3. /\ view \in [Clients -> Int]
      /\ own \in [Clients -> Seq(Repo!Row)]
      /\ draft \in [Clients -> Seq(Repo!Row)]
      /\ aborted \in [Clients -> BOOLEAN]
  BY DEF Repo!Init, Repo!NotBegun
<1>4. ASSUME NEW s \in Clients
      PROVE  /\ Len(draft[s]) <= 1
             /\ view[s] \in Repo!NotBegun .. Len(table)
             /\ view[s] = Repo!NotBegun => own[s] = << >>
  BY <1>2 DEF Repo!Init, Repo!NotBegun
<1> QED BY <1>2, <1>3, <1>4 DEF Repo!TypeOK, Repo!Init

(* What holds of a session that has begun, whatever it has inserted.       *)
LEMMA RepoTypeExecutes ==
  ASSUME Repo!TypeOK, NEW s \in Clients, Repo!Executes(s), UNCHANGED table
  PROVE  /\ view' \in [Clients -> Int]
         /\ view'[s] = Repo!Sees(s) /\ view'[s] # Repo!NotBegun
         /\ \A t \in Clients : /\ view'[t] \in Repo!NotBegun .. Len(table')
                               /\ t # s => view'[t] = view[t]
<1>1. Repo!Sees(s) \in 0 .. Len(table) /\ Repo!Sees(s) # Repo!NotBegun
  BY SeesType
<1>2. view' = [view EXCEPT ![s] = Repo!Sees(s)]
  BY DEF Repo!Executes
<1> QED BY <1>1, <1>2 DEF Repo!TypeOK, Repo!NotBegun

LEMMA RepoTypeStep ==
  ASSUME Repo!TypeOK, NEW s \in Clients,
         \/ \E v \in Repo!Payloads : Repo!Create(s, v)
         \/ Repo!Select(s)
         \/ \E item \in Repo!Item : Repo!SelectLatest(s, item)
         \/ Repo!InsertDraft(s)
         \/ Repo!Fail(s)
         \/ Repo!Commit(s)
         \/ Repo!Rollback(s)
  PROVE  Repo!TypeOK'
<1> USE DEF Repo!TypeOK
<1>1. ASSUME NEW v \in Repo!Payloads, Repo!Create(s, v)
      PROVE  Repo!TypeOK'
  <2>1. PICK e \in Entities : own' = [own EXCEPT ![s] = Append(own[s], Repo!FirstVersion(e, v, s))]
    BY <1>1 DEF Repo!Create
  <2>2. Repo!FirstVersion(e, v, s) \in Repo!Row
    BY FirstVersionFacts
  <2>3. Append(own[s], Repo!FirstVersion(e, v, s)) \in Seq(Repo!Row)
    BY <2>2
  <2>4. own' \in [Clients -> Seq(Repo!Row)] /\ \A t \in Clients : t # s => own'[t] = own[t]
    BY <2>1, <2>3
  <2>5. /\ view' \in [Clients -> Int] /\ view'[s] # Repo!NotBegun
        /\ \A t \in Clients : /\ view'[t] \in Repo!NotBegun .. Len(table')
                              /\ t # s => view'[t] = view[t]
    BY <1>1, RepoTypeExecutes DEF Repo!Create
  <2> QED BY <1>1, <2>4, <2>5 DEF Repo!Create
<1>2. ASSUME Repo!Select(s)
      PROVE  Repo!TypeOK'
  <2>1. /\ view' \in [Clients -> Int] /\ view'[s] # Repo!NotBegun
        /\ \A t \in Clients : /\ view'[t] \in Repo!NotBegun .. Len(table')
                              /\ t # s => view'[t] = view[t]
    BY <1>2, RepoTypeExecutes DEF Repo!Select
  <2> QED BY <1>2, <2>1 DEF Repo!Select
<1>3. ASSUME NEW item \in Repo!Item, Repo!SelectLatest(s, item)
      PROVE  Repo!TypeOK'
  <2>1. PICK i \in Repo!LatestIn(Repo!Rows(s), item.entity) :
               /\ Repo!Accepts(Repo!Rows(s)[i], item)
               /\ draft' = [draft EXCEPT ![s] = <<Repo!NextVersion(Repo!Rows(s)[i], item, s)>>]
    BY <1>3 DEF Repo!SelectLatest
  <2>2. Repo!Rows(s) \in Seq(Repo!Row) /\ i \in DOMAIN Repo!Rows(s)
    BY <2>1, RowsFacts DEF Repo!LatestIn, Repo!VersionsIn
  <2>3. Repo!Rows(s)[i] \in Repo!Row /\ ~Repo!Rows(s)[i].deleted
    BY <2>1, <2>2 DEF Repo!Accepts
  <2> DEFINE next == Repo!NextVersion(Repo!Rows(s)[i], item, s)
  <2>4. next \in Repo!Row
    BY <2>3, NextVersionFacts
  <2> HIDE DEF next
  <2>5. /\ draft' \in [Clients -> Seq(Repo!Row)]
        /\ \A t \in Clients : Len(draft'[t]) <= 1
    BY <2>1, <2>4 DEF next
  <2>6. /\ view' \in [Clients -> Int] /\ view'[s] # Repo!NotBegun
        /\ \A t \in Clients : /\ view'[t] \in Repo!NotBegun .. Len(table')
                              /\ t # s => view'[t] = view[t]
    BY <1>3, RepoTypeExecutes DEF Repo!SelectLatest
  <2>7. item.entity \in Entities
    BY DEF Repo!Item
  <2> QED BY <1>3, <2>5, <2>6, <2>7 DEF Repo!SelectLatest
<1>4. ASSUME Repo!InsertDraft(s)
      PROVE  Repo!TypeOK'
  <2>1. /\ view' \in [Clients -> Int] /\ view'[s] # Repo!NotBegun
        /\ \A t \in Clients : /\ view'[t] \in Repo!NotBegun .. Len(table')
                              /\ t # s => view'[t] = view[t]
    BY <1>4, RepoTypeExecutes DEF Repo!InsertDraft
  <2>2. own[s] \o draft[s] \in Seq(Repo!Row)
    OBVIOUS
  <2>3. own' \in [Clients -> Seq(Repo!Row)] /\ \A t \in Clients : t # s => own'[t] = own[t]
    BY <1>4, <2>2 DEF Repo!InsertDraft
  <2>4. draft' \in [Clients -> Seq(Repo!Row)] /\ \A t \in Clients : Len(draft'[t]) <= 1
    BY <1>4 DEF Repo!InsertDraft
  <2> QED BY <1>4, <2>1, <2>3, <2>4 DEF Repo!InsertDraft
<1>5. ASSUME Repo!Fail(s)
      PROVE  Repo!TypeOK'
  <2>1. draft' \in [Clients -> Seq(Repo!Row)] /\ \A t \in Clients : Len(draft'[t]) <= 1
    BY <1>5 DEF Repo!Fail
  <2>2. (backend.aborts \/ aborted[s]) \in BOOLEAN
    OBVIOUS
  <2>3. aborted' \in [Clients -> BOOLEAN]
    BY <1>5, <2>2 DEF Repo!Fail
  <2> QED BY <1>5, <2>1, <2>3 DEF Repo!Fail
<1>6. ASSUME Repo!Commit(s) \/ Repo!Rollback(s)
      PROVE  Repo!TypeOK'
  <2>1. table' \in Seq(Repo!Row) /\ Len(table') >= Len(table)
    <3>1. table \o own[s] \in Seq(Repo!Row) /\ Len(table \o own[s]) >= Len(table)
      OBVIOUS
    <3>2. table' = table \/ table' = table \o own[s]
      BY <1>6 DEF Repo!Commit, Repo!Rollback
    <3>3. CASE table' = table
      BY <3>3
    <3>4. CASE table' = table \o own[s]
      BY <3>1, <3>4
    <3> QED BY <3>2, <3>3, <3>4
  <2>2. Repo!Closed(s)
    BY <1>6 DEF Repo!Commit, Repo!Rollback
  <2>3. /\ view' \in [Clients -> Int]
        /\ own' \in [Clients -> Seq(Repo!Row)]
        /\ draft' \in [Clients -> Seq(Repo!Row)]
        /\ aborted' \in [Clients -> BOOLEAN]
    BY <2>2 DEF Repo!Closed, Repo!NotBegun
  <2>4. ASSUME NEW t \in Clients
        PROVE  /\ Len(draft'[t]) <= 1
               /\ view'[t] \in Repo!NotBegun .. Len(table')
               /\ view'[t] = Repo!NotBegun => own'[t] = << >>
    BY <2>1, <2>2 DEF Repo!Closed, Repo!NotBegun
  <2>5. UNCHANGED <<backend, raced>>
    BY <1>6 DEF Repo!Commit, Repo!Rollback
  <2> QED BY <2>1, <2>3, <2>4, <2>5
<1> QED BY <1>1, <1>2, <1>3, <1>4, <1>5, <1>6

-----------------------------------------------------------------------------
(* The rows of the sessions.                                               *)

(* A parent that is committed, or an earlier row of the session, remains   *)
(* one as long as the table grows and the session goes on.                 *)
LEMMA HasParentStays ==
  ASSUME NEW rows, NEW more, NEW mine, NEW ours, NEW row, NEW n,
         \A i \in DOMAIN rows : i \in DOMAIN more /\ more[i] = rows[i],
         \A k \in DOMAIN mine : k \in DOMAIN ours /\ ours[k] = mine[k],
         HasParent(rows, mine, row, n)
  PROVE  HasParent(more, ours, row, n)
BY DEF HasParent

(* Of an entity that nobody has seen, nobody has a row, built ones         *)
(* included.                                                               *)
LEMMA UnusedIsNowhere ==
  ASSUME RepoInv, NEW e \in Entities, Repo!Unused(e)
  PROVE  /\ \A i \in DOMAIN table : table[i].entity # e
         /\ \A t \in Clients : /\ \A k \in DOMAIN own[t] : own[t][k].entity # e
                               /\ \A k \in DOMAIN draft[t] : draft[t][k].entity # e
<1>1. \A i \in DOMAIN table : table[i].entity # e
  BY DEF Repo!Unused, Repo!VersionsIn
<1>2. \A t \in Clients : \A k \in DOMAIN own[t] : own[t][k].entity # e
  BY DEF Repo!Unused, Repo!VersionsIn
<1>3. ASSUME NEW t \in Clients, NEW k \in DOMAIN draft[t]
      PROVE  draft[t][k].entity # e
  <2>1. HasParent(table, own[t], draft[t][k], Len(own[t]) + 1)
    BY DEF RepoInv, UncommittedHasParent
  <2> QED BY <2>1, <1>1, <1>2 DEF HasParent, IsParent
<1> QED BY <1>1, <1>2, <1>3

(* A session sees the rows it has committed before.                        *)
LEMMA SeesItsOwn ==
  ASSUME RepoInv, NEW s \in Clients
  PROVE  \A i \in DOMAIN table : table[i].editor = s => i <= Repo!Sees(s)
<1>1. table \in Seq(Repo!Row)
  BY DEF RepoInv, Repo!TypeOK
<1>2. \A i \in DOMAIN table : i <= Len(table)
  BY <1>1
<1> QED BY <1>2 DEF RepoInv, SessionInv, Repo!Sees

(* ... and still does when its snapshot is fixed.                          *)
LEMMA ExecutesSession ==
  ASSUME RepoInv, NEW s \in Clients, Repo!Executes(s), UNCHANGED table
  PROVE  \A t \in Clients :
           /\ view'[t] = Repo!NotBegun => t # s /\ view[t] = Repo!NotBegun
           /\ view'[t] # Repo!NotBegun =>
                \A i \in DOMAIN table' : table'[i].editor = t => i <= view'[t]
<1>1. /\ view'[s] = Repo!Sees(s) /\ view'[s] # Repo!NotBegun
      /\ \A t \in Clients : t # s => view'[t] = view[t]
  BY RepoTypeExecutes DEF RepoInv
<1> QED BY <1>1, SeesItsOwn DEF RepoInv, SessionInv

LEMMA CreateInv ==
  ASSUME RepoInv, NEW s \in Clients, NEW v \in Repo!Payloads, Repo!Create(s, v)
  PROVE  RepoInv'
<1>1. PICK e \in Entities :
        /\ Repo!Unused(e)
        /\ own' = [own EXCEPT ![s] = Append(own[s], Repo!FirstVersion(e, v, s))]
  BY DEF Repo!Create
<1>2. Repo!TypeOK /\ Repo!TypeOK'
  BY RepoTypeStep DEF RepoInv
<1> DEFINE row == Repo!FirstVersion(e, v, s)
           mine == own[s]
<1>3. /\ row \in Repo!Row /\ row.entity = e /\ row.version = 1
      /\ row.creator = s /\ row.editor = s /\ ~row.deleted
  BY FirstVersionFacts
<1> HIDE DEF row
<1>4. mine \in Seq(Repo!Row)
  BY <1>2 DEF Repo!TypeOK
<1>5. /\ own'[s] = Append(mine, row)
      /\ \A t \in Clients : t # s => own'[t] = own[t]
  BY <1>1, <1>2 DEF Repo!TypeOK, row
<1> HIDE DEF mine
<1>6. /\ \A i \in DOMAIN mine : i \in DOMAIN own'[s] /\ i < Len(mine) + 1
                                /\ own'[s][i] = mine[i]
      /\ Len(mine) + 1 \in DOMAIN own'[s]
      /\ own'[s][Len(mine) + 1] = row
      /\ \A i \in DOMAIN own'[s] : i \in DOMAIN mine \/ i = Len(mine) + 1
  BY <1>3, <1>4, <1>5, AppendFacts
<1>7. own[s] = mine
  BY DEF mine
<1>8. UNCHANGED <<table, draft, raced>> /\ draft[s] = << >>
  BY DEF Repo!Create
<1>9. /\ \A i \in DOMAIN table : table[i].entity # e
      /\ \A t \in Clients : /\ \A k \in DOMAIN own[t] : own[t][k].entity # e
                            /\ \A k \in DOMAIN draft[t] : draft[t][k].entity # e
  BY <1>1, UnusedIsNowhere
<1>10. \A t \in Clients : \A k \in DOMAIN own[t] : k \in DOMAIN own'[t] /\ own'[t][k] = own[t][k]
  BY <1>5, <1>6, <1>7
<1>11. \A t \in Clients : \A k \in DOMAIN own'[t] :
         \/ k \in DOMAIN own[t] /\ own'[t][k] = own[t][k]
         \/ t = s /\ k = Len(mine) + 1 /\ own'[t][k] = row
  BY <1>5, <1>6, <1>7
<1>12. UncommittedHasParent'
  <2>1. ASSUME NEW t \in Clients, NEW k \in DOMAIN own'[t], own'[t][k].version > 1
        PROVE  HasParent(table', own'[t], own'[t][k], k)
    <3>1. k \in DOMAIN own[t] /\ own'[t][k] = own[t][k]
      BY <2>1, <1>3, <1>11
    <3>2. HasParent(table, own[t], own[t][k], k)
      BY <2>1, <3>1 DEF RepoInv, UncommittedHasParent
    <3>3. HasParent(table', own'[t], own[t][k], k)
      BY <3>2, <1>8, <1>10 DEF HasParent
    <3> QED BY <3>1, <3>3
  <2>2. ASSUME NEW t \in Clients, NEW k \in DOMAIN draft'[t]
        PROVE  /\ draft'[t][k].version > 1
               /\ HasParent(table', own'[t], draft'[t][k], Len(own'[t]) + 1)
    <3>1. t # s /\ own'[t] = own[t] /\ draft'[t] = draft[t]
      BY <2>2, <1>5, <1>8
    <3>2. draft[t][k].version > 1 /\ HasParent(table, own[t], draft[t][k], Len(own[t]) + 1)
      BY <3>1 DEF RepoInv, UncommittedHasParent
    <3> QED BY <3>1, <3>2, <1>8
  <2> QED BY <2>1, <2>2 DEF UncommittedHasParent
<1>13. RootIsAlone'
  BY <1>3, <1>8, <1>9, <1>11, <1>6 DEF RepoInv, RootIsAlone, Repo!VersionsIn
<1>14. SessionInv'
  <2>1. \A t \in Clients :
          /\ view'[t] = Repo!NotBegun => t # s /\ view[t] = Repo!NotBegun
          /\ view'[t] # Repo!NotBegun =>
               \A i \in DOMAIN table' : table'[i].editor = t => i <= view'[t]
    BY <1>8, ExecutesSession DEF Repo!Create
  <2> QED BY <2>1, <1>3, <1>8, <1>11 DEF RepoInv, SessionInv
<1>15. NewerThanOwn'
  BY <1>3, <1>8, <1>9, <1>11 DEF RepoInv, NewerThanOwn
<1>16. OwnIncreases'
  BY <1>3, <1>8, <1>9, <1>11, <1>7 DEF RepoInv, OwnIncreases
<1>17. PendingIsNextUnlessRaced'
  BY <1>3, <1>8, <1>9, <1>11 DEF RepoInv, PendingIsNextUnlessRaced, Pending, Repo!VersionsIn
<1>18. LinearUnlessRaced'
  BY <1>8 DEF RepoInv, LinearUnlessRaced, Repo!LinearUnlessRaced
<1> QED BY <1>2, <1>12, <1>13, <1>14, <1>15, <1>16, <1>17, <1>18 DEF RepoInv

LEMMA SelectInv ==
  ASSUME RepoInv, NEW s \in Clients, Repo!Select(s)
  PROVE  RepoInv'
<1>1. UNCHANGED <<table, own, draft, raced>>
  BY DEF Repo!Select
<1>2. Repo!TypeOK'
  BY RepoTypeStep DEF RepoInv
<1>3. SessionInv'
  <2>1. \A t \in Clients :
          /\ view'[t] = Repo!NotBegun => t # s /\ view[t] = Repo!NotBegun
          /\ view'[t] # Repo!NotBegun =>
               \A i \in DOMAIN table' : table'[i].editor = t => i <= view'[t]
    BY <1>1, ExecutesSession DEF Repo!Select
  <2> QED BY <1>1, <2>1 DEF RepoInv, SessionInv
<1>4. /\ UncommittedHasParent' /\ RootIsAlone' /\ NewerThanOwn' /\ OwnIncreases'
      /\ PendingIsNextUnlessRaced'
  BY <1>1 DEF RepoInv, UncommittedHasParent, RootIsAlone, NewerThanOwn, OwnIncreases,
              PendingIsNextUnlessRaced, Pending, Repo!VersionsIn
<1>5. LinearUnlessRaced'
  BY <1>1 DEF RepoInv, LinearUnlessRaced, Repo!LinearUnlessRaced
<1> QED BY <1>2, <1>3, <1>4, <1>5 DEF RepoInv

(* The next version is built on the latest row of all that the session     *)
(* sees, its own included.                                                 *)
LEMMA SelectLatestInv ==
  ASSUME RepoInv, NEW s \in Clients, NEW item \in Repo!Item, Repo!SelectLatest(s, item)
  PROVE  RepoInv'
<1> DEFINE e == item.entity
           mine == Repo!Rows(s)
<1>1. PICK i \in Repo!LatestIn(mine, e) :
             /\ Repo!Accepts(mine[i], item)
             /\ draft' = [draft EXCEPT ![s] = <<Repo!NextVersion(mine[i], item, s)>>]
  BY DEF Repo!SelectLatest
<1> DEFINE next == Repo!NextVersion(mine[i], item, s)
<1>2. Repo!TypeOK /\ Repo!TypeOK'
  BY RepoTypeStep DEF RepoInv
<1>3. /\ mine \in Seq(Repo!Row)
      /\ \A k \in 1 .. Repo!Sees(s) : k \in DOMAIN mine /\ mine[k] = table[k]
      /\ \A k \in DOMAIN own[s] : \E n \in DOMAIN mine : mine[n] = own[s][k]
      /\ \A n \in DOMAIN mine :
           \/ \E k \in DOMAIN table : mine[n] = table[k]
           \/ \E k \in DOMAIN own[s] : mine[n] = own[s][k]
  BY <1>2, RowsFacts
<1> HIDE DEF mine
<1>4. /\ i \in DOMAIN mine /\ mine[i].entity = e
      /\ \A n \in DOMAIN mine : mine[n].entity = e => mine[n].version <= mine[i].version
  BY <1>1 DEF Repo!LatestIn, Repo!VersionsIn
<1>5. mine[i] \in Repo!Row /\ ~mine[i].deleted
  BY <1>1, <1>3, <1>4 DEF Repo!Accepts
<1>6. next \in Repo!Row /\ IsParent(mine[i], next) /\ next.editor = s
  BY <1>5, NextVersionFacts
<1>7. /\ draft'[s] = <<next>>
      /\ \A t \in Clients : t # s => draft'[t] = draft[t]
  BY <1>1, <1>2 DEF Repo!TypeOK, mine
<1> HIDE DEF next
<1>8. DOMAIN draft'[s] = {1} /\ draft'[s][1] = next
  BY <1>7
<1>9. mine[i].version \in Nat \ {0} /\ next.version = mine[i].version + 1 /\ next.entity = e
  BY <1>4, <1>5, <1>6, RowFields DEF IsParent
<1>10. UNCHANGED <<table, own>> /\ draft[s] = << >> /\ raced \subseteq raced' /\ e \in Entities
  BY DEF Repo!SelectLatest, Repo!Item
<1>11. \A k \in DOMAIN own[s] : own[s][k].entity = e => own[s][k].version < next.version
  <2>1. \A k \in DOMAIN own[s] : own[s][k].entity = e => own[s][k].version <= mine[i].version
    BY <1>3, <1>4
  <2>2. \A k \in DOMAIN own[s] : own[s][k].version \in Nat
    BY <1>2, RowFields DEF Repo!TypeOK
  <2> QED BY <2>1, <2>2, <1>9
<1>12. \A k \in DOMAIN table : k <= Repo!Sees(s) /\ table[k].entity = e
                                => table[k].version < next.version
  <2>1. \A k \in DOMAIN table : k <= Repo!Sees(s) => k \in 1 .. Repo!Sees(s)
    BY <1>2, SeesType DEF Repo!TypeOK
  <2>2. \A k \in DOMAIN table : k <= Repo!Sees(s) /\ table[k].entity = e
                                => table[k].version <= mine[i].version
    BY <2>1, <1>3, <1>4
  <2>3. \A k \in DOMAIN table : table[k].version \in Nat
    BY <1>2, RowFields DEF Repo!TypeOK
  <2> QED BY <2>2, <2>3, <1>9
<1>13. UncommittedHasParent'
  <2>1. \A t \in Clients : \A k \in DOMAIN own'[t] :
          own'[t][k].version > 1 => HasParent(table', own'[t], own'[t][k], k)
    BY <1>10 DEF RepoInv, UncommittedHasParent
  <2>2. next.version > 1
    BY <1>9
  <2>3. HasParent(table, own[s], next, Len(own[s]) + 1)
    <3>1. CASE \E k \in DOMAIN table : mine[i] = table[k]
      BY <3>1, <1>6 DEF HasParent
    <3>2. CASE \E k \in DOMAIN own[s] : mine[i] = own[s][k]
      <4>1. \A k \in DOMAIN own[s] : k < Len(own[s]) + 1
        BY <1>2 DEF Repo!TypeOK
      <4> QED BY <3>2, <4>1, <1>6 DEF HasParent
    <3> QED BY <3>1, <3>2, <1>3, <1>4
  <2>4. \A t \in Clients : \A k \in DOMAIN draft'[t] :
          /\ draft'[t][k].version > 1
          /\ HasParent(table', own'[t], draft'[t][k], Len(own'[t]) + 1)
    BY <1>7, <1>8, <1>10, <2>2, <2>3 DEF RepoInv, UncommittedHasParent
  <2> QED BY <2>1, <2>4 DEF UncommittedHasParent
<1>14. RootIsAlone'
  <2>1. \A t \in Clients \ {s} : \A k \in DOMAIN own[t] :
          own[t][k].version = 1 => own[t][k].entity # e
    <3>1. \/ \E k \in DOMAIN table : table[k].entity = e
          \/ \E k \in DOMAIN own[s] : own[s][k].entity = e
      BY <1>3, <1>4
    <3> QED BY <3>1 DEF RepoInv, RootIsAlone, Repo!VersionsIn
  <2> QED BY <2>1, <1>7, <1>8, <1>9, <1>10 DEF RepoInv, RootIsAlone, Repo!VersionsIn
<1>15. SessionInv'
  <2>1. \A t \in Clients :
          /\ view'[t] = Repo!NotBegun => t # s /\ view[t] = Repo!NotBegun
          /\ view'[t] # Repo!NotBegun =>
               \A k \in DOMAIN table' : table'[k].editor = t => k <= view'[t]
    BY <1>10, ExecutesSession DEF Repo!SelectLatest
  <2> QED BY <2>1, <1>6, <1>7, <1>8, <1>10 DEF RepoInv, SessionInv
<1>16. NewerThanOwn'
  <2>1. \A k \in DOMAIN table : table[k].editor = s /\ table[k].entity = e
                               => table[k].version < next.version
    BY <1>12, SeesItsOwn
  <2> QED BY <2>1, <1>7, <1>8, <1>9, <1>10 DEF RepoInv, NewerThanOwn
<1>17. OwnIncreases'
  BY <1>7, <1>8, <1>9, <1>10, <1>11 DEF RepoInv, OwnIncreases
<1>18. PendingIsNextUnlessRaced'
  <2>1. e \notin raced' => /\ \A t \in Clients \ {s} : ~Pending(t, e)
                          /\ \A k \in DOMAIN table : table[k].entity = e
                                                      => table[k].version < next.version
    <3>1. ASSUME e \notin raced'
          PROVE  ~Repo!PendingElsewhere(s, e) /\ ~Repo!StaleFor(s, e)
      BY <3>1 DEF Repo!SelectLatest
    <3>2. ASSUME ~Repo!StaleFor(s, e), NEW k \in DOMAIN table, table[k].entity = e
          PROVE  k <= Repo!Sees(s)
      <4>1. Repo!Sees(s) \in Nat /\ k \in 1 .. Len(table)
        BY <1>2, SeesType DEF Repo!TypeOK
      <4>2. k \notin Repo!Sees(s) + 1 .. Len(table)
        BY <3>2 DEF Repo!StaleFor
      <4> QED BY <4>1, <4>2
    <3>3. ASSUME ~Repo!PendingElsewhere(s, e), NEW t \in Clients \ {s}
          PROVE  ~Pending(t, e)
      BY <3>3 DEF Repo!PendingElsewhere, Pending
    <3> QED BY <3>1, <3>2, <3>3, <1>12
  <2> QED BY <2>1, <1>7, <1>8, <1>9, <1>10
          DEF RepoInv, PendingIsNextUnlessRaced, Pending, Repo!VersionsIn
<1>19. LinearUnlessRaced'
  BY <1>10 DEF RepoInv, LinearUnlessRaced, Repo!LinearUnlessRaced
<1> QED BY <1>2, <1>13, <1>14, <1>15, <1>16, <1>17, <1>18, <1>19 DEF RepoInv

LEMMA InsertDraftInv ==
  ASSUME RepoInv, NEW s \in Clients, Repo!InsertDraft(s)
  PROVE  RepoInv'
<1>1. Repo!TypeOK /\ Repo!TypeOK'
  BY RepoTypeStep DEF RepoInv
<1> DEFINE mine == own[s]
           row == draft[s][1]
<1>2. DOMAIN draft[s] = {1} /\ draft[s] = <<row>> /\ row \in Repo!Row
  <2>1. draft[s] \in Seq(Repo!Row) /\ Len(draft[s]) <= 1 /\ draft[s] # << >>
    BY <1>1 DEF Repo!TypeOK, Repo!InsertDraft
  <2> QED BY <2>1
<1> HIDE DEF row
<1>3. mine \in Seq(Repo!Row) /\ own' = [own EXCEPT ![s] = mine \o <<row>>]
  BY <1>1, <1>2 DEF Repo!TypeOK, Repo!InsertDraft
<1>4. /\ own'[s] = Append(mine, row)
      /\ \A t \in Clients : t # s => own'[t] = own[t]
  BY <1>1, <1>2, <1>3 DEF Repo!TypeOK
<1>5. own[s] = mine /\ draft[s][1] = row
  BY DEF row
<1> HIDE DEF mine
<1>6. /\ \A i \in DOMAIN mine : i \in DOMAIN own'[s] /\ i < Len(mine) + 1
                                /\ own'[s][i] = mine[i]
      /\ Len(mine) + 1 \in DOMAIN own'[s]
      /\ own'[s][Len(mine) + 1] = row
      /\ \A i \in DOMAIN own'[s] : i \in DOMAIN mine \/ i = Len(mine) + 1
  BY <1>2, <1>3, <1>4, AppendFacts
<1>7. /\ UNCHANGED <<table, raced>>
      /\ draft'[s] = << >>
      /\ \A t \in Clients : t # s => draft'[t] = draft[t]
  BY <1>1 DEF Repo!InsertDraft, Repo!TypeOK
<1>8. \A t \in Clients : \A k \in DOMAIN own[t] : k \in DOMAIN own'[t] /\ own'[t][k] = own[t][k]
  BY <1>4, <1>5, <1>6
<1>9. \A t \in Clients : \A k \in DOMAIN own'[t] :
        \/ k \in DOMAIN own[t] /\ own'[t][k] = own[t][k]
        \/ t = s /\ k = Len(mine) + 1 /\ own'[t][k] = row
  BY <1>4, <1>5, <1>6
<1>10. \A t \in Clients : \A k \in DOMAIN draft'[t] :
         t # s /\ k \in DOMAIN draft[t] /\ draft'[t][k] = draft[t][k]
  BY <1>7
<1>11. row.version > 1 /\ HasParent(table, own[s], row, Len(mine) + 1)
  BY <1>2, <1>5 DEF RepoInv, UncommittedHasParent
<1>12. UncommittedHasParent'
  <2>1. ASSUME NEW t \in Clients, NEW k \in DOMAIN own'[t], own'[t][k].version > 1
        PROVE  HasParent(table', own'[t], own'[t][k], k)
    <3>1. HasParent(table, own[t], own'[t][k], k)
      BY <2>1, <1>9, <1>11 DEF RepoInv, UncommittedHasParent
    <3> QED BY <3>1, <1>7, <1>8 DEF HasParent
  <2>2. \A t \in Clients : \A k \in DOMAIN draft'[t] :
          /\ draft'[t][k].version > 1
          /\ HasParent(table', own'[t], draft'[t][k], Len(own'[t]) + 1)
    BY <1>4, <1>7, <1>10 DEF RepoInv, UncommittedHasParent
  <2> QED BY <2>1, <2>2 DEF UncommittedHasParent
<1>13. RootIsAlone'
  <2>1. \A t \in Clients \ {s} : \A k \in DOMAIN own[t] :
          own[t][k].version = 1 => own[t][k].entity # row.entity
    BY <1>2, <1>5 DEF RepoInv, RootIsAlone, Repo!VersionsIn
  <2>2. row.version # 1
    BY <1>2, <1>11, RowFields
  <2> QED BY <2>1, <2>2, <1>4, <1>6, <1>7, <1>9, <1>10
          DEF RepoInv, RootIsAlone, Repo!VersionsIn
<1>14. SessionInv'
  <2>1. \A t \in Clients :
          /\ view'[t] = Repo!NotBegun => t # s /\ view[t] = Repo!NotBegun
          /\ view'[t] # Repo!NotBegun =>
               \A k \in DOMAIN table' : table'[k].editor = t => k <= view'[t]
    BY <1>7, ExecutesSession DEF Repo!InsertDraft
  <2> QED BY <2>1, <1>2, <1>5, <1>7, <1>9, <1>10 DEF RepoInv, SessionInv
<1>15. NewerThanOwn'
  BY <1>2, <1>5, <1>7, <1>9, <1>10 DEF RepoInv, NewerThanOwn
<1>16. OwnIncreases'
  <2>1. ASSUME NEW t \in Clients, NEW j \in DOMAIN own'[t], NEW k \in DOMAIN own'[t],
               j < k, own'[t][j].entity = own'[t][k].entity
        PROVE  own'[t][j].version < own'[t][k].version
    <3>1. j \in DOMAIN own[t] /\ own'[t][j] = own[t][j]
      <4>1. CASE t # s
        BY <4>1, <1>4
      <4>2. CASE t = s
        <5>1. Len(mine) \in Nat /\ j \in Nat /\ k \in Nat /\ k <= Len(mine) + 1
          BY <4>2, <1>2, <1>3, <1>4
        <5> QED BY <2>1, <4>2, <5>1, <1>5, <1>6
      <4> QED BY <4>1, <4>2
    <3>2. CASE k \in DOMAIN own[t] /\ own'[t][k] = own[t][k]
      BY <2>1, <3>1, <3>2 DEF RepoInv, OwnIncreases
    <3>3. CASE t = s /\ own'[t][k] = row
      BY <2>1, <3>1, <3>3, <1>2, <1>5 DEF RepoInv, OwnIncreases
    <3> QED BY <3>2, <3>3, <1>9
  <2>2. \A t \in Clients : \A j \in DOMAIN own'[t], k \in DOMAIN draft'[t] :
          own'[t][j].entity = draft'[t][k].entity
          => own'[t][j].version < draft'[t][k].version
    BY <1>4, <1>7, <1>10 DEF RepoInv, OwnIncreases
  <2> QED BY <2>1, <2>2 DEF OwnIncreases
<1>17. PendingIsNextUnlessRaced'
  BY <1>2, <1>5, <1>7, <1>9, <1>10
  DEF RepoInv, PendingIsNextUnlessRaced, Pending, Repo!VersionsIn
<1>18. LinearUnlessRaced'
  BY <1>7 DEF RepoInv, LinearUnlessRaced, Repo!LinearUnlessRaced
<1> QED BY <1>1, <1>12, <1>13, <1>14, <1>15, <1>16, <1>17, <1>18 DEF RepoInv

LEMMA FailInv ==
  ASSUME RepoInv, NEW s \in Clients, Repo!Fail(s)
  PROVE  RepoInv'
<1>1. Repo!TypeOK /\ Repo!TypeOK'
  BY RepoTypeStep DEF RepoInv
<1>2. UNCHANGED <<table, view, own, raced>>
  BY DEF Repo!Fail
<1>3. \A t \in Clients : \A k \in DOMAIN draft'[t] :
        k \in DOMAIN draft[t] /\ draft'[t][k] = draft[t][k]
  BY <1>1 DEF Repo!Fail, Repo!TypeOK
<1>4. \A t \in Clients : draft'[t] = << >> \/ draft'[t] = draft[t]
  BY <1>1 DEF Repo!Fail, Repo!TypeOK
<1>5. UncommittedHasParent'
  BY <1>2, <1>3 DEF RepoInv, UncommittedHasParent
<1>6. RootIsAlone'
  BY <1>2, <1>3 DEF RepoInv, RootIsAlone, Repo!VersionsIn
<1>7. SessionInv'
  BY <1>2, <1>3, <1>4 DEF RepoInv, SessionInv
<1>8. NewerThanOwn' /\ OwnIncreases'
  BY <1>2, <1>3 DEF RepoInv, NewerThanOwn, OwnIncreases
<1>9. PendingIsNextUnlessRaced'
  BY <1>2, <1>3 DEF RepoInv, PendingIsNextUnlessRaced, Pending, Repo!VersionsIn
<1>10. LinearUnlessRaced'
  BY <1>2 DEF RepoInv, LinearUnlessRaced, Repo!LinearUnlessRaced
<1> QED BY <1>1, <1>5, <1>6, <1>7, <1>8, <1>9, <1>10 DEF RepoInv

(* What a closed session leaves behind.                                    *)
LEMMA ClosedFacts ==
  ASSUME Repo!TypeOK, NEW s \in Clients, Repo!Closed(s)
  PROVE  /\ view'[s] = Repo!NotBegun /\ own'[s] = << >> /\ draft'[s] = << >> /\ ~aborted'[s]
         /\ \A t \in Clients : t # s => /\ view'[t] = view[t] /\ own'[t] = own[t]
                                        /\ draft'[t] = draft[t]
                                        /\ aborted'[t] = aborted[t]
<1>1. /\ view'[s] = Repo!NotBegun /\ own'[s] = << >> /\ draft'[s] = << >>
      /\ \A t \in Clients : t # s => /\ view'[t] = view[t] /\ own'[t] = own[t]
                                     /\ draft'[t] = draft[t]
                                     /\ aborted'[t] = aborted[t]
  BY DEF Repo!TypeOK, Repo!Closed
<1>2. ~aborted'[s]
  BY DEF Repo!TypeOK, Repo!Closed
<1> QED BY <1>1, <1>2

(* A session that stores nothing leaves no trace.                          *)
LEMMA RollbackInv ==
  ASSUME RepoInv, NEW s \in Clients,
         Repo!Rollback(s) \/ Repo!Commit(s), UNCHANGED table
  PROVE  RepoInv'
<1>1. Repo!TypeOK /\ Repo!TypeOK'
  BY RepoTypeStep DEF RepoInv
<1>2. Repo!Closed(s) /\ UNCHANGED <<table, raced>>
  BY DEF Repo!Rollback, Repo!Commit
<1>3. /\ view'[s] = Repo!NotBegun /\ own'[s] = << >> /\ draft'[s] = << >>
      /\ \A t \in Clients : t # s => /\ view'[t] = view[t] /\ own'[t] = own[t]
                                     /\ draft'[t] = draft[t]
  BY <1>1, <1>2, ClosedFacts
<1>4. UncommittedHasParent'
  BY <1>2, <1>3 DEF RepoInv, UncommittedHasParent
<1>5. RootIsAlone'
  BY <1>2, <1>3 DEF RepoInv, RootIsAlone, Repo!VersionsIn
<1>6. SessionInv'
  BY <1>2, <1>3 DEF RepoInv, SessionInv
<1>7. NewerThanOwn' /\ OwnIncreases'
  BY <1>2, <1>3 DEF RepoInv, NewerThanOwn, OwnIncreases
<1>8. PendingIsNextUnlessRaced'
  BY <1>2, <1>3 DEF RepoInv, PendingIsNextUnlessRaced, Pending, Repo!VersionsIn
<1>9. LinearUnlessRaced'
  BY <1>2 DEF RepoInv, LinearUnlessRaced, Repo!LinearUnlessRaced
<1> QED BY <1>1, <1>4, <1>5, <1>6, <1>7, <1>8, <1>9 DEF RepoInv

LEMMA CommitInv ==
  ASSUME RepoInv, NEW s \in Clients, Repo!Commit(s)
  PROVE  RepoInv'
<1>0. CASE table' = table
  BY <1>0, RollbackInv
<1>a. CASE table' = table \o own[s]
  <2>1. Repo!TypeOK /\ Repo!TypeOK'
    BY RepoTypeStep DEF RepoInv
  <2>2. Repo!Closed(s) /\ UNCHANGED raced
    BY DEF Repo!Commit
  <2>3. /\ view'[s] = Repo!NotBegun /\ own'[s] = << >> /\ draft'[s] = << >>
        /\ \A t \in Clients : t # s => /\ view'[t] = view[t] /\ own'[t] = own[t]
                                       /\ draft'[t] = draft[t]
    BY <2>1, <2>2, ClosedFacts
  <2> DEFINE mine == own[s]
  <2>4. table \in Seq(Repo!Row) /\ mine \in Seq(Repo!Row)
    BY <2>1 DEF Repo!TypeOK
  <2> HIDE DEF mine
  <2>5. table' = table \o mine /\ own[s] = mine
    BY <1>a DEF mine
  <2>6. /\ \A i \in DOMAIN table : i \in DOMAIN table' /\ table'[i] = table[i]
        /\ \A i \in DOMAIN table' :
             \/ i \in DOMAIN table /\ table'[i] = table[i]
             \/ \E k \in DOMAIN mine : i = Len(table) + k /\ table'[i] = mine[k]
    BY <2>4, <2>5, ConcatFacts
  <2>7. \A k \in DOMAIN mine : mine[k].editor = s
    BY <2>5 DEF RepoInv, SessionInv
  <2>8. \A t \in Clients \ {s} :
          /\ \A k \in DOMAIN own[t] : own[t][k].version = 1 =>
               \A j \in DOMAIN mine : mine[j].entity # own[t][k].entity
    BY <2>5 DEF RepoInv, RootIsAlone, Repo!VersionsIn
  <2>9. UncommittedHasParent'
    BY <2>3, <2>6 DEF RepoInv, UncommittedHasParent, HasParent
  <2>10. RootIsAlone'
    BY <2>3, <2>6, <2>8 DEF RepoInv, RootIsAlone, Repo!VersionsIn
  <2>11. SessionInv'
    BY <2>3, <2>6, <2>7 DEF RepoInv, SessionInv
  <2>12. NewerThanOwn'
    BY <2>3, <2>6, <2>7 DEF RepoInv, NewerThanOwn
  <2>13. OwnIncreases'
    BY <2>3 DEF RepoInv, OwnIncreases
  <2>14. PendingIsNextUnlessRaced'
    <3>1. ASSUME NEW t \in Clients \ {s}, NEW e \in Entities \ raced, Pending(t, e)
          PROVE  \A j \in DOMAIN mine : mine[j].entity # e
      BY <2>5, <3>1 DEF RepoInv, PendingIsNextUnlessRaced, Pending, Repo!VersionsIn
    <3> QED BY <2>2, <2>3, <2>6, <3>1
            DEF RepoInv, PendingIsNextUnlessRaced, Pending, Repo!VersionsIn
  <2>15. LinearUnlessRaced'
    <3> SUFFICES ASSUME NEW i \in DOMAIN table', NEW j \in DOMAIN table',
                        table'[i].entity = table'[j].entity,
                        table'[i].version = table'[j].version,
                        table'[i].entity \notin raced
                 PROVE  i = j
      BY <2>2 DEF LinearUnlessRaced, Repo!LinearUnlessRaced
    <3>1. \A n \in DOMAIN table, k \in DOMAIN mine :
            table[n].entity = mine[k].entity /\ mine[k].entity \notin raced
            => table[n].version < mine[k].version
      <4>1. \A k \in DOMAIN mine : mine[k].entity \in Entities /\ Pending(s, mine[k].entity)
        BY <2>4, <2>5, RowFields DEF Pending, Repo!VersionsIn
      <4> QED BY <2>5, <4>1 DEF RepoInv, PendingIsNextUnlessRaced
    <3>2. \A k, l \in DOMAIN mine : mine[k].entity = mine[l].entity /\ k < l
                                    => mine[k].version < mine[l].version
      BY <2>5 DEF RepoInv, OwnIncreases
    <3>3. \A n \in DOMAIN table' : table'[n].version \in Nat
      BY <2>1, RowFields DEF Repo!TypeOK
    <3>4. CASE i \in DOMAIN table /\ table'[i] = table[i]
               /\ j \in DOMAIN table /\ table'[j] = table[j]
      BY <3>4 DEF RepoInv, LinearUnlessRaced, Repo!LinearUnlessRaced
    <3>5. ASSUME NEW k \in DOMAIN mine, i = Len(table) + k, table'[i] = mine[k]
          PROVE  i = j
      <4>1. CASE j \in DOMAIN table /\ table'[j] = table[j]
        BY <3>1, <3>3, <3>5, <4>1
      <4>2. ASSUME NEW l \in DOMAIN mine, j = Len(table) + l, table'[j] = mine[l]
            PROVE  i = j
        <5>1. ~(k < l) /\ ~(l < k)
          BY <3>2, <3>3, <3>5, <4>2
        <5> QED BY <5>1, <3>5, <4>2, <2>4
      <4> QED BY <4>1, <4>2, <2>6
    <3>6. ASSUME NEW k \in DOMAIN mine, j = Len(table) + k, table'[j] = mine[k],
                 i \in DOMAIN table, table'[i] = table[i]
          PROVE  i = j
      BY <3>1, <3>3, <3>6
    <3> QED BY <3>4, <3>5, <3>6, <2>6
  <2> QED BY <2>1, <2>9, <2>10, <2>11, <2>12, <2>13, <2>14, <2>15 DEF RepoInv
<1> QED BY <1>0, <1>a DEF Repo!Commit

LEMMA RepoInitInv ==
  ASSUME Repo!Init
  PROVE  RepoInv
<1>1. Repo!TypeOK
  BY RepoTypeInit
<1>2. /\ \A s \in Clients : own[s] = << >> /\ draft[s] = << >> /\ view[s] = Repo!NotBegun
      /\ DOMAIN table \subseteq {1}
  BY DEF Repo!Init
<1>3. UncommittedHasParent /\ RootIsAlone /\ SessionInv /\ NewerThanOwn /\ OwnIncreases
  BY <1>2 DEF UncommittedHasParent, RootIsAlone, SessionInv, NewerThanOwn, OwnIncreases
<1>4. PendingIsNextUnlessRaced
  BY <1>2 DEF PendingIsNextUnlessRaced, Pending, Repo!VersionsIn
<1>5. LinearUnlessRaced
  BY <1>2 DEF LinearUnlessRaced, Repo!LinearUnlessRaced
<1> QED BY <1>1, <1>3, <1>4, <1>5 DEF RepoInv

LEMMA RepoStutterInv ==
  ASSUME RepoInv, UNCHANGED repoVars
  PROVE  RepoInv'
<1>1. UNCHANGED <<backend, table, view, own, draft, aborted, raced>>
  BY DEF repoVars
<1>2. Repo!TypeOK'
  BY <1>1 DEF RepoInv, Repo!TypeOK
<1>3. UncommittedHasParent' /\ NewerThanOwn' /\ OwnIncreases' /\ SessionInv'
  BY <1>1 DEF RepoInv, UncommittedHasParent, NewerThanOwn, OwnIncreases, SessionInv
<1>4. RootIsAlone'
  BY <1>1 DEF RepoInv, RootIsAlone, Repo!VersionsIn
<1>5. PendingIsNextUnlessRaced'
  BY <1>1 DEF RepoInv, PendingIsNextUnlessRaced, Pending, Repo!VersionsIn
<1>6. LinearUnlessRaced'
  BY <1>1 DEF RepoInv, LinearUnlessRaced, Repo!LinearUnlessRaced
<1> QED BY <1>2, <1>3, <1>4, <1>5, <1>6 DEF RepoInv

(* Whatever the sessions do, their invariant is kept.                      *)
LEMMA RepoNextInv ==
  ASSUME RepoInv, Repo!Next
  PROVE  RepoInv'
<1>1. PICK s \in Clients :
        \/ \E v \in Repo!Payloads : Repo!Create(s, v)
        \/ Repo!Select(s)
        \/ \E item \in Repo!Item : Repo!SelectNone(s, item) \/ Repo!SelectLatest(s, item)
        \/ Repo!InsertDraft(s)
        \/ Repo!Fail(s)
        \/ Repo!Commit(s)
        \/ Repo!Rollback(s)
  BY DEF Repo!Next
<1>2. CASE \E v \in Repo!Payloads : Repo!Create(s, v)
  BY <1>2, CreateInv
<1>3. CASE Repo!Select(s) \/ \E item \in Repo!Item : Repo!SelectNone(s, item)
  BY <1>3, SelectInv DEF Repo!SelectNone
<1>4. CASE \E item \in Repo!Item : Repo!SelectLatest(s, item)
  BY <1>4, SelectLatestInv
<1>5. CASE Repo!InsertDraft(s)
  BY <1>5, InsertDraftInv
<1>6. CASE Repo!Fail(s)
  BY <1>6, FailInv
<1>7. CASE Repo!Commit(s)
  BY <1>7, CommitInv
<1>8. CASE Repo!Rollback(s)
  BY <1>8, RollbackInv DEF Repo!Rollback
<1> QED BY <1>1, <1>2, <1>3, <1>4, <1>5, <1>6, <1>7, <1>8

-----------------------------------------------------------------------------
(* The table implements the version tree.                                  *)

LEMMA TreeInit ==
  ASSUME Repo!Init
  PROVE  Repo!Tree!BatchInit
<1>1. CASE table = << >>
  BY <1>1 DEF Repo!Tree!BatchInit, Repo!Tree!GrownFrom
<1>2. CASE \E e \in Entities, v \in Values \ Arrays, u \in Clients :
             table = <<Repo!FirstVersion(e, v, u)>>
  <2>1. PICK e \in Entities, v \in Values \ Arrays, u \in Clients :
               table = <<Repo!FirstVersion(e, v, u)>>
    BY <1>2
  <2> DEFINE row == Repo!FirstVersion(e, v, u)
  <2>2. row = Repo!Tree!FirstVersion(row.entity, row.value, row.creator)
    BY DEF Repo!FirstVersion, Repo!Tree!FirstVersion
  <2> HIDE DEF row
  <2>3. table = <<row>>
    BY <2>1 DEF row
  <2>4. DOMAIN SubSeq(table, 1, 0) = {}
    BY <2>3
  <2>5. Repo!Tree!Grows(SubSeq(table, 1, 1 - 1), table[1])
    BY <2>2, <2>3, <2>4 DEF Repo!Tree!Grows
  <2>6. \A i \in 0 + 1 .. Len(table) : i = 1
    BY <2>3
  <2> QED BY <2>5, <2>6 DEF Repo!Tree!BatchInit, Repo!Tree!GrownFrom
<1> QED BY <1>1, <1>2 DEF Repo!Init

(* What a session commits is a batch: each row is the first of its entity, *)
(* or the child of a row before it.                                        *)
LEMMA CommitIsBatch ==
  ASSUME RepoInv, NEW s \in Clients, Repo!Commit(s)
  PROVE  Repo!Tree!CommitBatch \/ UNCHANGED table
<1> DEFINE mine == own[s]
<1>1. table \in Seq(Repo!Row) /\ mine \in Seq(Repo!Row)
  BY DEF RepoInv, Repo!TypeOK
<1>2. CASE table' = table
  BY <1>2
<1>3. CASE table' = table \o mine /\ mine # << >>
  <2>1. /\ Len(table') = Len(table) + Len(mine)
        /\ table' \in Seq(Repo!Row)
        /\ \A i \in DOMAIN table : i \in DOMAIN table' /\ table'[i] = table[i]
        /\ \A k \in DOMAIN mine : table'[Len(table) + k] = mine[k]
    <3> HIDE DEF mine
    <3> QED BY <1>1, <1>3, ConcatFacts
  <2>2. Len(table) < Len(table')
    BY <1>1, <1>3, <2>1
  <2>3. SubSeq(table', 1, Len(table)) = table
    BY <1>1, <2>1
  <2>4. ASSUME NEW i \in Len(table) + 1 .. Len(table')
        PROVE  Repo!Tree!Grows(SubSeq(table', 1, i - 1), table'[i])
    <3> DEFINE k == i - Len(table)
               row == mine[k]
               before == SubSeq(table', 1, i - 1)
    <3>1. k \in DOMAIN mine /\ i = Len(table) + k /\ table'[i] = row
      BY <1>1, <2>1
    <3>2. /\ DOMAIN before = 1 .. i - 1
          /\ \A j \in DOMAIN before : before[j] = table'[j]
      BY <1>1, <2>1
    <3> HIDE DEF k, row, before, mine
    <3>3. \A j \in DOMAIN table : j \in DOMAIN before /\ before[j] = table[j]
      BY <1>1, <2>1, <3>1, <3>2
    <3>4. ASSUME NEW j \in DOMAIN mine, j < k
          PROVE  /\ Len(table) + j \in DOMAIN before
                 /\ before[Len(table) + j] = mine[j]
      <4>1. Len(table) + j \in 1 .. i - 1
        BY <1>1, <3>1, <3>4
      <4> QED BY <2>1, <3>2, <4>1
    <3>5. \A j \in DOMAIN before :
            \/ j \in DOMAIN table /\ before[j] = table[j]
            \/ \E n \in DOMAIN mine : n < k /\ before[j] = mine[n]
      <4>1. ASSUME NEW j \in DOMAIN before, j \notin DOMAIN table
            PROVE  /\ j - Len(table) \in DOMAIN mine /\ j - Len(table) < k
                   /\ before[j] = mine[j - Len(table)]
        <5>1. j \in Len(table) + 1 .. i - 1
          BY <4>1, <1>1, <3>2
        <5>2. j - Len(table) \in DOMAIN mine /\ j - Len(table) < k
              /\ j = Len(table) + (j - Len(table))
          BY <5>1, <1>1, <3>1
        <5> QED BY <5>2, <3>4
      <4> QED BY <4>1, <3>3
    <3>6. row \in Repo!Row
      BY <1>1, <3>1 DEF row
    <3>7. mine = own[s]
      BY DEF mine
    <3>8. CASE row.version = 1
      <4>1. /\ ~row.deleted /\ row.editor = row.creator
            /\ \A j \in DOMAIN table : table[j].entity # row.entity
            /\ \A j \in DOMAIN mine : j < k => mine[j].entity # row.entity
        BY <3>1, <3>7, <3>8 DEF RepoInv, RootIsAlone, Repo!VersionsIn, row
      <4>2. \A j \in DOMAIN before : before[j].entity # row.entity
        BY <3>5, <4>1
      <4>3. row = Repo!Tree!FirstVersion(row.entity, row.value, row.creator)
        <5>1. row.deleted = FALSE
          BY <3>6, <4>1 DEF Repo!Row
        <5> QED BY <3>6, <3>8, <4>1, <5>1 DEF Repo!Row, Repo!Tree!FirstVersion
      <4> QED BY <3>1, <4>2, <4>3 DEF Repo!Tree!Grows, before
    <3>9. CASE row.version # 1
      <4>1. row.version > 1
        BY <3>6, <3>9, RowFields
      <4>2. HasParent(table, mine, row, k)
        BY <3>1, <3>7, <4>1 DEF RepoInv, UncommittedHasParent, row
      <4>3. \E j \in DOMAIN before : IsParent(before[j], row)
        BY <3>3, <3>4, <4>2 DEF HasParent
      <4> QED BY <3>1, <4>3 DEF Repo!Tree!Grows, IsParent, before
    <3> QED BY <3>8, <3>9
  <2> QED BY <2>2, <2>3, <2>4 DEF Repo!Tree!CommitBatch, Repo!Tree!GrownFrom
<1>4. CASE table' = table \o mine /\ mine = << >>
  BY <1>1, <1>4
<1> QED BY <1>2, <1>3, <1>4 DEF Repo!Commit

LEMMA TreeStep ==
  ASSUME RepoInv, Repo!Next
  PROVE  Repo!Tree!CommitBatch \/ UNCHANGED table
BY CommitIsBatch DEF Repo!Next, Repo!Create, Repo!Select, Repo!SelectNone, Repo!SelectLatest,
       Repo!InsertDraft, Repo!Fail, Repo!Rollback

-----------------------------------------------------------------------------
(* The handlers of an event.                                               *)

LEMMA TellParameters == Tell!Parameters
BY ParametersAssumption

(* The tail of a sequence holds its elements but the first, one place down. *)
LEMMA TailFacts ==
  ASSUME NEW S, NEW q \in Seq(S), q # << >>
  PROVE  /\ Head(q) \in S /\ Head(q) = q[1]
         /\ Tail(q) \in Seq(S) /\ Len(Tail(q)) = Len(q) - 1 /\ Len(q) \in Nat \ {0}
         /\ \A i \in DOMAIN Tail(q) : i + 1 \in DOMAIN q /\ Tail(q)[i] = q[i + 1]
OBVIOUS

(* Induction over the natural numbers, for a set of them.                  *)
LEMMA Induction ==
  ASSUME NEW G, 0 \in G, \A n \in Nat : n \in G => n + 1 \in G
  PROVE  Nat \subseteq G
<1> SUFFICES ASSUME Nat \ G # {}
             PROVE  FALSE
  OBVIOUS
<1> DEFINE R == OpToRel(<, Nat)
<1>1. PICK n \in Nat \ G : \A m \in Nat \ G : <<m, n>> \notin R
  <2>1. IsWellFoundedOn(R, Nat)
    BY NatLessThanWellFounded
  <2> HIDE DEF R
  <2> QED BY <2>1, WFMin
<1>2. n # 0 /\ n - 1 \in Nat /\ n - 1 < n
  OBVIOUS
<1>3. n - 1 \in G
  BY <1>1, <1>2 DEF OpToRel
<1> QED BY <1>2, <1>3

(* A list from which elements are dropped is a list of the same elements.  *)
LEMMA KeepType ==
  ASSUME NEW T, NEW s \in Seq(T), NEW S
  PROVE  Tell!Keep(s, S) \in Seq(T)
<1> DEFINE n == Len(s)
           Rest(i, q) == IF s[i] \in S THEN Append(q, s[i]) ELSE q
           Value(g, i) == IF i = 0 THEN << >> ELSE Rest(i, g[i - 1])
           Is(g, m) == \A i \in 0 .. m : g[i] = Value(g, i)
           kept == CHOOSE g : g = [i \in 0 .. n |-> Value(g, i)]
<1>1. n \in Nat
  OBVIOUS
<1>2. \A i \in 1 .. n : \A q \in Seq(T) : Rest(i, q) \in Seq(T)
  OBVIOUS
<1>3. Tell!Keep(s, S) = kept[n]
  BY DEF Tell!Keep
<1> HIDE DEF n, Rest
<1>4. \E g \in [0 .. n -> Seq(T)] : Is(g, n)
  <2> DEFINE Exists(m) == \E g \in [0 .. m -> Seq(T)] : Is(g, m)
             G == {m \in Nat : m <= n => Exists(m)}
  <2>1. Exists(0)
    <3> DEFINE g == [i \in 0 .. 0 |-> << >>]
    <3>1. g \in [0 .. 0 -> Seq(T)] /\ Is(g, 0)
      OBVIOUS
    <3> QED BY <3>1
  <2>2. ASSUME NEW m \in Nat, m + 1 <= n, Exists(m)
        PROVE  Exists(m + 1)
    <3>1. m + 1 \in 1 .. n
      BY <1>1, <2>2
    <3>2. PICK f \in [0 .. m -> Seq(T)] : Is(f, m)
      BY <2>2
    <3> DEFINE last == Rest(m + 1, f[m])
               g == [i \in 0 .. m + 1 |-> IF i = m + 1 THEN last ELSE f[i]]
    <3>3. last \in Seq(T)
      BY <1>2, <3>1, <3>2
    <3> HIDE DEF last
    <3>4. g \in [0 .. m + 1 -> Seq(T)]
      BY <3>2, <3>3
    <3>5. ASSUME NEW i \in 0 .. m + 1
          PROVE  g[i] = Value(g, i)
      <4>1. CASE i = m + 1
        BY <4>1 DEF last
      <4>2. CASE i # m + 1
        <5>1. i \in 0 .. m /\ g[i] = f[i] /\ f[i] = Value(f, i)
          BY <4>2, <3>2
        <5>2. i # 0 => g[i - 1] = f[i - 1]
          BY <5>1
        <5> QED BY <5>1, <5>2
      <4> QED BY <4>1, <4>2
    <3> QED BY <3>4, <3>5
  <2> HIDE DEF Exists
  <2>3. 0 \in G /\ \A m \in Nat : m \in G => m + 1 \in G
    BY <1>1, <2>1, <2>2
  <2> HIDE DEF G
  <2>4. Nat \subseteq G
    BY <2>3, Induction
  <2>5. Exists(n)
    BY <1>1, <2>4 DEF G
  <2> QED BY <2>5 DEF Exists
<1>5. kept = [i \in 0 .. n |-> Value(kept, i)]
  <2>1. PICK g \in [0 .. n -> Seq(T)] : Is(g, n)
    BY <1>4
  <2>2. g = [i \in 0 .. n |-> Value(g, i)]
    BY <2>1
  <2> QED BY <2>2
<1> HIDE DEF kept
<1>6. \A i \in 0 .. n : kept[i] \in Seq(T)
  <2> DEFINE G == {m \in Nat : m <= n => kept[m] \in Seq(T)}
  <2>1. 0 \in G
    BY <1>1, <1>5
  <2>2. ASSUME NEW m \in Nat, m \in G
        PROVE  m + 1 \in G
    <3> SUFFICES ASSUME m + 1 <= n
                 PROVE  kept[m + 1] \in Seq(T)
      OBVIOUS
    <3>1. m + 1 \in 1 .. n /\ m + 1 \in 0 .. n /\ m + 1 # 0 /\ (m + 1) - 1 = m /\ m <= n
      BY <1>1
    <3>2. kept[m + 1] = Rest(m + 1, kept[m])
      BY <1>5, <3>1
    <3> QED BY <1>2, <2>2, <3>1, <3>2
  <2> HIDE DEF G
  <2>3. Nat \subseteq G
    BY <2>1, <2>2, Induction
  <2> QED BY <2>3, <1>1 DEF G
<1> QED BY <1>1, <1>3, <1>6

LEMMA JobFields ==
  ASSUME NEW j \in Tell!Job
  PROVE  /\ j.stage \in {"hooks", "streams"} /\ j.event \in Tell!Event
         /\ j.result \in Results /\ j.matched \in Seq(Urls) /\ j.hooks \in Seq(Urls)
         /\ j.tries \in Nat /\ j.calls \in Seq(Adapters)
         /\ j # Tell!NoJob
<1>1. /\ j.stage \in {"hooks", "streams"} /\ j.event \in Tell!Event
      /\ j.result \in Results /\ j.matched \in Seq(Urls) /\ j.hooks \in Seq(Urls)
      /\ j.tries \in Nat /\ j.calls \in Seq(Adapters)
  BY DEF Tell!Job
<1>2. Tell!NoJob.stage = "none"
  BY DEF Tell!NoJob
<1>3. j # Tell!NoJob
  BY <1>1, <1>2
<1> QED BY <1>1, <1>3

(* The client that is busy has a job, and it is in one of two stages.      *)
LEMMA BusyFacts ==
  ASSUME Tell!TypeOK, NEW c \in Clients
  PROVE  /\ Tell!Busy(c) <=> job[c] \in Tell!Job
         /\ job[c].stage \in {"hooks", "streams"} => Tell!Busy(c)
<1>1. Tell!Busy(c) <=> job[c] \in Tell!Job
  BY JobFields DEF Tell!TypeOK, Tell!Busy
<1>2. Tell!NoJob.stage = "none"
  BY DEF Tell!NoJob
<1>3. job[c].stage \in {"hooks", "streams"} => job[c] # Tell!NoJob
  BY <1>2
<1> QED BY <1>1, <1>3 DEF Tell!Busy

LEMMA CopyFacts ==
  ASSUME NEW e \in Tell!Event, NEW n \in Nat, NEW acked \in BOOLEAN, NEW late \in BOOLEAN,
         NEW copy, copy = [event |-> e, left |-> n, acked |-> acked, late |-> late]
  PROVE  /\ copy \in Tell!Copy
         /\ copy.event = e /\ copy.left = n
         /\ copy.acked = acked /\ copy.late = late
<1>1. copy \in Tell!Copy
  BY DEF Tell!Copy
<1>2. copy.event = e
  BY Zenon
<1>3. copy.left = n
  BY Zenon
<1>4. copy.acked = acked /\ copy.late = late
  BY Zenon
<1> QED BY <1>1, <1>2, <1>3, <1>4

LEMMA CopyExcept ==
  ASSUME NEW e, NEW n, NEW f, NEW t
  PROVE  /\ [[event |-> e, left |-> n, acked |-> f, late |-> f] EXCEPT !.acked = t]
            = [event |-> e, left |-> n, acked |-> t, late |-> f]
         /\ [[event |-> e, left |-> n, acked |-> f, late |-> f] EXCEPT !.late = t]
            = [event |-> e, left |-> n, acked |-> f, late |-> t]
OBVIOUS

(* The three copies of the event a client may send.                        *)
LEMMA SentFacts ==
  ASSUME Tell!TypeOK, NEW c \in Clients, Tell!Busy(c),
         NEW copy \in {Tell!Sent(c), [Tell!Sent(c) EXCEPT !.acked = TRUE],
                       [Tell!Sent(c) EXCEPT !.late = TRUE]}
  PROVE  /\ copy \in Tell!Copy
         /\ copy.event = job[c].event /\ copy.left = Len(job[c].hooks)
         /\ copy.acked <=> copy = [Tell!Sent(c) EXCEPT !.acked = TRUE]
         /\ copy.late <=> copy = [Tell!Sent(c) EXCEPT !.late = TRUE]
<1> DEFINE e == job[c].event
           n == Len(job[c].hooks)
           Record(acked, late) == [event |-> e, left |-> n, acked |-> acked, late |-> late]
<1>1. e \in Tell!Event /\ n \in Nat
  BY BusyFacts, JobFields
<1>2. Tell!Sent(c) = Record(FALSE, FALSE)
  BY DEF Tell!Sent
<1> HIDE DEF e, n
<1>3. /\ [Record(FALSE, FALSE) EXCEPT !.acked = TRUE] = Record(TRUE, FALSE)
      /\ [Record(FALSE, FALSE) EXCEPT !.late = TRUE] = Record(FALSE, TRUE)
  <2>1. \A f, t : /\ [Record(f, f) EXCEPT !.acked = t] = Record(t, f)
                  /\ [Record(f, f) EXCEPT !.late = t] = Record(f, t)
    BY CopyExcept
  <2> HIDE DEF Record
  <2> QED BY <2>1, Zenon
<1>4. \A acked, late \in BOOLEAN :
        /\ Record(acked, late) \in Tell!Copy
        /\ Record(acked, late).event = e /\ Record(acked, late).left = n
        /\ Record(acked, late).acked = acked /\ Record(acked, late).late = late
  BY <1>1, CopyFacts
<1> HIDE DEF Record
<1>5. copy \in {Record(FALSE, FALSE), Record(TRUE, FALSE), Record(FALSE, TRUE)}
  BY <1>2, <1>3, Zenon
<1>6. /\ copy \in Tell!Copy /\ copy.event = e /\ copy.left = n
      /\ copy.acked <=> copy = Record(TRUE, FALSE)
      /\ copy.late <=> copy = Record(FALSE, TRUE)
  BY <1>4, <1>5
<1> QED BY <1>2, <1>3, <1>6, Zenon DEF e, n

(* A copy is received after all the others.                                *)
LEMMA Received ==
  ASSUME inbox \in [Urls -> Seq(Tell!Copy)], NEW v \in Urls, NEW copy \in Tell!Copy,
         Tell!Receives(v, copy)
  PROVE  /\ inbox' \in [Urls -> Seq(Tell!Copy)]
         /\ \A u \in Urls : \A i \in DOMAIN inbox[u] :
              i \in DOMAIN inbox'[u] /\ inbox'[u][i] = inbox[u][i]
         /\ \A u \in Urls : \A i \in DOMAIN inbox'[u] :
              \/ i \in DOMAIN inbox[u] /\ inbox'[u][i] = inbox[u][i]
              \/ /\ u = v /\ inbox'[u][i] = copy
                 /\ \A j \in DOMAIN inbox'[u] : ~(i < j)
         /\ \E i \in DOMAIN inbox'[v] : inbox'[v][i] = copy
<1> DEFINE old == inbox[v]
<1>1. old \in Seq(Tell!Copy) /\ inbox' = [inbox EXCEPT ![v] = Append(old, copy)]
  BY DEF Tell!Receives
<1>2. /\ inbox'[v] = Append(old, copy) /\ inbox[v] = old
      /\ \A u \in Urls : u # v => inbox'[u] = inbox[u]
  BY <1>1
<1> HIDE DEF old
<1>3. /\ Append(old, copy) \in Seq(Tell!Copy)
      /\ Len(old) + 1 \in Nat
      /\ \A i \in DOMAIN old : i \in DOMAIN inbox'[v] /\ inbox'[v][i] = old[i]
      /\ Len(old) + 1 \in DOMAIN inbox'[v] /\ inbox'[v][Len(old) + 1] = copy
      /\ \A i \in DOMAIN inbox'[v] : i \in DOMAIN old \/ i = Len(old) + 1
      /\ \A i \in DOMAIN inbox'[v] : i \in Nat /\ i <= Len(old) + 1
  <2>1. /\ Append(old, copy) \in Seq(Tell!Copy)
        /\ \A i \in DOMAIN old : i \in DOMAIN Append(old, copy) /\ Append(old, copy)[i] = old[i]
        /\ Len(old) + 1 \in DOMAIN Append(old, copy) /\ Append(old, copy)[Len(old) + 1] = copy
        /\ \A i \in DOMAIN Append(old, copy) : i \in DOMAIN old \/ i = Len(old) + 1
    BY <1>1, AppendFacts
  <2>2. \A i \in DOMAIN Append(old, copy) : i \in Nat /\ i <= Len(old) + 1
    BY <1>1
  <2>3. Len(old) + 1 \in Nat
    BY <1>1
  <2> QED BY <2>1, <2>2, <2>3, <1>2
<1>4. inbox' \in [Urls -> Seq(Tell!Copy)]
  BY <1>1, <1>3
<1>5. \A u \in Urls : \A i \in DOMAIN inbox[u] :
        i \in DOMAIN inbox'[u] /\ inbox'[u][i] = inbox[u][i]
  BY <1>2, <1>3
<1>6. \A u \in Urls : \A i \in DOMAIN inbox'[u] :
        \/ i \in DOMAIN inbox[u] /\ inbox'[u][i] = inbox[u][i]
        \/ /\ u = v /\ inbox'[u][i] = copy
           /\ \A j \in DOMAIN inbox'[u] : ~(i < j)
  BY <1>2, <1>3
<1> QED BY <1>3, <1>4, <1>5, <1>6

(* What an attempt, or giving up, makes of a job and of the world: the     *)
(* head of the webhooks is tried once more, or it is recorded and done     *)
(* with.  An acknowledged copy is the last.                                *)
Attempted(c) ==
  LET u == Head(job[c].hooks)
      more == [job[c] EXCEPT !.tries = @ + 1]
      next == [job[c] EXCEPT !.hooks = Tail(@), !.tries = 0]
      failure == {[url |-> u, event |-> job[c].event, success |-> FALSE]}
      success == {[url |-> u, event |-> job[c].event, success |-> TRUE]}
      answered == [Tell!Sent(c) EXCEPT !.acked = TRUE]
      lost == [Tell!Sent(c) EXCEPT !.late = TRUE]
  IN  /\ Tell!Busy(c) /\ job[c].hooks # << >>
      /\ \/ /\ Tell!Receives(u, answered) /\ UNCHANGED air
            /\ records' = records \cup success /\ job' = [job EXCEPT ![c] = next]
         \/ /\ \/ Tell!Receives(u, Tell!Sent(c)) /\ UNCHANGED air
               \/ UNCHANGED inbox /\ air' = air \cup {[url |-> u, copy |-> lost]}
               \/ UNCHANGED <<inbox, air>>
            /\ \/ records' \in {records, records \cup failure} /\ job' = [job EXCEPT ![c] = more]
               \/ records' = records \cup failure /\ job' = [job EXCEPT ![c] = next]
      /\ UNCHANGED <<webhooks, emitted, stream>>

LEMMA AttemptsAre ==
  ASSUME Tell!TypeOK, NEW c \in Clients,
         \/ Tell!AttemptAcknowledged(c) \/ Tell!AttemptRefused(c)
         \/ Tell!AttemptUnanswered(c) \/ Tell!GiveUp(c)
  PROVE  Attempted(c)
<1>1. job[c].stage = "hooks" /\ job[c].hooks # << >>
  BY DEF Tell!AttemptAcknowledged, Tell!AttemptRefused, Tell!AttemptUnanswered, Tell!GiveUp,
         Tell!Tries
<1>2. Tell!Busy(c)
  BY <1>1, BusyFacts
<1>4. /\ [job EXCEPT ![c] = Tell!Retried(@)] = [job EXCEPT ![c] = [job[c] EXCEPT !.tries = @ + 1]]
      /\ [job EXCEPT ![c] = Tell!NextHook(@)]
         = [job EXCEPT ![c] = [job[c] EXCEPT !.hooks = Tail(@), !.tries = 0]]
  BY DEF Tell!Retried, Tell!NextHook
<1>5. CASE Tell!AttemptAcknowledged(c)
  BY <1>1, <1>2, <1>4, <1>5 DEF Attempted, Tell!AttemptAcknowledged, Tell!Recorded
<1>6. CASE Tell!AttemptRefused(c)
  BY <1>1, <1>2, <1>4, <1>6 DEF Attempted, Tell!AttemptRefused, Tell!Recorded
<1>7. CASE Tell!AttemptUnanswered(c)
  BY <1>1, <1>2, <1>4, <1>7 DEF Attempted, Tell!AttemptUnanswered
<1>8. CASE Tell!GiveUp(c)
  BY <1>1, <1>2, <1>4, <1>8 DEF Attempted, Tell!GiveUp, Tell!Recorded
<1> QED BY <1>5, <1>6, <1>7, <1>8

(* A job that goes on is about the same event and the same webhooks.       *)
LEMMA JobMoves ==
  ASSUME NEW j \in Tell!Job, j.hooks # << >>,
         NEW k \in {[j EXCEPT !.tries = @ + 1], [j EXCEPT !.hooks = Tail(@), !.tries = 0]}
  PROVE  /\ k \in Tell!Job
         /\ k.event = j.event /\ k.matched = j.matched
         /\ k.hooks \in {j.hooks, Tail(j.hooks)}
         /\ k = [j EXCEPT !.hooks = Tail(@), !.tries = 0] => k.hooks = Tail(j.hooks)
<1>1. CASE k = [j EXCEPT !.tries = @ + 1]
  <2> DEFINE n == j.tries + 1
  <2>1. n \in Nat
    BY JobFields
  <2>2. k = [j EXCEPT !.tries = n]
    BY <1>1 DEF Tell!Job
  <2> HIDE DEF n
  <2>3. k \in Tell!Job /\ k.event = j.event /\ k.matched = j.matched /\ k.hooks = j.hooks
    BY <2>1, <2>2 DEF Tell!Job
  <2>4. k = [j EXCEPT !.hooks = Tail(@), !.tries = 0] => k.hooks = Tail(j.hooks)
    BY DEF Tell!Job
  <2> QED BY <2>3, <2>4
<1>2. CASE k = [j EXCEPT !.hooks = Tail(@), !.tries = 0]
  <2> DEFINE h == Tail(j.hooks)
  <2>1. h \in Seq(Urls)
    BY JobFields
  <2>2. k = [j EXCEPT !.hooks = h, !.tries = 0]
    BY <1>2 DEF Tell!Job
  <2> HIDE DEF h
  <2>3. k \in Tell!Job /\ k.event = j.event /\ k.matched = j.matched /\ k.hooks = h
    BY <2>1, <2>2 DEF Tell!Job
  <2> QED BY <2>3 DEF h
<1> QED BY <1>1, <1>2

(* What changes by an attempt, of client c, for the webhook u: at most its *)
(* copy is received, after all the others.                                 *)
LEMMA AttemptedFacts ==
  ASSUME TellInv, NEW c \in Clients, Attempted(c), NEW u, u = Head(job[c].hooks)
  PROVE  /\ job[c] \in Tell!Job /\ job'[c] \in Tell!Job /\ u \in Urls
         /\ job' \in [Clients -> {Tell!NoJob} \cup Tell!Job]
         /\ \A d \in Clients : d # c => job'[d] = job[d]
         /\ job'[c].event = job[c].event /\ job'[c].matched = job[c].matched
         /\ job'[c].hooks \in {job[c].hooks, Tail(job[c].hooks)}
         /\ UNCHANGED <<webhooks, emitted, stream>>
         /\ inbox' \in [Urls -> Seq(Tell!Copy)]
         /\ \A v \in Urls : \A i \in DOMAIN inbox[v] :
              i \in DOMAIN inbox'[v] /\ inbox'[v][i] = inbox[v][i]
         /\ \A v \in Urls : \A i \in DOMAIN inbox'[v] :
              \/ i \in DOMAIN inbox[v] /\ inbox'[v][i] = inbox[v][i]
              \/ /\ inbox'[v][i].event = job[c].event
                 /\ inbox'[v][i].left = Len(job[c].hooks)
                 /\ ~inbox'[v][i].late
                 /\ inbox'[v][i].acked => job'[c].hooks = Tail(job[c].hooks)
                 /\ \A j \in DOMAIN inbox'[v] : ~(i < j)
         /\ \A m \in air' : \/ m \in air
                            \/ /\ m \in [url : Urls, copy : Tell!Copy]
                               /\ m.copy.event = job[c].event
                               /\ m.copy.late /\ ~m.copy.acked
         /\ records \subseteq records'
         /\ records' \subseteq records \cup
              [url : {u}, event : {job[c].event}, success : BOOLEAN]
         /\ \A r \in records' \ records : r.success =>
              \E i \in DOMAIN inbox'[u] : inbox'[u][i].event = job[c].event
         /\ job'[c].hooks = Tail(job[c].hooks) =>
              \E r \in records' : r.url = u /\ r.event = job[c].event
<1> DEFINE J == job[c]
           more == [J EXCEPT !.tries = @ + 1]
           next == [J EXCEPT !.hooks = Tail(@), !.tries = 0]
           failure == [url |-> u, event |-> J.event, success |-> FALSE]
           success == [url |-> u, event |-> J.event, success |-> TRUE]
           sent == Tell!Sent(c)
           answered == [Tell!Sent(c) EXCEPT !.acked = TRUE]
           lost == [Tell!Sent(c) EXCEPT !.late = TRUE]
<1>1. /\ Tell!Busy(c) /\ J.hooks # << >>
      /\ \/ /\ Tell!Receives(u, answered) /\ UNCHANGED air
            /\ records' = records \cup {success} /\ job' = [job EXCEPT ![c] = next]
         \/ /\ \/ Tell!Receives(u, sent) /\ UNCHANGED air
               \/ UNCHANGED inbox /\ air' = air \cup {[url |-> u, copy |-> lost]}
               \/ UNCHANGED <<inbox, air>>
            /\ \/ records' \in {records, records \cup {failure}} /\ job' = [job EXCEPT ![c] = more]
               \/ records' = records \cup {failure} /\ job' = [job EXCEPT ![c] = next]
      /\ UNCHANGED <<webhooks, emitted, stream>>
  BY Zenon DEF Attempted
<1>2. Tell!TypeOK /\ J \in Tell!Job
  BY <1>1, BusyFacts DEF TellInv
<1>3. J.hooks \in Seq(Urls) /\ u \in Urls /\ J.event \in Tell!Event
      /\ Len(Tail(J.hooks)) # Len(J.hooks)
  BY <1>1, <1>2, JobFields, TailFacts
<1>4. \A k \in {more, next} :
        /\ k \in Tell!Job
        /\ k.event = J.event /\ k.matched = J.matched
        /\ k.hooks \in {J.hooks, Tail(J.hooks)}
        /\ k = next => k.hooks = Tail(J.hooks)
  BY <1>1, <1>2, JobMoves
<1>5. more.hooks = J.hooks
  BY <1>2 DEF Tell!Job
<1>6. \A copy \in {sent, answered, lost} :
        /\ copy \in Tell!Copy
        /\ copy.event = J.event /\ copy.left = Len(J.hooks)
        /\ copy.acked <=> copy = answered
        /\ copy.late <=> copy = lost
  BY <1>1, <1>2, SentFacts
<1>7. sent # answered /\ sent # lost /\ answered # lost
  <2>1. ~sent.acked /\ ~sent.late /\ ~answered.late
    BY Zenon DEF Tell!Sent
  <2> QED BY <2>1, <1>6
<1>8. /\ failure.url = u /\ failure.event = J.event /\ ~failure.success
      /\ success.url = u /\ success.event = J.event
      /\ failure \in [url : {u}, event : {J.event}, success : BOOLEAN]
      /\ success \in [url : {u}, event : {J.event}, success : BOOLEAN]
  BY Zenon
<1>9. LET m == [url |-> u, copy |-> lost]
      IN  m \in [url : Urls, copy : Tell!Copy] /\ m.copy = lost
  BY <1>3, <1>6
<1> HIDE DEF more, next, failure, success, sent, answered, lost
<1>10. /\ job'[c] \in {more, next}
       /\ job' \in [Clients -> {Tell!NoJob} \cup Tell!Job]
       /\ \A d \in Clients : d # c => job'[d] = job[d]
  BY <1>1, <1>2, <1>4 DEF Tell!TypeOK
<1>11. inbox \in [Urls -> Seq(Tell!Copy)]
  BY <1>2 DEF Tell!TypeOK
<1>12. /\ inbox' \in [Urls -> Seq(Tell!Copy)]
       /\ \A v \in Urls : \A i \in DOMAIN inbox[v] :
            i \in DOMAIN inbox'[v] /\ inbox'[v][i] = inbox[v][i]
       /\ \A v \in Urls : \A i \in DOMAIN inbox'[v] :
            \/ i \in DOMAIN inbox[v] /\ inbox'[v][i] = inbox[v][i]
            \/ /\ inbox'[v][i].event = J.event
               /\ inbox'[v][i].left = Len(J.hooks)
               /\ ~inbox'[v][i].late
               /\ inbox'[v][i].acked => job'[c].hooks = Tail(J.hooks)
               /\ \A j \in DOMAIN inbox'[v] : ~(i < j)
  <2>1. CASE UNCHANGED inbox
    BY <1>11, <2>1
  <2>2. CASE Tell!Receives(u, sent)
    <3>1. sent.event = J.event /\ sent.left = Len(J.hooks) /\ ~sent.late /\ ~sent.acked
      BY <1>6, <1>7
    <3> QED BY <1>3, <1>6, <1>11, <2>2, <3>1, Received
  <2>3. CASE Tell!Receives(u, answered) /\ job' = [job EXCEPT ![c] = next]
    <3>1. answered.event = J.event /\ answered.left = Len(J.hooks) /\ ~answered.late
      BY <1>6, <1>7
    <3>2. job'[c].hooks = Tail(J.hooks)
      BY <1>2, <1>4, <2>3 DEF Tell!TypeOK
    <3> QED BY <1>3, <1>6, <1>11, <2>3, <3>1, <3>2, Received
  <2> QED BY <1>1, <2>1, <2>2, <2>3
<1>13. \A m \in air' : \/ m \in air
                       \/ /\ m \in [url : Urls, copy : Tell!Copy]
                          /\ m.copy.event = J.event
                          /\ m.copy.late /\ ~m.copy.acked
  <2>1. lost.event = J.event /\ lost.late /\ ~lost.acked
    BY <1>6, <1>7
  <2> QED BY <1>1, <1>9, <2>1
<1>14. /\ records \subseteq records'
       /\ records' \subseteq records \cup [url : {u}, event : {J.event}, success : BOOLEAN]
  BY <1>1, <1>8
<1>15. \A r \in records' \ records : r.success =>
         \E i \in DOMAIN inbox'[u] : inbox'[u][i].event = J.event
  <2>1. CASE Tell!Receives(u, answered)
    <3>1. \E i \in DOMAIN inbox'[u] : inbox'[u][i] = answered
      BY <1>3, <1>6, <1>11, <2>1, Received
    <3> QED BY <3>1, <1>6
  <2>2. CASE records' \subseteq records \cup {failure}
    BY <2>2, <1>8
  <2> QED BY <1>1, <2>1, <2>2
<1>16. job'[c].hooks = Tail(J.hooks) => \E r \in records' : r.url = u /\ r.event = J.event
  <2>1. CASE job' = [job EXCEPT ![c] = more]
    <3>1. job'[c].hooks = J.hooks
      BY <1>2, <1>5, <2>1 DEF Tell!TypeOK
    <3> QED BY <3>1, <1>3
  <2>2. CASE failure \in records' \/ success \in records'
    BY <2>2, <1>8
  <2> QED BY <1>1, <2>1, <2>2
<1> QED BY <1>1, <1>2, <1>3, <1>4, <1>10, <1>12, <1>13, <1>14, <1>15, <1>16

LEMMA AttemptInv ==
  ASSUME TellInv, NEW c \in Clients, Attempted(c)
  PROVE  TellInv'
<1> DEFINE J == job[c]
           h == J.hooks
           u == Head(h)
<1>1. /\ J \in Tell!Job /\ job'[c] \in Tell!Job /\ u \in Urls
      /\ job' \in [Clients -> {Tell!NoJob} \cup Tell!Job]
      /\ \A d \in Clients : d # c => job'[d] = job[d]
      /\ job'[c].event = J.event /\ job'[c].matched = J.matched
      /\ job'[c].hooks \in {h, Tail(h)}
      /\ UNCHANGED <<webhooks, emitted, stream>>
      /\ inbox' \in [Urls -> Seq(Tell!Copy)]
      /\ \A v \in Urls : \A i \in DOMAIN inbox[v] :
           i \in DOMAIN inbox'[v] /\ inbox'[v][i] = inbox[v][i]
      /\ \A v \in Urls : \A i \in DOMAIN inbox'[v] :
           \/ i \in DOMAIN inbox[v] /\ inbox'[v][i] = inbox[v][i]
           \/ /\ inbox'[v][i].event = J.event
              /\ inbox'[v][i].left = Len(h)
              /\ ~inbox'[v][i].late
              /\ inbox'[v][i].acked => job'[c].hooks = Tail(h)
              /\ \A j \in DOMAIN inbox'[v] : ~(i < j)
      /\ \A m \in air' : \/ m \in air
                         \/ /\ m \in [url : Urls, copy : Tell!Copy]
                            /\ m.copy.event = J.event
                            /\ m.copy.late /\ ~m.copy.acked
      /\ records \subseteq records'
      /\ records' \subseteq records \cup [url : {u}, event : {J.event}, success : BOOLEAN]
      /\ \A r \in records' \ records : r.success =>
           \E i \in DOMAIN inbox'[u] : inbox'[u][i].event = J.event
      /\ job'[c].hooks = Tail(h) => \E r \in records' : r.url = u /\ r.event = J.event
  BY AttemptedFacts
<1>2. Tell!TypeOK /\ Tell!Busy(c) /\ h # << >>
  BY DEF TellInv, Attempted
<1>3. /\ h \in Seq(Urls) /\ J.matched \in Seq(Urls) /\ J.event \in Tell!Event
      /\ u = h[1] /\ Len(Tail(h)) = Len(h) - 1 /\ Len(h) \in Nat \ {0}
      /\ \A i \in DOMAIN Tail(h) : i + 1 \in DOMAIN h /\ Tail(h)[i] = h[i + 1]
  <2>1. h \in Seq(Urls) /\ J.matched \in Seq(Urls) /\ J.event \in Tell!Event
    BY <1>1, JobFields
  <2> HIDE DEF h
  <2> QED BY <2>1, <1>2, TailFacts DEF u
<1>4. /\ J.event.by = c /\ J.event.nth = emitted[c] /\ Len(h) <= Len(J.matched)
      /\ \A i \in DOMAIN h : h[i] = J.matched[Len(J.matched) - Len(h) + i]
  BY <1>2 DEF TellInv, JobInv
<1>5. \A d \in Clients : Tell!Busy(d)' <=> Tell!Busy(d)
  BY <1>1, <1>2, JobFields DEF Tell!Busy
<1>6. J.event.nth <= emitted[J.event.by]
  BY <1>2, <1>4 DEF Tell!TypeOK
<1>7. \A d \in Clients : d # c /\ Tell!Busy(d) => job[d].event # J.event
  BY <1>4 DEF TellInv, JobInv
<1> HIDE DEF J, h, u
<1>8. Tell!TypeOK'
  <2>1. records' \subseteq [url : Urls, event : Tell!Event, success : BOOLEAN]
    BY <1>1, <1>2, <1>3 DEF Tell!TypeOK
  <2>2. air' \subseteq [url : Urls, copy : Tell!Copy]
    BY <1>1, <1>2 DEF Tell!TypeOK
  <2> QED BY <1>1, <1>2, <2>1, <2>2 DEF Tell!TypeOK
<1>9. JobInv'
  <2>1. ASSUME job'[c].hooks = Tail(h)
        PROVE  /\ Len(job'[c].hooks) <= Len(J.matched)
               /\ \A i \in DOMAIN job'[c].hooks :
                    job'[c].hooks[i] = J.matched[Len(J.matched) - Len(job'[c].hooks) + i]
    <3>1. Tail(h) \in Seq(Urls) /\ Len(J.matched) \in Nat
      BY <1>2, <1>3
    <3>2. ASSUME NEW i \in DOMAIN Tail(h)
          PROVE  Tail(h)[i] = J.matched[Len(J.matched) - Len(Tail(h)) + i]
      <4>1. Tail(h)[i] = h[i + 1] /\ i + 1 \in DOMAIN h
        BY <1>3
      <4>2. h[i + 1] = J.matched[Len(J.matched) - Len(h) + (i + 1)]
        BY <1>4, <4>1
      <4>3. Len(J.matched) - Len(h) + (i + 1) = Len(J.matched) - Len(Tail(h)) + i
        BY <1>3, <3>1
      <4> QED BY <4>1, <4>2, <4>3
    <3> QED BY <2>1, <3>1, <3>2, <1>3, <1>4
  <2>2. ASSUME NEW d \in Clients, Tell!Busy(d)'
        PROVE  /\ job'[d].event.by = d /\ job'[d].event.nth = emitted'[d]
               /\ Len(job'[d].hooks) <= Len(job'[d].matched)
               /\ \A i \in DOMAIN job'[d].hooks :
                    job'[d].hooks[i]
                      = job'[d].matched[Len(job'[d].matched) - Len(job'[d].hooks) + i]
    <3>0. UNCHANGED emitted
      BY <1>1
    <3>1. CASE d # c
      <4>1. job'[d] = job[d] /\ Tell!Busy(d)
        BY <1>1, <1>5, <2>2, <3>1
      <4>2. /\ job[d].event.by = d /\ job[d].event.nth = emitted[d]
            /\ Len(job[d].hooks) <= Len(job[d].matched)
            /\ \A i \in DOMAIN job[d].hooks :
                 job[d].hooks[i] = job[d].matched[Len(job[d].matched) - Len(job[d].hooks) + i]
        BY <4>1 DEF TellInv, JobInv
      <4> QED BY <3>0, <4>1, <4>2
    <3>2. CASE d = c
      <4>1. job'[c].event = J.event /\ job'[c].matched = J.matched
        BY <1>1
      <4>2. CASE job'[c].hooks = h
        BY <1>4, <3>0, <3>2, <4>1, <4>2
      <4>3. CASE job'[c].hooks = Tail(h)
        BY <1>4, <2>1, <3>0, <3>2, <4>1, <4>3
      <4> QED BY <1>1, <4>2, <4>3
    <3> QED BY <3>1, <3>2
  <2> QED BY <2>2 DEF JobInv
<1>10. HeardInv'
  <2>1. UNCHANGED <<emitted, stream>>
    BY <1>1
  <2>2. ASSUME NEW v \in Urls, NEW i \in DOMAIN inbox'[v]
        PROVE  inbox'[v][i].event.nth <= emitted[inbox'[v][i].event.by]
    <3>1. CASE i \in DOMAIN inbox[v] /\ inbox'[v][i] = inbox[v][i]
      BY <3>1 DEF TellInv, HeardInv
    <3>2. CASE inbox'[v][i].event = J.event
      BY <1>6, <3>2
    <3> QED BY <1>1, <3>1, <3>2
  <2>3. ASSUME NEW m \in air'
        PROVE  /\ m.copy.event.nth <= emitted[m.copy.event.by]
               /\ m.copy.late /\ ~m.copy.acked
    <3>1. CASE m \in air
      BY <3>1 DEF TellInv, HeardInv
    <3>2. CASE m.copy.event = J.event /\ m.copy.late /\ ~m.copy.acked
      BY <1>6, <3>2
    <3> QED BY <1>1, <3>1, <3>2
  <2>4. \A a \in Adapters : \A i \in DOMAIN stream[a] :
          stream[a][i].event.nth <= emitted[stream[a][i].event.by]
    BY DEF TellInv, HeardInv
  <2> QED BY <2>1, <2>2, <2>3, <2>4 DEF HeardInv
<1>11. AcknowledgedIsPast'
  <2> SUFFICES ASSUME NEW d \in Clients, Tell!Busy(d)', NEW v \in Urls,
                      NEW i \in DOMAIN inbox'[v], inbox'[v][i].acked,
                      inbox'[v][i].event = job'[d].event
               PROVE  inbox'[v][i].left > Len(job'[d].hooks)
    BY Zenon DEF AcknowledgedIsPast
  <2>1. CASE i \in DOMAIN inbox[v] /\ inbox'[v][i] = inbox[v][i]
    <3>1. job'[d].event = job[d].event
      BY <1>1 DEF J
    <3>2. inbox[v][i].left > Len(job[d].hooks)
      BY <1>5, <2>1, <3>1 DEF TellInv, AcknowledgedIsPast
    <3>3. inbox[v][i].left \in Nat
      <4>1. inbox[v][i] \in Tell!Copy
        BY <1>2, <2>1 DEF Tell!TypeOK
      <4> QED BY <4>1 DEF Tell!Copy
    <3>4. CASE d # c \/ job'[c].hooks = h
      <4>1. job'[d].hooks = job[d].hooks
        BY <1>1, <3>4 DEF J, h
      <4> QED BY <2>1, <3>2, <4>1
    <3>5. CASE d = c /\ job'[c].hooks = Tail(h)
      <4>1. inbox[v][i].left > Len(h)
        BY <3>2, <3>5 DEF J, h
      <4> QED BY <1>3, <2>1, <3>3, <3>5, <4>1
    <3> QED BY <1>1, <3>4, <3>5
  <2>2. CASE /\ inbox'[v][i].event = J.event /\ inbox'[v][i].left = Len(h)
             /\ inbox'[v][i].acked => job'[c].hooks = Tail(h)
    <3>1. d = c
      <4> SUFFICES ASSUME d # c
                   PROVE  FALSE
        OBVIOUS
      <4>1. job'[d] = job[d] /\ Tell!Busy(d)
        BY <1>1, <1>5
      <4> QED BY <1>7, <2>2, <4>1
    <3>2. job'[d].hooks = Tail(h)
      BY <2>2, <3>1
    <3>3. Len(Tail(h)) < Len(h)
      BY <1>3
    <3> QED BY <2>2, <3>2, <3>3
  <2> QED BY <1>1, <2>1, <2>2
<1>12. AcknowledgedIsNotResent'
  <2> SUFFICES ASSUME NEW v \in Urls, NEW i \in DOMAIN inbox'[v], NEW j \in DOMAIN inbox'[v],
                      i < j, inbox'[v][i].acked, inbox'[v][j].event = inbox'[v][i].event,
                      inbox'[v][j].left = inbox'[v][i].left
               PROVE  inbox'[v][j].late
    BY DEF AcknowledgedIsNotResent, Tell!AcknowledgedIsNotResent
  <2>1. i \in DOMAIN inbox[v] /\ inbox'[v][i] = inbox[v][i]
    BY <1>1
  <2>2. CASE j \in DOMAIN inbox[v] /\ inbox'[v][j] = inbox[v][j]
    BY <2>1, <2>2 DEF TellInv, AcknowledgedIsNotResent, Tell!AcknowledgedIsNotResent
  <2>3. CASE inbox'[v][j].event = J.event /\ inbox'[v][j].left = Len(h)
    <3>1. inbox[v][i].left > Len(h)
      BY <1>2, <2>1, <2>3 DEF TellInv, AcknowledgedIsPast, J, h
    <3> QED BY <1>3, <2>1, <2>3, <3>1
  <2> QED BY <1>1, <2>2, <2>3
<1>13. InOrder'
  <2>1. ASSUME NEW v \in Urls, NEW i \in DOMAIN inbox'[v], NEW j \in DOMAIN inbox'[v],
               i < j, ~inbox'[v][j].late, inbox'[v][i].event.by = inbox'[v][j].event.by
        PROVE  inbox'[v][i].event.nth <= inbox'[v][j].event.nth
    <3>1. i \in DOMAIN inbox[v] /\ inbox'[v][i] = inbox[v][i]
      BY <1>1, <2>1
    <3>2. CASE j \in DOMAIN inbox[v] /\ inbox'[v][j] = inbox[v][j]
      BY <2>1, <3>1, <3>2 DEF TellInv, InOrder, Tell!InOrder
    <3>3. CASE inbox'[v][j].event = J.event
      BY <1>4, <2>1, <3>1, <3>3 DEF TellInv, HeardInv
    <3> QED BY <1>1, <3>2, <3>3
  <2>2. \A a \in Adapters : \A i, j \in DOMAIN stream'[a] :
          i < j /\ stream'[a][i].event.by = stream'[a][j].event.by
          => stream'[a][i].event.nth <= stream'[a][j].event.nth
    BY <1>1 DEF TellInv, InOrder, Tell!InOrder
  <2> QED BY <2>1, <2>2 DEF InOrder, Tell!InOrder
<1>14. NobodyIsSkipped'
  <2>1. ASSUME NEW d \in Clients, Tell!Busy(d)',
               NEW i \in 1 .. Len(job'[d].matched) - Len(job'[d].hooks)
        PROVE  \E r \in records' : r.event = job'[d].event /\ r.url = job'[d].matched[i]
    <3>1. CASE d # c \/ job'[c].hooks = h
      <4>1. /\ job'[d].matched = job[d].matched /\ job'[d].hooks = job[d].hooks
            /\ job'[d].event = job[d].event
        BY <1>1, <3>1 DEF J, h
      <4>2. \E r \in records : r.event = job[d].event /\ r.url = job[d].matched[i]
        BY <1>5, <2>1, <4>1 DEF TellInv, NobodyIsSkipped, Tell!NobodyIsSkipped
      <4> QED BY <1>1, <4>1, <4>2
    <3>2. CASE d = c /\ job'[c].hooks = Tail(h)
      <4>1. Len(J.matched) \in Nat /\ i \in 1 .. Len(J.matched) - Len(h) + 1
        BY <1>1, <1>3, <2>1, <3>2
      <4>2. CASE i = Len(J.matched) - Len(h) + 1
        <5>1. 1 \in DOMAIN h
          BY <1>3
        <5>2. J.matched[i] = u
          BY <1>3, <1>4, <4>2, <5>1
        <5> QED BY <1>1, <3>2, <5>2
      <4>3. CASE i \in 1 .. Len(J.matched) - Len(h)
        <5>1. \E r \in records : r.event = J.event /\ r.url = J.matched[i]
          BY <1>2, <4>3 DEF TellInv, NobodyIsSkipped, Tell!NobodyIsSkipped, J, h
        <5> QED BY <1>1, <3>2, <5>1
      <4> QED BY <1>3, <4>1, <4>2, <4>3
    <3> QED BY <1>1, <3>1, <3>2
  <2>2. ASSUME NEW r \in records', r.success
        PROVE  \E i \in DOMAIN inbox'[r.url] : inbox'[r.url][i].event = r.event
    <3>1. CASE r \in records
      <4>1. r.url \in Urls
        BY <1>2, <3>1 DEF Tell!TypeOK
      <4>2. \E i \in DOMAIN inbox[r.url] : inbox[r.url][i].event = r.event
        BY <2>2, <3>1 DEF TellInv, NobodyIsSkipped, Tell!NobodyIsSkipped
      <4> QED BY <1>1, <4>1, <4>2
    <3>2. CASE r \notin records
      <4>1. r.url = u /\ r.event = J.event
        BY <1>1, <2>2, <3>2
      <4> QED BY <1>1, <2>2, <3>2, <4>1
    <3> QED BY <3>1, <3>2
  <2> QED BY <2>1, <2>2 DEF NobodyIsSkipped, Tell!NobodyIsSkipped
<1> QED BY <1>8, <1>9, <1>10, <1>11, <1>12, <1>13, <1>14 DEF TellInv

(* A late copy comes in.                                                   *)
LEMMA ArriveInv ==
  ASSUME TellInv, Tell!Arrive
  PROVE  TellInv'
<1>1. PICK m \in air : Tell!Receives(m.url, m.copy) /\ air' = air \ {m}
  BY DEF Tell!Arrive
<1>2. UNCHANGED <<webhooks, job, emitted, records, stream>> /\ Tell!TypeOK
  BY DEF Tell!Arrive, TellInv
<1>3. /\ m.url \in Urls /\ m.copy \in Tell!Copy
      /\ m.copy.event.nth <= emitted[m.copy.event.by] /\ m.copy.late /\ ~m.copy.acked
  BY <1>2 DEF TellInv, HeardInv, Tell!TypeOK
<1>4. inbox \in [Urls -> Seq(Tell!Copy)]
  BY <1>2 DEF Tell!TypeOK
<1>5. /\ inbox' \in [Urls -> Seq(Tell!Copy)]
      /\ \A u \in Urls : \A i \in DOMAIN inbox[u] :
           i \in DOMAIN inbox'[u] /\ inbox'[u][i] = inbox[u][i]
      /\ \A u \in Urls : \A i \in DOMAIN inbox'[u] :
           \/ i \in DOMAIN inbox[u] /\ inbox'[u][i] = inbox[u][i]
           \/ inbox'[u][i] = m.copy /\ \A j \in DOMAIN inbox'[u] : ~(i < j)
  BY <1>1, <1>3, <1>4, Received
<1>6. Tell!TypeOK'
  BY <1>1, <1>2, <1>5 DEF Tell!TypeOK
<1>7. JobInv'
  BY <1>2 DEF TellInv, JobInv, Tell!Busy
<1>8. HeardInv'
  BY <1>1, <1>2, <1>3, <1>5 DEF TellInv, HeardInv
<1>9. \A u \in Urls : \A i \in DOMAIN inbox'[u] :
        \/ i \in DOMAIN inbox[u] /\ inbox'[u][i] = inbox[u][i]
        \/ /\ inbox'[u][i].late /\ ~inbox'[u][i].acked
           /\ \A j \in DOMAIN inbox'[u] : ~(i < j)
  BY <1>3, <1>5
<1>10. AcknowledgedIsPast'
  <2> SUFFICES ASSUME NEW d \in Clients, Tell!Busy(d)', NEW v \in Urls,
                      NEW i \in DOMAIN inbox'[v], inbox'[v][i].acked,
                      inbox'[v][i].event = job'[d].event
               PROVE  inbox'[v][i].left > Len(job'[d].hooks)
    BY DEF AcknowledgedIsPast
  <2>1. i \in DOMAIN inbox[v] /\ inbox'[v][i] = inbox[v][i]
    BY <1>9
  <2> QED BY <1>2, <2>1 DEF TellInv, AcknowledgedIsPast, Tell!Busy
<1>11. AcknowledgedIsNotResent'
  <2> SUFFICES ASSUME NEW v \in Urls, NEW i \in DOMAIN inbox'[v], NEW j \in DOMAIN inbox'[v],
                      i < j, inbox'[v][i].acked, inbox'[v][j].event = inbox'[v][i].event,
                      inbox'[v][j].left = inbox'[v][i].left, ~inbox'[v][j].late
               PROVE  FALSE
    BY DEF AcknowledgedIsNotResent, Tell!AcknowledgedIsNotResent
  <2>1. /\ i \in DOMAIN inbox[v] /\ inbox'[v][i] = inbox[v][i]
        /\ j \in DOMAIN inbox[v] /\ inbox'[v][j] = inbox[v][j]
    BY <1>9
  <2> QED BY <2>1 DEF TellInv, AcknowledgedIsNotResent, Tell!AcknowledgedIsNotResent
<1>12. InOrder'
  <2>1. ASSUME NEW v \in Urls, NEW i \in DOMAIN inbox'[v], NEW j \in DOMAIN inbox'[v],
               i < j, ~inbox'[v][j].late, inbox'[v][i].event.by = inbox'[v][j].event.by
        PROVE  inbox'[v][i].event.nth <= inbox'[v][j].event.nth
    <3>1. /\ i \in DOMAIN inbox[v] /\ inbox'[v][i] = inbox[v][i]
          /\ j \in DOMAIN inbox[v] /\ inbox'[v][j] = inbox[v][j]
      BY <1>9, <2>1
    <3> QED BY <2>1, <3>1 DEF TellInv, InOrder, Tell!InOrder
  <2> QED BY <1>2, <2>1 DEF TellInv, InOrder, Tell!InOrder
<1>13. NobodyIsSkipped'
  <2>1. \A r \in records : r.url \in Urls
    BY <1>2 DEF Tell!TypeOK
  <2> QED BY <1>2, <1>5, <2>1 DEF TellInv, NobodyIsSkipped, Tell!NobodyIsSkipped, Tell!Busy
<1> QED BY <1>6, <1>7, <1>8, <1>10, <1>11, <1>13, <1>12 DEF TellInv

(* A client that is done with the webhooks, or with the whole event, no    *)
(* longer sends anything.                                                  *)
LEMMA JobEndsInv ==
  ASSUME TellInv, NEW c \in Clients, NEW j \in {Tell!NoJob} \cup Tell!Job,
         job' = [job EXCEPT ![c] = j],
         j # Tell!NoJob => /\ Tell!Busy(c)
                           /\ j.event = job[c].event /\ j.matched = job[c].matched
                           /\ j.hooks = job[c].hooks,
         UNCHANGED <<webhooks, emitted, records, inbox, air>>,
         stream' \in [Adapters -> Seq(Tell!Publication)],
         \A a \in Adapters : \A i \in DOMAIN stream'[a] :
           \/ i \in DOMAIN stream[a] /\ stream'[a][i] = stream[a][i]
           \/ /\ Tell!Busy(c) /\ stream'[a][i].event = job[c].event
              /\ \A k \in DOMAIN stream'[a] : ~(i < k)
  PROVE  TellInv'
<1>1. Tell!TypeOK
  BY DEF TellInv
<1>2. job'[c] = j /\ \A d \in Clients : d # c => job'[d] = job[d]
  BY <1>1 DEF Tell!TypeOK
<1>3. \A d \in Clients : Tell!Busy(d)' =>
        /\ Tell!Busy(d)
        /\ job'[d].event = job[d].event /\ job'[d].matched = job[d].matched
        /\ job'[d].hooks = job[d].hooks
  BY <1>2 DEF Tell!Busy
<1>4. Tell!Busy(c) => job[c].event.by = c /\ job[c].event.nth = emitted[c]
                      /\ emitted[c] <= emitted[c]
  BY <1>1 DEF TellInv, JobInv, Tell!TypeOK
<1>5. Tell!TypeOK'
  BY <1>1 DEF Tell!TypeOK
<1>6. JobInv'
  <2> SUFFICES ASSUME NEW d \in Clients, Tell!Busy(d)'
               PROVE  /\ job'[d].event.by = d /\ job'[d].event.nth = emitted'[d]
                      /\ Len(job'[d].hooks) <= Len(job'[d].matched)
                      /\ \A i \in DOMAIN job'[d].hooks :
                           job'[d].hooks[i]
                             = job'[d].matched[Len(job'[d].matched) - Len(job'[d].hooks) + i]
    BY DEF JobInv
  <2> DEFINE h == job[d].hooks  m == job[d].matched
  <2>1. /\ job[d].event.by = d /\ job[d].event.nth = emitted[d]
        /\ Len(h) <= Len(m) /\ \A i \in DOMAIN h : h[i] = m[Len(m) - Len(h) + i]
    BY <1>3 DEF TellInv, JobInv
  <2>2. job'[d].event = job[d].event /\ job'[d].hooks = h /\ job'[d].matched = m
    BY <1>3
  <2> HIDE DEF h, m
  <2> QED BY <2>1, <2>2
<1>7. HeardInv'
  BY <1>4 DEF TellInv, HeardInv
<1>8. AcknowledgedIsPast'
  BY <1>3 DEF TellInv, AcknowledgedIsPast
<1>9. AcknowledgedIsNotResent'
  BY DEF TellInv, AcknowledgedIsNotResent, Tell!AcknowledgedIsNotResent
<1>10. InOrder'
  <2>1. ASSUME NEW a \in Adapters, NEW i \in DOMAIN stream'[a], NEW k \in DOMAIN stream'[a],
               i < k, stream'[a][i].event.by = stream'[a][k].event.by
        PROVE  stream'[a][i].event.nth <= stream'[a][k].event.nth
    <3>1. i \in DOMAIN stream[a] /\ stream'[a][i] = stream[a][i]
      BY <2>1
    <3>2. CASE k \in DOMAIN stream[a] /\ stream'[a][k] = stream[a][k]
      BY <2>1, <3>1, <3>2 DEF TellInv, InOrder, Tell!InOrder
    <3>3. CASE Tell!Busy(c) /\ stream'[a][k].event = job[c].event
      BY <1>4, <2>1, <3>1, <3>3 DEF TellInv, HeardInv
    <3> QED BY <3>2, <3>3
  <2> QED BY <2>1 DEF TellInv, InOrder, Tell!InOrder
<1>11. NobodyIsSkipped'
  <2>1. ASSUME NEW d \in Clients, Tell!Busy(d)',
               NEW i \in 1 .. Len(job'[d].matched) - Len(job'[d].hooks)
        PROVE  \E r \in records' : r.event = job'[d].event /\ r.url = job'[d].matched[i]
    <3>1. Tell!Busy(d) /\ i \in 1 .. Len(job[d].matched) - Len(job[d].hooks)
      BY <1>3, <2>1
    <3>2. \E r \in records : r.event = job[d].event /\ r.url = job[d].matched[i]
      BY <3>1 DEF TellInv, NobodyIsSkipped, Tell!NobodyIsSkipped
    <3> QED BY <1>3, <2>1, <3>2
  <2>2. \A r \in records' : r.success =>
          \E i \in DOMAIN inbox'[r.url] : inbox'[r.url][i].event = r.event
    BY DEF TellInv, NobodyIsSkipped, Tell!NobodyIsSkipped
  <2> QED BY <2>1, <2>2, Zenon DEF NobodyIsSkipped, Tell!NobodyIsSkipped, Tell!Busy, Tell!NoJob
<1> QED BY <1>5, <1>6, <1>7, <1>8, <1>9, <1>10, <1>11 DEF TellInv

(* An event begins: nobody has heard of it.                                *)
LEMMA EmitInv ==
  ASSUME TellInv, NEW c \in Clients, NEW op \in Ops, NEW result \in Results,
         Tell!Emit(c, op, result)
  PROVE  TellInv'
<1> DEFINE hooks == Tell!Matching(op)
           event == [by |-> c, nth |-> emitted[c] + 1, op |-> op]
           j == [stage |-> "hooks", event |-> event, result |-> result,
                 matched |-> hooks, hooks |-> hooks, tries |-> 0, calls |-> Calls]
<1>1. Tell!TypeOK /\ ~Tell!Busy(c) /\ emitted[c] < MaxEvents
      /\ UNCHANGED <<webhooks, records, inbox, air, stream>>
  BY DEF TellInv, Tell!Emit
<1>2. emitted' = [emitted EXCEPT ![c] = emitted[c] + 1]
  BY DEF Tell!Emit
<1>3. /\ emitted' \in [Clients -> 0 .. MaxEvents] /\ emitted'[c] = emitted[c] + 1
      /\ \A d \in Clients : emitted[d] <= emitted'[d] /\ (d # c => emitted'[d] = emitted[d])
      /\ emitted[c] + 1 \in 1 .. MaxEvents /\ emitted[c] < emitted'[c]
  BY <1>1, <1>2, TellParameters DEF Tell!TypeOK, Tell!Parameters
<1>4. job' = [job EXCEPT ![c] = j]
  BY <1>3 DEF Tell!Emit
<1>5. event \in Tell!Event /\ event.by = c /\ event.nth = emitted'[c]
  BY <1>3 DEF Tell!Event
<1>6. hooks \in Seq(Urls)
  BY <1>1, KeepType DEF Tell!TypeOK, Tell!Matching
<1> HIDE DEF hooks, event
<1>7. j \in Tell!Job /\ j.event = event /\ j.matched = hooks /\ j.hooks = hooks
  BY <1>5, <1>6, TellParameters DEF Tell!Job, Tell!Parameters
<1> HIDE DEF j
<1>8. job'[c] = j /\ \A d \in Clients : d # c => job'[d] = job[d]
  BY <1>1, <1>4 DEF Tell!TypeOK
<1>9. \A d \in Clients : Tell!Busy(d)' => d = c \/ (Tell!Busy(d) /\ job'[d] = job[d])
  BY <1>8 DEF Tell!Busy
<1>10. Tell!TypeOK'
  BY <1>1, <1>3, <1>4, <1>7 DEF Tell!TypeOK
<1>11. JobInv'
  <2> SUFFICES ASSUME NEW d \in Clients, Tell!Busy(d)'
               PROVE  /\ job'[d].event.by = d /\ job'[d].event.nth = emitted'[d]
                      /\ Len(job'[d].hooks) <= Len(job'[d].matched)
                      /\ \A i \in DOMAIN job'[d].hooks :
                           job'[d].hooks[i]
                             = job'[d].matched[Len(job'[d].matched) - Len(job'[d].hooks) + i]
    BY DEF JobInv
  <2>1. CASE d # c
    <3> DEFINE h == job[d].hooks  m == job[d].matched
    <3>1. /\ job[d].event.by = d /\ job[d].event.nth = emitted[d]
          /\ Len(h) <= Len(m) /\ \A i \in DOMAIN h : h[i] = m[Len(m) - Len(h) + i]
      BY <1>9, <2>1 DEF TellInv, JobInv
    <3>2. job'[d].event = job[d].event /\ job'[d].hooks = h /\ job'[d].matched = m
      BY <1>8, <2>1
    <3> HIDE DEF h, m
    <3> QED BY <1>3, <2>1, <3>1, <3>2
  <2>2. CASE d = c
    <3>1. Len(hooks) \in Nat /\ \A i \in DOMAIN hooks : Len(hooks) - Len(hooks) + i = i
      BY <1>6
    <3> QED BY <1>5, <1>7, <1>8, <2>2, <3>1
  <2> QED BY <2>1, <2>2
<1>12. HeardInv'
  <2>1. \A u \in Urls : \A i \in DOMAIN inbox[u] : inbox[u][i].event.by \in Clients
                                                   /\ inbox[u][i].event.nth \in Nat
    <3>1. \A u \in Urls : \A i \in DOMAIN inbox[u] : inbox[u][i] \in Tell!Copy
      BY <1>1 DEF Tell!TypeOK
    <3> QED BY <3>1 DEF Tell!Copy, Tell!Event
  <2>2. \A m \in air : m.copy.event.by \in Clients /\ m.copy.event.nth \in Nat
    <3>1. \A m \in air : m.copy \in Tell!Copy
      BY <1>1 DEF Tell!TypeOK
    <3> QED BY <3>1 DEF Tell!Copy, Tell!Event
  <2>3. \A a \in Adapters : \A i \in DOMAIN stream[a] : stream[a][i].event.by \in Clients
                                                        /\ stream[a][i].event.nth \in Nat
    <3>1. \A a \in Adapters : \A i \in DOMAIN stream[a] : stream[a][i] \in Tell!Publication
      BY <1>1 DEF Tell!TypeOK
    <3> QED BY <3>1 DEF Tell!Publication, Tell!Event
  <2>4. \A d \in Clients : \A n \in Nat : n <= emitted[d] => n <= emitted'[d]
    BY <1>1, <1>3 DEF Tell!TypeOK
  <2> QED BY <1>1, <2>1, <2>2, <2>3, <2>4 DEF TellInv, HeardInv
<1>13. AcknowledgedIsPast'
  <2> SUFFICES ASSUME NEW d \in Clients, Tell!Busy(d)', NEW v \in Urls,
                      NEW i \in DOMAIN inbox[v], inbox[v][i].acked,
                      inbox[v][i].event = job'[d].event
               PROVE  inbox[v][i].left > Len(job'[d].hooks)
    BY <1>1 DEF AcknowledgedIsPast
  <2>1. CASE d # c
    BY <1>9, <2>1 DEF TellInv, AcknowledgedIsPast
  <2>2. CASE d = c
    <3>1. inbox[v][i].event.by = c /\ inbox[v][i].event.nth = emitted'[c]
      BY <1>5, <1>7, <1>8, <2>2
    <3>2. emitted'[c] <= emitted[c]
      BY <3>1 DEF TellInv, HeardInv
    <3>3. emitted[c] \in Nat /\ emitted'[c] \in Nat
      BY <1>1, <1>3 DEF Tell!TypeOK
    <3> QED BY <1>3, <3>2, <3>3
  <2> QED BY <2>1, <2>2
<1>14. AcknowledgedIsNotResent' /\ InOrder'
  BY <1>1 DEF TellInv, AcknowledgedIsNotResent, Tell!AcknowledgedIsNotResent,
              InOrder, Tell!InOrder
<1>15. NobodyIsSkipped'
  <2>1. ASSUME NEW d \in Clients, Tell!Busy(d)',
               NEW i \in 1 .. Len(job'[d].matched) - Len(job'[d].hooks)
        PROVE  \E r \in records : r.event = job'[d].event /\ r.url = job'[d].matched[i]
    <3>1. CASE d # c
      <4>1. /\ Tell!Busy(d) /\ job'[d] = job[d]
            /\ i \in 1 .. Len(job[d].matched) - Len(job[d].hooks)
        BY <1>9, <2>1, <3>1
      <4>2. \E r \in records : r.event = job[d].event /\ r.url = job[d].matched[i]
        BY <4>1 DEF TellInv, NobodyIsSkipped, Tell!NobodyIsSkipped
      <4> QED BY <4>1, <4>2
    <3>2. CASE d = c
      <4>1. i \in 1 .. Len(hooks) - Len(hooks) /\ Len(hooks) \in Nat
        BY <1>6, <1>7, <1>8, <2>1, <3>2
      <4> QED BY <4>1
    <3> QED BY <3>1, <3>2
  <2> QED BY <1>1, <2>1 DEF TellInv, NobodyIsSkipped, Tell!NobodyIsSkipped
<1> QED BY <1>10, <1>11, <1>12, <1>13, <1>14, <1>15 DEF TellInv

LEMMA ConfigureInv ==
  ASSUME TellInv, Tell!Configure \/ UNCHANGED tellVars
  PROVE  TellInv'
<1>1. UNCHANGED <<job, emitted, records, inbox, air, stream>>
  BY DEF Tell!Configure, Tell!Add, Tell!Remove, tellVars
<1>2. webhooks' \in Seq(Urls)
  <2>1. webhooks \in Seq(Urls)
    BY DEF TellInv, Tell!TypeOK
  <2>2. CASE Tell!Configure
    BY <2>1, <2>2, KeepType DEF Tell!Configure, Tell!Add, Tell!Remove
  <2> QED BY <2>1, <2>2 DEF tellVars
<1>3. Tell!TypeOK'
  BY <1>1, <1>2 DEF TellInv, Tell!TypeOK
<1>4. JobInv' /\ HeardInv' /\ AcknowledgedIsPast'
  BY <1>1 DEF TellInv, JobInv, HeardInv, AcknowledgedIsPast, Tell!Busy
<1>5. AcknowledgedIsNotResent' /\ InOrder'
  BY <1>1 DEF TellInv, AcknowledgedIsNotResent, Tell!AcknowledgedIsNotResent,
              InOrder, Tell!InOrder
<1>6. NobodyIsSkipped'
  BY <1>1 DEF TellInv, NobodyIsSkipped, Tell!NobodyIsSkipped, Tell!Busy
<1> QED BY <1>3, <1>4, <1>5, <1>6 DEF TellInv

LEMMA StartStreamsInv ==
  ASSUME TellInv, NEW c \in Clients, Tell!StartStreams(c)
  PROVE  TellInv'
<1> DEFINE j == [job[c] EXCEPT !.stage = "streams"]
<1>1. Tell!TypeOK /\ job[c].stage = "hooks" /\ job' = [job EXCEPT ![c] = j]
      /\ UNCHANGED <<webhooks, emitted, records, inbox, air, stream>>
  BY DEF TellInv, Tell!StartStreams
<1>2. Tell!Busy(c) /\ job[c] \in Tell!Job
  BY <1>1, BusyFacts
<1>3. /\ j \in Tell!Job /\ j.event = job[c].event /\ j.matched = job[c].matched
      /\ j.hooks = job[c].hooks
  BY <1>2 DEF Tell!Job
<1> HIDE DEF j
<1> QED BY <1>1, <1>2, <1>3, JobEndsInv DEF Tell!TypeOK

LEMMA PublishInv ==
  ASSUME TellInv, NEW c \in Clients, Tell!Publish(c)
  PROVE  TellInv'
<1> DEFINE j == [job[c] EXCEPT !.calls = Tail(@)]
           a == Head(job[c].calls)
           new == [event |-> job[c].event, shows |-> job[c].result]
           old == stream[a]
<1>1. /\ Tell!TypeOK /\ job[c].stage = "streams" /\ job[c].calls # << >>
      /\ job' = [job EXCEPT ![c] = j]
      /\ stream' \in {stream, [stream EXCEPT ![a] = Append(@, new)]}
      /\ UNCHANGED <<webhooks, emitted, records, inbox, air>>
  BY DEF TellInv, Tell!Publish, Tell!Published
<1>2. Tell!Busy(c) /\ job[c] \in Tell!Job
  BY <1>1, BusyFacts
<1>3. /\ job[c].calls \in Seq(Adapters) /\ job[c].event \in Tell!Event
      /\ job[c].result \in Results
  BY <1>2, JobFields
<1>4. /\ j \in Tell!Job /\ j.event = job[c].event /\ j.matched = job[c].matched
      /\ j.hooks = job[c].hooks
  <2> DEFINE rest == Tail(job[c].calls)
  <2>1. rest \in Seq(Adapters)
    BY <1>1, <1>3
  <2>2. j = [job[c] EXCEPT !.calls = rest]
    BY <1>2 DEF Tell!Job
  <2> HIDE DEF rest, j
  <2> QED BY <1>2, <2>1, <2>2 DEF Tell!Job
<1>5. a \in Adapters /\ new \in Tell!Publication /\ new.event = job[c].event
  BY <1>1, <1>3 DEF Tell!Publication
<1>6. old \in Seq(Tell!Publication)
  BY <1>1, <1>5 DEF Tell!TypeOK
<1>7. stream' \in {stream, [stream EXCEPT ![a] = Append(old, new)]}
  BY <1>1
<1> HIDE DEF new, j, a
<1>8. CASE stream' = stream
  BY <1>1, <1>2, <1>4, <1>8, JobEndsInv DEF Tell!TypeOK
<1>9. CASE stream' = [stream EXCEPT ![a] = Append(old, new)]
  <2>1. /\ stream'[a] = Append(old, new) /\ stream[a] = old
        /\ \A b \in Adapters : b # a => stream'[b] = stream[b]
    BY <1>1, <1>5, <1>9 DEF Tell!TypeOK
  <2> HIDE DEF old
  <2>2. /\ Append(old, new) \in Seq(Tell!Publication)
        /\ \A i \in DOMAIN old : i \in DOMAIN Append(old, new) /\ Append(old, new)[i] = old[i]
        /\ Append(old, new)[Len(old) + 1] = new
        /\ \A i \in DOMAIN Append(old, new) : i \in DOMAIN old \/ i = Len(old) + 1
    BY <1>5, <1>6, AppendFacts
  <2>3. \A i \in DOMAIN Append(old, new) : ~(Len(old) + 1 < i)
    BY <1>6
  <2>4. stream' \in [Adapters -> Seq(Tell!Publication)]
    BY <1>1, <1>9, <2>2 DEF Tell!TypeOK
  <2>5. \A b \in Adapters : \A i \in DOMAIN stream'[b] :
          \/ i \in DOMAIN stream[b] /\ stream'[b][i] = stream[b][i]
          \/ /\ Tell!Busy(c) /\ stream'[b][i].event = job[c].event
             /\ \A k \in DOMAIN stream'[b] : ~(i < k)
    BY <1>2, <1>5, <2>1, <2>2, <2>3
  <2> QED BY <1>1, <1>2, <1>4, <2>4, <2>5, JobEndsInv
<1> QED BY <1>7, <1>8, <1>9

LEMMA EndInv ==
  ASSUME TellInv, NEW c \in Clients, Tell!Finish(c) \/ Tell!Raise(c) \/ Tell!Abandon(c)
  PROVE  TellInv'
<1>1. Tell!TypeOK /\ job' = [job EXCEPT ![c] = Tell!NoJob]
      /\ UNCHANGED <<webhooks, emitted, records, inbox, air, stream>>
  BY DEF TellInv, Tell!Finish, Tell!Raise, Tell!Abandon
<1> QED BY <1>1, JobEndsInv DEF Tell!TypeOK

LEMMA HandleInv ==
  ASSUME TellInv, NEW c \in Clients, Tell!Handle(c)
  PROVE  TellInv'
BY AttemptsAre, AttemptInv, StartStreamsInv, PublishInv DEF Tell!Handle, TellInv

(* Whatever the handlers and the receivers do, their invariant is kept.    *)
LEMMA TellNextInv ==
  ASSUME TellInv, Tell!Next
  PROVE  TellInv'
BY ConfigureInv, ArriveInv, EmitInv, HandleInv, EndInv DEF Tell!Next

LEMMA TellInitInv ==
  ASSUME Tell!Init
  PROVE  TellInv
<1>1. Tell!TypeOK
  BY TellParameters DEF Tell!Init, Tell!TypeOK, Tell!Parameters
<1>2. \A c \in Clients : ~Tell!Busy(c)
  BY DEF Tell!Init, Tell!Busy
<1>3. /\ \A u \in Urls : DOMAIN inbox[u] = {}
      /\ \A a \in Adapters : DOMAIN stream[a] = {}
      /\ air = {} /\ records = {}
  BY DEF Tell!Init
<1> QED BY <1>1, <1>2, <1>3
        DEF TellInv, JobInv, HeardInv, AcknowledgedIsPast, AcknowledgedIsNotResent, InOrder,
            NobodyIsSkipped, Tell!AcknowledgedIsNotResent, Tell!InOrder, Tell!NobodyIsSkipped

-----------------------------------------------------------------------------
(* What the handlers make of a request.                                    *)

(* The request s goes on where r was, shows nothing new, and is with its   *)
(* next item or at its end.                                                *)
GoesOn(r, s) ==
  /\ s \in Request
  /\ s.wrote = r.wrote /\ s.failed = r.failed
  /\ s.entity \in {r.entity, NoRow} /\ s.result \in {r.result, NoRow}
  /\ \A k \in DOMAIN s.results :
       \/ k \in DOMAIN r.results /\ s.results[k] = r.results[k]
       \/ s.results[k].row \in {r.result, NoRow}
  /\ s.status \in {r.status, "ok"}
  /\ s.phase \in {"hydrate", "pre", "commit", "rollback"}
  /\ s.phase \in {"hydrate", "pre"} => Len(s.results) < Len(s.items)

LEMMA RequestFields ==
  ASSUME NEW r \in Request
  PROVE  /\ r.phase \in {"idle", "hydrate", "pre", "call", "post", "telling", "commit",
                        "rollback", "done"}
         /\ r.mode \in {"single", "bulk", "atomic"} /\ r.items \in Seq(Items)
         /\ r.entity \in Results /\ r.result \in Results
         /\ r.results \in Seq([ok : BOOLEAN, row : Results])
         /\ r.wrote \in SUBSET Repo!Row /\ r.failed \in BOOLEAN
         /\ r.status \in {"none", "ok", "error"}
BY DEF Request

LEMMA NoRowType == NoRow \in Results
BY DEF NoRow, Results

(* The item a request works on.                                            *)
LEMMA CurrentType ==
  ASSUME NEW r \in Request, Len(r.results) < Len(r.items)
  PROVE  /\ Current(r) \in Items /\ Current(r).op \in Ops
         /\ Current(r).op = "create" => Current(r).value \in Repo!Payloads
         /\ Current(r).op # "create" => Current(r) \in Repo!Item
<1>1. r.items \in Seq(Items) /\ Len(r.results) \in Nat
  BY RequestFields
<1>2. Current(r) \in Items
  BY <1>1 DEF Current
<1> QED BY <1>2, OpsAssumption DEF Items, Repo!Item

LEMMA BeginFacts ==
  ASSUME NEW r \in Request, Len(r.results) < Len(r.items), NEW s, s = Begin(r)
  PROVE  GoesOn(r, s) /\ s.status = r.status /\ s.results = r.results /\ s.items = r.items
<1> DEFINE p == IF Current(r).op = "create" THEN "pre" ELSE "hydrate"
<1>1. p \in {"hydrate", "pre"}
  OBVIOUS
<1>2. s = [r EXCEPT !.phase = p, !.entity = NoRow, !.result = NoRow]
  BY DEF Begin
<1> HIDE DEF p
<1>3. s \in Request
  BY <1>1, <1>2, NoRowType DEF Request
<1>4. /\ s.phase = p /\ s.entity = NoRow /\ s.result = NoRow
      /\ s.wrote = r.wrote /\ s.failed = r.failed /\ s.results = r.results
      /\ s.items = r.items /\ s.status = r.status
  BY <1>2 DEF Request
<1> QED BY <1>1, <1>3, <1>4 DEF GoesOn

LEMMA ReturnsFacts ==
  ASSUME NEW r \in Request, NEW s, s = Returns(r)
  PROVE  GoesOn(r, s)
<1>1. CASE scenario.first = "answer"
  <2>1. s = [r EXCEPT !.phase = "commit", !.status = "ok"]
    BY <1>1 DEF Returns
  <2>2. s \in Request
    BY <2>1 DEF Request
  <2>3. /\ s.phase = "commit" /\ s.entity = r.entity /\ s.result = r.result
        /\ s.wrote = r.wrote /\ s.failed = r.failed /\ s.results = r.results
        /\ s.items = r.items /\ s.status = "ok"
    BY <2>1 DEF Request
  <2> QED BY <2>2, <2>3 DEF GoesOn
<1>2. CASE scenario.first # "answer"
  <2>1. s = [r EXCEPT !.phase = "commit"]
    BY <1>2 DEF Returns
  <2>2. s \in Request
    BY <2>1 DEF Request
  <2>3. /\ s.phase = "commit" /\ s.entity = r.entity /\ s.result = r.result
        /\ s.wrote = r.wrote /\ s.failed = r.failed /\ s.results = r.results
        /\ s.items = r.items /\ s.status = r.status
    BY <2>1 DEF Request
  <2> QED BY <2>2, <2>3 DEF GoesOn
<1> QED BY <1>1, <1>2

LEMMA NextItemFacts ==
  ASSUME NEW r \in Request, Len(r.results) <= Len(r.items), NEW s, s = NextItem(r)
  PROVE  GoesOn(r, s)
<1>1. CASE Len(r.results) = Len(r.items)
  BY <1>1, ReturnsFacts DEF NextItem
<1>2. CASE Len(r.results) # Len(r.items)
  <2>1. Len(r.results) < Len(r.items)
    BY <1>2, RequestFields
  <2> QED BY <1>2, <2>1, BeginFacts DEF NextItem
<1> QED BY <1>1, <1>2

(* An item has a result: what it shows is what the request had found.      *)
LEMMA ResultAdded ==
  ASSUME NEW r \in Request, Len(r.results) < Len(r.items),
         NEW x \in [ok : BOOLEAN, row : {r.result, NoRow}],
         NEW t, t = [r EXCEPT !.results = Append(@, x)]
  PROVE  /\ t \in Request
         /\ Len(t.results) <= Len(t.items)
         /\ \A s : GoesOn(t, s) => GoesOn(r, s)
         /\ t.mode = r.mode
         /\ t.results = Append(r.results, x)
<1>1. /\ r.results \in Seq([ok : BOOLEAN, row : Results]) /\ r.items \in Seq(Items)
      /\ r.result \in Results
  BY RequestFields
<1>2. x \in [ok : BOOLEAN, row : Results]
  BY <1>1, NoRowType
<1> DEFINE more == Append(r.results, x)
           before == r.results
<1>3. /\ more \in Seq([ok : BOOLEAN, row : Results])
      /\ Len(more) = Len(r.results) + 1
      /\ \A k \in DOMAIN more : \/ k \in DOMAIN r.results /\ more[k] = r.results[k]
                               \/ more[k] = x
  <2>1. before \in Seq([ok : BOOLEAN, row : Results])
    BY <1>1
  <2> HIDE DEF before
  <2>2. /\ Append(before, x) \in Seq([ok : BOOLEAN, row : Results])
        /\ Len(Append(before, x)) = Len(before) + 1
        /\ \A k \in DOMAIN Append(before, x) :
             \/ k \in DOMAIN before /\ Append(before, x)[k] = before[k]
             \/ Append(before, x)[k] = x
    BY <1>2, <2>1, AppendFacts
  <2> QED BY <2>2 DEF before
<1>4. t = [r EXCEPT !.results = more]
  BY DEF Request
<1> HIDE DEF more
<1>5. t \in Request
  BY <1>3, <1>4 DEF Request
<1>6. /\ t.wrote = r.wrote /\ t.failed = r.failed /\ t.entity = r.entity
      /\ t.result = r.result /\ t.results = more /\ t.status = r.status
      /\ t.mode = r.mode /\ t.items = r.items
  BY <1>4 DEF Request
<1>7. Len(t.results) <= Len(t.items)
  BY <1>1, <1>3, <1>6
<1>8. ASSUME NEW s, GoesOn(t, s)
      PROVE  GoesOn(r, s)
  <2>1. x.row \in {r.result, NoRow}
    OBVIOUS
  <2>2. \A k \in DOMAIN s.results :
          \/ k \in DOMAIN r.results /\ s.results[k] = r.results[k]
          \/ s.results[k].row \in {r.result, NoRow}
    BY <1>3, <1>6, <1>8, <2>1 DEF GoesOn
  <2> QED BY <1>6, <1>8, <2>2 DEF GoesOn
<1> QED BY <1>5, <1>6, <1>7, <1>8 DEF more

LEMMA ItemDoneFacts ==
  ASSUME NEW r \in Request, Len(r.results) < Len(r.items)
  PROVE  GoesOn(r, ItemDone(r))
<1> DEFINE x == [ok |-> TRUE, row |-> r.result]
           t == [r EXCEPT !.results = Append(@, x)]
<1>1. x \in [ok : BOOLEAN, row : {r.result, NoRow}]
  OBVIOUS
<1>2. ItemDone(r) = NextItem(t)
  BY DEF ItemDone
<1> HIDE DEF x
<1>3. /\ t \in Request
      /\ Len(t.results) <= Len(t.items)
      /\ \A s : GoesOn(t, s) => GoesOn(r, s)
  BY <1>1, ResultAdded
<1> HIDE DEF t
<1>4. GoesOn(t, NextItem(t))
  BY <1>3, NextItemFacts
<1> QED BY <1>2, <1>3, <1>4

LEMMA RaisedFacts ==
  ASSUME NEW r \in Request, Len(r.results) < Len(r.items)
  PROVE  GoesOn(r, Raised(r))
<1> DEFINE x == [ok |-> FALSE, row |-> NoRow]
           t == [r EXCEPT !.results = Append(@, x)]
<1>1. x \in [ok : BOOLEAN, row : {r.result, NoRow}]
  OBVIOUS
<1>2. Raised(r) = IF r.mode = "bulk" THEN NextItem(t) ELSE [t EXCEPT !.phase = "rollback"]
  BY DEF Raised
<1> HIDE DEF x
<1>3. /\ t \in Request
      /\ Len(t.results) <= Len(t.items)
      /\ \A s : GoesOn(t, s) => GoesOn(r, s)
  BY <1>1, ResultAdded
<1> HIDE DEF t
<1>4. GoesOn(t, NextItem(t))
  BY <1>3, NextItemFacts
<1>5. GoesOn(t, [t EXCEPT !.phase = "rollback"])
  <2> DEFINE s == [t EXCEPT !.phase = "rollback"]
  <2>1. s \in Request
    BY <1>3 DEF Request
  <2>2. /\ s.phase = "rollback" /\ s.entity = t.entity /\ s.result = t.result
        /\ s.wrote = t.wrote /\ s.failed = t.failed /\ s.results = t.results
        /\ s.items = t.items /\ s.status = t.status
    BY <1>3 DEF Request
  <2> HIDE DEF s
  <2>3. GoesOn(t, s)
    BY <2>1, <2>2 DEF GoesOn
  <2> QED BY <2>3 DEF s
<1> QED BY <1>2, <1>3, <1>4, <1>5

LEMMA ServedFacts ==
  ASSUME NEW r \in Request, NEW result \in Results, NEW s, s = Served(r, result)
  PROVE  /\ s \in Request /\ s.phase = "post"
         /\ s.wrote = r.wrote /\ s.failed = r.failed /\ s.entity = r.entity
         /\ s.items = r.items /\ s.results = r.results /\ s.status = r.status
         /\ s.result \in {result, r.entity}
<1> DEFINE x == IF result = NoRow /\ Current(r).op = "update" THEN r.entity ELSE result
<1>1. x \in Results /\ x \in {result, r.entity}
  BY RequestFields
<1>2. s = [r EXCEPT !.phase = "post", !.result = x]
  BY DEF Served
<1> HIDE DEF x
<1>3. s \in Request
  BY <1>1, <1>2 DEF Request
<1> QED BY <1>1, <1>2, <1>3 DEF Request

(* What a request shows stays known, and what it adds is what it had.      *)
LEMMA ShowsFacts ==
  ASSUME NEW rows, NEW mine, NEW more, NEW ours, NEW r, NEW s,
         \A i \in DOMAIN rows : i \in DOMAIN more /\ more[i] = rows[i],
         \A k \in DOMAIN mine : k \in DOMAIN ours /\ ours[k] = mine[k],
         Shows(rows, mine, r), s = r \/ GoesOn(r, s)
  PROVE  Shows(more, ours, s)
<1>1. \A row : Known(rows, mine, row) => Known(more, ours, row)
  BY DEF Known
<1>2. CASE s = r
  BY <1>1, <1>2 DEF Shows
<1>3. CASE GoesOn(r, s)
  BY <1>1, <1>3 DEF Shows, GoesOn
<1> QED BY <1>2, <1>3

-----------------------------------------------------------------------------
(* To the sessions and to the handlers, a step of the requests is a step   *)
(* of their own.                                                           *)

LEMMA CurrentFacts ==
  ASSUME TypeOK, Progress, NEW c \in Clients,
         req[c].phase \in {"hydrate", "pre", "call", "post", "telling"}
  PROVE  /\ req[c] \in Request /\ Len(req[c].results) < Len(req[c].items)
         /\ Current(req[c]) \in Items /\ Current(req[c]).op \in Ops
         /\ Current(req[c]).op = "create" => Current(req[c]).value \in Repo!Payloads
         /\ Current(req[c]).op # "create" => Current(req[c]) \in Repo!Item
<1> DEFINE r == req[c]
<1>1. r \in Request /\ Len(r.results) < Len(r.items)
  BY DEF TypeOK, Progress
<1> HIDE DEF r
<1>2. /\ Current(r) \in Items /\ Current(r).op \in Ops
      /\ Current(r).op = "create" => Current(r).value \in Repo!Payloads
      /\ Current(r).op # "create" => Current(r) \in Repo!Item
  BY <1>1, CurrentType
<1> QED BY <1>1, <1>2 DEF r

LEMMA StepIsRepo ==
  ASSUME TypeOK, Progress, Next
  PROVE  Repo!Next \/ UNCHANGED repoVars
<1>1. CASE Outside
  BY <1>1 DEF Outside
<1>2. ASSUME NEW c \in Clients, Receive(c) \/ Step(c) \/ Forget(c) \/ Die(c)
      PROVE  Repo!Next \/ UNCHANGED repoVars
  <2>1. CASE Receive(c) \/ RunPreHooks(c) \/ StartPost(c) \/ RunPost(c) \/ FinishPost(c)
             \/ PostRaises(c) \/ Forget(c)
    BY <2>1 DEF Receive, RunPreHooks, StartPost, RunPost, FinishPost, PostRaises, Forget
  <2>2. CASE Hydrate(c)
    BY <2>2 DEF Hydrate, Repo!Next
  <2>3. CASE CallCreate(c)
    <3>1. Current(req[c]).value \in Repo!Payloads
      BY <2>3, CurrentFacts DEF CallCreate
    <3> QED BY <2>3, <3>1 DEF CallCreate, Repo!Next
  <2>4. CASE CallWrite(c)
    <3>1. Current(req[c]) \in Repo!Item
      BY <2>4, CurrentFacts DEF CallWrite
    <3> QED BY <2>4, <3>1 DEF CallWrite, Repo!Next
  <2>5. CASE Insert(c)
    BY <2>5 DEF Insert, Repo!Next
  <2>6. CASE StatementFails(c)
    BY <2>6 DEF StatementFails, Repo!Next
  <2>7. CASE CommitSession(c)
    BY <2>7 DEF CommitSession, Repo!Next
  <2>8. CASE CommitFails(c) \/ RollbackSession(c) \/ Die(c)
    BY <2>8 DEF CommitFails, RollbackSession, Die, Repo!Next
  <2> QED BY <1>2, <2>1, <2>2, <2>3, <2>4, <2>5, <2>6, <2>7, <2>8 DEF Step
<1> QED BY <1>1, <1>2 DEF Next

LEMMA StepIsTell ==
  ASSUME TypeOK, Progress, Next
  PROVE  Tell!Next \/ UNCHANGED tellVars
<1>1. CASE Outside
  BY <1>1 DEF Outside, Tell!Next
<1>2. ASSUME NEW c \in Clients, Receive(c) \/ Step(c) \/ Forget(c) \/ Die(c)
      PROVE  Tell!Next \/ UNCHANGED tellVars
  <2>1. CASE StartPost(c)
    <3>1. Current(req[c]).op \in Ops /\ req[c].result \in Results
      BY <2>1, CurrentFacts, RequestFields DEF StartPost
    <3> QED BY <2>1, <3>1 DEF StartPost, Tell!Next
  <2>2. CASE RunPost(c)
    BY <2>2 DEF RunPost, Tell!Next
  <2>3. CASE FinishPost(c) \/ PostRaises(c)
    BY <2>3 DEF FinishPost, PostRaises, Tell!Next
  <2>4. CASE Die(c)
    BY <2>4 DEF Die, Tell!Next
  <2>5. CASE Receive(c) \/ Hydrate(c) \/ RunPreHooks(c) \/ CallCreate(c) \/ CallWrite(c)
             \/ Insert(c) \/ StatementFails(c) \/ Forget(c)
    BY <2>5 DEF Receive, Hydrate, RunPreHooks, CallCreate, CallWrite, Insert, StatementFails,
                Forget
  <2>6. CASE CommitSession(c) \/ CommitFails(c) \/ RollbackSession(c)
    BY <2>6 DEF CommitSession, CommitFails, RollbackSession
  <2> QED BY <1>2, <2>1, <2>2, <2>3, <2>4, <2>5, <2>6 DEF Step
<1> QED BY <1>1, <1>2 DEF Next

-----------------------------------------------------------------------------
(* The invariant of the requests.                                          *)

LEMMA IInvFacts ==
  ASSUME IInv, NEW c \in Clients
  PROVE  /\ Repo!TypeOK /\ Tell!TypeOK /\ TypeOK /\ Progress
         /\ req[c] \in Request
         /\ Open(req[c]) => OpenInv(c)
         /\ ~Open(req[c]) => ClosedInv(c)
BY DEF IInv, RequestInv, TypeOK

(* A step of one request does not disturb the others: whatever it commits  *)
(* is its own.                                                             *)
LEMMA RequestStep ==
  ASSUME IInv, RepoInv', TellInv', NEW c \in Clients, NEW s \in Request,
         req' = [req EXCEPT ![c] = s], UNCHANGED scenario,
         \A d \in Clients : d # c =>
           /\ view'[d] = view[d] /\ own'[d] = own[d] /\ draft'[d] = draft[d]
           /\ aborted'[d] = aborted[d] /\ job'[d] = job[d],
         UNCHANGED table \/ table' = table \o own[c],
         Tell!Busy(c)' <=> s.phase = "telling",
         s.phase \in {"hydrate", "pre", "call", "post", "telling"}
           => Len(s.results) < Len(s.items),
         Open(s) => OpenInv(c)', ~Open(s) => ClosedInv(c)',
         StoresNoPart(c)', Settled(c)'
  PROVE  RequestInv'
<1>1. req'[c] = s /\ \A d \in Clients : d # c => req'[d] = req[d]
  BY IInvFacts DEF TypeOK
<1> DEFINE mine == own[c]
<1>2. table \in Seq(Repo!Row) /\ mine \in Seq(Repo!Row)
  BY IInvFacts DEF Repo!TypeOK
<1>3. /\ \A i \in DOMAIN table : i \in DOMAIN table' /\ table'[i] = table[i]
      /\ \A i \in DOMAIN table' : \/ i \in DOMAIN table /\ table'[i] = table[i]
                                  \/ \E k \in DOMAIN mine : table'[i] = mine[k]
  <2>1. CASE UNCHANGED table
    BY <2>1
  <2>2. CASE table' = table \o mine
    <3> HIDE DEF mine
    <3> QED BY <1>2, <2>2, ConcatFacts
  <2> QED BY <2>1, <2>2
<1>4. TypeOK'
  <2>1. req' \in [Clients -> Request]
    BY IInvFacts DEF TypeOK
  <2>2. ASSUME NEW d \in Clients
        PROVE  Tell!Busy(d)' <=> req'[d].phase = "telling"
    <3>1. CASE d = c
      BY <1>1, <3>1
    <3>2. CASE d # c
      <4>1. Tell!Busy(d)' <=> Tell!Busy(d)
        BY <3>2 DEF Tell!Busy
      <4> QED BY <1>1, <3>2, <4>1, IInvFacts DEF TypeOK
    <3> QED BY <3>1, <3>2
  <2>3. scenario' \in Scenarios
    BY IInvFacts DEF TypeOK
  <2> QED BY <2>1, <2>2, <2>3 DEF TypeOK, RepoInv, TellInv
<1>5. Progress'
  <2>1. s.phase \notin {"idle", "done", "commit", "rollback"}
        => s.phase \in {"hydrate", "pre", "call", "post", "telling"}
    BY RequestFields
  <2> QED BY <1>1, <2>1, IInvFacts DEF Progress
<1>6. ASSUME NEW d \in Clients, d # c
      PROVE  /\ Open(req'[d]) => OpenInv(d)'
             /\ ~Open(req'[d]) => ClosedInv(d)'
             /\ StoresNoPart(d)' /\ Settled(d)'
  <2>1. req'[d] = req[d] /\ own'[d] = own[d]
    BY <1>1, <1>6
  <2>2. ASSUME Open(req[d])
        PROVE  OpenInv(d)' /\ req[d].status # "error"
    <3>1. OpenInv(d)
      BY <2>2, IInvFacts
    <3>2. Shows(table', own'[d], req'[d])
      BY <1>3, <2>1, <3>1, ShowsFacts DEF OpenInv
    <3> QED BY <1>6, <2>1, <3>1, <3>2 DEF OpenInv
  <2>3. ASSUME ~Open(req[d])
        PROVE  ClosedInv(d)' /\ \A row \in req[d].wrote : row.editor = d
    BY <1>6, <2>1, <2>3, IInvFacts DEF ClosedInv, Repo!EmptySession
  <2>4. StoresNoPart(d)'
    <3>1. StoresNoPart(d)
      BY DEF IInv, RequestInv
    <3>2. \A k \in DOMAIN mine : mine[k].editor = c
      BY DEF IInv, RepoInv, SessionInv
    <3>3. ASSUME NEW row \in req[d].wrote, ~Stored(row), row.editor = d
          PROVE  ~Stored(row)'
      BY <1>3, <1>6, <3>2, <3>3 DEF Stored
    <3>4. ASSUME NEW row \in req[d].wrote, Stored(row)
          PROVE  Stored(row)'
      BY <1>3, <3>4 DEF Stored
    <3> QED BY <2>1, <2>2, <2>3, <3>1, <3>3, <3>4 DEF StoresNoPart
  <2>5. Settled(d)'
    <3>1. Settled(d)
      BY DEF IInv, RequestInv
    <3>2. \A row : (\E i \in DOMAIN table : table[i] = row)
                  => \E i \in DOMAIN table' : table'[i] = row
      BY <1>3
    <3>3. CASE req[d].phase = "done" /\ req[d].status = "ok" /\ ~req[d].failed
      <4>1. /\ \A k \in DOMAIN req[d].results : req[d].results[k].row # NoRow =>
                 \E i \in DOMAIN table : table[i] = req[d].results[k].row[1]
            /\ \A row \in req[d].wrote : \E i \in DOMAIN table : table[i] = row
        BY <3>1, <3>3 DEF Settled, Stored
      <4>2. /\ \A k \in DOMAIN req[d].results : req[d].results[k].row # NoRow =>
                 \E i \in DOMAIN table' : table'[i] = req[d].results[k].row[1]
            /\ \A row \in req[d].wrote : \E i \in DOMAIN table' : table'[i] = row
        BY <3>2, <4>1
      <4> QED BY <2>1, <4>2 DEF Settled, Stored
    <3>4. CASE ~(req[d].phase = "done" /\ req[d].status = "ok" /\ ~req[d].failed)
      BY <2>1, <3>4 DEF Settled
    <3> QED BY <3>3, <3>4
  <2> QED BY <2>1, <2>2, <2>3, <2>4, <2>5
<1>7. \A d \in Clients : IF Open(req'[d]) THEN OpenInv(d)' ELSE ClosedInv(d)'
  BY <1>1, <1>6
<1>8. \A d \in Clients : StoresNoPart(d)' /\ Settled(d)'
  BY <1>6
<1> QED BY <1>4, <1>5, <1>7, <1>8 DEF RequestInv, Open

(* A step of one session leaves the others alone.                          *)
LEMMA RepoFrame ==
  ASSUME Repo!TypeOK, NEW c \in Clients,
         \/ \E v \in Repo!Payloads : Repo!Create(c, v)
         \/ Repo!Select(c)
         \/ \E item \in Repo!Item : Repo!SelectLatest(c, item)
         \/ Repo!InsertDraft(c)
         \/ Repo!Fail(c)
         \/ Repo!Commit(c)
         \/ Repo!Rollback(c)
  PROVE  /\ \A d \in Clients : d # c => /\ view'[d] = view[d] /\ own'[d] = own[d]
                                        /\ draft'[d] = draft[d] /\ aborted'[d] = aborted[d]
         /\ UNCHANGED table \/ table' = table \o own[c]
<1>1. CASE Repo!Commit(c) \/ Repo!Rollback(c)
  <2>1. Repo!Closed(c)
    BY <1>1 DEF Repo!Commit, Repo!Rollback
  <2>2. UNCHANGED table \/ table' = table \o own[c]
    BY <1>1 DEF Repo!Commit, Repo!Rollback
  <2> QED BY <2>1, <2>2, ClosedFacts
<1>2. CASE Repo!Fail(c)
  BY <1>2 DEF Repo!Fail, Repo!TypeOK
<1>3. CASE \E v \in Repo!Payloads : Repo!Create(c, v)
  BY <1>3 DEF Repo!Create, Repo!Executes, Repo!TypeOK
<1>4. CASE Repo!Select(c)
  BY <1>4 DEF Repo!Select, Repo!Executes, Repo!TypeOK
<1>5. CASE \E item \in Repo!Item : Repo!SelectLatest(c, item)
  BY <1>5 DEF Repo!SelectLatest, Repo!Executes, Repo!TypeOK
<1>6. CASE Repo!InsertDraft(c)
  BY <1>6 DEF Repo!InsertDraft, Repo!Executes, Repo!TypeOK
<1> QED BY <1>1, <1>2, <1>3, <1>4, <1>5, <1>6

(* Steps that write nothing.                                               *)
LEMMA QuietStep ==
  ASSUME IInv, RepoInv', TellInv', NEW c \in Clients, NEW s \in Request,
         Open(req[c]), Open(s), req' = [req EXCEPT ![c] = s],
         UNCHANGED repoVars \/ Repo!Select(c),
         \A d \in Clients : d # c => job'[d] = job[d], UNCHANGED scenario,
         Tell!Busy(c)' <=> s.phase = "telling",
         s.phase \in {"hydrate", "pre", "call", "post", "telling"}
           => Len(s.results) < Len(s.items),
         s.wrote = req[c].wrote, s.failed = req[c].failed, s.status # "error",
         draft[c] = << >> \/ s.phase = "call",
         Shows(table, own[c], req[c]) => Shows(table, own[c], s)
  PROVE  RequestInv'
<1>1. OpenInv(c) /\ Repo!TypeOK
  BY IInvFacts
<1>2. /\ UNCHANGED <<table, own, draft, aborted>>
      /\ \A d \in Clients : d # c => view'[d] = view[d]
  BY <1>1, RepoFrame DEF Repo!Select, repoVars
<1>3. req'[c] = s
  BY IInvFacts DEF TypeOK
<1>4. OpenInv(c)'
  BY <1>1, <1>2, <1>3 DEF OpenInv
<1>5. StoresNoPart(c)' /\ Settled(c)'
  BY <1>3 DEF StoresNoPart, Settled, Open
<1> QED BY <1>2, <1>4, <1>5, RequestStep

(* ... among them those by which a request goes on.                        *)
LEMMA GoesOnStep ==
  ASSUME IInv, RepoInv', TellInv', NEW c \in Clients, NEW s,
         Open(req[c]), GoesOn(req[c], s), req' = [req EXCEPT ![c] = s],
         UNCHANGED repoVars \/ Repo!Select(c), draft[c] = << >>,
         \A d \in Clients : d # c => job'[d] = job[d], UNCHANGED scenario,
         ~Tell!Busy(c)'
  PROVE  RequestInv'
<1>1. OpenInv(c)
  BY IInvFacts
<1>2. /\ s \in Request /\ Open(s) /\ s.phase # "telling"
      /\ s.phase \in {"hydrate", "pre", "call", "post", "telling"}
           => Len(s.results) < Len(s.items)
      /\ s.wrote = req[c].wrote /\ s.failed = req[c].failed /\ s.status # "error"
  BY <1>1 DEF GoesOn, OpenInv, Open
<1>3. Shows(table, own[c], req[c]) => Shows(table, own[c], s)
  BY ShowsFacts
<1> QED BY <1>2, <1>3, QuietStep

LEMMA ReceiveInv ==
  ASSUME IInv, RepoInv', TellInv', NEW c \in Clients, Receive(c)
  PROVE  RequestInv'
<1>1. PICK b \in Bodies : req' = [req EXCEPT ![c] = Begin([Idle EXCEPT !.mode = b.mode, !.items = b.items])]
  <2>1. PICK b \in scenario.bodies :
          Sets(c, Begin([Idle EXCEPT !.mode = b.mode, !.items = b.items]))
    BY DEF Receive
  <2>2. scenario \in Scenario
    BY ScenariosAssumption, IInvFacts DEF TypeOK
  <2>3. scenario.bodies \subseteq Bodies
    BY <2>2 DEF Scenario
  <2> QED BY <2>1, <2>3 DEF Sets
<1> DEFINE r == [Idle EXCEPT !.mode = b.mode, !.items = b.items]
           s == Begin(r)
<1>2. /\ req[c].phase = "idle" /\ UNCHANGED <<repoVars, tellVars, scenario>>
  BY DEF Receive
<1>3. b.mode \in {"single", "bulk", "atomic"} /\ b.items \in Seq(Items) /\ b.items # << >>
  BY BodiesAssumption DEF Body
<1>4. Idle \in Request
  BY NoRowType DEF Idle, Request
<1>5. /\ r \in Request /\ r.results = << >> /\ r.items = b.items /\ r.wrote = {}
      /\ ~r.failed /\ r.status = "none" /\ r.entity = NoRow /\ r.result = NoRow
  <2>1. r \in Request
    BY <1>3, <1>4 DEF Request
  <2>2. /\ r.results = << >> /\ r.items = b.items /\ r.wrote = {}
        /\ r.status = "none" /\ r.entity = NoRow /\ r.result = NoRow
    BY DEF Idle
  <2>3. ~r.failed
    BY Zenon DEF Idle
  <2> QED BY <2>1, <2>2, <2>3
<1>6. Len(r.results) < Len(r.items)
  BY <1>3, <1>5
<1> HIDE DEF r
<1>7. GoesOn(r, s) /\ s.status = r.status /\ s.results = r.results
  BY <1>5, <1>6, BeginFacts
<1>8. ClosedInv(c) /\ Repo!TypeOK /\ TypeOK
  BY <1>2, IInvFacts DEF Open
<1>9. req' = [req EXCEPT ![c] = s]
  BY <1>1 DEF r
<1> HIDE DEF s
<1>10. /\ s \in Request /\ Open(s) /\ s.phase # "telling"
       /\ s.phase \in {"hydrate", "pre", "call", "post", "telling"}
            => Len(s.results) < Len(s.items)
       /\ s.wrote = {} /\ ~s.failed /\ s.status = "none" /\ s.entity = NoRow
       /\ s.result = NoRow /\ s.results = << >>
  BY <1>5, <1>7 DEF GoesOn, Open
<1>11. req'[c] = s
  BY <1>8, <1>9 DEF TypeOK
<1>12. UNCHANGED <<table, view, own, draft, aborted, job>>
  BY <1>2 DEF repoVars, tellVars
<1>13. own[c] = << >> /\ draft[c] = << >> /\ ~aborted[c]
  BY <1>8 DEF ClosedInv, Repo!EmptySession
<1>14. OpenInv(c)'
  BY <1>10, <1>11, <1>12, <1>13 DEF OpenInv, Shows
<1>15. StoresNoPart(c)' /\ Settled(c)'
  BY <1>10, <1>11 DEF StoresNoPart, Settled, Open
<1>16. ~Tell!Busy(c)'
  BY <1>2, <1>8, <1>12 DEF TypeOK, Tell!Busy
<1> QED BY <1>2, <1>9, <1>10, <1>12, <1>14, <1>15, <1>16, RequestStep

(* The handlers only run for a request that tells.                         *)
LEMMA NotTelling ==
  ASSUME IInv, NEW c \in Clients, req[c].phase # "telling", UNCHANGED tellVars
  PROVE  ~Tell!Busy(c)' /\ UNCHANGED job
<1>1. UNCHANGED job
  BY DEF tellVars
<1>2. ~Tell!Busy(c)
  BY IInvFacts DEF TypeOK
<1> QED BY <1>1, <1>2 DEF Tell!Busy

(* What get_by_entity_id returns is committed, or the session's own.       *)
LEMMA FoundFacts ==
  ASSUME IInv, NEW c \in Clients, NEW e, NEW i \in Repo!GetsIn(Repo!Rows(c), e)
  PROVE  /\ Repo!Rows(c)[i] \in Repo!Row
         /\ Known(table, own[c], Repo!Rows(c)[i])
<1> DEFINE rows == Repo!Rows(c)
<1>1. /\ rows \in Seq(Repo!Row)
      /\ \A k \in DOMAIN rows : \/ \E n \in DOMAIN table : rows[k] = table[n]
                                \/ \E n \in DOMAIN own[c] : rows[k] = own[c][n]
  BY IInvFacts, RowsFacts
<1>2. i \in DOMAIN rows
  BY DEF Repo!GetsIn, Repo!LatestIn, Repo!VersionsIn
<1> HIDE DEF rows
<1>3. rows[i] \in Repo!Row /\ Known(table, own[c], rows[i])
  BY <1>1, <1>2 DEF Known
<1> QED BY <1>3 DEF rows

LEMMA HydrateInv ==
  ASSUME IInv, RepoInv', TellInv', NEW c \in Clients, Hydrate(c)
  PROVE  RequestInv'
<1> DEFINE r == req[c]
           e == Current(r).entity
<1>1. /\ r.phase = "hydrate" /\ Repo!Select(c) /\ UNCHANGED <<tellVars, scenario>>
      /\ draft[c] = << >>
  BY DEF Hydrate, Repo!Select
<1>2. /\ r \in Request /\ Len(r.results) < Len(r.items) /\ Open(r)
      /\ OpenInv(c) /\ r.status # "error"
  BY <1>1, IInvFacts, CurrentFacts DEF Open, OpenInv
<1>3. ~Tell!Busy(c)' /\ UNCHANGED job
  BY <1>1, NotTelling
<1>4. CASE req' = [req EXCEPT ![c] = Raised(r)]
  <2>1. GoesOn(r, Raised(r))
    BY <1>2, RaisedFacts
  <2> QED BY <1>1, <1>2, <1>3, <1>4, <2>1, GoesOnStep
<1>5. ASSUME NEW i \in Repo!GetsIn(Repo!Rows(c), e),
             req' = [req EXCEPT ![c] = [r EXCEPT !.entity = <<Repo!Rows(c)[i]>>, !.phase = "pre"]]
      PROVE  RequestInv'
  <2> DEFINE row == Repo!Rows(c)[i]
             s == [r EXCEPT !.entity = <<row>>, !.phase = "pre"]
  <2>1. row \in Repo!Row /\ Known(table, own[c], row)
    BY FoundFacts
  <2> HIDE DEF row
  <2>2. <<row>> \in Results /\ <<row>> # NoRow /\ <<row>>[1] = row
    BY <2>1 DEF Results, NoRow
  <2>3. s \in Request
    BY <1>2, <2>2 DEF Request
  <2>4. /\ s.phase = "pre" /\ s.entity = <<row>> /\ s.result = r.result
        /\ s.results = r.results /\ s.items = r.items /\ s.wrote = r.wrote
        /\ s.failed = r.failed /\ s.status = r.status
    BY <1>2 DEF Request
  <2>5. req' = [req EXCEPT ![c] = s]
    BY <1>5 DEF row
  <2> HIDE DEF s
  <2>6. Shows(table, own[c], r) => Shows(table, own[c], s)
    BY <2>1, <2>2, <2>4 DEF Shows
  <2>7. Open(s)
    BY <2>4 DEF Open
  <2> QED BY <1>1, <1>2, <1>3, <2>3, <2>4, <2>5, <2>6, <2>7, QuietStep
<1> QED BY <1>4, <1>5 DEF Hydrate, Sets

LEMMA RunPreHooksInv ==
  ASSUME IInv, RepoInv', TellInv', NEW c \in Clients, RunPreHooks(c)
  PROVE  RequestInv'
<1> DEFINE r == req[c]
<1>1. r.phase = "pre" /\ UNCHANGED <<repoVars, tellVars, scenario>>
  BY DEF RunPreHooks
<1>2. /\ r \in Request /\ Len(r.results) < Len(r.items) /\ Open(r)
      /\ OpenInv(c) /\ r.status # "error" /\ draft[c] = << >>
  BY <1>1, IInvFacts, CurrentFacts DEF Open, OpenInv
<1>3. ~Tell!Busy(c)' /\ UNCHANGED job
  BY <1>1, NotTelling
<1>4. CASE req' = [req EXCEPT ![c] = Raised(r)]
  <2>1. GoesOn(r, Raised(r))
    BY <1>2, RaisedFacts
  <2> QED BY <1>1, <1>2, <1>3, <1>4, <2>1, GoesOnStep
<1>5. CASE req' = [req EXCEPT ![c] = [r EXCEPT !.phase = "call"]]
  <2> DEFINE s == [r EXCEPT !.phase = "call"]
  <2>1. s \in Request
    BY <1>2 DEF Request
  <2>2. /\ s.phase = "call" /\ s.entity = r.entity /\ s.result = r.result
        /\ s.results = r.results /\ s.items = r.items /\ s.wrote = r.wrote
        /\ s.failed = r.failed /\ s.status = r.status
    BY <1>2 DEF Request
  <2> HIDE DEF s
  <2>3. Shows(table, own[c], r) => Shows(table, own[c], s)
    BY <2>2 DEF Shows
  <2>4. Open(s)
    BY <2>2 DEF Open
  <2>5. req' = [req EXCEPT ![c] = s]
    BY <1>5 DEF s
  <2> QED BY <1>1, <1>2, <1>3, <2>1, <2>2, <2>3, <2>4, <2>5, QuietStep
<1> QED BY <1>4, <1>5 DEF RunPreHooks, Sets

(* The select of an update or a delete: the request stays where it is, or  *)
(* has been served.                                                        *)
LEMMA CallWriteInv ==
  ASSUME IInv, RepoInv', TellInv', NEW c \in Clients, CallWrite(c)
  PROVE  RequestInv'
<1> DEFINE r == req[c]
<1>1. r.phase = "call" /\ draft[c] = << >> /\ UNCHANGED <<tellVars, scenario>>
  BY DEF CallWrite
<1>2. /\ r \in Request /\ Len(r.results) < Len(r.items) /\ Open(r)
      /\ OpenInv(c) /\ r.status # "error" /\ Repo!TypeOK /\ Current(r).op # "create"
      /\ Current(r) \in Repo!Item
  BY <1>1, IInvFacts, CurrentFacts DEF Open, OpenInv, CallWrite
<1>3. ~Tell!Busy(c)' /\ UNCHANGED job
  BY <1>1, NotTelling
<1>4. CASE Repo!SelectNone(c, Current(r)) /\ Sets(c, Served(r, NoRow))
  <2> DEFINE s == Served(r, NoRow)
  <2>1. req' = [req EXCEPT ![c] = s] /\ Repo!Select(c)
    BY <1>4 DEF Sets, Repo!SelectNone
  <2>2. /\ s \in Request /\ s.phase = "post"
        /\ s.wrote = r.wrote /\ s.failed = r.failed /\ s.entity = r.entity
        /\ s.items = r.items /\ s.results = r.results /\ s.status = r.status
        /\ s.result \in {NoRow, r.entity}
    BY <1>2, NoRowType, ServedFacts
  <2> HIDE DEF s
  <2>3. Shows(table, own[c], r) => Shows(table, own[c], s)
    BY <2>2 DEF Shows
  <2>4. Open(s)
    BY <2>2 DEF Open
  <2> QED BY <1>1, <1>2, <1>3, <2>1, <2>2, <2>3, <2>4, QuietStep
<1>5. CASE Repo!SelectLatest(c, Current(r)) /\ UNCHANGED req
  <2>1. req' = [req EXCEPT ![c] = r]
    BY <1>5, IInvFacts DEF TypeOK
  <2>2. UNCHANGED <<table, own, aborted>>
    BY <1>5 DEF Repo!SelectLatest
  <2>3. \A d \in Clients : d # c =>
           /\ view'[d] = view[d] /\ own'[d] = own[d] /\ draft'[d] = draft[d]
           /\ aborted'[d] = aborted[d] /\ job'[d] = job[d]
    BY <1>2, <1>3, <1>5, RepoFrame
  <2>4. OpenInv(c)'
    BY <1>1, <1>2, <1>5, <2>2 DEF OpenInv
  <2>5. StoresNoPart(c)' /\ Settled(c)'
    BY <1>1, <1>2, <1>5 DEF StoresNoPart, Settled
  <2> QED BY <1>1, <1>2, <1>3, <2>1, <2>2, <2>3, <2>4, <2>5, RequestStep
<1> QED BY <1>4, <1>5 DEF CallWrite

(* A row has been inserted: it is the session's last.                      *)
LEMMA InsertedInv ==
  ASSUME IInv, RepoInv', TellInv', NEW c \in Clients, req[c].phase = "call",
         NEW row \in Repo!Row, own'[c] = Append(own[c], row), draft'[c] = << >>,
         \A d \in Clients : d # c =>
           view'[d] = view[d] /\ own'[d] = own[d] /\ draft'[d] = draft[d],
         UNCHANGED <<table, aborted, tellVars, scenario>>, Sets(c, Inserted(c, row))
  PROVE  RequestInv'
<1> DEFINE r == req[c]
           t == [r EXCEPT !.wrote = @ \cup {row}]
           s == Inserted(c, row)
           mine == own[c]
           ours == own'[c]
<1>1. /\ r \in Request /\ Len(r.results) < Len(r.items) /\ Open(r)
      /\ OpenInv(c) /\ r.status # "error" /\ Repo!TypeOK
  BY IInvFacts, CurrentFacts DEF Open, OpenInv
<1>2. ~Tell!Busy(c)' /\ UNCHANGED job
  BY NotTelling
<1>3. t \in Request
  BY <1>1 DEF Request
<1>4. /\ t.entity = r.entity /\ t.result = r.result /\ t.results = r.results
      /\ t.items = r.items /\ t.failed = r.failed /\ t.status = r.status
      /\ t.wrote = r.wrote \cup {row}
  BY <1>1 DEF Request
<1>5. s = IF Repo!Validates(row) THEN Served(t, <<row>>) ELSE Raised(t)
  BY DEF Inserted
<1>6. req' = [req EXCEPT ![c] = s]
  BY DEF Sets
<1> HIDE DEF s, t
<1>7. /\ \A k \in DOMAIN mine : k \in DOMAIN ours /\ ours[k] = mine[k]
      /\ {ours[k] : k \in DOMAIN ours} = {mine[k] : k \in DOMAIN mine} \cup {row}
      /\ \E k \in DOMAIN ours : ours[k] = row
  <2>1. mine \in Seq(Repo!Row) /\ ours = Append(mine, row)
    BY <1>1 DEF Repo!TypeOK
  <2> HIDE DEF mine, ours
  <2>2. /\ \A k \in DOMAIN mine : k \in DOMAIN ours /\ ours[k] = mine[k]
        /\ Len(mine) + 1 \in DOMAIN ours /\ ours[Len(mine) + 1] = row
        /\ \A k \in DOMAIN ours : k \in DOMAIN mine \/ k = Len(mine) + 1
    BY <2>1, AppendFacts
  <2> QED BY <2>2
<1>8. Shows(table, ours, t) /\ Known(table, ours, row)
  <2>1. Shows(table, mine, t)
    BY <1>1, <1>4 DEF OpenInv, Shows
  <2>2. Shows(table, ours, t)
    BY <1>7, <2>1, ShowsFacts
  <2> QED BY <1>7, <2>2 DEF Known
<1>9. /\ s \in Request /\ Open(s) /\ s.phase \notin {"call", "telling"}
      /\ s.phase \in {"hydrate", "pre", "call", "post", "telling"}
           => Len(s.results) < Len(s.items)
      /\ s.wrote = t.wrote /\ s.failed = t.failed /\ s.status # "error"
      /\ Shows(table, ours, s)
  <2>1. CASE Repo!Validates(row)
    <3> DEFINE one == <<row>>
    <3>1. one \in Results /\ one # NoRow /\ one[1] = row
      BY DEF Results, NoRow
    <3>2. s = Served(t, one)
      BY <1>5, <2>1
    <3> HIDE DEF one
    <3>3. /\ s \in Request /\ s.phase = "post"
          /\ s.wrote = t.wrote /\ s.failed = t.failed /\ s.entity = t.entity
          /\ s.items = t.items /\ s.results = t.results /\ s.status = t.status
          /\ s.result \in {one, t.entity}
      BY <1>3, <3>1, <3>2, ServedFacts
    <3>4. Shows(table, ours, s)
      BY <1>8, <3>1, <3>3 DEF Shows
    <3> QED BY <1>1, <1>4, <3>3, <3>4 DEF Open
  <2>2. CASE ~Repo!Validates(row)
    <3>1. Len(t.results) < Len(t.items)
      BY <1>1, <1>4
    <3>2. GoesOn(t, s)
      BY <1>3, <1>5, <2>2, <3>1, RaisedFacts
    <3>3. Shows(table, ours, s)
      BY <1>8, <3>2, ShowsFacts
    <3> QED BY <1>1, <1>4, <3>2, <3>3 DEF GoesOn, Open
  <2> QED BY <2>1, <2>2
<1>10. req'[c] = s
  BY <1>6, IInvFacts DEF TypeOK
<1>11. OpenInv(c)'
  BY <1>1, <1>4, <1>7, <1>9, <1>10 DEF OpenInv
<1>12. StoresNoPart(c)' /\ Settled(c)'
  BY <1>9, <1>10 DEF StoresNoPart, Settled, Open
<1> QED BY <1>2, <1>6, <1>9, <1>11, <1>12, RequestStep

LEMMA CallCreateInv ==
  ASSUME IInv, RepoInv', TellInv', NEW c \in Clients, CallCreate(c)
  PROVE  RequestInv'
<1> DEFINE v == Current(req[c]).value
<1>1. /\ req[c].phase = "call" /\ Repo!Create(c, v) /\ UNCHANGED <<tellVars, scenario>>
      /\ Repo!TypeOK
  BY IInvFacts DEF CallCreate
<1>2. v \in Repo!Payloads
  BY <1>1, IInvFacts, CurrentFacts DEF CallCreate
<1> HIDE DEF v
<1>3. PICK e \in Entities : own' = [own EXCEPT ![c] = Append(own[c], Repo!FirstVersion(e, v, c))]
  BY <1>1 DEF Repo!Create
<1> DEFINE row == Repo!FirstVersion(e, v, c)
           mine == own[c]
<1>4. row \in Repo!Row /\ mine \in Seq(Repo!Row)
  BY <1>1, <1>2, FirstVersionFacts DEF Repo!TypeOK
<1>5. own'[c] = Append(mine, row)
  BY <1>1, <1>3 DEF Repo!TypeOK
<1> HIDE DEF row, mine
<1>6. own'[c][Len(own'[c])] = row
  BY <1>4, <1>5, AppendFacts
<1>7. draft'[c] = << >> /\ UNCHANGED <<table, aborted>>
  BY <1>1 DEF Repo!Create
<1>8. Sets(c, Inserted(c, row))
  BY <1>6 DEF CallCreate
<1>9. \A d \in Clients : d # c => view'[d] = view[d] /\ own'[d] = own[d] /\ draft'[d] = draft[d]
  BY <1>1, <1>2, RepoFrame
<1>10. own'[c] = Append(own[c], row)
  BY <1>5 DEF mine
<1> QED BY <1>1, <1>4, <1>7, <1>8, <1>9, <1>10, InsertedInv

LEMMA InsertInv ==
  ASSUME IInv, RepoInv', TellInv', NEW c \in Clients, Insert(c)
  PROVE  RequestInv'
<1> DEFINE row == draft[c][1]
           mine == own[c]
           new == draft[c]
<1>1. /\ req[c].phase = "call" /\ Repo!InsertDraft(c) /\ UNCHANGED <<tellVars, scenario>>
      /\ Sets(c, Inserted(c, row)) /\ Repo!TypeOK
  BY IInvFacts DEF Insert
<1>2. new \in Seq(Repo!Row) /\ Len(new) <= 1 /\ new # << >> /\ mine \in Seq(Repo!Row)
  BY <1>1 DEF Repo!TypeOK, Repo!InsertDraft
<1>3. own'[c] = mine \o new /\ draft'[c] = << >> /\ UNCHANGED <<table, aborted>>
  BY <1>1 DEF Repo!TypeOK, Repo!InsertDraft
<1>4. row \in Repo!Row /\ new = <<row>>
  BY <1>2
<1> HIDE DEF row, mine, new
<1>5. own'[c] = Append(mine, row)
  BY <1>2, <1>3, <1>4
<1>6. \A d \in Clients : d # c => view'[d] = view[d] /\ own'[d] = own[d] /\ draft'[d] = draft[d]
  BY <1>1, RepoFrame
<1>7. own'[c] = Append(own[c], row)
  BY <1>5 DEF mine
<1> QED BY <1>1, <1>3, <1>4, <1>6, <1>7, InsertedInv

LEMMA StatementFailsInv ==
  ASSUME IInv, RepoInv', TellInv', NEW c \in Clients, StatementFails(c)
  PROVE  RequestInv'
<1> DEFINE r == req[c]
           t == [r EXCEPT !.failed = TRUE]
           s == Raised(t)
<1>1. /\ r.phase \in {"hydrate", "call"} /\ Repo!Fail(c) /\ UNCHANGED <<tellVars, scenario>>
      /\ req' = [req EXCEPT ![c] = s]
  BY DEF StatementFails, Sets
<1>2. /\ r \in Request /\ Len(r.results) < Len(r.items) /\ Open(r)
      /\ OpenInv(c) /\ r.status # "error" /\ Repo!TypeOK
  BY <1>1, IInvFacts, CurrentFacts DEF Open, OpenInv
<1>3. ~Tell!Busy(c)' /\ UNCHANGED job
  BY <1>1, NotTelling
<1>4. t \in Request
  BY <1>2 DEF Request
<1>5. /\ t.entity = r.entity /\ t.result = r.result /\ t.results = r.results
      /\ t.items = r.items /\ t.failed /\ t.status = r.status /\ t.wrote = r.wrote
  BY <1>2 DEF Request
<1> HIDE DEF t
<1>6. GoesOn(t, s)
  BY <1>2, <1>4, <1>5, RaisedFacts
<1> HIDE DEF s
<1>7. /\ s \in Request /\ Open(s) /\ s.phase \notin {"call", "telling"}
      /\ s.phase \in {"hydrate", "pre", "call", "post", "telling"}
           => Len(s.results) < Len(s.items)
      /\ s.wrote = r.wrote /\ s.failed = t.failed /\ s.status # "error"
  BY <1>2, <1>5, <1>6 DEF GoesOn, Open
<1>8. UNCHANGED <<table, view, own>> /\ draft'[c] = << >>
  BY <1>1, <1>2 DEF Repo!Fail, Repo!TypeOK
<1>9. Shows(table, own[c], s)
  <2>1. Shows(table, own[c], t)
    BY <1>2, <1>5 DEF OpenInv, Shows
  <2> QED BY <1>6, <2>1, ShowsFacts
<1>10. req'[c] = s
  BY <1>1, IInvFacts DEF TypeOK
<1>11. OpenInv(c)'
  BY <1>2, <1>5, <1>7, <1>8, <1>9, <1>10 DEF OpenInv
<1>12. StoresNoPart(c)' /\ Settled(c)'
  BY <1>7, <1>10 DEF StoresNoPart, Settled, Open
<1>13. \A d \in Clients : d # c =>
         /\ view'[d] = view[d] /\ own'[d] = own[d] /\ draft'[d] = draft[d]
         /\ aborted'[d] = aborted[d] /\ job'[d] = job[d]
  BY <1>1, <1>2, <1>3, RepoFrame
<1> QED BY <1>1, <1>3, <1>7, <1>8, <1>11, <1>12, <1>13, RequestStep

-----------------------------------------------------------------------------
(* The post handlers.                                                      *)

LEMMA StartPostInv ==
  ASSUME IInv, RepoInv', TellInv', NEW c \in Clients, StartPost(c)
  PROVE  RequestInv'
<1> DEFINE r == req[c]
           s == [r EXCEPT !.phase = "telling"]
<1>1. /\ r.phase = "post" /\ Tell!Emit(c, Current(r).op, r.result)
      /\ req' = [req EXCEPT ![c] = s] /\ UNCHANGED <<repoVars, scenario>>
  BY DEF StartPost, Sets
<1>2. /\ r \in Request /\ Len(r.results) < Len(r.items) /\ Open(r)
      /\ OpenInv(c) /\ r.status # "error" /\ draft[c] = << >> /\ Tell!TypeOK
  BY <1>1, IInvFacts, CurrentFacts DEF Open, OpenInv
<1>3. s \in Request
  BY <1>2 DEF Request
<1>4. /\ s.phase = "telling" /\ s.entity = r.entity /\ s.result = r.result
      /\ s.results = r.results /\ s.items = r.items /\ s.wrote = r.wrote
      /\ s.failed = r.failed /\ s.status = r.status
  BY <1>2 DEF Request
<1> HIDE DEF s
<1>5. Tell!Busy(c)' /\ \A d \in Clients : d # c => job'[d] = job[d]
  <2>1. PICK j \in [stage : {"hooks"}, event : {job'[c].event}, result : {job'[c].result},
                    matched : {job'[c].matched}, hooks : {job'[c].hooks},
                    tries : {job'[c].tries}, calls : {job'[c].calls}] :
               job' = [job EXCEPT ![c] = j]
    BY <1>1, <1>2 DEF Tell!Emit, Tell!TypeOK
  <2>2. j.stage = "hooks" /\ Tell!NoJob.stage = "none"
    BY DEF Tell!NoJob
  <2>3. job'[c] = j /\ \A d \in Clients : d # c => job'[d] = job[d]
    BY <1>2, <2>1 DEF Tell!TypeOK
  <2>4. job'[c] # Tell!NoJob
    BY <2>2, <2>3
  <2> QED BY <2>3, <2>4 DEF Tell!Busy, Tell!NoJob
<1>6. Shows(table, own[c], r) => Shows(table, own[c], s)
  BY <1>4 DEF Shows
<1>7. Open(s)
  BY <1>4 DEF Open
<1> QED BY <1>1, <1>2, <1>3, <1>4, <1>5, <1>6, <1>7, QuietStep

(* What runs goes on, or has finished.                                     *)
LEMMA HandleFacts ==
  ASSUME Tell!TypeOK, TellInv', NEW c \in Clients, Tell!Handle(c)
  PROVE  Tell!Busy(c)' /\ \A d \in Clients : d # c => job'[d] = job[d]
<1>1. Tell!Busy(c) /\ job[c] \in Tell!Job
  BY BusyFacts DEF Tell!Handle, Tell!AttemptAcknowledged, Tell!AttemptRefused,
     Tell!AttemptUnanswered, Tell!GiveUp, Tell!StartStreams, Tell!Publish, Tell!Tries
<1>2. \E x, y, z : \E j \in {[job[c] EXCEPT !.tries = x], [job[c] EXCEPT !.hooks = y, !.tries = z],
                            [job[c] EXCEPT !.stage = "streams"], [job[c] EXCEPT !.calls = x]} :
        job' = [job EXCEPT ![c] = j]
  BY DEF Tell!Handle, Tell!AttemptAcknowledged, Tell!AttemptRefused, Tell!AttemptUnanswered,
     Tell!GiveUp, Tell!StartStreams, Tell!Publish, Tell!Retried, Tell!NextHook
<1>3. PICK j : job' = [job EXCEPT ![c] = j] /\ j.stage \in {job[c].stage, "streams"}
  BY <1>1, <1>2 DEF Tell!Job
<1>4. job'[c] = j /\ \A d \in Clients : d # c => job'[d] = job[d]
  BY <1>3 DEF Tell!TypeOK
<1>5. j.stage # "none" /\ Tell!NoJob.stage = "none"
  BY <1>1, <1>3, JobFields DEF Tell!NoJob
<1>6. job'[c] # Tell!NoJob
  BY <1>4, <1>5
<1> QED BY <1>4, <1>6 DEF Tell!Busy, Tell!NoJob

LEMMA RunPostInv ==
  ASSUME IInv, RepoInv', TellInv', NEW c \in Clients, RunPost(c)
  PROVE  RequestInv'
<1> DEFINE r == req[c]
<1>1. r.phase = "telling" /\ Tell!Handle(c) /\ UNCHANGED <<repoVars, scenario, req>>
  BY DEF RunPost
<1>2. /\ r \in Request /\ Len(r.results) < Len(r.items) /\ Open(r)
      /\ OpenInv(c) /\ r.status # "error" /\ draft[c] = << >> /\ Tell!TypeOK
  BY <1>1, IInvFacts, CurrentFacts DEF Open, OpenInv
<1>3. req' = [req EXCEPT ![c] = r]
  BY <1>1, IInvFacts DEF TypeOK
<1>4. Tell!Busy(c)' /\ \A d \in Clients : d # c => job'[d] = job[d]
  BY <1>1, <1>2, HandleFacts
<1> QED BY <1>1, <1>2, <1>3, <1>4, QuietStep

LEMMA FinishPostInv ==
  ASSUME IInv, RepoInv', TellInv', NEW c \in Clients, FinishPost(c) \/ PostRaises(c)
  PROVE  RequestInv'
<1> DEFINE r == req[c]
<1>1. r.phase \in {"post", "telling"} /\ UNCHANGED <<repoVars, scenario>>
  BY DEF FinishPost, PostRaises
<1>2. /\ r \in Request /\ Len(r.results) < Len(r.items) /\ Open(r)
      /\ OpenInv(c) /\ draft[c] = << >> /\ Tell!TypeOK
  BY <1>1, IInvFacts, CurrentFacts DEF Open, OpenInv
<1>3. ~Tell!Busy(c)' /\ \A d \in Clients : d # c => job'[d] = job[d]
  <2>1. CASE Tell!Finish(c) \/ Tell!Raise(c)
    BY <1>2, <2>1 DEF Tell!Finish, Tell!Raise, Tell!TypeOK, Tell!Busy, Tell!NoJob
  <2>2. CASE r.phase # "telling" /\ UNCHANGED tellVars
    BY <2>2, NotTelling
  <2> QED BY <2>1, <2>2 DEF FinishPost, PostRaises
<1>4. GoesOn(r, ItemDone(r)) /\ GoesOn(r, Raised(r))
  BY <1>2, ItemDoneFacts, RaisedFacts
<1>5. PICK s \in {ItemDone(r), Raised(r)} : req' = [req EXCEPT ![c] = s]
  BY DEF FinishPost, PostRaises, Sets
<1> QED BY <1>1, <1>2, <1>3, <1>4, <1>5, GoesOnStep

-----------------------------------------------------------------------------
(* The end of a request.                                                   *)

(* The session ends, and the request s is over.                            *)
LEMMA EndStep ==
  ASSUME IInv, RepoInv', TellInv', NEW c \in Clients, NEW s \in Request,
         Repo!Commit(c) \/ Repo!Rollback(c), req' = [req EXCEPT ![c] = s],
         s.phase \in {"idle", "done"}, UNCHANGED scenario,
         \A d \in Clients : d # c => job'[d] = job[d], ~Tell!Busy(c)',
         \A row \in s.wrote : row.editor = c,
         StoresNoPart(c)', Settled(c)'
  PROVE  RequestInv'
<1>1. Repo!TypeOK
  BY IInvFacts
<1>2. /\ \A d \in Clients : d # c =>
           /\ view'[d] = view[d] /\ own'[d] = own[d] /\ draft'[d] = draft[d]
           /\ aborted'[d] = aborted[d] /\ job'[d] = job[d]
      /\ UNCHANGED table \/ table' = table \o own[c]
  BY <1>1, RepoFrame
<1>3. req'[c] = s
  BY IInvFacts DEF TypeOK
<1>4. Repo!EmptySession(c)'
  <2>1. Repo!Closed(c)
    BY DEF Repo!Commit, Repo!Rollback
  <2> QED BY <1>1, <2>1, ClosedFacts DEF Repo!EmptySession, Repo!NotBegun
<1>5. ClosedInv(c)' /\ ~Open(s)
  BY <1>3, <1>4 DEF ClosedInv, Open
<1> QED BY <1>2, <1>5, RequestStep

(* The rows of an open request are its session's: none of them is in the   *)
(* table, and all of them are the client's.                                *)
LEMMA OwnIsNotStored ==
  ASSUME IInv, NEW c \in Clients, Open(req[c])
  PROVE  \A row \in req[c].wrote : row.editor = c /\ ~Stored(row)
<1> SUFFICES ASSUME NEW k \in DOMAIN own[c]
             PROVE  own[c][k].editor = c /\ ~Stored(own[c][k])
  BY IInvFacts DEF OpenInv
<1>1. own[c][k].editor = c
  BY DEF IInv, RepoInv, SessionInv
<1>2. own[c] \in Seq(Repo!Row)
  BY IInvFacts DEF Repo!TypeOK
<1>3. own[c][k].version \in Nat
  BY <1>2, RowFields
<1>4. ASSUME NEW i \in DOMAIN table, table[i] = own[c][k]
      PROVE  table[i].version < own[c][k].version
  BY <1>1, <1>4 DEF IInv, RepoInv, NewerThanOwn
<1> QED BY <1>1, <1>3, <1>4 DEF Stored

(* A commit stores all of them, or none.                                   *)
LEMMA CommitFacts ==
  ASSUME IInv, NEW c \in Clients, Repo!Commit(c)
  PROVE  /\ aborted[c] => UNCHANGED table
         /\ ~aborted[c] => \A row : Known(table, own[c], row) => Stored(row)'
<1> DEFINE mine == own[c]
<1>1. ASSUME ~aborted[c]
      PROVE  \A row : Known(table, mine, row) => Stored(row)'
  <2>1. table' = table \o mine
    BY <1>1 DEF Repo!Commit
  <2>2. table \in Seq(Repo!Row) /\ mine \in Seq(Repo!Row)
    BY IInvFacts DEF Repo!TypeOK
  <2> HIDE DEF mine
  <2>3. /\ \A i \in DOMAIN table : i \in DOMAIN table' /\ table'[i] = table[i]
        /\ \A k \in DOMAIN mine : Len(table) + k \in DOMAIN table'
                                  /\ table'[Len(table) + k] = mine[k]
    BY <2>1, <2>2, ConcatFacts
  <2> QED BY <2>3 DEF Known, Stored
<1>2. aborted[c] => UNCHANGED table
  BY DEF Repo!Commit
<1> QED BY <1>1, <1>2

LEMMA CommitSessionInv ==
  ASSUME IInv, RepoInv', TellInv', NEW c \in Clients, CommitSession(c)
  PROVE  RequestInv'
<1> DEFINE r == req[c]
           s == [r EXCEPT !.phase = "done", !.status = "ok"]
           mine == own[c]
<1>1. /\ r.phase = "commit" /\ Repo!Commit(c) /\ UNCHANGED <<tellVars, scenario>>
      /\ req' = [req EXCEPT ![c] = s]
  BY DEF CommitSession, Sets
<1>2. r \in Request /\ Open(r) /\ OpenInv(c) /\ Repo!TypeOK
  BY <1>1, IInvFacts DEF Open
<1>3. ~Tell!Busy(c)' /\ UNCHANGED job
  BY <1>1, NotTelling
<1>4. s \in Request
  BY <1>2 DEF Request
<1>5. /\ s.phase = "done" /\ s.status = "ok" /\ s.results = r.results
      /\ s.wrote = r.wrote /\ s.failed = r.failed
  BY <1>2 DEF Request
<1> HIDE DEF s
<1>6. req'[c] = s
  BY <1>1, IInvFacts DEF TypeOK
<1>7. StoresNoPart(c)'
  BY <1>5, <1>6 DEF StoresNoPart
<1>8. ASSUME ~r.failed
      PROVE  \A row : Known(table, mine, row) => \E i \in DOMAIN table' : table'[i] = row
  BY <1>1, <1>2, <1>8, CommitFacts DEF OpenInv, Stored
<1>9. Settled(c)'
  <2>1. CASE r.failed
    BY <1>5, <1>6, <2>1 DEF Settled
  <2>2. CASE ~r.failed
    <3>1. /\ \A k \in DOMAIN r.results :
               r.results[k].row # NoRow => Known(table, mine, r.results[k].row[1])
          /\ \A row \in r.wrote : Known(table, mine, row)
      BY <1>2 DEF OpenInv, Shows, Known
    <3>2. /\ \A k \in DOMAIN s.results :
               s.results[k].row # NoRow =>
                 \E i \in DOMAIN table' : table'[i] = s.results[k].row[1]
          /\ \A row \in s.wrote : \E i \in DOMAIN table' : table'[i] = row
      BY <1>5, <1>8, <2>2, <3>1
    <3> QED BY <1>6, <3>2 DEF Settled, Stored
  <2> QED BY <2>1, <2>2
<1>10. \A row \in s.wrote : row.editor = c
  BY <1>2, <1>5, OwnIsNotStored
<1> QED BY <1>1, <1>3, <1>4, <1>5, <1>6, <1>7, <1>9, <1>10, EndStep

(* A request ends of which all is stored, or nothing is: with an error, or *)
(* because the database failed.                                            *)
LEMMA FailedStep ==
  ASSUME IInv, RepoInv', TellInv', NEW c \in Clients, NEW s \in Request,
         req[c].phase \in {"commit", "rollback"},
         Repo!Rollback(c) \/ (s.unsure /\ Repo!Commit(c)),
         UNCHANGED <<tellVars, scenario>>, req' = [req EXCEPT ![c] = s],
         s.phase = "done", s.wrote = req[c].wrote, s.status = "ok" => s.failed
  PROVE  RequestInv'
<1>1. Open(req[c])
  BY DEF Open
<1>2. ~Tell!Busy(c)' /\ UNCHANGED job
  BY NotTelling
<1>3. req'[c] = s
  BY IInvFacts DEF TypeOK
<1>4. \A row \in s.wrote : row.editor = c /\ ~Stored(row)
  BY <1>1, OwnIsNotStored
<1>5. StoresNoPart(c)'
  <2>1. CASE UNCHANGED table
    BY <1>3, <1>4, <2>1 DEF StoresNoPart, Stored
  <2>2. CASE s.unsure /\ Repo!Commit(c) /\ ~aborted[c]
    <3>1. \A row \in s.wrote : Known(table, own[c], row)
      BY <1>1, IInvFacts DEF OpenInv, Known
    <3> QED BY <1>3, <2>2, <3>1, CommitFacts DEF StoresNoPart
  <2> QED BY <2>1, <2>2, CommitFacts DEF Repo!Rollback
<1>6. Settled(c)'
  BY <1>3 DEF Settled
<1> QED BY <1>2, <1>4, <1>5, <1>6, EndStep

LEMMA CommitFailsInv ==
  ASSUME IInv, RepoInv', TellInv', NEW c \in Clients, CommitFails(c)
  PROVE  RequestInv'
<1> DEFINE r == req[c]
           answer == IF r.status = "ok" THEN "ok" ELSE "error"
           s == [r EXCEPT !.phase = "done", !.failed = TRUE, !.unsure = TRUE,
                          !.status = answer]
<1>1. r.phase = "commit" /\ (Repo!Rollback(c) \/ Repo!Commit(c))
      /\ UNCHANGED <<tellVars, scenario>> /\ r \in Request
  BY IInvFacts DEF CommitFails
<1>2. req' = [req EXCEPT ![c] = s]
  BY <1>1 DEF CommitFails, Sets, Request
<1>3. answer \in {"ok", "error"}
  OBVIOUS
<1> HIDE DEF answer
<1>4. s \in Request
  BY <1>1, <1>3 DEF Request
<1>5. s.phase = "done" /\ s.failed /\ s.unsure /\ s.wrote = r.wrote
  BY <1>1 DEF Request
<1> HIDE DEF s
<1> QED BY <1>1, <1>2, <1>4, <1>5, FailedStep

LEMMA RollbackSessionInv ==
  ASSUME IInv, RepoInv', TellInv', NEW c \in Clients, RollbackSession(c)
  PROVE  RequestInv'
<1> DEFINE r == req[c]
           s == [r EXCEPT !.phase = "done", !.status = "error"]
<1>1. r.phase = "rollback" /\ Repo!Rollback(c) /\ UNCHANGED <<tellVars, scenario>>
      /\ req' = [req EXCEPT ![c] = s] /\ r \in Request
  BY IInvFacts DEF RollbackSession, Sets
<1>2. s \in Request
  BY <1>1 DEF Request
<1>3. s.phase = "done" /\ s.status = "error" /\ s.wrote = r.wrote
  BY <1>1 DEF Request
<1> HIDE DEF s
<1> QED BY <1>1, <1>2, <1>3, FailedStep

LEMMA IdleFacts ==
  /\ Idle \in Request /\ Idle.phase = "idle" /\ Idle.wrote = {} /\ Idle.status = "none"
  /\ ~Open(Idle)
<1>1. Idle \in Request
  BY NoRowType DEF Idle, Request
<1>2. Idle.phase = "idle" /\ Idle.wrote = {} /\ Idle.status = "none"
  BY DEF Idle
<1> QED BY <1>1, <1>2 DEF Open

LEMMA ForgetInv ==
  ASSUME IInv, RepoInv', TellInv', NEW c \in Clients, Forget(c)
  PROVE  RequestInv'
<1>1. /\ req[c].phase = "done" /\ req' = [req EXCEPT ![c] = Idle]
      /\ UNCHANGED <<repoVars, tellVars, scenario>>
  BY DEF Forget, Sets
<1>2. ClosedInv(c)
  BY <1>1, IInvFacts DEF Open
<1>3. ~Tell!Busy(c)' /\ UNCHANGED job
  BY <1>1, NotTelling
<1>4. UNCHANGED <<table, view, own, draft, aborted>>
  BY <1>1 DEF repoVars
<1>5. req'[c] = Idle
  BY <1>1, IInvFacts DEF TypeOK
<1>6. ClosedInv(c)'
  BY <1>2, <1>4, <1>5, IdleFacts DEF ClosedInv, Repo!EmptySession, Repo!NotBegun
<1>7. StoresNoPart(c)' /\ Settled(c)'
  BY <1>5, IdleFacts DEF StoresNoPart, Settled
<1> QED BY <1>1, <1>3, <1>4, <1>6, <1>7, IdleFacts, RequestStep

LEMMA DieInv ==
  ASSUME IInv, RepoInv', TellInv', NEW c \in Clients, Die(c)
  PROVE  RequestInv'
<1>1. /\ Repo!Rollback(c) /\ req' = [req EXCEPT ![c] = Idle] /\ UNCHANGED scenario
  BY DEF Die, Sets
<1>2. ~Tell!Busy(c)' /\ \A d \in Clients : d # c => job'[d] = job[d]
  <2>1. CASE Tell!Busy(c)
    <3>1. Tell!Abandon(c) /\ Tell!TypeOK
      BY <2>1, IInvFacts DEF Die
    <3> QED BY <3>1 DEF Tell!Abandon, Tell!TypeOK, Tell!Busy, Tell!NoJob
  <2>2. CASE ~Tell!Busy(c)
    BY <2>2 DEF Die, tellVars, Tell!Busy
  <2> QED BY <2>1, <2>2
<1>3. req'[c] = Idle
  BY <1>1, IInvFacts DEF TypeOK
<1>4. StoresNoPart(c)' /\ Settled(c)'
  BY <1>3, IdleFacts DEF StoresNoPart, Settled
<1> QED BY <1>1, <1>2, <1>4, IdleFacts, EndStep

LEMMA OutsideInv ==
  ASSUME IInv, RepoInv', TellInv', Outside \/ UNCHANGED vars
  PROVE  RequestInv'
<1>1. UNCHANGED <<repoVars, scenario, req, job>>
  BY DEF Outside, vars, tellVars, Tell!Configure, Tell!Add, Tell!Remove, Tell!Arrive
<1>2. UNCHANGED <<table, view, own, draft, aborted>>
  BY <1>1 DEF repoVars
<1>3. TypeOK'
  <2>1. \A c \in Clients : Tell!Busy(c)' <=> Tell!Busy(c)
    BY <1>1 DEF Tell!Busy
  <2> QED BY <1>1, <2>1 DEF IInv, RepoInv, TellInv, RequestInv, TypeOK
<1>4. Progress'
  BY <1>1 DEF IInv, RequestInv, Progress
<1>5. ASSUME NEW c \in Clients
      PROVE  (IF Open(req'[c]) THEN OpenInv(c)' ELSE ClosedInv(c)')
             /\ StoresNoPart(c)' /\ Settled(c)'
  <2>1. (IF Open(req[c]) THEN OpenInv(c) ELSE ClosedInv(c)) /\ StoresNoPart(c) /\ Settled(c)
    BY DEF IInv, RequestInv
  <2>2. OpenInv(c) => OpenInv(c)'
    BY <1>1, <1>2 DEF OpenInv
  <2>3. ClosedInv(c) => ClosedInv(c)'
    BY <1>1, <1>2 DEF ClosedInv, Repo!EmptySession, Repo!NotBegun
  <2>4. StoresNoPart(c)' /\ Settled(c)'
    BY <1>1, <1>2, <2>1 DEF StoresNoPart, Settled, Stored
  <2> QED BY <1>1, <2>1, <2>2, <2>3, <2>4
<1> QED BY <1>3, <1>4, <1>5 DEF RequestInv, Open

-----------------------------------------------------------------------------
(* The whole.                                                              *)

LEMMA InitInv ==
  ASSUME Init
  PROVE  IInv
<1>1. RepoInv /\ TellInv
  BY RepoInitInv, TellInitInv DEF Init
<1>2. req = [c \in Clients |-> Idle]
  BY DEF Init
<1>3. \A c \in Clients : ~Tell!Busy(c)
  BY DEF Init, Tell!Init, Tell!Busy, Tell!NoJob
<1>4. TypeOK
  <2>1. req \in [Clients -> Request]
    BY <1>2, IdleFacts
  <2>2. \A c \in Clients : req[c].phase # "telling"
    BY <1>2, IdleFacts
  <2> QED BY <1>1, <1>3, <2>1, <2>2 DEF TypeOK, RepoInv, TellInv, Init
<1>5. ASSUME NEW c \in Clients
      PROVE  ~Open(req[c]) /\ ClosedInv(c) /\ StoresNoPart(c) /\ Settled(c)
  <2>1. req[c] = Idle
    BY <1>2
  <2>2. Repo!EmptySession(c)
    BY DEF Init, Repo!Init, Repo!EmptySession, Repo!NotBegun
  <2> QED BY <2>1, <2>2, IdleFacts DEF ClosedInv, StoresNoPart, Settled
<1>6. Progress
  BY <1>2, IdleFacts DEF Progress
<1> QED BY <1>1, <1>4, <1>5, <1>6 DEF IInv, RequestInv

LEMMA NextInv ==
  ASSUME IInv, [Next]_vars
  PROVE  IInv'
<1>1. TypeOK /\ Progress /\ RepoInv /\ TellInv
  BY DEF IInv, RequestInv
<1>2. CASE UNCHANGED vars
  <2>1. UNCHANGED repoVars /\ UNCHANGED tellVars
    BY <1>2 DEF vars
  <2>2. RepoInv' /\ TellInv'
    BY <1>1, <2>1, RepoStutterInv, ConfigureInv
  <2> QED BY <1>2, <2>2, OutsideInv DEF IInv
<1>3. CASE Next
  <2>1. RepoInv'
    BY <1>1, <1>3, StepIsRepo, RepoNextInv, RepoStutterInv
  <2>2. TellInv'
    BY <1>1, <1>3, StepIsTell, TellNextInv, ConfigureInv
  <2>3. CASE Outside
    BY <2>1, <2>2, <2>3, OutsideInv DEF IInv
  <2>4. ASSUME NEW c \in Clients, Receive(c) \/ Step(c) \/ Forget(c) \/ Die(c)
        PROVE  RequestInv'
    <3>1. CASE Receive(c) \/ Forget(c) \/ Die(c)
      BY <2>1, <2>2, <3>1, ReceiveInv, ForgetInv, DieInv
    <3>2. CASE Hydrate(c) \/ RunPreHooks(c) \/ CallCreate(c) \/ CallWrite(c) \/ Insert(c)
      BY <2>1, <2>2, <3>2, HydrateInv, RunPreHooksInv, CallCreateInv, CallWriteInv, InsertInv
    <3>3. CASE StatementFails(c) \/ StartPost(c) \/ RunPost(c) \/ FinishPost(c) \/ PostRaises(c)
      BY <2>1, <2>2, <3>3, StatementFailsInv, StartPostInv, RunPostInv, FinishPostInv
    <3>4. CASE CommitSession(c) \/ CommitFails(c) \/ RollbackSession(c)
      BY <2>1, <2>2, <3>4, CommitSessionInv, CommitFailsInv, RollbackSessionInv
    <3> QED BY <2>4, <3>1, <3>2, <3>3, <3>4 DEF Step
  <2> QED BY <1>3, <2>1, <2>2, <2>3, <2>4 DEF Next, IInv
<1> QED BY <1>2, <1>3

(* The invariant is inductive: it holds in every state of every behaviour. *)
THEOREM Invariance == Spec => []IInv
<1>1. Init => IInv
  BY InitInv
<1>2. IInv /\ [Next]_vars => IInv'
  BY NextInv
<1> QED BY <1>1, <1>2, PTL DEF Spec

-----------------------------------------------------------------------------
(* What it says of the requests.                                           *)

(* Sessions, handlers and requests stay well-formed, and the handlers run  *)
(* exactly for the requests that are in their post event.                  *)
THEOREM TypeCorrect == Spec => []TypeOK
<1>1. IInv => TypeOK
  BY DEF IInv, RequestInv
<1> QED BY <1>1, Invariance, PTL

(* Whatever the isolation of the database, two rows of an entity have the  *)
(* same version only if two read-modify-writes of it overlapped: rollbacks,*)
(* failed statements and stale snapshots alone never use a number twice.   *)
THEOREM LinearUnlessRacedCorrect == Spec => []LinearUnlessRaced
<1>1. IInv => LinearUnlessRaced
  BY DEF IInv, RepoInv
<1> QED BY <1>1, Invariance, PTL

(* An error answer is true: none of the rows that the request inserted is  *)
(* stored, whichever item, hook or statement failed; and if it was the     *)
(* commit, no part of them without the rest.                               *)
THEOREM ErrorStoresNoPartCorrect == Spec => []ErrorStoresNoPart
<1>1. IInv => ErrorStoresNoPart
  BY DEF IInv, RequestInv, StoresNoPart, ErrorStoresNoPart
<1> QED BY <1>1, Invariance, PTL

(* A request that was answered and in which the database did not fail has  *)
(* stored all that it wrote, and all that its results show is stored.      *)
THEOREM SettledIsStoredCorrect == Spec => []SettledIsStored
<1>1. IInv => SettledIsStored
  BY DEF IInv, RequestInv, Settled, SettledIsStored
<1> QED BY <1>1, Invariance, PTL

(* A receiver that has acknowledged an event is not sent it again by the   *)
(* same webhook, but for copies whose attempt had timed out.               *)
THEOREM AcknowledgedIsNotResentCorrect == Spec => []AcknowledgedIsNotResent
<1>1. IInv => AcknowledgedIsNotResent
  BY DEF IInv, TellInv
<1> QED BY <1>1, Invariance, PTL

(* Receivers and stream adapters see the events of a client in the order   *)
(* in which they happened, retries included.                               *)
THEOREM InOrderCorrect == Spec => []InOrder
<1>1. IInv => InOrder
  BY DEF IInv, TellInv
<1> QED BY <1>1, Invariance, PTL

(* When a dispatch is past a webhook, the delivery log says what became of *)
(* it, and a logged success was received.                                  *)
THEOREM NobodyIsSkippedCorrect == Spec => []NobodyIsSkipped
<1>1. IInv => NobodyIsSkipped
  BY DEF IInv, TellInv
<1> QED BY <1>1, Invariance, PTL

(* The sessions of the requests implement the tree of versions: the table  *)
(* only grows, by whole transactions, and every row of a transaction is    *)
(* the first of its entity or the successor of one before it.              *)
THEOREM TreeRefinement == Spec => ImplementsTree
<1>1. Init => Repo!Tree!BatchInit
  BY TreeInit DEF Init
<1>2. IInv /\ [Next]_vars => [Repo!Tree!CommitBatch]_table
  <2>1. IInv /\ Next => Repo!Tree!CommitBatch \/ UNCHANGED table
    <3> SUFFICES ASSUME IInv, Next
                 PROVE  Repo!Tree!CommitBatch \/ UNCHANGED table
      OBVIOUS
    <3>1. Repo!Next \/ UNCHANGED repoVars
      BY StepIsRepo DEF IInv, RequestInv
    <3>2. UNCHANGED repoVars => UNCHANGED table
      BY DEF repoVars
    <3> QED BY <3>1, <3>2, TreeStep DEF IInv
  <2>2. UNCHANGED vars => UNCHANGED table
    BY DEF vars, repoVars
  <2> QED BY <2>1, <2>2
<1> QED BY <1>1, <1>2, Invariance, PTL DEF Spec, ImplementsTree, Repo!ImplementsTree, Repo!Tree!BatchSpec
=============================================================================
