-------------------------- MODULE LabelStoreProofs -------------------------
(***************************************************************************)
(* Proofs about labels written by racing transactions, for any sources,    *)
(* offers and number of ingests beside the reconcile: the event log        *)
(* explains every label, and a server whose index is stale has an event    *)
(* to notice it by.                                                        *)
(*                                                                         *)
(* What a transaction decided may be stale when it writes.  What it writes *)
(* is right all the same, because a change of status and the event that    *)
(* reports it are decided together, a row is written under its lock, and   *)
(* the event takes its id while the lock is held: the ids of one source's  *)
(* events are in the order of the locks, which is the order of the         *)
(* commits.  Accounted states this of every row a transaction holds.       *)
(***************************************************************************)
EXTENDS LabelStore, FiniteSetTheorems, SequenceTheorems, WellFoundedInduction, TLAPS

Columns == {"entity", "method", "status", "by"}

MoveKind == {"added", "promoted", "demoted"}

\* The transitions of a source's claim in a log.
Moves(log, s) == {e \in log : e.source = s /\ e.kind \in MoveKind}

\* What a transition says of the status it leaves behind.
Says(kind, status) ==
  (kind = "promoted" => status = "active") /\ (kind = "demoted" => status = "pending")

Tells(moves, status) ==
  \A e \in moves : (\A o \in moves : o.id <= e.id) => Says(e.kind, status)

\* The columns a transaction changes in a row.
IsChange(c) ==
  /\ DOMAIN c \subseteq Columns
  /\ "entity" \in DOMAIN c => c.entity \in {offer.entity : offer \in Offers}
  /\ "method" \in DOMAIN c => c.method \in {offer.method : offer \in Offers}
  /\ "status" \in DOMAIN c => c.status \in {"active", "pending"}
  /\ "by" \in DOMAIN c => c.by \in Source \cup {Nil}

IsLog(log) == \A e \in log : e.id \in 1..nextEvent /\ e.source \in Source

Shapes ==
  /\ rows \in [Source -> Label \cup {Nil}]
  /\ nextEvent \in Nat
  /\ IsLog(events)
  /\ txn = [t \in Transaction |-> txn[t]]
  /\ \A t \in Transaction : IsLog(txn[t].wrote)

\* A session holds the rows it has changed, and has written events of those alone.
Holding(t) ==
  /\ DOMAIN txn[t].sets \subseteq Source
  /\ \A e \in txn[t].wrote : e.source \in DOMAIN txn[t].sets
  /\ \A s \in DOMAIN txn[t].sets : \E e \in txn[t].wrote : e.source = s
  /\ txn[t].step \in {"idle", "read"} => DOMAIN txn[t].sets = {} /\ txn[t].wrote = {}

\* An ingest knows the claim it records, and how the row stood; a row once there stays.
Recorded(t) ==
  /\ txn[t].step \in {"idle", "read", "written"}
  /\ txn[t].step = "read" =>
       /\ txn[t].offer \in Offers
       /\ txn[t].seen \in Label \cup {Nil}
       /\ txn[t].seen # Nil => rows[txn[t].offer.source] # Nil

\* The reconcile has seen rows that are there, and changes no others.
Reconciled ==
  txn[Bot].step # "idle" =>
    /\ txn[Bot].seen \in [Source -> Label \cup {Nil}]
    /\ \A s \in Source : txn[Bot].seen[s] # Nil => rows[s] # Nil
    /\ \A s \in DOMAIN txn[Bot].sets : rows[s] # Nil

Sessions ==
  /\ \A t \in Transaction : Holding(t)
  /\ \A t \in Ingest : Recorded(t)
  /\ Reconciled

\* Row locks: no row is changed by two transactions at once.
Locks ==
  \A t, u \in Transaction : t # u => DOMAIN txn[t].sets \cap DOMAIN txn[u].sets = {}

\* No event id is taken twice.
Fresh ==
  /\ \A t \in Transaction : \A e \in txn[t].wrote : \A f \in events : e.id # f.id
  /\ \A t, u \in Transaction : t # u =>
       \A e \in txn[t].wrote : \A f \in txn[u].wrote : e.id # f.id

\* A row a transaction holds: what it will be, and why.
Accounted(t, s) ==
  LET change == txn[t].sets[s]
      moves == Moves(txn[t].wrote, s)
  IN  /\ IF rows[s] = Nil THEN change \in Label ELSE IsChange(change)
      /\ IF "status" \in DOMAIN change THEN moves # {} /\ Tells(moves, change.status)
                                       ELSE moves = {}
      /\ \A e \in txn[t].wrote : \A f \in events :
           e.source = s /\ f.source = s => f.id < e.id

HeldRows == \A t \in Transaction : \A s \in DOMAIN txn[t].sets : Accounted(t, s)

\* A committed row has a history, and the end of it says its status.
RowsTold ==
  \A s \in Source : rows[s] # Nil =>
    Moves(events, s) # {} /\ Tells(Moves(events, s), rows[s].status)

\* The index is that of the rows, or something above its watermark says otherwise.
IndexTold ==
  /\ watermark \in {0} \cup {e.id : e \in events}
  /\ stage = "checked" => latest \in {0} \cup {e.id : e \in events}
  /\ stage = "built" /\ passed = {} => index = Attributed(rows)
  /\ stage \in {"up", "checked"} /\ passed = {} /\ index # Attributed(rows) =>
       \E e \in events : e.id > watermark

LInv ==
  Shapes /\ Sessions /\ Locks /\ Fresh /\ HeldRows /\ RowsTold /\ IndexTold


-----------------------------------------------------------------------------
(* A set of natural numbers with a bound has a greatest element.           *)

LEMMA Greatest ==
  ASSUME NEW S, NEW n \in Nat, S \subseteq 0..n, S # {}
  PROVE  \E m \in S : \A k \in S : k <= m
<1> DEFINE T == {(k + 1)..(n + 1) : k \in S}
           F == FiniteSubsetsOf(Nat)
           R == StrictSubsetOrdering(Nat)
<1>1. IsWellFoundedOn(R, F)
  BY FS_StrictSubsetOrderingWellFounded
<1>2. T \subseteq F
  <2>1. ASSUME NEW k \in S
        PROVE  (k + 1)..(n + 1) \in F
    <3>1. IsFiniteSet((k + 1)..(n + 1)) /\ (k + 1)..(n + 1) \in SUBSET Nat
      BY FS_Interval
    <3>2. QED BY <3>1 DEF FiniteSubsetsOf
  <2>2. QED BY <2>1
<1>3. T # {}
  OBVIOUS
<1> HIDE DEF T, F, R
<1>4. PICK x \in T : \A y \in T : ~ (<<y, x>> \in R)
  BY <1>1, <1>2, <1>3, WFMin
<1>5. PICK m \in S : x = (m + 1)..(n + 1)
  BY DEF T
<1>6. ASSUME NEW k \in S, m < k
      PROVE  FALSE
  <2>1. (k + 1)..(n + 1) \in T
    BY DEF T
  <2>2. (k + 1)..(n + 1) \subseteq (m + 1)..(n + 1) /\ (k + 1)..(n + 1) # (m + 1)..(n + 1)
    <3>1. m + 1 \in (m + 1)..(n + 1) /\ m + 1 \notin (k + 1)..(n + 1)
      BY <1>6
    <3>2. (k + 1)..(n + 1) \subseteq (m + 1)..(n + 1)
      BY <1>6
    <3>3. QED BY <3>1, <3>2
  <2>3. (k + 1)..(n + 1) \in SUBSET Nat /\ (m + 1)..(n + 1) \in SUBSET Nat
    OBVIOUS
  <2>4. <<(k + 1)..(n + 1), (m + 1)..(n + 1)>> \in R
    BY <2>2, <2>3 DEF R, StrictSubsetOrdering
  <2>5. QED BY <1>4, <1>5, <2>1, <2>4
<1>7. QED BY <1>6

\* The events a transaction writes for a set of pairs: one for each, in some order.
LEMMA PairsOf ==
  ASSUME NEW S, IsFiniteSet(S)
  PROVE  /\ Len(SetToSeq(S)) \in Nat
         /\ DOMAIN SetToSeq(S) = 1..Len(SetToSeq(S))
         /\ {SetToSeq(S)[i] : i \in DOMAIN SetToSeq(S)} = S
<1> DEFINE N == Cardinality(S)
<1>1. N \in Nat /\ ExistsBijection(1..N, S)
  BY FS_CardinalityType
<1>2. \E f \in [1..N -> S] : IsInjective(f)
  BY <1>1 DEF ExistsBijection, Bijection, Injection
<1>3. SetToSeq(S) \in [1..N -> S] /\ IsInjective(SetToSeq(S))
  BY <1>2 DEF SetToSeq
<1>4. SetToSeq(S) \in Injection(1..N, S)
  BY <1>3 DEF Injection
<1>5. IsFiniteSet(1..N) /\ Cardinality(1..N) = N
  BY <1>1, FS_Interval
<1> HIDE DEF N
<1>6. SetToSeq(S) \in Surjection(1..N, S)
  BY <1>4, <1>5, FS_Injection DEF N
<1>7. \A x \in S : \E i \in 1..N : SetToSeq(S)[i] = x
  BY <1>6 DEF Surjection
<1>8. Len(SetToSeq(S)) = N
  BY <1>1, <1>3
<1>9. QED BY <1>1, <1>3, <1>7, <1>8

LEMMA RowColumns ==
  ASSUME NEW row \in Label
  PROVE  /\ DOMAIN row = Columns /\ row # Nil
         /\ row.entity \in {offer.entity : offer \in Offers}
         /\ row.method \in {offer.method : offer \in Offers}
         /\ row.status \in {"active", "pending"}
         /\ row.by \in Source \cup {Nil}
BY LabelAssumption DEF Label, Columns

\* A changed row is a row, with the status of the change if it has one.
LEMMA OverlaidRow ==
  ASSUME NEW row \in Label, NEW c, IsChange(c)
  PROVE  /\ Overlaid(c, row) \in Label
         /\ Overlaid(c, row).status = IF "status" \in DOMAIN c THEN c.status ELSE row.status
<1> DEFINE z == Overlaid(c, row)
<1>1. DOMAIN z = Columns /\ z = [f \in Columns |-> z[f]]
  BY RowColumns DEF Overlaid, IsChange
<1>2. /\ z.entity \in {offer.entity : offer \in Offers}
      /\ z.method \in {offer.method : offer \in Offers}
      /\ z.status \in {"active", "pending"}
      /\ z.by \in Source \cup {Nil}
      /\ z.status = IF "status" \in DOMAIN c THEN c.status ELSE row.status
  BY RowColumns DEF Overlaid, IsChange, Columns
<1>3. z = [entity |-> z.entity, method |-> z.method, status |-> z.status, by |-> z.by]
  BY <1>1 DEF Columns
<1> HIDE DEF z
<1>4. z \in Label
  BY <1>2, <1>3 DEF Label
<1>5. QED BY <1>2, <1>4 DEF z

-----------------------------------------------------------------------------
(* Writing: what a step may write, and that it keeps the invariant.         *)

\* The rows and columns a step writes and the events it writes about them: every
\* row has an event, and a status is set by a transition and not otherwise.
Warranted(t, sets, pairs) ==
  /\ DOMAIN sets \subseteq Source
  /\ Len(pairs) \in Nat /\ DOMAIN pairs = 1..Len(pairs)
  /\ {pairs[i][1] : i \in DOMAIN pairs} = DOMAIN sets
  /\ \A s \in DOMAIN sets :
       /\ IF rows[s] = Nil THEN sets[s] \in Label ELSE IsChange(sets[s])
       /\ "status" \in DOMAIN sets[s] <=>
            \E i \in DOMAIN pairs : pairs[i][1] = s /\ pairs[i][2] \in MoveKind
       /\ s \in DOMAIN txn[t].sets => "status" \in DOMAIN sets[s]
  /\ \A i \in DOMAIN pairs :
       pairs[i][2] \in MoveKind => Says(pairs[i][2], sets[pairs[i][1]].status)

\* The session a write leaves behind, and the new ids.
LEMMA WriteLeaves ==
  ASSUME LInv, NEW t \in Transaction, NEW sets, NEW pairs, NEW step,
         Write(t, sets, pairs, step), Warranted(t, sets, pairs)
  PROVE  /\ txn' = [u \in Transaction |-> txn'[u]]
         /\ \A u \in Transaction \ {t} : txn'[u] = txn[u]
         /\ txn'[t].step = step /\ txn'[t].seen = txn[t].seen /\ txn'[t].offer = txn[t].offer
         /\ txn'[t].wrote = txn[t].wrote \cup Logged(pairs)
         /\ DOMAIN txn'[t].sets = DOMAIN sets \cup DOMAIN txn[t].sets
         /\ \A s \in DOMAIN sets : txn'[t].sets[s] = sets[s]
         /\ \A s \in DOMAIN txn[t].sets \ DOMAIN sets : txn'[t].sets[s] = txn[t].sets[s]
         /\ nextEvent' \in Nat /\ nextEvent <= nextEvent'
         /\ \A e \in Logged(pairs) : /\ e.id \in (nextEvent + 1)..nextEvent'
                                     /\ e.source \in DOMAIN sets
<1>1. txn = [u \in Transaction |-> txn[u]] /\ nextEvent \in Nat
  BY DEF LInv, Shapes
<1>2. txn' = [txn EXCEPT ![t] = Session(step, txn[t].seen, Overlaid(sets, txn[t].sets),
                                        txn[t].wrote \cup Logged(pairs), txn[t].offer)]
  BY DEF Write
<1>3. txn'[t] = Session(step, txn[t].seen, Overlaid(sets, txn[t].sets),
                        txn[t].wrote \cup Logged(pairs), txn[t].offer)
  BY <1>1, <1>2
<1>4. /\ txn' = [u \in Transaction |-> txn'[u]]
      /\ \A u \in Transaction \ {t} : txn'[u] = txn[u]
  BY <1>1, <1>2
<1>5. /\ txn'[t].step = step /\ txn'[t].seen = txn[t].seen /\ txn'[t].offer = txn[t].offer
      /\ txn'[t].wrote = txn[t].wrote \cup Logged(pairs)
      /\ txn'[t].sets = Overlaid(sets, txn[t].sets)
  BY <1>3 DEF Session
<1>6. /\ DOMAIN txn'[t].sets = DOMAIN sets \cup DOMAIN txn[t].sets
      /\ \A s \in DOMAIN sets : txn'[t].sets[s] = sets[s]
      /\ \A s \in DOMAIN txn[t].sets \ DOMAIN sets : txn'[t].sets[s] = txn[t].sets[s]
  BY <1>5 DEF Overlaid
<1>7. nextEvent' = nextEvent + Len(pairs) /\ Len(pairs) \in Nat
  BY DEF Write, Warranted
<1>8. ASSUME NEW e \in Logged(pairs)
      PROVE  e.id \in (nextEvent + 1)..nextEvent' /\ e.source \in DOMAIN sets
  <2>1. PICK i \in DOMAIN pairs :
          e = [id |-> nextEvent + i, source |-> pairs[i][1], kind |-> pairs[i][2]]
    BY DEF Logged
  <2>2. i \in 1..Len(pairs) /\ pairs[i][1] \in DOMAIN sets
    BY DEF Warranted
  <2>3. QED BY <1>1, <1>7, <2>1, <2>2
<1>9. QED BY <1>1, <1>4, <1>5, <1>6, <1>7, <1>8

\* What the new events say of each row.
LEMMA WriteTells ==
  ASSUME LInv, NEW t \in Transaction, NEW sets, NEW pairs, NEW step,
         Write(t, sets, pairs, step), Warranted(t, sets, pairs)
  PROVE  /\ \A s \in DOMAIN sets : \E e \in Logged(pairs) : e.source = s
         /\ \A s \in DOMAIN sets :
              "status" \in DOMAIN sets[s] <=> Moves(Logged(pairs), s) # {}
         /\ \A s : \A e \in Moves(Logged(pairs), s) : Says(e.kind, sets[s].status)
<1>1. ASSUME NEW s \in DOMAIN sets
      PROVE  \E e \in Logged(pairs) : e.source = s
  <2>1. PICK i \in DOMAIN pairs : pairs[i][1] = s
    BY DEF Warranted
  <2>2. [id |-> nextEvent + i, source |-> pairs[i][1], kind |-> pairs[i][2]] \in Logged(pairs)
    BY DEF Logged
  <2>3. QED BY <2>1, <2>2
<1>2. ASSUME NEW s \in DOMAIN sets
      PROVE  "status" \in DOMAIN sets[s] <=> Moves(Logged(pairs), s) # {}
  <2>1. ASSUME NEW i \in DOMAIN pairs, pairs[i][1] = s, pairs[i][2] \in MoveKind
        PROVE  Moves(Logged(pairs), s) # {}
    <3>1. [id |-> nextEvent + i, source |-> pairs[i][1], kind |-> pairs[i][2]] \in Logged(pairs)
      BY DEF Logged
    <3>2. QED BY <2>1, <3>1 DEF Moves
  <2>2. ASSUME NEW e \in Moves(Logged(pairs), s)
        PROVE  \E i \in DOMAIN pairs : pairs[i][1] = s /\ pairs[i][2] \in MoveKind
    BY DEF Moves, Logged
  <2>3. QED BY <2>1, <2>2 DEF Warranted
<1>3. ASSUME NEW s, NEW e \in Moves(Logged(pairs), s)
      PROVE  Says(e.kind, sets[s].status)
  <2>1. PICK i \in DOMAIN pairs :
          e = [id |-> nextEvent + i, source |-> pairs[i][1], kind |-> pairs[i][2]]
    BY DEF Moves, Logged
  <2>2. pairs[i][1] = s /\ pairs[i][2] \in MoveKind /\ e.kind = pairs[i][2]
    BY <2>1 DEF Moves
  <2>3. QED BY <2>2 DEF Warranted
<1>4. QED BY <1>1, <1>2, <1>3

\* What a write leaves as it was.
Elsewhere == UNCHANGED <<rows, events, index, watermark, stage, latest, passed>>

LEMMA WriteKeepsShapes ==
  ASSUME LInv, NEW t \in Transaction, NEW sets, NEW pairs, NEW step,
         Write(t, sets, pairs, step), Warranted(t, sets, pairs), Elsewhere
  PROVE  Shapes'
<1>1. IsLog(events)'
  BY WriteLeaves DEF LInv, Shapes, IsLog, Elsewhere
<1>2. \A u \in Transaction : IsLog(txn[u].wrote)'
  <2>1. ASSUME NEW u \in Transaction, NEW e \in txn'[u].wrote
        PROVE  e.id \in 1..nextEvent' /\ e.source \in Source
    <3>1. CASE e \in txn[u].wrote
      BY <3>1, WriteLeaves DEF LInv, Shapes, IsLog
    <3>2. CASE e \notin txn[u].wrote
      <4>1. u = t /\ e \in Logged(pairs)
        BY <2>1, <3>2, WriteLeaves
      <4>2. QED BY <4>1, WriteLeaves DEF LInv, Shapes, Warranted
    <3>3. QED BY <3>1, <3>2
  <2>2. QED BY <2>1 DEF IsLog
<1>3. QED BY <1>1, <1>2, WriteLeaves DEF LInv, Shapes, Elsewhere

LEMMA WriteKeepsLocks ==
  ASSUME LInv, NEW t \in Transaction, NEW sets, NEW pairs, NEW step,
         Write(t, sets, pairs, step), Warranted(t, sets, pairs), Elsewhere
  PROVE  Locks'
<1>1. \A s \in DOMAIN sets : \A u \in Transaction \ {t} : s \notin DOMAIN txn[u].sets
  BY DEF Write, Locked
<1>2. QED BY <1>1, WriteLeaves DEF LInv, Locks

LEMMA WriteKeepsFresh ==
  ASSUME LInv, NEW t \in Transaction, NEW sets, NEW pairs, NEW step,
         Write(t, sets, pairs, step), Warranted(t, sets, pairs), Elsewhere
  PROVE  Fresh'
<1>1. \A e \in Logged(pairs) : \A f : f.id \in 1..nextEvent => e.id # f.id
  BY WriteLeaves DEF LInv, Shapes
<1>2. \A f \in events : f.id \in 1..nextEvent
  BY DEF LInv, Shapes, IsLog
<1>3. \A u \in Transaction : \A f \in txn[u].wrote : f.id \in 1..nextEvent
  BY DEF LInv, Shapes, IsLog
<1>4. \A u \in Transaction : \A e \in txn'[u].wrote : \A f \in events : e.id # f.id
  BY <1>1, <1>2, WriteLeaves DEF LInv, Fresh
<1>5. \A u \in Transaction \ {t} : \A e \in txn'[t].wrote : \A f \in txn[u].wrote : e.id # f.id
  BY <1>1, <1>3, WriteLeaves DEF LInv, Fresh
<1>6. \A u, v \in Transaction : u # v =>
        \A e \in txn'[u].wrote : \A f \in txn'[v].wrote : e.id # f.id
  BY <1>5, WriteLeaves DEF LInv, Fresh
<1>7. QED BY <1>4, <1>6 DEF Fresh, Elsewhere

LEMMA WriteKeepsHeldRows ==
  ASSUME LInv, NEW t \in Transaction, NEW sets, NEW pairs, NEW step,
         Write(t, sets, pairs, step), Warranted(t, sets, pairs), Elsewhere
  PROVE  HeldRows'
<1>1. ASSUME NEW u \in Transaction \ {t}, NEW s \in DOMAIN txn'[u].sets
      PROVE  Accounted(u, s)'
  <2>1. txn'[u] = txn[u]
    BY WriteLeaves
  <2>2. Accounted(u, s)
    BY <2>1 DEF LInv, HeldRows
  <2>3. QED BY <2>1, <2>2 DEF Accounted, Elsewhere
<1>2. ASSUME NEW s \in DOMAIN txn[t].sets \ DOMAIN sets
      PROVE  Accounted(t, s)'
  <2>1. Accounted(t, s)
    BY DEF LInv, HeldRows
  <2>2. txn'[t].sets[s] = txn[t].sets[s]
    BY WriteLeaves
  <2>3. Moves(txn'[t].wrote, s) = Moves(txn[t].wrote, s)
    BY WriteLeaves DEF Moves
  <2>4. \A e \in txn'[t].wrote : e.source = s => e \in txn[t].wrote
    BY WriteLeaves
  <2>5. QED BY <2>1, <2>2, <2>3, <2>4 DEF Accounted, Elsewhere
<1>3. ASSUME NEW s \in DOMAIN sets
      PROVE  Accounted(t, s)'
  <2> DEFINE new == Moves(Logged(pairs), s)
             old == Moves(txn[t].wrote, s)
             all == Moves(txn'[t].wrote, s)
  <2>1. txn'[t].sets[s] = sets[s]
    BY WriteLeaves
  <2>2. all = new \cup old
    BY WriteLeaves DEF Moves
  <2>3. IF rows[s] = Nil THEN sets[s] \in Label ELSE IsChange(sets[s])
    BY DEF Warranted
  <2>4. s \notin DOMAIN txn[t].sets => old = {}
    BY DEF LInv, Sessions, Holding, Moves
  <2>5. \A e \in old : e.id \in 1..nextEvent
    BY DEF LInv, Shapes, IsLog, Moves
  <2>6. \A e \in new : e.id \in (nextEvent + 1)..nextEvent'
    BY WriteLeaves DEF Moves
  <2>7. ASSUME "status" \in DOMAIN sets[s]
        PROVE  all # {} /\ Tells(all, sets[s].status)
    <3>1. new # {} /\ \A e \in new : Says(e.kind, sets[s].status)
      BY <2>7, WriteTells
    <3>2. ASSUME NEW e \in all, \A o \in all : o.id <= e.id
          PROVE  e \in new
      <4>1. PICK o \in new : TRUE
        BY <3>1
      <4>2. o.id <= e.id
        BY <2>2, <3>2
      <4>3. QED BY <2>2, <2>5, <2>6, <3>2, <4>1, <4>2 DEF LInv, Shapes
    <3>3. QED BY <2>2, <3>1, <3>2 DEF Tells
  <2>8. ASSUME "status" \notin DOMAIN sets[s]
        PROVE  all = {}
    <3>1. new = {}
      BY <2>8, WriteTells
    <3>2. old = {}
      BY <2>4, <2>8 DEF Warranted
    <3>3. QED BY <2>2, <2>8, <3>1, <3>2
  <2>9. ASSUME NEW e \in txn'[t].wrote, NEW f \in events, e.source = s, f.source = s
        PROVE  f.id < e.id
    <3>1. f.id \in 1..nextEvent
      BY DEF LInv, Shapes, IsLog
    <3>2. CASE e \in Logged(pairs)
      BY <3>1, <3>2, WriteLeaves DEF LInv, Shapes
    <3>3. CASE e \in txn[t].wrote
      BY <2>9, <3>3 DEF LInv, Sessions, Holding, HeldRows, Accounted
    <3>4. QED BY <3>2, <3>3, WriteLeaves
  <2>10. IF "status" \in DOMAIN sets[s] THEN all # {} /\ Tells(all, sets[s].status) ELSE all = {}
    <3> HIDE DEF all, new, old
    <3>1. QED BY <2>7, <2>8
  <2>11. QED BY <2>1, <2>3, <2>9, <2>10 DEF Accounted, Elsewhere
<1>4. QED BY <1>1, <1>2, <1>3, WriteLeaves DEF HeldRows

\* The steps an ingest and the reconcile write in.
WritesInTurn(t, sets, step) ==
  /\ step = "written" \/ (t = Bot /\ step = "demoted")
  /\ t = Bot => txn[Bot].step # "idle" /\ \A s \in DOMAIN sets : rows[s] # Nil

LEMMA WriteKeepsSessions ==
  ASSUME LInv, NEW t \in Transaction, NEW sets, NEW pairs, NEW step,
         Write(t, sets, pairs, step), Warranted(t, sets, pairs), WritesInTurn(t, sets, step),
         Elsewhere
  PROVE  Sessions'
<1>1. ASSUME NEW u \in Transaction
      PROVE  Holding(u)'
  <2>1. CASE u # t
    BY <2>1, WriteLeaves DEF LInv, Sessions, Holding
  <2>2. CASE u = t
    <3>1. Holding(t)
      BY DEF LInv, Sessions
    <3>2. DOMAIN txn'[t].sets \subseteq Source
      BY <3>1, WriteLeaves DEF Holding, Warranted
    <3>3. \A e \in txn'[t].wrote : e.source \in DOMAIN txn'[t].sets
      BY <3>1, WriteLeaves DEF Holding
    <3>4. \A s \in DOMAIN txn'[t].sets : \E e \in txn'[t].wrote : e.source = s
      BY <3>1, WriteLeaves, WriteTells DEF Holding
    <3>5. txn'[t].step \notin {"idle", "read"}
      BY WriteLeaves DEF WritesInTurn
    <3>6. QED BY <2>2, <3>2, <3>3, <3>4, <3>5 DEF Holding
  <2>3. QED BY <2>1, <2>2
<1>2. ASSUME NEW u \in Ingest
      PROVE  Recorded(u)'
  <2>1. u \in Transaction /\ u # Bot
    BY LabelAssumption DEF Transaction
  <2>2. CASE u # t
    BY <2>1, <2>2, WriteLeaves DEF LInv, Sessions, Recorded, Elsewhere
  <2>3. CASE u = t
    BY <2>1, <2>3, WriteLeaves DEF Recorded, WritesInTurn
  <2>4. QED BY <2>2, <2>3
<1>3. Reconciled'
  <2>1. CASE t # Bot
    <3>1. txn'[Bot] = txn[Bot]
      BY <2>1, WriteLeaves DEF Transaction
    <3>2. QED BY <3>1 DEF LInv, Sessions, Reconciled, Elsewhere
  <2>2. CASE t = Bot
    BY <2>2, WriteLeaves DEF LInv, Sessions, Reconciled, WritesInTurn, Elsewhere
  <2>3. QED BY <2>1, <2>2
<1>4. QED BY <1>1, <1>2, <1>3 DEF Sessions

LEMMA StoreUntouched ==
  ASSUME LInv, Elsewhere
  PROVE  RowsTold' /\ IndexTold'
<1>1. RowsTold'
  BY DEF LInv, RowsTold, Elsewhere
<1>2. IndexTold'
  BY DEF LInv, IndexTold, Elsewhere, Attributed, ActiveRows
<1>3. QED BY <1>1, <1>2

LEMMA WriteKeeps ==
  ASSUME LInv, NEW t \in Transaction, NEW sets, NEW pairs, NEW step,
         Write(t, sets, pairs, step), Warranted(t, sets, pairs), WritesInTurn(t, sets, step),
         Elsewhere
  PROVE  LInv'
BY WriteKeepsShapes, WriteKeepsSessions, WriteKeepsLocks, WriteKeepsFresh, WriteKeepsHeldRows,
   StoreUntouched DEF LInv

-----------------------------------------------------------------------------
(* What each writing step decides is warranted.                            *)

LEMMA IngestWrites ==
  ASSUME LInv, NEW t \in Ingest, WriteClaim(t)
  PROVE  LInv'
<1> DEFINE offer == txn[t].offer
           seen == txn[t].seen
           s == offer.source
           status == ArrivalStatus(offer.method)
<1>1. t \in Transaction /\ t # Bot
  BY LabelAssumption DEF Transaction
<1>2. /\ txn[t].step = "read" /\ DOMAIN txn[t].sets = {} /\ offer \in Offers /\ s \in Source
      /\ seen \in Label \cup {Nil} /\ (seen # Nil => rows[s] # Nil)
  <2>1. txn[t].step = "read"
    BY DEF WriteClaim
  <2>2. Holding(t) /\ Recorded(t)
    BY <1>1 DEF LInv, Sessions
  <2>3. QED BY <2>1, <2>2, LabelAssumption DEF Holding, Recorded
<1>3. Elsewhere
  BY DEF WriteClaim, Elsewhere
<1>4. status \in {"active", "pending"}
  BY DEF ArrivalStatus
<1>5. /\ offer.entity \in {o.entity : o \in Offers}
      /\ offer.method \in {o.method : o \in Offers}
  BY <1>2
<1> HIDE DEF offer, seen, s, status
<1>6. ASSUME seen = Nil, rows[s] = Nil,
             Write(t, [r \in {s} |-> [entity |-> offer.entity, method |-> offer.method,
                                      status |-> status, by |-> Nil]],
                   <<<<s, "added">>>>, "written")
      PROVE  LInv'
  <2> DEFINE row == [entity |-> offer.entity, method |-> offer.method, status |-> status, by |-> Nil]
             sets == [r \in {s} |-> row]
             pairs == <<<<s, "added">>>>
  <2>1. row \in Label /\ "status" \in DOMAIN row
    BY <1>4, <1>5 DEF Label
  <2>2. DOMAIN sets = {s} /\ sets[s] = row
    OBVIOUS
  <2>3. Len(pairs) = 1 /\ DOMAIN pairs = 1..1 /\ pairs[1] = <<s, "added">>
    OBVIOUS
  <2> HIDE DEF row, sets, pairs
  <2>4. Warranted(t, sets, pairs)
    BY <1>2, <1>6, <2>1, <2>2, <2>3 DEF Warranted, MoveKind, Says
  <2>5. Write(t, sets, pairs, "written")
    BY <1>6 DEF row, sets, pairs
  <2>6. QED BY <1>1, <1>3, <2>4, <2>5, WriteKeeps DEF WritesInTurn
<1>7. ASSUME seen # Nil,
             Write(t, [r \in {s} |-> Changes(seen, offer)], ChangeEvents(seen, offer), "written")
      PROVE  LInv'
  <2> DEFINE change == Changes(seen, offer)
             sets == [r \in {s} |-> change]
             pairs == ChangeEvents(seen, offer)
  <2>1. DOMAIN sets = {s} /\ sets[s] = change
    OBVIOUS
  <2>2. seen \in Label /\ rows[s] # Nil
    BY <1>2, <1>7
  <2>3. IsChange(change) /\ ("status" \in DOMAIN change <=> status # seen.status)
        /\ (status # seen.status => change.status = status)
    <3>1. CASE status = seen.status
      BY <1>4, <1>5, <3>1 DEF Changes, Overlaid, IsChange, Columns, status
    <3>2. CASE status # seen.status /\ status = "active"
      BY <1>4, <1>5, <3>2 DEF Changes, Overlaid, IsChange, Columns, status
    <3>3. CASE status # seen.status /\ status # "active"
      BY <1>4, <1>5, <3>3 DEF Changes, Overlaid, IsChange, Columns, status
    <3>4. QED BY <3>1, <3>2, <3>3
  <2>4. /\ Len(pairs) \in Nat /\ DOMAIN pairs = 1..Len(pairs)
        /\ \A i \in DOMAIN pairs : pairs[i][1] = s
        /\ \E i \in DOMAIN pairs : TRUE
        /\ (\E i \in DOMAIN pairs : pairs[i][2] \in MoveKind) <=> status # seen.status
        /\ \A i \in DOMAIN pairs : pairs[i][2] \in MoveKind => Says(pairs[i][2], status)
    <3>1. CASE status = seen.status
      <4>1. pairs = <<<<s, "updated">>>>
        BY <3>1 DEF ChangeEvents, MoveEvent, status, s
      <4>2. QED BY <3>1, <4>1 DEF MoveKind
    <3>2. CASE status # seen.status
      <4> DEFINE kind == IF status = "active" THEN "promoted" ELSE "demoted"
      <4>1. MoveEvent(seen, offer) = <<<<s, kind>>>>
        BY <3>2 DEF MoveEvent, status, s
      <4>2. ASSUME NEW x, NEW y
            PROVE  LET z == <<x>> \o <<y>>
                   IN  Len(z) = 2 /\ DOMAIN z = 1..2 /\ z[1] = x /\ z[2] = y
        <5>1. <<x>> \in Seq({x, y}) /\ <<y>> \in Seq({x, y})
          OBVIOUS
        <5>2. QED BY <5>1, ConcatProperties
      <4>3. pairs = <<<<s, "updated">>>> \o <<<<s, kind>>>>
        BY <4>1 DEF ChangeEvents, s
      <4>4. /\ Len(pairs) = 2 /\ DOMAIN pairs = 1..2
            /\ pairs[1] = <<s, "updated">> /\ pairs[2] = <<s, kind>>
        BY <4>2, <4>3
      <4>5. QED BY <1>4, <3>2, <4>4 DEF MoveKind, Says
    <3>3. QED BY <3>1, <3>2
  <2> HIDE DEF change, sets, pairs
  <2>5. Warranted(t, sets, pairs)
    BY <1>2, <2>1, <2>2, <2>3, <2>4 DEF Warranted
  <2>6. Write(t, sets, pairs, "written")
    BY <1>7 DEF change, sets, pairs
  <2>7. QED BY <1>1, <1>3, <2>5, <2>6, WriteKeeps DEF WritesInTurn
<1>8. ASSUME Write(t, <<>>, <<>>, "written")
      PROVE  LInv'
  <2>1. Warranted(t, <<>>, <<>>)
    BY DEF Warranted
  <2>2. QED BY <1>1, <1>3, <1>8, <2>1, WriteKeeps DEF WritesInTurn
<1>9. \/ /\ seen = Nil /\ rows[s] = Nil
         /\ Write(t, [r \in {s} |-> [entity |-> offer.entity, method |-> offer.method,
                                     status |-> status, by |-> Nil]],
                  <<<<s, "added">>>>, "written")
      \/ /\ seen # Nil
         /\ Write(t, [r \in {s} |-> Changes(seen, offer)], ChangeEvents(seen, offer), "written")
      \/ Write(t, <<>>, <<>>, "written")
  BY DEF WriteClaim, offer, seen, s, status
<1>10. QED BY <1>6, <1>7, <1>8, <1>9

\* The reconcile moves a set of rows, each with its event.
LEMMA MovingRows ==
  ASSUME LInv, NEW gone \in SUBSET Source, NEW kind \in {"promoted", "demoted"}, NEW sets,
         DOMAIN sets = gone,
         \A s \in gone : /\ rows[s] # Nil /\ IsChange(sets[s])
                         /\ "status" \in DOMAIN sets[s] /\ Says(kind, sets[s].status)
  PROVE  Warranted(Bot, sets, SetToSeq({<<s, kind>> : s \in gone}))
<1> DEFINE S == {<<s, kind>> : s \in gone}
           pairs == SetToSeq(S)
           f == [s \in gone |-> <<s, kind>>]
<1>1. IsFiniteSet(gone)
  BY FS_Subset, LabelAssumption
<1>2. f \in Surjection(gone, S)
  BY DEF Surjection
<1>3. IsFiniteSet(S)
  <2> HIDE DEF S, f
  <2>1. QED BY <1>1, <1>2, FS_Surjection
<1>4. /\ Len(pairs) \in Nat /\ DOMAIN pairs = 1..Len(pairs)
      /\ {pairs[i] : i \in DOMAIN pairs} = S
  <2> HIDE DEF S
  <2>1. QED BY <1>3, PairsOf
<1> HIDE DEF pairs
<1>5. \A i \in DOMAIN pairs : pairs[i][1] \in gone /\ pairs[i][2] = kind
  BY <1>4
<1>6. ASSUME NEW s \in gone
      PROVE  \E i \in DOMAIN pairs : pairs[i][1] = s /\ pairs[i][2] = kind
  <2>1. <<s, kind>> \in S
    OBVIOUS
  <2>2. PICK i \in DOMAIN pairs : pairs[i] = <<s, kind>>
    BY <1>4, <2>1
  <2>3. QED BY <2>2
<1>7. {pairs[i][1] : i \in DOMAIN pairs} = DOMAIN sets
  BY <1>5, <1>6
<1> HIDE DEF S
<1>8. Warranted(Bot, sets, pairs)
  BY <1>4, <1>5, <1>6, <1>7 DEF Warranted, MoveKind
<1>9. QED BY <1>8 DEF pairs, S

LEMMA DemoteKeeps ==
  ASSUME LInv, Demote
  PROVE  LInv'
<1> DEFINE gone == Orphans(txn[Bot].seen)
           sets == [s \in gone |-> [status |-> "pending", by |-> Nil]]
           pairs == SetToSeq({<<s, "demoted">> : s \in gone})
<1>1. Bot \in Transaction /\ txn[Bot].step = "read" /\ Elsewhere
  BY DEF Transaction, Demote, Elsewhere
<1>2. gone \in SUBSET Source /\ \A s \in gone : rows[s] # Nil
  <2>1. gone \in SUBSET Source /\ \A s \in gone : txn[Bot].seen[s] # Nil
    BY DEF Orphans, ActiveRows
  <2>2. QED BY <1>1, <2>1 DEF LInv, Sessions, Reconciled
<1>3. Write(Bot, sets, pairs, "demoted")
  BY DEF Demote
<1> HIDE DEF gone
<1>4. DOMAIN sets = gone /\ \A s \in gone : sets[s] = [status |-> "pending", by |-> Nil]
  OBVIOUS
<1>5. Warranted(Bot, sets, pairs)
  <2>1. \A s \in gone : /\ rows[s] # Nil /\ IsChange(sets[s])
                        /\ "status" \in DOMAIN sets[s] /\ Says("demoted", sets[s].status)
    BY <1>2 DEF IsChange, Columns, Says
  <2> HIDE DEF sets
  <2>2. QED BY <1>2, <1>4, <2>1, MovingRows
<1> HIDE DEF sets, pairs
<1>6. WritesInTurn(Bot, sets, "demoted")
  BY <1>1, <1>2, <1>4 DEF WritesInTurn
<1>7. QED BY <1>1, <1>3, <1>5, <1>6, WriteKeeps

LEMMA PromoteKeeps ==
  ASSUME LInv, Promote
  PROVE  LInv'
<1> DEFINE seen == txn[Bot].seen
           now == Written(Bot)
           view == [s \in Source |->
                     IF seen[s] = Nil THEN now[s]
                     ELSE IF s \in DOMAIN txn[Bot].sets THEN Overlaid(txn[Bot].sets[s], seen[s])
                     ELSE seen[s]]
           earned == {s \in PendingRows(now) : Corroborators(view, s) # {}}
           sets == [s \in earned |-> [status |-> "active",
                                      by |-> CHOOSE c \in Corroborators(view, s) : TRUE]]
           pairs == SetToSeq({<<s, "promoted">> : s \in earned})
<1>1. Bot \in Transaction /\ txn[Bot].step = "demoted" /\ Elsewhere
  BY DEF Transaction, Promote, Elsewhere
<1>2. earned \in SUBSET Source /\ \A s \in earned : rows[s] # Nil
  <2>1. \A s \in Source : s \notin DOMAIN txn[Bot].sets => now[s] = rows[s]
    BY DEF Written
  <2>2. \A s \in DOMAIN txn[Bot].sets : rows[s] # Nil
    BY <1>1 DEF LInv, Sessions, Reconciled
  <2> HIDE DEF now, view
  <2>3. earned \in SUBSET Source /\ \A s \in earned : now[s] # Nil
    BY DEF PendingRows
  <2>4. QED BY <2>1, <2>2, <2>3
<1>3. Write(Bot, sets, pairs, "written")
  BY DEF Promote
<1>4. /\ DOMAIN sets = earned
      /\ \A s \in earned : /\ DOMAIN sets[s] = {"status", "by"}
                           /\ sets[s].status = "active" /\ sets[s].by \in Source
  <2> HIDE DEF now, view
  <2>1. \A s \in earned : (CHOOSE c \in Corroborators(view, s) : TRUE) \in Source
    BY DEF Corroborators
  <2>2. QED BY <2>1
<1> HIDE DEF earned
<1>5. Warranted(Bot, sets, pairs)
  <2> HIDE DEF sets
  <2>1. \A s \in earned : /\ rows[s] # Nil /\ IsChange(sets[s])
                          /\ "status" \in DOMAIN sets[s] /\ Says("promoted", sets[s].status)
    BY <1>2, <1>4 DEF IsChange, Columns, Says
  <2>2. QED BY <1>2, <1>4, <2>1, MovingRows
<1> HIDE DEF sets, pairs
<1>6. WritesInTurn(Bot, sets, "written")
  BY <1>1, <1>2, <1>4 DEF WritesInTurn
<1>7. QED BY <1>1, <1>3, <1>5, <1>6, WriteKeeps

-----------------------------------------------------------------------------
(* Reading, and the two ends of a transaction.                             *)

\* A session that holds nothing starts to read, or is over.
Empty(session) == DOMAIN session.sets = {} /\ session.wrote = {}

LEMMA NoTxnIsEmpty == Empty(NoTxn) /\ NoTxn.step = "idle"
BY DEF Empty, NoTxn, Session

\* Only one session changes, and it holds nothing afterwards.
LEMMA EmptiesKeep ==
  ASSUME LInv, NEW t \in Transaction, NEW session, Empty(session),
         txn' = [txn EXCEPT ![t] = session], UNCHANGED <<rows, events, nextEvent>>,
         t \in Ingest => Recorded(t)', t = Bot => Reconciled'
  PROVE  /\ Shapes' /\ Sessions' /\ Locks' /\ Fresh' /\ HeldRows'
<1>1. /\ txn = [u \in Transaction |-> txn[u]]
      /\ txn' = [u \in Transaction |-> txn'[u]]
      /\ txn'[t] = session /\ \A u \in Transaction \ {t} : txn'[u] = txn[u]
  BY DEF LInv, Shapes
<1>2. DOMAIN txn'[t].sets = {} /\ txn'[t].wrote = {}
  BY <1>1 DEF Empty
<1>3. Shapes'
  BY <1>1, <1>2 DEF LInv, Shapes, IsLog
<1>4. Sessions'
  <2>1. ASSUME NEW u \in Transaction
        PROVE  Holding(u)'
    BY <1>1, <1>2 DEF LInv, Sessions, Holding
  <2>2. ASSUME NEW u \in Ingest, u # t
        PROVE  Recorded(u)'
    BY <1>1, <2>2 DEF LInv, Sessions, Recorded, Transaction
  <2>3. ASSUME t # Bot
        PROVE  Reconciled'
    BY <1>1, <2>3 DEF LInv, Sessions, Reconciled, Transaction
  <2>4. QED BY <2>1, <2>2, <2>3 DEF Sessions
<1>5. Locks'
  BY <1>1, <1>2 DEF LInv, Locks
<1>6. Fresh'
  BY <1>1, <1>2 DEF LInv, Fresh
<1>7. HeldRows'
  <2>1. ASSUME NEW u \in Transaction, NEW s \in DOMAIN txn'[u].sets
        PROVE  Accounted(u, s)'
    <3>1. u # t /\ txn'[u] = txn[u]
      BY <1>1, <1>2, <2>1
    <3>2. Accounted(u, s)
      BY <2>1, <3>1 DEF LInv, HeldRows
    <3>3. QED BY <3>1, <3>2 DEF Accounted
  <2>2. QED BY <2>1 DEF HeldRows
<1>8. QED BY <1>3, <1>4, <1>5, <1>6, <1>7

LEMMA ReadClaimKeeps ==
  ASSUME LInv, NEW t \in Ingest, NEW offer \in Offers, ReadClaim(t, offer)
  PROVE  LInv'
<1> DEFINE session == Session("read", rows[offer.source], <<>>, {}, offer)
<1>1. t \in Transaction /\ t # Bot
  BY LabelAssumption DEF Transaction
<1>2. Empty(session)
  BY DEF Empty, Session
<1>3. txn' = [txn EXCEPT ![t] = session] /\ UNCHANGED <<rows, events, nextEvent>> /\ Elsewhere
  BY DEF ReadClaim, Elsewhere
<1>4. txn'[t] = session
  BY <1>1, <1>3 DEF LInv, Shapes
<1>5. Recorded(t)'
  BY <1>3, <1>4, LabelAssumption DEF Recorded, Session, LInv, Shapes
<1> HIDE DEF session
<1>6. QED BY <1>1, <1>2, <1>3, <1>5, EmptiesKeep, StoreUntouched DEF LInv

LEMMA ReadActiveKeeps ==
  ASSUME LInv, ReadActive
  PROVE  LInv'
<1> DEFINE seen == IF \E s \in ActiveRows(rows) : rows[s].method \notin Trusted THEN rows
                   ELSE [s \in Source |-> IF s \in ActiveRows(rows) THEN rows[s] ELSE Nil]
           session == Session("read", seen, <<>>, {}, Nil)
<1>1. Bot \in Transaction /\ Bot \notin Ingest
  BY LabelAssumption DEF Transaction
<1>2. Empty(session)
  BY DEF Empty, Session
<1>3. txn' = [txn EXCEPT ![Bot] = session] /\ UNCHANGED <<rows, events, nextEvent>> /\ Elsewhere
  BY DEF ReadActive, Elsewhere
<1>4. txn'[Bot] = session
  BY <1>1, <1>3 DEF LInv, Shapes
<1>5. /\ seen \in [Source -> Label \cup {Nil}]
      /\ \A s \in Source : seen[s] # Nil => rows[s] # Nil
  BY DEF LInv, Shapes
<1> HIDE DEF seen
<1>6. session.seen = seen /\ DOMAIN session.sets = {}
  BY DEF Session
<1>7. Reconciled'
  BY <1>3, <1>4, <1>5, <1>6 DEF Reconciled
<1> HIDE DEF session
<1>8. QED BY <1>1, <1>2, <1>3, <1>7, EmptiesKeep, StoreUntouched DEF LInv

\* A transaction that fails leaves nothing.
LEMMA RollbackKeeps ==
  ASSUME LInv, NEW t \in Transaction, Rollback(t)
  PROVE  LInv'
<1>1. /\ txn' = [txn EXCEPT ![t] = NoTxn] /\ UNCHANGED <<rows, events, nextEvent>>
      /\ Elsewhere
  BY DEF Rollback, Elsewhere
<1>2. txn'[t] = NoTxn
  BY <1>1 DEF LInv, Shapes
<1>3. (t \in Ingest => Recorded(t)') /\ (t = Bot => Reconciled')
  BY <1>2, NoTxnIsEmpty DEF Recorded, Reconciled
<1>4. QED BY <1>1, <1>3, NoTxnIsEmpty, EmptiesKeep, StoreUntouched DEF LInv

\* What a commit leaves in the rows.
LEMMA CommittedRows ==
  ASSUME LInv, NEW t \in Transaction, Commit(t)
  PROVE  /\ rows' \in [Source -> Label \cup {Nil}]
         /\ \A s \in Source : rows[s] # Nil => rows'[s] # Nil
         /\ \A s \in Source \ DOMAIN txn[t].sets : rows'[s] = rows[s]
         /\ \A s \in DOMAIN txn[t].sets :
              /\ rows'[s] # Nil
              /\ rows'[s].status = IF "status" \in DOMAIN txn[t].sets[s]
                                     THEN txn[t].sets[s].status ELSE rows[s].status
<1> DEFINE sets == txn[t].sets
<1>1. rows' = [s \in Source |-> IF s \in DOMAIN sets
                                  THEN IF rows[s] = Nil THEN sets[s] ELSE Overlaid(sets[s], rows[s])
                                  ELSE rows[s]]
  BY DEF Commit, Written
<1>2. DOMAIN sets \subseteq Source /\ rows \in [Source -> Label \cup {Nil}]
  BY DEF LInv, Sessions, Holding, Shapes
<1>3. \A s \in DOMAIN sets : IF rows[s] = Nil THEN sets[s] \in Label ELSE IsChange(sets[s])
  BY DEF LInv, HeldRows, Accounted
<1> HIDE DEF sets
<1>4. ASSUME NEW s \in DOMAIN sets
      PROVE  /\ rows'[s] \in Label
             /\ rows'[s].status = IF "status" \in DOMAIN sets[s] THEN sets[s].status
                                  ELSE rows[s].status
  <2>1. CASE rows[s] = Nil
    <3>1. rows'[s] = sets[s] /\ sets[s] \in Label
      BY <1>1, <1>2, <1>3, <2>1
    <3>2. "status" \in DOMAIN sets[s]
      BY <3>1, RowColumns DEF Columns
    <3>3. QED BY <3>1, <3>2
  <2>2. CASE rows[s] # Nil
    <3>1. rows[s] \in Label /\ IsChange(sets[s]) /\ rows'[s] = Overlaid(sets[s], rows[s])
      BY <1>1, <1>2, <1>3, <2>2
    <3>2. QED BY <3>1, OverlaidRow
  <2>3. QED BY <2>1, <2>2
<1>5. \A s \in Source \ DOMAIN sets : rows'[s] = rows[s]
  BY <1>1
<1>6. \A s \in DOMAIN sets : rows'[s] # Nil
  BY <1>4, RowColumns
<1>7. rows' \in [Source -> Label \cup {Nil}]
  <2>1. \A s \in Source : rows'[s] \in Label \cup {Nil}
    BY <1>2, <1>4, <1>5
  <2>2. rows' = [s \in Source |-> rows'[s]]
    BY <1>1
  <2>3. QED BY <2>1, <2>2
<1>8. QED BY <1>4, <1>5, <1>6, <1>7 DEF sets

LEMMA CommitEmpties ==
  ASSUME LInv, NEW t \in Transaction, Commit(t)
  PROVE  /\ txn' = [u \in Transaction |-> txn'[u]]
         /\ txn'[t] = NoTxn /\ DOMAIN txn'[t].sets = {} /\ txn'[t].wrote = {}
         /\ \A u \in Transaction \ {t} : txn'[u] = txn[u]
         /\ events' = events \cup txn[t].wrote /\ nextEvent' = nextEvent
<1>1. txn' = [txn EXCEPT ![t] = NoTxn] /\ txn = [u \in Transaction |-> txn[u]]
  BY DEF Commit, LInv, Shapes
<1>2. txn'[t] = NoTxn
  BY <1>1
<1>3. QED BY <1>1, <1>2, NoTxnIsEmpty DEF Commit, Empty

LEMMA CommitKeepsSessions ==
  ASSUME LInv, NEW t \in Transaction, Commit(t)
  PROVE  Shapes' /\ Sessions' /\ Locks' /\ Fresh'
<1>1. Shapes'
  <2>1. IsLog(events)'
    BY CommitEmpties DEF LInv, Shapes, IsLog
  <2>2. \A u \in Transaction : IsLog(txn[u].wrote)'
    BY CommitEmpties DEF LInv, Shapes, IsLog
  <2>3. QED BY <2>1, <2>2, CommitEmpties, CommittedRows DEF LInv, Shapes
<1>2. Sessions'
  <2>1. ASSUME NEW u \in Transaction
        PROVE  Holding(u)'
    BY CommitEmpties DEF LInv, Sessions, Holding
  <2>2. ASSUME NEW u \in Ingest
        PROVE  Recorded(u)'
    <3>1. u \in Transaction /\ Recorded(u)
      BY DEF LInv, Sessions, Transaction
    <3>2. CASE u = t
      BY <3>2, CommitEmpties, NoTxnIsEmpty DEF Recorded
    <3>3. CASE u # t
      <4>1. txn'[u] = txn[u]
        BY <3>1, <3>3, CommitEmpties
      <4>2. QED BY <3>1, <4>1, CommittedRows, LabelAssumption DEF Recorded
    <3>4. QED BY <3>2, <3>3
  <2>3. Reconciled'
    <3>1. Bot \in Transaction /\ Reconciled /\ Holding(Bot)
      BY DEF LInv, Sessions, Transaction
    <3>2. CASE Bot = t
      BY <3>2, CommitEmpties, NoTxnIsEmpty DEF Reconciled
    <3>3. CASE Bot # t
      <4>1. txn'[Bot] = txn[Bot]
        BY <3>1, <3>3, CommitEmpties
      <4>2. QED BY <3>1, <4>1, CommittedRows DEF Reconciled, Holding
    <3>4. QED BY <3>2, <3>3
  <2>4. QED BY <2>1, <2>2, <2>3 DEF Sessions
<1>3. Locks'
  BY CommitEmpties DEF LInv, Locks
<1>4. Fresh'
  BY CommitEmpties DEF LInv, Fresh
<1>5. QED BY <1>1, <1>2, <1>3, <1>4

LEMMA CommitKeepsHeldRows ==
  ASSUME LInv, NEW t \in Transaction, Commit(t)
  PROVE  HeldRows'
<1>1. ASSUME NEW u \in Transaction, NEW s \in DOMAIN txn'[u].sets
      PROVE  Accounted(u, s)'
  <2>1. u # t /\ txn'[u] = txn[u]
    BY CommitEmpties
  <2>2. Accounted(u, s) /\ s \in Source /\ s \notin DOMAIN txn[t].sets
    BY <2>1 DEF LInv, HeldRows, Sessions, Holding, Locks
  <2>3. rows'[s] = rows[s]
    BY <2>2, CommittedRows
  <2>4. \A f \in events' : f.source = s => f \in events
    BY <2>2, CommitEmpties DEF LInv, Sessions, Holding
  <2>5. QED BY <2>1, <2>2, <2>3, <2>4 DEF Accounted
<1>2. QED BY <1>1 DEF HeldRows

LEMMA CommitKeepsTold ==
  ASSUME LInv, NEW t \in Transaction, Commit(t)
  PROVE  RowsTold'
<1> SUFFICES ASSUME NEW s \in Source, rows'[s] # Nil
             PROVE  Moves(events', s) # {} /\ Tells(Moves(events', s), rows'[s].status)
  BY DEF RowsTold
<1> DEFINE new == Moves(txn[t].wrote, s)
           old == Moves(events, s)
           all == Moves(events', s)
<1>1. all = old \cup new
  BY CommitEmpties DEF Moves
<1>2. ASSUME s \notin DOMAIN txn[t].sets
      PROVE  all # {} /\ Tells(all, rows'[s].status)
  <2>1. new = {} /\ rows'[s] = rows[s]
    BY <1>2, CommittedRows DEF LInv, Sessions, Holding, Moves
  <2>2. QED BY <1>1, <2>1 DEF LInv, RowsTold
<1>3. ASSUME s \in DOMAIN txn[t].sets
      PROVE  all # {} /\ Tells(all, rows'[s].status)
  <2> DEFINE change == txn[t].sets[s]
  <2>1. Accounted(t, s)
    BY <1>3 DEF LInv, HeldRows
  <2>2. rows'[s].status = IF "status" \in DOMAIN change THEN change.status ELSE rows[s].status
    BY <1>3, CommittedRows
  <2>3. \A e \in new : \A f \in old : f.id < e.id /\ f.id \in Nat /\ e.id \in Nat
    BY <2>1 DEF Accounted, Moves, LInv, Shapes, IsLog
  <2>4. ASSUME "status" \in DOMAIN change
        PROVE  all # {} /\ Tells(all, rows'[s].status)
    <3>1. new # {} /\ Tells(new, change.status)
      BY <2>1, <2>4 DEF Accounted
    <3>2. ASSUME NEW e \in all, \A o \in all : o.id <= e.id
          PROVE  e \in new
      <4>1. PICK o \in new : TRUE
        BY <3>1
      <4>2. o.id <= e.id
        BY <1>1, <3>2
      <4>3. QED BY <1>1, <2>3, <3>2, <4>1, <4>2
    <3>3. QED BY <1>1, <2>2, <2>4, <3>1, <3>2 DEF Tells
  <2>5. ASSUME "status" \notin DOMAIN change
        PROVE  all # {} /\ Tells(all, rows'[s].status)
    <3>1. new = {}
      BY <2>1, <2>5 DEF Accounted
    <3>2. rows[s] # Nil
      BY <2>1, <2>5, RowColumns DEF Accounted, Columns
    <3>3. QED BY <1>1, <2>2, <2>5, <3>1, <3>2 DEF LInv, RowsTold
  <2>6. QED BY <2>4, <2>5
<1>4. QED BY <1>2, <1>3

\* An event committed while the server is up lies above its watermark, or has passed it.
LEMMA CommitKeepsIndex ==
  ASSUME LInv, NEW t \in Transaction, Commit(t)
  PROVE  IndexTold'
<1>1. /\ UNCHANGED <<index, watermark, stage, latest>> /\ events' = events \cup txn[t].wrote
      /\ passed' = passed \cup {e \in txn[t].wrote : stage = "built" \/ e.id < watermark}
  BY DEF Commit
<1>2. ASSUME txn[t].wrote = {}
      PROVE  Attributed(rows') = Attributed(rows)
  <2>1. DOMAIN txn[t].sets = {}
    BY <1>2 DEF LInv, Sessions, Holding
  <2>2. \A s \in Source : rows'[s] = rows[s]
    BY <2>1, CommittedRows
  <2>3. rows' = rows
    BY <2>2, CommittedRows DEF LInv, Shapes
  <2>4. QED BY <2>3
<1>3. ASSUME NEW e \in txn[t].wrote, stage \in {"up", "checked"}, passed' = {}
      PROVE  e.id > watermark
  <2>1. ~ (e.id < watermark)
    BY <1>1, <1>3
  <2>2. e.id \in Nat /\ e.id # 0 /\ watermark \in Nat
    BY DEF LInv, Shapes, IsLog, IndexTold
  <2>3. e.id # watermark
    BY <2>2 DEF LInv, Fresh, IndexTold
  <2>4. QED BY <2>1, <2>2, <2>3
<1>4. watermark' \in {0} \cup {e.id : e \in events'}
  BY <1>1 DEF LInv, IndexTold
<1>5. stage' = "checked" => latest' \in {0} \cup {e.id : e \in events'}
  BY <1>1 DEF LInv, IndexTold
<1>6. ASSUME stage' = "built", passed' = {}
      PROVE  index' = Attributed(rows')
  <2>1. txn[t].wrote = {} /\ passed = {}
    BY <1>1, <1>6
  <2>2. QED BY <1>1, <1>2, <1>6, <2>1 DEF LInv, IndexTold
<1>7. ASSUME stage' \in {"up", "checked"}, passed' = {}, index' # Attributed(rows')
      PROVE  \E e \in events' : e.id > watermark'
  <2>1. CASE txn[t].wrote = {}
    BY <1>1, <1>2, <1>7, <2>1 DEF LInv, IndexTold
  <2>2. CASE txn[t].wrote # {}
    BY <1>1, <1>3, <1>7, <2>2
  <2>3. QED BY <2>1, <2>2
<1>8. QED BY <1>4, <1>5, <1>6, <1>7 DEF IndexTold

LEMMA CommitKeeps ==
  ASSUME LInv, NEW t \in Transaction, Commit(t)
  PROVE  LInv'
BY CommitKeepsSessions, CommitKeepsHeldRows, CommitKeepsTold, CommitKeepsIndex DEF LInv

-----------------------------------------------------------------------------
(* The attributor.                                                          *)

LEMMA LastIsAnEvent ==
  ASSUME LInv
  PROVE  /\ LastEvent \in {e.id : e \in events} \cup {0}
         /\ \A e \in events : e.id <= LastEvent
<1> DEFINE S == {e.id : e \in events} \cup {0}
<1>1. S \subseteq 0..nextEvent /\ S # {} /\ nextEvent \in Nat
  BY DEF LInv, Shapes, IsLog
<1>2. S \subseteq Nat
  BY <1>1
<1> HIDE DEF S
<1>3. \E m \in S : \A k \in S : k <= m
  BY <1>1, Greatest
<1>4. \E m \in S : \A k \in S : m >= k
  BY <1>2, <1>3
<1>5. Max(S) \in S /\ \A k \in S : Max(S) >= k
  BY <1>4 DEF Max
<1>6. \A k \in S : k <= Max(S)
  BY <1>2, <1>5
<1>7. LastEvent = Max(S)
  BY DEF LastEvent, S
<1>8. QED BY <1>5, <1>6, <1>7 DEF S

LEMMA ServingKeeps ==
  ASSUME LInv, Serving
  PROVE  LInv'
<1>1. UNCHANGED <<rows, events, nextEvent, txn>>
  BY DEF Serving, BuildRows, BuildMark, Check, Reload, ReloadFails
<1>2. Shapes' /\ Sessions' /\ Locks' /\ Fresh' /\ HeldRows' /\ RowsTold'
  <2>1. Shapes'
    BY <1>1 DEF LInv, Shapes, IsLog
  <2>2. Sessions'
    BY <1>1 DEF LInv, Sessions, Holding, Recorded, Reconciled
  <2>3. Locks' /\ Fresh'
    BY <1>1 DEF LInv, Locks, Fresh
  <2>4. HeldRows'
    BY <1>1 DEF LInv, HeldRows, Accounted
  <2>5. RowsTold'
    BY <1>1 DEF LInv, RowsTold
  <2>6. QED BY <2>1, <2>2, <2>3, <2>4, <2>5
<1>3. Attributed(rows') = Attributed(rows)
  BY <1>1
<1>4. IndexTold'
  <2>1. CASE BuildRows
    BY <1>1, <1>3, <2>1 DEF BuildRows, LInv, IndexTold
  <2>2. CASE BuildMark
    BY <1>1, <1>3, <2>2, LastIsAnEvent DEF BuildMark, LInv, IndexTold
  <2>3. CASE Check
    BY <1>1, <1>3, <2>3, LastIsAnEvent DEF Check, LInv, IndexTold
  <2>4. CASE Reload
    BY <1>1, <1>3, <2>4 DEF Reload, LInv, IndexTold
  <2>5. CASE ReloadFails
    BY <1>1, <1>3, <2>5 DEF ReloadFails, LInv, IndexTold
  <2>6. QED BY <2>1, <2>2, <2>3, <2>4, <2>5 DEF Serving
<1>5. QED BY <1>2, <1>4 DEF LInv

-----------------------------------------------------------------------------
(* The invariant holds, and what follows from it.                           *)

LEMMA StartsTold ==
  ASSUME LabelInit
  PROVE  LInv
<1>1. /\ rows = [s \in Source |-> Nil] /\ events = {} /\ nextEvent = 0
      /\ txn = [t \in Transaction |-> NoTxn]
      /\ watermark = 0 /\ stage = "down"
  BY DEF LabelInit
<1>2. \A t \in Transaction : /\ txn[t].step = "idle" /\ DOMAIN txn[t].sets = {}
                             /\ txn[t].wrote = {}
  BY <1>1, NoTxnIsEmpty DEF Empty
<1>3. Shapes
  BY <1>1, <1>2 DEF Shapes, IsLog
<1>4. Sessions
  BY <1>2 DEF Sessions, Holding, Recorded, Reconciled, Transaction
<1>5. Locks /\ Fresh /\ HeldRows
  BY <1>2 DEF Locks, Fresh, HeldRows
<1>6. RowsTold /\ IndexTold
  BY <1>1 DEF RowsTold, IndexTold
<1>7. QED BY <1>3, <1>4, <1>5, <1>6 DEF LInv

LEMMA StepTold ==
  ASSUME LInv, [LabelNext]_labelVars
  PROVE  LInv'
<1>1. ASSUME NEW t \in Ingest, \E offer \in Offers : ReadClaim(t, offer)
      PROVE  LInv'
  BY <1>1, ReadClaimKeeps
<1>2. ASSUME NEW t \in Ingest, Recording(t)
      PROVE  LInv'
  BY <1>2, IngestWrites, CommitKeeps DEF Recording, Transaction
<1>3. ASSUME NEW t \in Ingest, LosesTheKey(t)
      PROVE  LInv'
  BY <1>3, RollbackKeeps DEF LosesTheKey, Transaction
<1>4. ASSUME Reconciling
      PROVE  LInv'
  BY <1>4, ReadActiveKeeps, DemoteKeeps, PromoteKeeps, CommitKeeps DEF Reconciling, Transaction
<1>5. ASSUME NEW t \in Transaction, Fails(t)
      PROVE  LInv'
  BY <1>5, RollbackKeeps DEF Fails
<1>6. ASSUME Serving
      PROVE  LInv'
  BY <1>6, ServingKeeps
<1>7. ASSUME UNCHANGED labelVars
      PROVE  LInv'
  <2>1. /\ Elsewhere /\ UNCHANGED <<nextEvent, txn>>
    BY <1>7 DEF labelVars, Elsewhere
  <2>2. RowsTold' /\ IndexTold'
    BY <2>1, StoreUntouched
  <2>3. Shapes' /\ Sessions' /\ Locks' /\ Fresh' /\ HeldRows'
    <3>1. Shapes'
      BY <2>1 DEF LInv, Shapes, IsLog, Elsewhere
    <3>2. Sessions'
      BY <2>1 DEF LInv, Sessions, Holding, Recorded, Reconciled, Elsewhere
    <3>3. Locks' /\ Fresh'
      BY <2>1 DEF LInv, Locks, Fresh, Elsewhere
    <3>4. HeldRows'
      BY <2>1 DEF LInv, HeldRows, Accounted, Elsewhere
    <3>5. QED BY <3>1, <3>2, <3>3, <3>4
  <2>4. QED BY <2>2, <2>3 DEF LInv
<1>8. QED BY <1>1, <1>2, <1>3, <1>4, <1>5, <1>6, <1>7 DEF LabelNext

\* Rows, log, locks and sessions are in step in every state of the label store.
THEOREM LabelsAccounted == LabelSpec => []LInv
<1>1. QED BY StartsTold, StepTold, PTL DEF LabelSpec

LEMMA RowsToldMeans ==
  ASSUME LInv
  PROVE  EventsTellStatus
<1> SUFFICES ASSUME NEW s \in Source, rows[s] # Nil
             PROVE  Says(LastMove(s).kind, rows[s].status)
  BY DEF EventsTellStatus, Says
<1> DEFINE moves == Moves(events, s)
           ids == {e.id : e \in moves}
<1>1. moves # {} /\ Tells(moves, rows[s].status)
  BY DEF LInv, RowsTold
<1>2. ids \subseteq 0..nextEvent /\ nextEvent \in Nat /\ ids # {}
  BY <1>1 DEF LInv, Shapes, IsLog, Moves
<1>3. \E e \in moves : \A o \in moves : o.id <= e.id
  <2> HIDE DEF moves
  <2>1. PICK m \in ids : \A k \in ids : k <= m
    <3> HIDE DEF ids
    <3>1. QED BY <1>2, Greatest
  <2>2. QED BY <2>1
<1>4. LastMove(s) = CHOOSE e \in moves : \A o \in moves : o.id <= e.id
  BY DEF LastMove, Moves, MoveKind
<1> HIDE DEF moves
<1>5. LastMove(s) \in moves /\ \A o \in moves : o.id <= LastMove(s).id
  BY <1>3, <1>4
<1>6. QED BY <1>1, <1>5 DEF Tells

\* The log explains every label, whichever transactions raced for the row, whatever
\* they had read, and whichever of them failed (intel/service.py).
THEOREM LogExplainsLabels == LabelSpec => []EventsTellStatus
<1>1. QED BY LabelsAccounted, RowsToldMeans, PTL

LEMMA IndexToldMeans ==
  ASSUME LInv
  PROVE  StalenessIsSignalled
<1> SUFFICES ASSUME stage = "up", index # Attributed(rows), passed = {}
             PROVE  LastEvent > watermark
  BY DEF StalenessIsSignalled
<1>1. PICK e \in events : e.id > watermark
  BY DEF LInv, IndexTold
<1>2. e.id <= LastEvent /\ e.id \in Nat /\ watermark \in Nat /\ LastEvent \in Nat
  BY LastIsAnEvent DEF LInv, IndexTold, Shapes, IsLog
<1>3. QED BY <1>1, <1>2

\* A server whose index is not that of the active labels has an event above its
\* watermark, or one that was committed behind its back (intel/attributor_source.py).
THEOREM StaleIndexIsNoticed == LabelSpec => []StalenessIsSignalled
<1>1. QED BY LabelsAccounted, IndexToldMeans, PTL

=============================================================================
