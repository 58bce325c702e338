---------------------------- MODULE ReadingProofs ---------------------------
(***************************************************************************)
(* What is read of the chains.  The last-resort tier keeps its promise:    *)
(* ExplorerFetch implements FloorTier, for every site, however its pages   *)
(* change and whatever was kept of them.  And an address read page by page *)
(* over any providers is read to the end when it bears no mark.  The lists *)
(* a call builds are built one row at a time, so the facts about them are  *)
(* inductions on a length; Induction puts what is to be shown in it as the *)
(* set of lengths at which it holds.                                       *)
(***************************************************************************)
EXTENDS ExplorerFetch, AddressHistory, SequenceTheorems, FiniteSetTheorems, WellFoundedInduction, TLAPS

(* Induction, from the order of the intervals 1..k by inclusion.           *)

LEMMA Least ==
  ASSUME NEW S, S \subseteq Nat, S # {}
  PROVE  \E m \in S : \A k \in S : m <= k
<1> DEFINE T == {1..k : k \in S}
           F == FiniteSubsetsOf(Nat)
           R == StrictSubsetOrdering(Nat)
<1>1. IsWellFoundedOn(R, F)
  BY FS_StrictSubsetOrderingWellFounded
<1>2. T \subseteq F
  <2>1. ASSUME NEW k \in S
        PROVE  1..k \in F
    <3>1. IsFiniteSet(1..k) /\ 1..k \in SUBSET Nat
      BY FS_Interval
    <3>2. QED BY <3>1 DEF FiniteSubsetsOf
  <2>2. QED BY <2>1
<1>3. T # {}
  OBVIOUS
<1> HIDE DEF T, F, R
<1>4. PICK x \in T : \A y \in T : ~ (<<y, x>> \in R)
  BY <1>1, <1>2, <1>3, WFMin
<1>5. PICK m \in S : x = 1..m
  BY DEF T
<1>6. ASSUME NEW k \in S, k < m
      PROVE  FALSE
  <2>1. 1..k \in T
    BY DEF T
  <2>2. 1..k \subseteq 1..m /\ 1..k # 1..m
    <3>1. m \in 1..m /\ m \notin 1..k
      BY <1>6
    <3>2. 1..k \subseteq 1..m
      BY <1>6
    <3>3. QED BY <3>1, <3>2
  <2>3. 1..k \in SUBSET Nat /\ 1..m \in SUBSET Nat
    OBVIOUS
  <2>4. <<1..k, 1..m>> \in R
    BY <2>2, <2>3 DEF R, StrictSubsetOrdering
  <2>5. QED BY <1>4, <1>5, <2>1, <2>4
<1>7. QED BY <1>6

LEMMA Induction ==
  ASSUME NEW S, 0 \in S, \A k \in Nat : k \in S => k + 1 \in S
  PROVE  Nat \subseteq S
<1> SUFFICES ASSUME Nat \ S # {}
             PROVE  FALSE
  OBVIOUS
<1>1. PICK m \in Nat \ S : \A k \in Nat \ S : m <= k
  BY Least
<1>2. m # 0 /\ m - 1 \in Nat
  OBVIOUS
<1>3. m - 1 \in S
  BY <1>1, <1>2
<1>4. QED BY <1>1, <1>2, <1>3

-----------------------------------------------------------------------------
(* Lists built row by row.                                                  *)

\* f goes from "base" by the N steps of G.
Path(f, X, base, N, G) ==
    f \in [0..N -> X] /\ f[0] = base /\ \A n \in 1..N : f[n] = G[n][f[n - 1]]

\* Any steps can be taken one after the other.
LEMMA Steps ==
  ASSUME NEW X, NEW base \in X, NEW N \in Nat, NEW G \in [1..N -> [X -> X]]
  PROVE  \E f : Path(f, X, base, N, G)
<1> DEFINE Taken(k) == \E f : Path(f, X, base, k, G)
           S == {k \in Nat : k <= N => Taken(k)}
<1>1. 0 \in S
  <2> DEFINE z == [n \in 0..0 |-> base]
  <2>1. z \in [0..0 -> X] /\ z[0] = base /\ \A n \in 1..0 : z[n] = G[n][z[n - 1]]
    OBVIOUS
  <2> HIDE DEF z
  <2>2. Taken(0)
    BY <2>1 DEF Path
  <2>3. QED BY <2>2
<1>2. ASSUME NEW k \in Nat, k \in S
      PROVE  k + 1 \in S
  <2> SUFFICES ASSUME k + 1 <= N
               PROVE  Taken(k + 1)
    OBVIOUS
  <2>1. PICK f : Path(f, X, base, k, G)
    BY <1>2
  <2> DEFINE g == [n \in 0..k + 1 |-> IF n = k + 1 THEN G[n][f[k]] ELSE f[n]]
  <2>2. \A n \in 0..k : g[n] = f[n] /\ f[n] \in X
    BY <2>1 DEF Path
  <2>3. g[k + 1] = G[k + 1][f[k]] /\ k + 1 \in 1..N /\ f[k] \in X
    BY <2>1 DEF Path
  <2>4. g[k + 1] \in X
    BY <2>3
  <2>5. g \in [0..k + 1 -> X]
    <3>1. \A n \in 0..k + 1 : g[n] \in X
      BY <2>2, <2>4
    <3>2. g = [n \in 0..k + 1 |-> g[n]]
      OBVIOUS
    <3> HIDE DEF g
    <3>3. QED BY <3>1, <3>2
  <2> HIDE DEF g
  <2>6. g[0] = base
    BY <2>1, <2>2 DEF Path
  <2>7. \A n \in 1..k + 1 : g[n] = G[n][g[n - 1]]
    <3>1. ASSUME NEW n \in 1..k
          PROVE  g[n] = G[n][g[n - 1]]
      <4>1. n - 1 \in 0..k /\ n \in 0..k
        OBVIOUS
      <4>2. QED BY <2>1, <2>2, <4>1 DEF Path
    <3>2. g[k + 1] = G[k + 1][g[k]]
      BY <2>2, <2>3
    <3>3. QED BY <3>1, <3>2
  <2>8. QED BY <2>5, <2>6, <2>7 DEF Path
<1> HIDE DEF Taken
<1>3. Nat \subseteq S
  BY <1>1, <1>2, Induction
<1>4. Taken(N)
  BY <1>3
<1>5. QED BY <1>4 DEF Taken

\* Where f and g are, they go on together.
Together(f, g, N) == f[0] = g[0] /\ \A n \in 1..N : f[n - 1] = g[n - 1] => f[n] = g[n]

\* Two ways of taking the same steps are one.
LEMMA SameSteps ==
  ASSUME NEW N \in Nat, NEW f, NEW g, Together(f, g, N)
  PROVE  f[N] = g[N]
<1> DEFINE S == {k \in Nat : k <= N => f[k] = g[k]}
<1>1. 0 \in S
  BY DEF Together
<1>2. ASSUME NEW k \in Nat, k \in S
      PROVE  k + 1 \in S
  <2>1. CASE k + 1 <= N
    <3>1. f[k] = g[k] /\ k + 1 \in 1..N /\ (k + 1) - 1 = k
      BY <1>2, <2>1
    <3>2. QED BY <3>1 DEF Together
  <2>2. CASE ~(k + 1 <= N)
    BY <2>2
  <2>3. QED BY <2>1, <2>2
<1>3. Nat \subseteq S
  <2> HIDE DEF S
  <2>1. QED BY <1>1, <1>2, Induction
<1>4. QED BY <1>3

-----------------------------------------------------------------------------
(* Extended: the rows of a list met one by one.                             *)

LEMMA MeetType ==
  ASSUME NEW T, NEW seen \in Seq(T), NEW t \in T
  PROVE  Meet(seen, t) \in Seq(T)
BY AppendProperties DEF Meet

\* f[n] is what is held once n rows of the list have been met.
Meeting(f, T, seen, list) ==
    /\ f \in [0..Len(list) -> Seq(T)]
    /\ f[0] = seen
    /\ \A n \in 1..Len(list) : f[n] = Meet(f[n - 1], list[n])

LEMMA ExtendedRuns ==
  ASSUME NEW T, NEW seen \in Seq(T), NEW list \in Seq(T)
  PROVE  \E f : Meeting(f, T, seen, list) /\ Extended(seen, list) = f[Len(list)]
<1> DEFINE N == Len(list)
           X == Seq(T)
           G == [n \in 1..N |-> [x \in X |-> Meet(x, list[n])]]
           Met(f) == f = [n \in 0..N |-> IF n = 0 THEN seen ELSE Meet(f[n - 1], list[n])]
<1>1. N \in Nat /\ seen \in X /\ \A n \in 1..N : list[n] \in T
  BY LenProperties
<1>2. \A n \in 1..N, x \in X : Meet(x, list[n]) \in X
  BY <1>1, MeetType
<1> HIDE DEF N, X
<1>3. G \in [1..N -> [X -> X]]
  BY <1>2
<1>4. PICK f : Path(f, X, seen, N, G)
  <2> HIDE DEF G
  <2>1. QED BY <1>1, <1>3, Steps
<1>5. f \in [0..N -> X] /\ f[0] = seen /\ \A n \in 1..N : f[n] = G[n][f[n - 1]]
  BY <1>4 DEF Path
<1>6. \A n \in 1..N : f[n] = Meet(f[n - 1], list[n])
  <2>1. \A n \in 1..N : n - 1 \in 0..N
    BY <1>1
  <2>2. \A n \in 1..N : f[n - 1] \in X
    BY <2>1, <1>5
  <2>3. QED BY <1>5, <2>2
<1>7. Met(f)
  <2>1. \A n \in 0..N : f[n] = IF n = 0 THEN seen ELSE Meet(f[n - 1], list[n])
    BY <1>1, <1>5, <1>6
  <2>2. f = [n \in 0..N |-> f[n]]
    BY <1>5
  <2>3. QED BY <2>1, <2>2
<1> DEFINE g == CHOOSE h : Met(h)
<1>8. Met(g)
  BY <1>7
<1>9. Extended(seen, list) = g[N]
  BY DEF Extended, N
<1>10. g[0] = seen /\ \A n \in 1..N : g[n] = Meet(g[n - 1], list[n])
  <2>1. g = [n \in 0..N |-> IF n = 0 THEN seen ELSE Meet(g[n - 1], list[n])]
    BY <1>8
  <2> HIDE DEF g
  <2>2. QED BY <1>1, <2>1
<1> HIDE DEF g, G
<1>11. Together(f, g, N)
  BY <1>5, <1>6, <1>10 DEF Together
<1>12. f[N] = g[N]
  BY <1>1, <1>11, SameSteps
<1>13. Meeting(f, T, seen, list)
  BY <1>5, <1>6 DEF Meeting, N, X
<1>14. QED BY <1>9, <1>12, <1>13 DEF N

\* One more row.
LEMMA ExtendedUnfolds ==
  ASSUME NEW T, NEW seen \in Seq(T), NEW list \in Seq(T)
  PROVE  /\ Extended(seen, list) \in Seq(T)
         /\ Extended(seen, <<>>) = seen
         /\ \A t \in T : Extended(seen, Append(list, t)) = Meet(Extended(seen, list), t)
<1>1. PICK f : Meeting(f, T, seen, list) /\ Extended(seen, list) = f[Len(list)]
  BY ExtendedRuns
<1>2. Len(list) \in Nat
  BY LenProperties
<1>3. Extended(seen, list) \in Seq(T)
  BY <1>1, <1>2 DEF Meeting
<1>4. Extended(seen, <<>>) = seen
  <2>1. <<>> \in Seq(T) /\ Len(<<>>) = 0
    BY EmptySeq
  <2>2. PICK g : Meeting(g, T, seen, <<>>) /\ Extended(seen, <<>>) = g[Len(<<>>)]
    BY <2>1, ExtendedRuns
  <2>3. QED BY <2>1, <2>2 DEF Meeting
<1>5. ASSUME NEW t \in T
      PROVE  Extended(seen, Append(list, t)) = Meet(Extended(seen, list), t)
  <2> DEFINE N == Len(list)
             longer == Append(list, t)
  <2>1. /\ longer \in Seq(T) /\ Len(longer) = N + 1
        /\ \A i \in 1..N : longer[i] = list[i]
        /\ longer[N + 1] = t
    BY AppendProperties
  <2> HIDE DEF longer
  <2>2. PICK g : Meeting(g, T, seen, longer) /\ Extended(seen, longer) = g[Len(longer)]
    BY <2>1, ExtendedRuns
  <2>3. g[0] = seen /\ \A n \in 1..N + 1 : g[n] = Meet(g[n - 1], longer[n])
    BY <2>1, <2>2 DEF Meeting
  <2>4. f[0] = seen /\ \A n \in 1..N : f[n] = Meet(f[n - 1], list[n])
    BY <1>1 DEF Meeting
  <2>5. Together(f, g, N)
    <3>1. \A n \in 1..N : n \in 1..N + 1
      BY <1>2
    <3>2. QED BY <2>1, <2>3, <2>4, <3>1 DEF Together
  <2>6. f[N] = g[N]
    BY <1>2, <2>5, SameSteps
  <2>7. N + 1 \in 1..N + 1 /\ (N + 1) - 1 = N
    BY <1>2
  <2>8. g[N + 1] = Meet(g[N], t)
    BY <2>1, <2>3, <2>7
  <2>9. QED BY <1>1, <2>1, <2>2, <2>6, <2>8 DEF longer
<1>6. QED BY <1>3, <1>4, <1>5

\* Meeting one list and then another is meeting them as one.
LEMMA ExtendedTwice ==
  ASSUME NEW T, NEW seen \in Seq(T), NEW left \in Seq(T), NEW right \in Seq(T)
  PROVE  Extended(Extended(seen, left), right) = Extended(seen, left \o right)
<1> DEFINE Twice(b) == Extended(Extended(seen, left), b) = Extended(seen, left \o b)
           S == {k \in Nat : \A b \in Seq(T) : Len(b) = k => Twice(b)}
<1>1. Extended(seen, left) \in Seq(T)
  BY ExtendedUnfolds
<1>2. 0 \in S
  <2>1. ASSUME NEW b \in Seq(T), Len(b) = 0
        PROVE  Twice(b)
    <3>1. b = <<>>
      BY <2>1, EmptySeq
    <3>2. left \o <<>> = left
      BY ConcatEmptySeq
    <3>3. Extended(Extended(seen, left), <<>>) = Extended(seen, left)
      BY <1>1, ExtendedUnfolds
    <3>4. QED BY <3>1, <3>2, <3>3
  <2>2. QED BY <2>1
<1>3. ASSUME NEW k \in Nat, k \in S
      PROVE  k + 1 \in S
  <2>1. ASSUME NEW b \in Seq(T), Len(b) = k + 1
        PROVE  Twice(b)
    <3>1. b # <<>>
      BY <2>1, EmptySeq
    <3>2. PICK c \in Seq(T), t \in T : b = Append(c, t)
      BY <3>1, SequenceEmptyOrAppend
    <3>3. Len(c) \in Nat /\ Len(c) + 1 = k + 1
      BY <2>1, <3>2, AppendProperties, LenProperties
    <3>4. Len(c) = k
      BY <3>3
    <3>5. Twice(c)
      BY <1>3, <3>4
    <3>6. Extended(Extended(seen, left), b) = Meet(Extended(Extended(seen, left), c), t)
      BY <1>1, <3>2, ExtendedUnfolds
    <3>7. left \o c \in Seq(T)
      BY ConcatProperties
    <3>8. left \o b = Append(left \o c, t)
      <4>1. <<t>> \in Seq(T)
        OBVIOUS
      <4>2. b = c \o <<t>> /\ Append(left \o c, t) = (left \o c) \o <<t>>
        BY <3>2, <3>7, AppendIsConcat
      <4>3. QED BY <4>1, <4>2, ConcatAssociative
    <3>9. Extended(seen, left \o b) = Meet(Extended(seen, left \o c), t)
      <4> DEFINE m == left \o c
                 n == left \o b
      <4>1. m \in Seq(T) /\ n = Append(m, t)
        BY <3>7, <3>8
      <4> HIDE DEF m, n
      <4>2. Extended(seen, n) = Meet(Extended(seen, m), t)
        BY <4>1, ExtendedUnfolds
      <4>3. QED BY <4>2 DEF m, n
    <3>10. QED BY <3>5, <3>6, <3>9
  <2> HIDE DEF Twice
  <2>2. QED BY <2>1
<1> HIDE DEF Twice
<1>4. Nat \subseteq S
  <2> HIDE DEF S
  <2>1. QED BY <1>2, <1>3, Induction
<1>5. Len(right) \in Nat
  BY LenProperties
<1>6. Twice(right)
  BY <1>4, <1>5
<1>7. QED BY <1>6 DEF Twice

LEMMA DistinctGoesOn ==
  ASSUME NEW T, NEW left \in Seq(T), NEW right \in Seq(T)
  PROVE  /\ Extended(Distinct(left), right) = Distinct(left \o right)
         /\ Distinct(left) \in Seq(T)
<1> DEFINE none == <<>>
<1>1. none \in Seq(T)
  BY EmptySeq
<1> HIDE DEF none
<1>2. Extended(Extended(none, left), right) = Extended(none, left \o right)
  BY <1>1, ExtendedTwice
<1>3. Extended(none, left) \in Seq(T)
  BY <1>1, ExtendedUnfolds
<1>4. QED BY <1>2, <1>3 DEF Distinct, none

-----------------------------------------------------------------------------
(* Gathered: the rows of a list of transactions, one after another.         *)

\* The transactions that have transfers of the kind.
Having(cap) == {t \in DOMAIN Events : cap \in DOMAIN Events[t]}

LEMMA EventsType ==
  ASSUME NEW cap, NEW t \in Having(cap)
  PROVE  Events[t][cap] \in Seq([asset : {Coin, Token}, mine : BOOLEAN, digits : Nat])
BY ListingAssumption DEF Having

LEMMA RowsOfType ==
  ASSUME NEW cap, NEW t \in Having(cap)
  PROVE  /\ RowsOf(cap, t) \in Seq(Having(cap))
         /\ Cardinality({n \in DOMAIN Events[t][cap] : Belongs(cap, Events[t][cap][n])}) \in Nat
<1> DEFINE C == {n \in DOMAIN Events[t][cap] : Belongs(cap, Events[t][cap][n])}
           K == Cardinality(C)
<1>1. Len(Events[t][cap]) \in Nat /\ DOMAIN Events[t][cap] = 1..Len(Events[t][cap])
  BY EventsType, LenProperties
<1>2. IsFiniteSet(1..Len(Events[t][cap]))
  BY <1>1, FS_Interval
<1>3. IsFiniteSet(C)
  BY <1>1, <1>2, FS_Subset
<1>4. K \in Nat
  BY <1>3, FS_CardinalityType
<1>5. RowsOf(cap, t) = [i \in 1..K |-> t]
  BY DEF RowsOf
<1> HIDE DEF K
<1>6. [i \in 1..K |-> t] \in Seq(Having(cap))
  BY <1>4
<1>7. QED BY <1>4, <1>5, <1>6 DEF K

\* f[n] is what the first n transactions of the list come to.
Gathering(f, cap, list) ==
    /\ f \in [0..Len(list) -> Seq(Having(cap))]
    /\ f[0] = <<>>
    /\ \A n \in 1..Len(list) : f[n] = f[n - 1] \o RowsOf(cap, list[n])

LEMMA GatheredRuns ==
  ASSUME NEW cap, NEW list \in Seq(Having(cap))
  PROVE  \E f : Gathering(f, cap, list) /\ Gathered(cap, list) = f[Len(list)]
<1> DEFINE N == Len(list)
           X == Seq(Having(cap))
           G == [n \in 1..N |-> [x \in X |-> x \o RowsOf(cap, list[n])]]
           Upto(f) == f = [n \in 0..N |-> IF n = 0 THEN <<>> ELSE f[n - 1] \o RowsOf(cap, list[n])]
<1>1. N \in Nat /\ <<>> \in X /\ \A n \in 1..N : list[n] \in Having(cap)
  BY LenProperties, EmptySeq
<1>2. \A n \in 1..N, x \in X : x \o RowsOf(cap, list[n]) \in X
  BY <1>1, RowsOfType, ConcatProperties
<1> HIDE DEF N, X
<1>3. G \in [1..N -> [X -> X]]
  BY <1>2
<1>4. PICK f : Path(f, X, <<>>, N, G)
  <2> HIDE DEF G
  <2>1. QED BY <1>1, <1>3, Steps
<1>5. f \in [0..N -> X] /\ f[0] = <<>> /\ \A n \in 1..N : f[n] = G[n][f[n - 1]]
  BY <1>4 DEF Path
<1>6. \A n \in 1..N : f[n] = f[n - 1] \o RowsOf(cap, list[n])
  <2>1. \A n \in 1..N : n - 1 \in 0..N
    BY <1>1
  <2>2. \A n \in 1..N : f[n - 1] \in X
    BY <2>1, <1>5
  <2>3. QED BY <1>5, <2>2
<1>7. Upto(f)
  <2>1. ASSUME NEW n \in 0..N
        PROVE  f[n] = IF n = 0 THEN <<>> ELSE f[n - 1] \o RowsOf(cap, list[n])
    <3>1. CASE n = 0
      BY <3>1, <1>5
    <3>2. CASE n # 0
      <4>1. n \in 1..N
        BY <3>2, <1>1
      <4>2. f[n] = f[n - 1] \o RowsOf(cap, list[n])
        BY <1>6, <4>1
      <4>3. QED BY <3>2, <4>2
    <3>3. QED BY <3>1, <3>2
  <2>2. f = [n \in 0..N |-> f[n]]
    BY <1>5
  <2>3. QED BY <2>1, <2>2
<1> DEFINE g == CHOOSE h : Upto(h)
<1>8. Upto(g)
  BY <1>7
<1>9. Gathered(cap, list) = g[N]
  BY DEF Gathered, N
<1>10. g[0] = <<>> /\ \A n \in 1..N : g[n] = g[n - 1] \o RowsOf(cap, list[n])
  <2>1. g = [n \in 0..N |-> IF n = 0 THEN <<>> ELSE g[n - 1] \o RowsOf(cap, list[n])]
    BY <1>8
  <2> HIDE DEF g
  <2>2. QED BY <1>1, <2>1, SMTT(30)
<1> HIDE DEF g, G
<1>11. Together(f, g, N)
  BY <1>5, <1>6, <1>10 DEF Together
<1>12. f[N] = g[N]
  BY <1>1, <1>11, SameSteps
<1>13. Gathering(f, cap, list)
  BY <1>5, <1>6 DEF Gathering, N, X
<1>14. QED BY <1>9, <1>12, <1>13 DEF N

\* One more transaction.
LEMMA GatheredUnfolds ==
  ASSUME NEW cap, NEW list \in Seq(Having(cap))
  PROVE  /\ Gathered(cap, list) \in Seq(Having(cap))
         /\ Gathered(cap, <<>>) = <<>>
         /\ \A t \in Having(cap) :
              Gathered(cap, Append(list, t)) = Gathered(cap, list) \o RowsOf(cap, t)
<1>1. PICK f : Gathering(f, cap, list) /\ Gathered(cap, list) = f[Len(list)]
  BY GatheredRuns
<1>2. Len(list) \in Nat
  BY LenProperties
<1>3. Gathered(cap, list) \in Seq(Having(cap))
  BY <1>1, <1>2 DEF Gathering
<1>4. Gathered(cap, <<>>) = <<>>
  <2>1. <<>> \in Seq(Having(cap)) /\ Len(<<>>) = 0
    BY EmptySeq
  <2>2. PICK g : Gathering(g, cap, <<>>) /\ Gathered(cap, <<>>) = g[Len(<<>>)]
    BY <2>1, GatheredRuns
  <2>3. QED BY <2>1, <2>2 DEF Gathering
<1>5. ASSUME NEW t \in Having(cap)
      PROVE  Gathered(cap, Append(list, t)) = Gathered(cap, list) \o RowsOf(cap, t)
  <2> DEFINE N == Len(list)
             longer == Append(list, t)
  <2>1. /\ longer \in Seq(Having(cap)) /\ Len(longer) = N + 1
        /\ \A i \in 1..N : longer[i] = list[i]
        /\ longer[N + 1] = t
    BY AppendProperties
  <2> HIDE DEF longer
  <2>2. PICK g : Gathering(g, cap, longer) /\ Gathered(cap, longer) = g[Len(longer)]
    BY <2>1, GatheredRuns
  <2>3. g[0] = <<>> /\ \A n \in 1..N + 1 : g[n] = g[n - 1] \o RowsOf(cap, longer[n])
    BY <2>1, <2>2 DEF Gathering
  <2>4. f[0] = <<>> /\ \A n \in 1..N : f[n] = f[n - 1] \o RowsOf(cap, list[n])
    BY <1>1 DEF Gathering
  <2>5. Together(f, g, N)
    <3>1. \A n \in 1..N : n \in 1..N + 1
      BY <1>2
    <3>2. QED BY <2>1, <2>3, <2>4, <3>1 DEF Together
  <2>6. f[N] = g[N]
    BY <1>2, <2>5, SameSteps
  <2>7. N + 1 \in 1..N + 1 /\ (N + 1) - 1 = N
    BY <1>2
  <2>8. g[N + 1] = g[N] \o RowsOf(cap, t)
    BY <2>1, <2>3, <2>7
  <2>9. QED BY <1>1, <2>1, <2>2, <2>6, <2>8 DEF longer
<1>6. QED BY <1>3, <1>4, <1>5

-----------------------------------------------------------------------------
(* Cut: stretches of a list.                                                *)

LEMMA CutProperties ==
  ASSUME NEW T, NEW list \in Seq(T), NEW from \in Nat, NEW to \in Nat, from <= to
  PROVE  /\ Cut(list, from, to) \in Seq(T)
         /\ Len(Cut(list, from, to)) \in Nat
         /\ Len(Cut(list, from, to)) <= to - from
         /\ Len(Cut(list, from, to)) < to - from => to >= Len(list)
         /\ Cut(list, from, from) = <<>>
<1> DEFINE end == Upper(to, Len(list))
<1>1. Len(list) \in Nat /\ list \in [1..Len(list) -> T]
  BY LenProperties
<1>2. end \in Nat /\ end <= to /\ end <= Len(list) /\ (end = to \/ end = Len(list))
  BY <1>1 DEF Upper
<1>3. Cut(list, from, to) = SubSeq(list, from + 1, end)
  BY DEF Cut
<1> HIDE DEF end
<1>4. \A i \in from + 1 .. end : list[i] \in T
  <2>1. ASSUME NEW i \in from + 1 .. end
        PROVE  list[i] \in T
    <3> DEFINE L == Len(list)
    <3>1. i \in 1..L
      <4>1. i \in Int /\ from + 1 <= i /\ i <= end
        BY <1>2
      <4>2. L \in Nat /\ end <= L /\ end \in Nat
        BY <1>1, <1>2
      <4> HIDE DEF L
      <4>3. QED BY <4>1, <4>2
    <3>2. QED BY <3>1, ElementOfSeq
  <2>2. QED BY <2>1
<1>5. /\ SubSeq(list, from + 1, end) \in Seq(T)
      /\ Len(SubSeq(list, from + 1, end))
           = IF from + 1 <= end THEN end - (from + 1) + 1 ELSE 0
  BY <1>2, <1>4, SubSeqProperties
<1>6. Cut(list, from, from) = <<>>
  <2>1. Upper(from, Len(list)) \in Int /\ Upper(from, Len(list)) < from + 1
    BY <1>1 DEF Upper
  <2>2. QED BY <2>1, SubSeqEmpty DEF Cut
<1>7. /\ Len(SubSeq(list, from + 1, end)) \in Nat
      /\ Len(SubSeq(list, from + 1, end)) <= to - from
      /\ Len(SubSeq(list, from + 1, end)) < to - from => to >= Len(list)
  <2> DEFINE L == Len(list)
             w == Len(SubSeq(list, from + 1, end))
  <2>1. w = IF from + 1 <= end THEN end - (from + 1) + 1 ELSE 0
    BY <1>5
  <2>2. L \in Nat /\ end \in Nat /\ end <= to /\ end <= L /\ (end = to \/ end = L)
    BY <1>1, <1>2
  <2> HIDE DEF w, L
  <2>3. w \in Nat /\ w <= to - from /\ (w < to - from => to >= L)
    BY <2>1, <2>2
  <2>4. QED BY <2>3 DEF w, L
<1>8. QED BY <1>3, <1>5, <1>6, <1>7

LEMMA CutAdjacent ==
  ASSUME NEW T, NEW list \in Seq(T), NEW a \in Nat, NEW b \in Nat, NEW c \in Nat, a <= b, b <= c
  PROVE  Cut(list, a, b) \o Cut(list, b, c) = Cut(list, a, c)
<1> DEFINE L == Len(list)
           k == Upper(b, L)
           n == Upper(c, L)
<1>1. L \in Nat
  BY LenProperties
<1>2. /\ k \in Nat /\ k <= L /\ k <= b /\ (k = b \/ k = L)
      /\ n \in Nat /\ n <= L /\ n <= c /\ (n = c \/ n = L)
  BY <1>1 DEF Upper
<1>3. /\ Cut(list, a, b) = SubSeq(list, a + 1, k)
      /\ Cut(list, b, c) = SubSeq(list, b + 1, n)
      /\ Cut(list, a, c) = SubSeq(list, a + 1, n)
  BY DEF Cut
<1> HIDE DEF L, k, n
<1>4. SubSeq(list, a + 1, k) \o SubSeq(list, b + 1, n) = SubSeq(list, a + 1, n)
  <2>1. CASE b <= L
    <3>1. k = b /\ k <= n
      BY <1>1, <1>2, <2>1
    <3>2. a + 1 \in 1..L + 1 /\ k \in (a + 1) - 1 .. L /\ n \in k..L
      BY <1>1, <1>2, <2>1, <3>1
    <3>3. SubSeq(list, a + 1, k) \o SubSeq(list, k + 1, n) = SubSeq(list, a + 1, n)
      BY <3>2, ConcatAdjacentSubSeq DEF L
    <3>4. QED BY <3>1, <3>3
  <2>2. CASE ~(b <= L)
    <3>1. k = L /\ n = L /\ n < b + 1
      BY <1>1, <1>2, <2>2
    <3>2. SubSeq(list, b + 1, n) = <<>>
      BY <1>2, <3>1, SubSeqEmpty
    <3>3. SubSeq(list, a + 1, k) \in Seq(T)
      <4>1. Cut(list, a, b) \in Seq(T)
        BY CutProperties
      <4>2. QED BY <1>3, <4>1
    <3>4. QED BY <3>1, <3>2, <3>3, ConcatEmptySeq
  <2>3. QED BY <2>1, <2>2
<1>5. QED BY <1>3, <1>4

\* Past the end of the list there is nothing more.
LEMMA CutAtEnd ==
  ASSUME NEW T, NEW list \in Seq(T), NEW a \in Nat, NEW b \in Nat, NEW c \in Nat,
         b <= c, b >= Len(list)
  PROVE  Cut(list, a, b) = Cut(list, a, c)
<1>1. Len(list) \in Nat
  BY LenProperties
<1>2. Upper(b, Len(list)) = Len(list) /\ Upper(c, Len(list)) = Len(list)
  BY <1>1 DEF Upper
<1>3. QED BY <1>2 DEF Cut

-----------------------------------------------------------------------------
(* The stretch of a request, one explorer page after another.               *)

LEMMA Products ==
  ASSUME NEW p \in Nat, NEW s \in Nat, NEW z \in Nat, NEW k \in Nat
  PROVE  /\ p * s * z \in Nat /\ k * z \in Nat
         /\ (p * s + k) * z = p * s * z + k * z
         /\ (p * s + k + 1) * z = p * s * z + (k + 1) * z
         /\ (k + 1) * z = k * z + z
         /\ (p + 1) * s * z = p * s * z + s * z
         /\ 0 * z = 0
         /\ k <= s => k * z <= s * z
<1>1. p * s \in Nat /\ k * z \in Nat /\ s * z \in Nat
  OBVIOUS
<1>2. p * s * z \in Nat
  BY <1>1
<1>3. (k + 1) * z = k * z + z /\ 0 * z = 0
  OBVIOUS
<1>4. (p * s + k) * z = p * s * z + k * z
  OBVIOUS
<1>5. (p * s + k + 1) * z = p * s * z + (k + 1) * z
  OBVIOUS
<1>6. (p + 1) * s * z = p * s * z + s * z
  OBVIOUS
<1>7. ASSUME k <= s
      PROVE  k * z <= s * z
  <2>1. s - k \in Nat /\ (s - k) * z \in Nat
    BY <1>7
  <2>2. (s - k) * z = s * z - k * z
    OBVIOUS
  <2>3. QED BY <1>1, <2>1, <2>2
<1>8. QED BY <1>1, <1>2, <1>3, <1>4, <1>5, <1>6, <1>7

LEMMA RequestType ==
  ASSUME NEW req \in Request
  PROVE  /\ req.chain \in Chain /\ req.cap \in Serves[req.chain]
         /\ req.page \in Nat
         /\ req.page = Cursor => req.chain \notin PagesByNumber
         /\ Listed(req) \in Seq(Having(req.cap))
         /\ req # Idle
<1>1. PICK chain \in Chain : req \in [chain : {chain}, cap : Serves[chain], page : Pages(chain)]
  BY DEF Request
<1>2. req.chain = chain /\ req.cap \in Serves[chain] /\ req.page \in Pages(chain)
  BY <1>1
<1>3. req.page \in Nat /\ (req.page = Cursor => chain \notin PagesByNumber)
  BY <1>2, FloorTierAssumption DEF Pages, Cursor
<1>4. Listed(req) \in Seq(Having(req.cap))
  BY <1>2, ListingAssumption DEF Listed, Having
<1>5. req # Idle
  <2>1. "page" \in DOMAIN req
    BY <1>1
  <2>2. "page" \notin DOMAIN Idle
    BY DEF Idle
  <2>3. QED BY <2>1, <2>2
<1>6. QED BY <1>2, <1>3, <1>4, <1>5

\* Where the stretch begins, and what its first k explorer pages list.
Base(req)    == (req.page - 1) * SitePages * PageSize
Read(req, k) == Cut(Listed(req), Base(req), Base(req) + k * PageSize)

LEMMA ReadOn ==
  ASSUME NEW req \in Request, req.page # Cursor, NEW k \in Nat, k < SitePages
  PROVE  LET rows == SitePage(req, (req.page - 1) * SitePages + k)
         IN  /\ Read(req, 0) = <<>>
             /\ Read(req, k) \in Seq(Having(req.cap))
             /\ rows \in Seq(Having(req.cap))
             /\ Len(rows) \in Nat /\ Len(rows) <= PageSize
             /\ Read(req, k) \o rows = Read(req, k + 1)
             /\ Read(req, SitePages) = Stretch(req)
             /\ Len(rows) < PageSize => Read(req, k + 1) = Stretch(req) /\ ReachesEnd(req)
<1> DEFINE p == req.page - 1
           rows == SitePage(req, (req.page - 1) * SitePages + k)
           list == Listed(req)
           b == p * SitePages * PageSize
           c == k * PageSize
           d == (k + 1) * PageSize
           e == SitePages * PageSize
           T == Having(req.cap)
<1>1. list \in Seq(T) /\ req.page \in Nat
  BY RequestType
<1>2. p \in Nat /\ SitePages \in Nat /\ PageSize \in Nat /\ PageSize > 0 /\ k + 1 \in Nat
      /\ k + 1 <= SitePages
  BY <1>1, FloorTierAssumption DEF Cursor
<1>3. /\ b \in Nat /\ c \in Nat /\ d \in Nat /\ e \in Nat /\ d = c + PageSize /\ d <= e
      /\ 0 * PageSize = 0
  BY <1>2, Products
<1>4. (p * SitePages + k) * PageSize = b + c /\ (p * SitePages + k + 1) * PageSize = b + d
  BY <1>2, Products
<1>5. req.page * SitePages * PageSize = b + e
  <2>1. req.page = p + 1
    BY <1>1
  <2>2. (p + 1) * SitePages * PageSize = b + e
    BY <1>2, Products
  <2>3. QED BY <2>1, <2>2
<1>6. rows = Cut(list, b + c, b + d)
  BY <1>4 DEF SitePage
<1>7. /\ Read(req, 0) = Cut(list, b, b + 0) /\ Read(req, k) = Cut(list, b, b + c)
      /\ Read(req, k + 1) = Cut(list, b, b + d) /\ Read(req, SitePages) = Cut(list, b, b + e)
  BY <1>3 DEF Read, Base
<1>8. Stretch(req) = Cut(list, b, b + e) /\ (ReachesEnd(req) <=> b + e >= Len(list))
  BY <1>5 DEF Stretch, ReachesEnd
<1> HIDE DEF p, rows, list, b, c, d, e, T
<1>9. b + 0 = b /\ b <= b + c /\ b + c <= b + d /\ b + d <= b + e /\ (b + d) - (b + c) = PageSize
      /\ b + c \in Nat /\ b + d \in Nat /\ b + e \in Nat
  BY <1>2, <1>3
<1>10. Cut(list, b, b + 0) = <<>> /\ Cut(list, b, b + c) \in Seq(T)
  BY <1>1, <1>3, <1>9, CutProperties
<1>11. /\ rows \in Seq(T) /\ Len(rows) \in Nat /\ Len(rows) <= PageSize
       /\ Len(rows) < PageSize => b + d >= Len(list)
  BY <1>1, <1>6, <1>9, CutProperties
<1>12. Cut(list, b, b + c) \o rows = Cut(list, b, b + d)
  <2> DEFINE m == b + c
             n == b + d
  <2>1. m \in Nat /\ n \in Nat /\ b \in Nat /\ b <= m /\ m <= n /\ rows = Cut(list, m, n)
    BY <1>3, <1>6, <1>9
  <2> HIDE DEF m, n
  <2>2. Cut(list, b, m) \o Cut(list, m, n) = Cut(list, b, n)
    BY <1>1, <2>1, CutAdjacent
  <2>3. QED BY <2>1, <2>2 DEF m, n
<1>13. ASSUME Len(rows) < PageSize
       PROVE  Cut(list, b, b + d) = Cut(list, b, b + e) /\ b + e >= Len(list)
  <2>1. b + d >= Len(list) /\ Len(list) \in Nat
    BY <1>1, <1>11, <1>13, LenProperties
  <2>2. b + e >= Len(list)
    BY <1>9, <2>1
  <2>3. QED BY <1>1, <1>3, <1>9, <2>1, <2>2, CutAtEnd, SMTT(30)
<1>14. QED
  BY <1>7, <1>8, <1>10, <1>11, <1>12, <1>13 DEF rows, T

-----------------------------------------------------------------------------
(* What a page is taken for.                                                *)

LEMMA TabIsThere ==
  ASSUME NEW req \in Request
  PROVE  /\ TabOf(req.cap) \in DOMAIN Module /\ TabOf(req.cap) # 0
         /\ DOMAIN Module = 1..Len(Module) /\ Len(Module) \in Nat
<1>1. req.cap \in {Module[i] : i \in DOMAIN Module}
  BY RequestType, ExplorerFetchAssumption
<1>2. \E i \in DOMAIN Module : Module[i] = req.cap
  BY <1>1
<1>3. TabOf(req.cap) \in DOMAIN Module
  BY <1>2 DEF TabOf
<1>4. DOMAIN Module = 1..Len(Module) /\ Len(Module) \in Nat
  BY ExplorerFetchAssumption, LenProperties
<1>5. QED BY <1>3, <1>4

\* The strip of a page holds one pane for each tab, that of the module among them.
LEMMA StripProperties ==
  ASSUME NEW req \in Request, NEW pane
  PROVE  LET panes == Strip(req.cap, pane)
         IN  /\ Len(panes) = Len(Module) /\ DOMAIN panes = DOMAIN Module
             /\ panes[TabOf(req.cap)] = pane
             /\ panes \in Seq({pane, Placeholder})
<1>1. TabOf(req.cap) \in DOMAIN Module /\ DOMAIN Module = 1..Len(Module) /\ Len(Module) \in Nat
  BY TabIsThere
<1> DEFINE panes == Strip(req.cap, pane)
<1>2. panes = [i \in 1..Len(Module) |-> IF i = TabOf(req.cap) THEN pane ELSE Placeholder]
  BY <1>1 DEF Strip
<1>3. panes \in [1..Len(Module) -> {pane, Placeholder}]
  BY <1>2
<1>4. panes \in Seq({pane, Placeholder}) /\ Len(panes) = Len(Module)
  BY <1>1, <1>3
<1>5. QED BY <1>1, <1>2, <1>4

\* Whatever became of the markup, a pane that is read lists the rows of the page.
LEMMA LegiblePanes ==
  ASSUME NEW req \in Request, NEW n \in Nat,
         NEW page \in {Faithful(req, n)} \cup Changed(req, n),
         NEW pane \in Active(page), Legible(pane)
  PROVE  pane.rows = SitePage(req, n)
<1> DEFINE tab   == TabOf(req.cap)
           rows  == SitePage(req, n)
           whole == IF Listed(req) = <<>> THEN Pane(<<>>, FALSE, FALSE, TRUE)
                    ELSE Pane(rows, TRUE, rows = <<>>, FALSE)
<1>1. tab \in DOMAIN Module /\ tab # 0 /\ DOMAIN Module = 1..Len(Module) /\ Len(Module) \in Nat
  BY TabIsThere
<1>2. whole.rows = rows
  <2>1. CASE Listed(req) = <<>>
    <3>1. Len(<<>>) = 0 /\ n * PageSize \in Nat
      BY FloorTierAssumption
    <3>2. Upper((n + 1) * PageSize, 0) \in Int /\ Upper((n + 1) * PageSize, 0) < n * PageSize + 1
      <4>1. (n + 1) * PageSize \in Nat
        BY FloorTierAssumption
      <4>2. QED BY <3>1, <4>1 DEF Upper
    <3>3. rows = <<>>
      BY <2>1, <3>1, <3>2, SubSeqEmpty DEF SitePage, Cut
    <3>4. QED BY <2>1, <3>3 DEF Pane
  <2>2. CASE Listed(req) # <<>>
    BY <2>2 DEF Pane
  <2>3. QED BY <2>1, <2>2
<1>3. Faithful(req, n) = AddressPage(Strip(req.cap, whole), tab)
  BY DEF Faithful
<1>4. Faithful(req, n).panes[tab] = whole
  <2>1. Faithful(req, n).panes = Strip(req.cap, whole)
    BY <1>3 DEF AddressPage
  <2>2. QED BY <2>1, StripProperties
<1> HIDE DEF whole, rows, tab
<1>5. ASSUME NEW p, page = AddressPage(Strip(req.cap, p), tab)
      PROVE  pane = p
  <2>1. page.panes[page.checked] = p /\ page.checked = tab
    BY <1>5, StripProperties DEF AddressPage, tab
  <2>2. QED BY <2>1 DEF Active
<1>6. CASE page = Faithful(req, n)
  BY <1>2, <1>3, <1>5, <1>6 DEF rows
<1>7. CASE page = AddressPage(<<Placeholder>> \o Strip(req.cap, whole), tab)
  <2> DEFINE T == {whole, Placeholder}
             panes == Strip(req.cap, whole)
  <2>1. panes \in Seq(T) /\ <<Placeholder>> \in Seq(T) /\ Len(panes) = Len(Module)
    BY StripProperties
  <2> HIDE DEF panes, T
  <2>2. Len(<<Placeholder>> \o panes) = 1 + Len(Module)
    BY <2>1, ConcatProperties
  <2>3. Len(page.panes) # page.tabs
    <3> DEFINE longer == <<Placeholder>> \o panes
    <3>1. page.panes = longer /\ page.tabs = Len(Module)
      BY <1>7 DEF AddressPage, panes
    <3>2. Len(longer) = 1 + Len(Module)
      BY <2>2
    <3> DEFINE L == Len(Module)
    <3>3. L \in Nat
      BY <1>1
    <3>4. Len(page.panes) = 1 + L /\ page.tabs = L
      BY <3>1, <3>2, Zenon
    <3> HIDE DEF L, longer
    <3>5. 1 + L # L
      BY <3>3
    <3>6. QED BY <3>4, <3>5
  <2>4. QED BY <2>3 DEF Active
<1>8. CASE page = AddressPage(Strip(req.cap, Pane(<<>>, whole.named, FALSE, FALSE)), tab)
  <2>1. pane = Pane(<<>>, whole.named, FALSE, FALSE)
    BY <1>5, <1>8
  <2>2. QED BY <2>1 DEF Legible, Pane
<1>9. CASE page = AddressPage(Strip(req.cap, Pane(whole.rows, FALSE, whole.empties, FALSE)), tab)
  <2>1. pane = Pane(whole.rows, FALSE, whole.empties, FALSE)
    BY <1>5, <1>9
  <2>2. QED BY <1>2, <2>1 DEF Pane, rows
<1>10. CASE page = AddressPage(Strip(req.cap, whole), 0)
  <2>1. page.checked = 0 /\ page.panes = Strip(req.cap, whole)
    BY <1>10 DEF AddressPage
  <2>2. 0 \notin DOMAIN page.panes
    BY <1>1, <2>1, StripProperties
  <2>3. QED BY <2>1, <2>2 DEF Active
<1>11. Faithful(req, n).panes = Strip(req.cap, whole)
  BY <1>3 DEF AddressPage
<1>12. QED BY <1>4, <1>6, <1>7, <1>8, <1>9, <1>10, <1>11 DEF Changed, tab

\* What a transaction's page may come to be.
Readings(t) == {FaithfulTransaction(t)} \cup ChangedTransaction(t)

\* A page that is turned into rows gives those of its transaction.
LEMMA RowsAreTrue ==
  ASSUME NEW cap, NEW t \in Having(cap), NEW page \in Readings(t), ~page.partial,
         ProvesNone(page, cap) \/ Consistent(page, cap)
  PROVE  [i \in 1..RowCount(page, cap) |-> t] = RowsOf(cap, t)
<1> DEFINE xs == Events[t][cap]
           C == {n \in DOMAIN xs : Belongs(cap, xs[n])}
           absent == DOMAIN Events[t] \ Kinds(t)
<1>1. cap \in DOMAIN Events[t]
  BY DEF Having
<1>2. C = IF cap = Tokens THEN Mine(xs) ELSE Coins(xs)
  BY DEF Belongs, Mine, Coins
<1>3. ASSUME cap \in DOMAIN page.sections, page.sections[cap] = xs
      PROVE  RowCount(page, cap) = Cardinality(C)
  BY <1>2, <1>3 DEF RowCount
<1>4. ASSUME cap \notin DOMAIN page.sections, xs = <<>>
      PROVE  RowCount(page, cap) = Cardinality(C)
  <2>1. C = {}
    BY <1>4
  <2>2. QED BY <1>4, <2>1, FS_EmptySet DEF RowCount
<1>5. cap \in Kinds(t) <=> xs # <<>>
  BY <1>1 DEF Kinds
<1> DEFINE full == [c \in Kinds(t) |-> Events[t][c]]
<1>6. /\ FaithfulTransaction(t) = TransactionPage(full, absent, FALSE, TRUE)
      /\ FaithfulTransaction(t).sections = full /\ FaithfulTransaction(t).absent = absent
  BY DEF FaithfulTransaction, Rendered, TransactionPage
<1>7. cap \in DOMAIN full <=> xs # <<>>
  BY <1>5
<1>8. cap \in DOMAIN full => full[cap] = xs
  OBVIOUS
<1>9. cap \in absent <=> xs = <<>>
  BY <1>1, <1>5
<1> HIDE DEF xs, C, absent, full
<1>10. RowCount(page, cap) = Cardinality(C)
  <2>1. CASE page.sections = full
    BY <1>3, <1>4, <1>7, <1>8, <2>1
  <2>2. ASSUME NEW c \in Kinds(t), page = Rendered(t, Kinds(t) \ {c}, absent)
        PROVE  RowCount(page, cap) = Cardinality(C)
    <3>1. page.sections = [k \in Kinds(t) \ {c} |-> Events[t][k]] /\ page.absent = absent
      BY <2>2 DEF Rendered, TransactionPage
    <3>2. CASE cap = c
      <4>1. cap \notin DOMAIN page.sections /\ cap \notin absent
        BY <1>5, <1>9, <3>1, <3>2
      <4>2. QED BY <3>1, <4>1 DEF ProvesNone, Consistent
    <3>3. CASE cap # c
      <4>1. cap \in DOMAIN page.sections <=> xs # <<>>
        BY <1>5, <3>1, <3>3
      <4>2. cap \in DOMAIN page.sections => page.sections[cap] = xs
        BY <3>1, <3>3 DEF xs
      <4>3. QED BY <1>3, <1>4, <4>1, <4>2
    <3>4. QED BY <3>2, <3>3
  <2>3. ASSUME NEW c \in Kinds(t),
               page = TransactionPage([full EXCEPT ![c] = <<>>], absent, FALSE, TRUE)
        PROVE  RowCount(page, cap) = Cardinality(C)
    <3>1. page.sections = [full EXCEPT ![c] = <<>>] /\ page.absent = absent
      BY <2>3 DEF TransactionPage
    <3>2. DOMAIN page.sections = Kinds(t)
      BY <3>1 DEF full
    <3>3. CASE cap = c
      <4>1. cap \in DOMAIN page.sections /\ page.sections[cap] = <<>>
        BY <2>3, <3>1, <3>2, <3>3 DEF full
      <4>2. QED BY <4>1 DEF ProvesNone, Consistent
    <3>4. CASE cap # c
      <4>1. cap \in DOMAIN page.sections <=> xs # <<>>
        BY <1>5, <3>2
      <4>2. cap \in DOMAIN page.sections => page.sections[cap] = xs
        BY <3>1, <3>2, <3>4 DEF full, xs
      <4>3. QED BY <1>3, <1>4, <4>1, <4>2
    <3>5. QED BY <3>3, <3>4
  <2>4. CASE page = TransactionPage(full, absent, TRUE, TRUE)
    BY <2>4 DEF TransactionPage
  <2>5. CASE page = TransactionPage(full, absent, FALSE, FALSE)
    BY <2>1, <2>5 DEF TransactionPage
  <2>6. CASE page = FaithfulTransaction(t)
    BY <1>6, <2>1, <2>6
  <2>7. CASE page \in ChangedTransaction(t)
    <3>1. ChangedTransaction(t) =
            {Rendered(t, Kinds(t) \ {c}, absent) : c \in Kinds(t)}
            \cup {TransactionPage([full EXCEPT ![c] = <<>>], absent, FALSE, TRUE) : c \in Kinds(t)}
            \cup {TransactionPage(full, absent, TRUE, TRUE), TransactionPage(full, absent, FALSE, FALSE)}
      BY <1>6 DEF ChangedTransaction
    <3>2. QED BY <2>2, <2>3, <2>4, <2>5, <2>7, <3>1
  <2>8. QED BY <2>6, <2>7 DEF Readings
<1>11. QED BY <1>10 DEF RowsOf, C, xs

-----------------------------------------------------------------------------
(* What holds of a call, and of the pages kept, at every step.              *)

Stages == {"declined", "listing", "transaction", "rows"}

AnyPage == {NoPage} \cup UNION {Readings(t) : t \in DOMAIN Events}
Entries == UNION {[tx : {t}, page : Readings(t)] : t \in DOMAIN Events}

Calls(cap) ==
    [pc : Stages, offset : Nat, size : Nat, collected : Seq(Having(cap)), ended : BOOLEAN,
     todo : Seq(Having(cap)), rows : Seq(Having(cap)), page : AnyPage]

CallType == IF asked = Idle THEN call = NoCall ELSE asked \in Request /\ call \in Calls(asked.cap)

PagesType == pages \in Seq(Entries)

\* Only a cursor of another vendor is declined.
Declined == asked # Idle => (call.pc = "declined" <=> asked.page = Cursor)

\* The pages read so far are the first of the stretch, and no page was longer
\* than a full one.
ListedSoFar ==
    call.pc = "listing" =>
        /\ call.offset < SitePages
        /\ call.collected = Distinct(Read(asked, call.offset))
        /\ call.size <= PageSize
        /\ call.rows = <<>>

\* The transactions of the stretch are what was done and what is to do, and the
\* rows are those of what was done.
RowsSoFar ==
    call.pc \in {"transaction", "rows"} =>
        /\ call.collected = Distinct(Stretch(asked))
        /\ call.ended => ReachesEnd(asked)
        /\ \E done \in Seq(Having(asked.cap)) :
             call.collected = done \o call.todo /\ call.rows = Gathered(asked.cap, done)

\* The page in hand is one of the transaction whose turn it is.
PageInHand ==
    call.pc = "rows" => call.todo # <<>> /\ call.page \in Readings(Head(call.todo))

FetchInv == CallType /\ PagesType /\ Declined /\ ListedSoFar /\ RowsSoFar /\ PageInHand

LEMMA AtRest ==
  ASSUME asked' = Idle, call' = NoCall, PagesType'
  PROVE  FetchInv'
BY DEF FetchInv, CallType, Declined, ListedSoFar, RowsSoFar, PageInHand, NoCall

LEMMA InitHolds == ExplorerInit => FetchInv
BY EmptySeq DEF ExplorerInit, FloorInit, FetchInv, CallType, PagesType, Declined, ListedSoFar,
     RowsSoFar, PageInHand, NoCall

\* A call is under way.
LEMMA UnderWay ==
  ASSUME FetchInv, call.pc # "idle"
  PROVE  /\ asked \in Request /\ asked # Idle /\ call \in Calls(asked.cap)
         /\ asked.page \in Nat /\ asked.cap \in Serves[asked.chain]
BY RequestType DEF FetchInv, CallType, NoCall

LEMMA ExecuteHolds ==
  ASSUME FetchInv, NEW req \in Request, Execute(req)
  PROVE  FetchInv'
<1>1. asked' = req /\ req # Idle /\ pages' = pages
  BY RequestType DEF Execute, Ask
<1>2. call' = [pc |-> IF req.page = Cursor THEN "declined" ELSE "listing",
               offset |-> 0, size |-> 0, collected |-> <<>>, ended |-> FALSE,
               todo |-> <<>>, rows |-> <<>>, page |-> NoPage]
  BY DEF Execute
<1>3. <<>> \in Seq(Having(req.cap)) /\ NoPage \in AnyPage
  BY EmptySeq DEF AnyPage
<1>4. call' \in Calls(req.cap)
  BY <1>2, <1>3 DEF Calls, Stages
<1>5. CallType' /\ PagesType' /\ Declined'
  BY <1>1, <1>2, <1>4 DEF FetchInv, CallType, PagesType, Declined
<1>6. ListedSoFar'
  <2> SUFFICES ASSUME call'.pc = "listing"
               PROVE  ListedSoFar'
    BY DEF ListedSoFar
  <2>1. req.page # Cursor
    BY <1>2
  <2>2. SitePages \in Nat /\ 0 < SitePages /\ 0 \in Nat /\ 0 <= PageSize
    BY FloorTierAssumption
  <2>3. Read(req, 0) = <<>>
    BY <2>1, <2>2, ReadOn
  <2>4. Distinct(<<>>) = <<>>
    BY <1>3, ExtendedUnfolds DEF Distinct
  <2>5. call'.offset = 0 /\ call'.collected = <<>> /\ call'.size = 0 /\ call'.rows = <<>>
    BY <1>2
  <2>6. QED BY <1>1, <2>2, <2>3, <2>4, <2>5 DEF ListedSoFar
<1>7. RowsSoFar' /\ PageInHand'
  BY <1>2 DEF RowsSoFar, PageInHand
<1>8. QED BY <1>5, <1>6, <1>7 DEF FetchInv

\* Nothing of the call, of what is asked or of the pages kept changes.
LEMMA UntouchedHolds ==
  ASSUME FetchInv, asked' = asked, call' = call, pages' = pages
  PROVE  FetchInv'
BY DEF FetchInv, CallType, PagesType, Declined, ListedSoFar, RowsSoFar, PageInHand

LEMMA RaiseHolds ==
  ASSUME FetchInv, asked' = Idle, call' = NoCall, pages' = pages
  PROVE  FetchInv'
BY AtRest DEF FetchInv, PagesType

\* One more page: its rows are the next of the stretch, and a page shorter than
\* a full one was the last.
LEMMA TakeRowsHolds ==
  ASSUME FetchInv, call.pc = "listing", asked' = asked, pages' = pages,
         NEW pane, pane.rows = SitePage(asked, (asked.page - 1) * SitePages + call.offset),
         TakeRows(pane)
  PROVE  FetchInv'
<1> DEFINE rows == pane.rows
           k    == call.offset
           T    == Having(asked.cap)
           collected == Extended(call.collected, rows)
           ends == EndsHistory(Len(rows))
           last == ends \/ k + 1 = SitePages
<1>1. /\ asked \in Request /\ asked # Idle /\ call \in Calls(asked.cap) /\ asked.page # Cursor
      /\ k \in Nat /\ k < SitePages /\ call.size \in Nat /\ call.size <= PageSize
      /\ call.collected = Distinct(Read(asked, k)) /\ call.collected \in Seq(T)
      /\ call.rows = <<>>
  BY UnderWay DEF FetchInv, Declined, ListedSoFar, Calls
<1>2. /\ Read(asked, k) \in Seq(T) /\ rows \in Seq(T) /\ Len(rows) \in Nat /\ Len(rows) <= PageSize
      /\ Read(asked, k) \o rows = Read(asked, k + 1)
      /\ Read(asked, SitePages) = Stretch(asked)
      /\ Len(rows) < PageSize => Read(asked, k + 1) = Stretch(asked) /\ ReachesEnd(asked)
  BY <1>1, ReadOn
<1>3. collected = Distinct(Read(asked, k + 1)) /\ collected \in Seq(T)
  <2>1. Extended(Distinct(Read(asked, k)), rows) = Distinct(Read(asked, k) \o rows)
    BY <1>2, DistinctGoesOn
  <2>2. collected \in Seq(T)
    BY <1>1, <1>2, ExtendedUnfolds
  <2>3. QED BY <1>1, <1>2, <2>1, <2>2
<1>4. call' = [call EXCEPT !.pc = IF last THEN "transaction" ELSE "listing",
                           !.offset = @ + 1,
                           !.size = IF @ = 0 THEN Len(rows) ELSE @,
                           !.collected = collected,
                           !.ended = ends,
                           !.todo = IF last THEN collected ELSE <<>>]
  BY DEF TakeRows
<1>5. ends => Len(rows) < PageSize
  BY <1>1, <1>2, FloorTierAssumption DEF EndsHistory
<1>6. ends \in BOOLEAN
  BY DEF EndsHistory
<1> HIDE DEF rows, k, collected, ends, last
<1>7. /\ call'.pc = IF last THEN "transaction" ELSE "listing"
      /\ call'.offset = k + 1
      /\ call'.size = IF call.size = 0 THEN Len(rows) ELSE call.size
      /\ call'.collected = collected /\ call'.ended = ends
      /\ call'.todo = IF last THEN collected ELSE <<>>
      /\ call'.rows = <<>>
  BY <1>1, <1>4 DEF Calls, k
<1>8. call' \in Calls(asked.cap)
  <2>1. <<>> \in Seq(T)
    BY EmptySeq
  <2>2. (IF last THEN collected ELSE <<>>) \in Seq(T)
    BY <1>3, <2>1
  <2>3. (IF call.size = 0 THEN Len(rows) ELSE call.size) \in Nat
    BY <1>1, <1>2
  <2>4. (IF last THEN "transaction" ELSE "listing") \in Stages
    BY DEF Stages
  <2>5. k + 1 \in Nat
    BY <1>1
  <2>6. QED BY <1>1, <1>3, <1>4, <1>6, <2>2, <2>3, <2>4, <2>5, ZenonT(60) DEF Calls, k
<1>9. CallType' /\ PagesType' /\ Declined'
  BY <1>1, <1>7, <1>8 DEF FetchInv, CallType, PagesType, Declined
<1>10. ListedSoFar'
  <2> SUFFICES ASSUME call'.pc = "listing"
               PROVE  ListedSoFar'
    BY DEF ListedSoFar
  <2>1. k + 1 < SitePages
    BY <1>1, <1>7, FloorTierAssumption DEF last
  <2>2. call'.size <= PageSize
    BY <1>1, <1>2, <1>7
  <2>3. QED BY <1>3, <1>7, <2>1, <2>2 DEF ListedSoFar
<1>11. RowsSoFar'
  <2> SUFFICES ASSUME call'.pc \in {"transaction", "rows"}
               PROVE  RowsSoFar'
    BY DEF RowsSoFar
  <2>1. last
    BY <1>7
  <2>2. Read(asked, k + 1) = Stretch(asked)
    BY <1>2, <1>5, <2>1 DEF last
  <2>3. ends => ReachesEnd(asked)
    BY <1>2, <1>5
  <2>4. <<>> \in Seq(T) /\ collected = <<>> \o collected /\ Gathered(asked.cap, <<>>) = <<>>
    BY <1>3, EmptySeq, ConcatEmptySeq, GatheredUnfolds
  <2>5. call'.collected = <<>> \o call'.todo /\ call'.rows = Gathered(asked.cap, <<>>)
    BY <1>7, <2>1, <2>4
  <2>6. call'.collected = Distinct(Stretch(asked)) /\ (call'.ended => ReachesEnd(asked))
    BY <1>3, <1>7, <2>2, <2>3
  <2>7. QED BY <2>4, <2>5, <2>6 DEF RowsSoFar
<1>12. PageInHand'
  BY <1>7 DEF PageInHand
<1>13. QED BY <1>9, <1>10, <1>11, <1>12 DEF FetchInv

LEMMA ReadAddressPageHolds ==
  ASSUME FetchInv, ReadAddressPage
  PROVE  FetchInv'
<1> DEFINE n == (asked.page - 1) * SitePages + call.offset
<1>1. /\ call.pc = "listing" /\ pages' = pages
      /\ asked \in Request /\ asked.page \in Nat /\ asked.page # Cursor /\ call.offset \in Nat
  BY UnderWay DEF FetchInv, Declined, Calls, ReadAddressPage
<1>2. n \in Nat
  <2>1. asked.page - 1 \in Nat /\ SitePages \in Nat
    BY <1>1, FloorTierAssumption DEF Cursor
  <2>2. (asked.page - 1) * SitePages \in Nat
    BY <2>1
  <2>3. QED BY <1>1, <2>2
<1>3. PICK page \in {Faithful(asked, n)} \cup Changed(asked, n) :
        \/ \E pane \in Active(page) : Legible(pane) /\ TakeRows(pane) /\ UNCHANGED <<asked, answer>>
        \/ Raise
  BY DEF ReadAddressPage
<1> HIDE DEF n
<1>4. CASE Raise
  BY <1>1, <1>4, RaiseHolds DEF Raise
<1>5. ASSUME NEW pane \in Active(page), Legible(pane), TakeRows(pane), UNCHANGED <<asked, answer>>
      PROVE  FetchInv'
  <2>1. pane.rows = SitePage(asked, n)
    BY <1>1, <1>2, <1>5, LegiblePanes
  <2>2. QED BY <1>1, <1>5, <2>1, TakeRowsHolds DEF n
<1>6. QED BY <1>3, <1>4, <1>5

\* A page kept is one of its transaction, wherever it is moved to.
LEMMA RememberType ==
  ASSUME pages \in Seq(Entries), NEW t \in DOMAIN Events, NEW page \in Readings(t)
  PROVE  Remember(t, page) \in Seq(Entries)
<1> DEFINE entry  == [tx |-> t, page |-> page]
           places == {i \in DOMAIN pages : pages[i].tx = t}
           place  == CHOOSE i \in places : TRUE
           others == IF places = {} THEN pages ELSE RemoveAt(pages, place)
           kept   == Append(others, entry)
           L      == Len(kept)
           size   == Upper(CacheSize, L)
<1>1. entry \in Entries
  <2>1. entry \in [tx : {t}, page : Readings(t)]
    OBVIOUS
  <2>2. QED BY <2>1 DEF Entries
<1>2. others \in Seq(Entries)
  <2>1. CASE places = {}
    BY <2>1
  <2>2. CASE places # {}
    <3>1. place \in DOMAIN pages /\ DOMAIN pages = 1..Len(pages) /\ Len(pages) \in Nat
      BY <2>2, LenProperties
    <3> HIDE DEF place, places
    <3>2. /\ place \in 1..Len(pages)
          /\ \A i \in 1 .. place - 1 : pages[i] \in Entries
          /\ \A i \in place + 1 .. Len(pages) : pages[i] \in Entries
      BY <3>1, ElementOfSeq
    <3>3. SubSeq(pages, 1, place - 1) \in Seq(Entries)
      BY <3>1, <3>2, SubSeqProperties
    <3>4. SubSeq(pages, place + 1, Len(pages)) \in Seq(Entries)
      BY <3>1, <3>2, SubSeqProperties
    <3>5. SubSeq(pages, 1, place - 1) \o SubSeq(pages, place + 1, Len(pages)) \in Seq(Entries)
      BY <3>3, <3>4, ConcatProperties
    <3>6. QED BY <2>2, <3>5 DEF RemoveAt
  <2>3. QED BY <2>1, <2>2
<1> HIDE DEF entry, places, place, others
<1>3. kept \in Seq(Entries)
  BY <1>1, <1>2, AppendProperties
<1>4. L \in Nat
  BY <1>3, LenProperties
<1>5. size \in Nat /\ size <= L
  BY <1>4, ExplorerFetchAssumption DEF Upper
<1> HIDE DEF kept, size
<1>6. SubSeq(kept, L - size + 1, L) \in Seq(Entries)
  <2>1. \A i \in L - size + 1 .. L : i \in 1..L
    BY <1>4, <1>5
  <2>2. \A i \in L - size + 1 .. L : kept[i] \in Entries
    BY <1>3, <2>1, ElementOfSeq
  <2>3. QED BY <1>4, <1>5, <2>2, SubSeqProperties
<1>7. Remember(t, page) = SubSeq(kept, L - size + 1, L)
  BY DEF Remember, kept, others, places, place, entry, size
<1>8. QED BY <1>6, <1>7

\* The page of the transaction whose turn it is comes into hand.
LEMMA InHandHolds ==
  ASSUME FetchInv, call.pc = "transaction", call.todo # <<>>, asked' = asked,
         NEW page \in Readings(Head(call.todo)), InHand(page),
         pages' = Remember(Head(call.todo), page)
  PROVE  FetchInv'
<1>1. /\ asked \in Request /\ asked # Idle /\ call \in Calls(asked.cap)
      /\ call.todo \in Seq(Having(asked.cap)) /\ pages \in Seq(Entries)
  BY UnderWay DEF FetchInv, PagesType, Calls
<1>2. Head(call.todo) \in DOMAIN Events
  BY <1>1, HeadTailProperties DEF Having
<1>3. page \in AnyPage
  BY <1>2 DEF AnyPage
<1>4. call' = [call EXCEPT !.pc = "rows", !.page = page]
  BY DEF InHand
<1>5. /\ call'.pc = "rows" /\ call'.page = page /\ call'.todo = call.todo
      /\ call'.collected = call.collected /\ call'.ended = call.ended /\ call'.rows = call.rows
  BY <1>1, <1>4 DEF Calls
<1>6. call' \in Calls(asked.cap)
  BY <1>1, <1>3, <1>4 DEF Calls, Stages
<1>7. CallType' /\ Declined'
  BY <1>1, <1>5, <1>6 DEF FetchInv, CallType, Declined
<1>8. PagesType'
  BY <1>1, <1>2, RememberType DEF PagesType
<1>9. RowsSoFar'
  BY <1>5 DEF FetchInv, RowsSoFar
<1>10. ListedSoFar' /\ PageInHand'
  BY <1>5 DEF ListedSoFar, PageInHand
<1>11. QED BY <1>7, <1>8, <1>9, <1>10 DEF FetchInv

LEMMA FetchTransactionHolds ==
  ASSUME FetchInv, FetchTransaction
  PROVE  FetchInv'
<1>1. PICK page \in {FaithfulTransaction(Head(call.todo))} \cup ChangedTransaction(Head(call.todo)) :
        pages' = Remember(Head(call.todo), page) /\ InHand(page)
  BY DEF FetchTransaction
<1>2. page \in Readings(Head(call.todo))
  BY DEF Readings
<1>3. QED BY <1>1, <1>2, InHandHolds DEF FetchTransaction

LEMMA ReuseTransactionHolds ==
  ASSUME FetchInv, ReuseTransaction
  PROVE  FetchInv'
<1>1. PICK page \in Kept(Head(call.todo)) :
        pages' = Remember(Head(call.todo), page) /\ InHand(page)
  BY DEF ReuseTransaction
<1>2. PICK i \in DOMAIN pages : pages[i].tx = Head(call.todo) /\ page = pages[i].page
  BY DEF Kept
<1>3. pages[i] \in Entries
  BY <1>2, LenProperties, ElementOfSeq DEF FetchInv, PagesType
<1>4. page \in Readings(Head(call.todo))
  BY <1>2, <1>3 DEF Entries
<1>5. QED BY <1>1, <1>4, InHandHolds DEF ReuseTransaction

\* The rows of one more transaction.
LEMMA EmitRowsHolds ==
  ASSUME FetchInv, EmitRows
  PROVE  FetchInv'
<1> DEFINE cap == asked.cap
           T   == Having(cap)
           t   == Head(call.todo)
           new == [i \in 1..RowCount(call.page, cap) |-> t]
<1>1. /\ call.pc = "rows" /\ pages' = pages /\ asked \in Request /\ asked # Idle
      /\ call \in Calls(cap) /\ call.todo \in Seq(T) /\ call.rows \in Seq(T)
      /\ call.todo # <<>> /\ call.page \in Readings(t)
  BY UnderWay DEF FetchInv, PageInHand, Calls, EmitRows
<1>2. CASE Raise
  BY <1>1, <1>2, RaiseHolds DEF Raise
<1>3. CASE ~Raise
  <2>1. /\ ~call.page.partial /\ (ProvesNone(call.page, cap) \/ Consistent(call.page, cap))
        /\ call' = [call EXCEPT !.pc = "transaction", !.todo = Tail(@), !.page = NoPage,
                                !.rows = @ \o new]
        /\ asked' = asked
    BY <1>3 DEF EmitRows
  <2>2. t \in T /\ Tail(call.todo) \in Seq(T) /\ call.todo = <<t>> \o Tail(call.todo)
    <3>1. t \in T /\ Tail(call.todo) \in Seq(T)
      BY <1>1, HeadTailProperties
    <3>2. call.todo = <<t>> \o Tail(call.todo)
      BY <1>1
    <3>3. QED BY <3>1, <3>2
  <2>3. new = RowsOf(cap, t)
    BY <1>1, <2>1, <2>2, RowsAreTrue
  <2>4. RowsOf(cap, t) \in Seq(T)
    BY <2>2, RowsOfType
  <2>5. call.rows \o new \in Seq(T)
    BY <1>1, <2>3, <2>4, ConcatProperties
  <2>6. PICK done \in Seq(T) : call.collected = done \o call.todo /\ call.rows = Gathered(cap, done)
    BY <1>1 DEF FetchInv, RowsSoFar
  <2>7. /\ Append(done, t) \in Seq(T)
        /\ call.collected = Append(done, t) \o Tail(call.todo)
    <3> DEFINE rest == Tail(call.todo)
    <3>1. rest \in Seq(T) /\ <<t>> \in Seq(T) /\ call.collected = done \o (<<t>> \o rest)
      BY <2>2, <2>6
    <3>2. Append(done, t) = done \o <<t>> /\ Append(done, t) \in Seq(T)
      BY <2>2, AppendIsConcat, AppendProperties
    <3> HIDE DEF rest, t
    <3>3. (done \o <<t>>) \o rest = done \o (<<t>> \o rest)
      BY <3>1, ConcatAssociative
    <3>4. QED BY <3>1, <3>2, <3>3 DEF rest
  <2>8. call.rows \o new = Gathered(cap, Append(done, t))
    <3>1. done \in Seq(Having(cap)) /\ t \in Having(cap)
      BY <2>2, <2>6
    <3> HIDE DEF new, t, T, cap
    <3>2. Gathered(cap, Append(done, t)) = Gathered(cap, done) \o RowsOf(cap, t)
      BY <3>1, GatheredUnfolds
    <3>3. QED BY <2>3, <2>6, <3>2
  <2> HIDE DEF new
  <2>9. /\ call'.pc = "transaction" /\ call'.todo = Tail(call.todo) /\ call'.rows = call.rows \o new
        /\ call'.collected = call.collected /\ call'.ended = call.ended
    BY <1>1, <2>1 DEF Calls
  <2>10. call' \in Calls(cap)
    BY <1>1, <2>1, <2>2, <2>5 DEF Calls, Stages, AnyPage
  <2>11. CallType' /\ PagesType' /\ Declined'
    BY <1>1, <2>1, <2>9, <2>10 DEF FetchInv, CallType, PagesType, Declined
  <2>12. RowsSoFar'
    <3>1. call'.collected = Append(done, t) \o call'.todo /\ call'.rows = Gathered(cap, Append(done, t))
      BY <2>7, <2>8, <2>9
    <3>2. call'.collected = Distinct(Stretch(asked)) /\ (call'.ended => ReachesEnd(asked))
      BY <1>1, <2>9 DEF FetchInv, RowsSoFar
    <3>3. QED BY <2>1, <2>7, <3>1, <3>2 DEF RowsSoFar
  <2>13. ListedSoFar' /\ PageInHand'
    BY <2>9 DEF ListedSoFar, PageInHand
  <2>14. QED BY <2>11, <2>12, <2>13 DEF FetchInv
<1>4. QED BY <1>2, <1>3

\* The invariant holds for ever.
LEMMA StepHolds ==
  ASSUME FetchInv, [ExplorerNext]_explorerVars
  PROVE  FetchInv'
<1>1. ASSUME NEW req \in Request, Execute(req)
      PROVE  FetchInv'
  BY <1>1, ExecuteHolds
<1>2. CASE DeclineContinuation
  BY <1>2, RaiseHolds DEF DeclineContinuation, Answer
<1>3. CASE LoadRobots
  BY <1>3, UntouchedHolds DEF LoadRobots
<1>4. CASE GetFails
  BY <1>4, RaiseHolds DEF GetFails, Raise
<1>5. CASE ReadAddressPage
  BY <1>5, ReadAddressPageHolds
<1>6. CASE FetchTransaction
  BY <1>6, FetchTransactionHolds
<1>7. CASE ReuseTransaction
  BY <1>7, ReuseTransactionHolds
<1>8. CASE FetchScale
  <2>1. pages' = pages /\ ((asked' = asked /\ call' = call) \/ Raise)
    BY <1>8 DEF FetchScale
  <2>2. QED BY <2>1, UntouchedHolds, RaiseHolds DEF Raise
<1>9. CASE EmitRows
  BY <1>9, EmitRowsHolds
<1>10. CASE Finish
  BY <1>10, RaiseHolds DEF Finish, Answer
<1>11. CASE UNCHANGED explorerVars
  BY <1>11, UntouchedHolds DEF explorerVars
<1>12. QED
  BY <1>1, <1>2, <1>3, <1>4, <1>5, <1>6, <1>7, <1>8, <1>9, <1>10, <1>11 DEF ExplorerNext

-----------------------------------------------------------------------------
(* Every step of a call is a step of the promise, or none.                  *)

LEMMA RaiseServes ==
  ASSUME asked # Idle, Raise
  PROVE  Serve
BY DEF Raise, Serve

LEMMA FinishServes ==
  ASSUME FetchInv, Finish
  PROVE  Serve
<1>1. /\ call.pc = "transaction" /\ asked \in Request /\ asked # Idle /\ call \in Calls(asked.cap)
      /\ call.todo = <<>> /\ asked.page # Cursor
      /\ answer' = Reply(call.rows, Truncated) /\ asked' = Idle
  BY UnderWay DEF FetchInv, Declined, Finish, Answer
<1>2. PICK done \in Seq(Having(asked.cap)) :
        call.collected = done \o call.todo /\ call.rows = Gathered(asked.cap, done)
  BY <1>1 DEF FetchInv, RowsSoFar
<1>3. call.collected = Distinct(Stretch(asked)) /\ (call.ended => ReachesEnd(asked))
  BY <1>1 DEF FetchInv, RowsSoFar
<1>4. call.collected = done
  BY <1>1, <1>2, ConcatEmptySeq
<1>5. call.rows = Rows(asked)
  BY <1>2, <1>3, <1>4 DEF Rows
<1>6. Truncated \in IF asked.chain \in PagesByNumber THEN {FALSE}
                    ELSE IF ReachesEnd(asked) THEN BOOLEAN ELSE {TRUE}
  <2>1. call.ended \in BOOLEAN
    BY <1>1 DEF Calls
  <2>2. CASE asked.chain \in PagesByNumber
    BY <2>2 DEF Truncated
  <2>3. CASE asked.chain \notin PagesByNumber /\ ReachesEnd(asked)
    BY <2>1, <2>3 DEF Truncated
  <2>4. CASE asked.chain \notin PagesByNumber /\ ~ReachesEnd(asked)
    BY <1>3, <2>1, <2>4 DEF Truncated
  <2>5. QED BY <2>2, <2>3, <2>4
<1>7. answer' \in Promise(asked)
  BY <1>1, <1>5, <1>6 DEF Promise
<1>8. QED BY <1>1, <1>7 DEF Serve

LEMMA StepServes ==
  ASSUME FetchInv, [ExplorerNext]_explorerVars
  PROVE  FloorNext \/ UNCHANGED <<asked, answer>>
<1>1. ASSUME NEW req \in Request, Execute(req)
      PROVE  FloorNext
  BY <1>1 DEF Execute, FloorNext
<1>2. CASE DeclineContinuation
  <2>1. asked # Idle /\ asked.page = Cursor /\ answer' = Reply(<<>>, TRUE) /\ asked' = Idle
    BY <1>2, UnderWay DEF FetchInv, Declined, DeclineContinuation, Answer
  <2>2. answer' \in Promise(asked)
    BY <2>1 DEF Promise
  <2>3. QED BY <2>1, <2>2 DEF Serve, FloorNext
<1>3. CASE LoadRobots
  BY <1>3 DEF LoadRobots
<1>4. CASE GetFails
  <2>1. call.pc # "idle" /\ Raise
    BY <1>4 DEF GetFails, Fetching
  <2>2. QED BY <2>1, UnderWay, RaiseServes DEF FloorNext
<1>5. CASE ReadAddressPage
  <2>1. call.pc # "idle" /\ (UNCHANGED <<asked, answer>> \/ Raise)
    BY <1>5 DEF ReadAddressPage
  <2>2. QED BY <2>1, UnderWay, RaiseServes DEF FloorNext
<1>6. CASE FetchTransaction
  BY <1>6 DEF FetchTransaction
<1>7. CASE ReuseTransaction
  BY <1>7 DEF ReuseTransaction
<1>8. CASE FetchScale
  <2>1. call.pc # "idle" /\ (UNCHANGED <<asked, answer>> \/ Raise)
    BY <1>8 DEF FetchScale
  <2>2. QED BY <2>1, UnderWay, RaiseServes DEF FloorNext
<1>9. CASE EmitRows
  <2>1. call.pc # "idle" /\ (UNCHANGED <<asked, answer>> \/ Raise)
    BY <1>9 DEF EmitRows
  <2>2. QED BY <2>1, UnderWay, RaiseServes DEF FloorNext
<1>10. CASE Finish
  BY <1>10, FinishServes DEF FloorNext
<1>11. CASE UNCHANGED explorerVars
  BY <1>11 DEF explorerVars
<1>12. QED
  BY <1>1, <1>2, <1>3, <1>4, <1>5, <1>6, <1>7, <1>8, <1>9, <1>10, <1>11 DEF ExplorerNext

\* The promise stated of the instance is the one stated here.
LEMMA SameInit == Floor!FloorInit <=> FloorInit
BY DEF Floor!FloorInit, FloorInit, Floor!Idle, Idle, Floor!NoAnswer, NoAnswer

LEMMA SamePromise ==
  ASSUME NEW req
  PROVE  Floor!Promise(req) = Promise(req)
<1>1. ASSUME NEW seen, NEW list
      PROVE  Floor!Extended(seen, list) = Extended(seen, list)
  BY DEF Floor!Extended, Extended, Floor!Meet, Meet, Floor!Contains, Contains
<1>2. Floor!Stretch(req) = Stretch(req)
  BY DEF Floor!Stretch, Stretch, Floor!Cut, Cut, Floor!Listed, Listed, Floor!Upper, Upper
<1>3. ASSUME NEW cap, NEW t
      PROVE  Floor!RowsOf(cap, t) = RowsOf(cap, t)
  BY DEF Floor!RowsOf, RowsOf, Floor!Belongs, Belongs, Floor!Cardinality, Cardinality,
     Floor!Tokens, Tokens, Floor!Coin, Coin
<1>4. ASSUME NEW cap, NEW list
      PROVE  Floor!Gathered(cap, list) = Gathered(cap, list)
  BY DEF Floor!Gathered, Gathered, Floor!RowsOf, RowsOf, Floor!Belongs, Belongs,
     Floor!Cardinality, Cardinality, Floor!Tokens, Tokens, Floor!Coin, Coin
<1>5. Floor!Rows(req) = Rows(req)
  BY <1>1, <1>2, <1>4 DEF Floor!Rows, Rows, Floor!Distinct, Distinct
<1>6. Floor!ReachesEnd(req) <=> ReachesEnd(req)
  BY DEF Floor!ReachesEnd, ReachesEnd, Floor!Listed, Listed
<1>7. QED
  BY <1>5, <1>6 DEF Floor!Promise, Promise, Floor!Reply, Reply, Floor!Cursor, Cursor

LEMMA SameNext == Floor!FloorNext <=> FloorNext
<1>1. Floor!Request = Request
  BY DEF Floor!Request, Request, Floor!Pages, Pages, Floor!Cursor, Cursor
<1>2. Floor!Serve <=> Serve
  BY SamePromise DEF Floor!Serve, Serve, Floor!Idle, Idle, Floor!Failure, Failure
<1>3. ASSUME NEW req
      PROVE  Floor!Ask(req) <=> Ask(req)
  BY DEF Floor!Ask, Ask, Floor!Idle, Idle, Floor!NoAnswer, NoAnswer
<1>4. QED BY <1>1, <1>2, <1>3 DEF Floor!FloorNext, FloorNext

(* What is proved.                                                          *)

\* The tier keeps its promise (AnswersAreTrue): for every site, every listing
\* and every transaction, whatever markup changes, whatever was kept of earlier
\* calls and whatever the site refuses, a call of execute() fails or answers
\* with the rows of the stretch it was asked for, all of them and in order, and
\* says so when the stretch is cut where the caller cannot ask for the rest.
THEOREM TheTierKeepsItsPromise == ExplorerSpec => AnswersAreTrue
<1>1. ExplorerInit => FetchInv
  BY InitHolds
<1>2. FetchInv /\ [ExplorerNext]_explorerVars => FetchInv'
  BY StepHolds
<1>3. ExplorerInit => Floor!FloorInit
  BY SameInit DEF ExplorerInit
<1>4. FetchInv /\ [ExplorerNext]_explorerVars => [Floor!FloorNext]_<<asked, answer>>
  BY StepServes, SameNext
<1>5. QED
  BY <1>1, <1>2, <1>3, <1>4, PTL DEF ExplorerSpec, AnswersAreTrue, Floor!FloorSpec

-----------------------------------------------------------------------------
(* Members of lists.                                                        *)

\* What holds of the empty list, and of a list that grows by a row when it held
\* before, holds of every list.
LEMMA ByRows ==
  ASSUME NEW T, NEW S, <<>> \in S,
         \A list \in Seq(T), t \in T : list \in S => Append(list, t) \in S
  PROVE  Seq(T) \subseteq S
<1> DEFINE K == {k \in Nat : \A list \in Seq(T) : Len(list) = k => list \in S}
<1>1. 0 \in K
  BY EmptySeq
<1>2. ASSUME NEW k \in Nat, k \in K
      PROVE  k + 1 \in K
  <2>1. ASSUME NEW list \in Seq(T), Len(list) = k + 1
        PROVE  list \in S
    <3>1. list # <<>>
      BY <2>1, EmptySeq
    <3>2. PICK shorter \in Seq(T), t \in T : list = Append(shorter, t)
      BY <3>1, SequenceEmptyOrAppend
    <3>3. Len(shorter) \in Nat /\ Len(shorter) + 1 = k + 1
      BY <2>1, <3>2, AppendProperties, LenProperties
    <3>4. shorter \in S
      BY <1>2, <3>3
    <3>5. QED BY <3>2, <3>4
  <2>2. QED BY <2>1
<1>3. Nat \subseteq K
  <2> HIDE DEF K
  <2>1. QED BY <1>1, <1>2, Induction
<1>4. QED BY <1>3, LenProperties

LEMMA Members ==
  ASSUME NEW T, NEW list \in Seq(T)
  PROVE  /\ ToSet(<<>>) = {}
         /\ \A t \in T : ToSet(Append(list, t)) = ToSet(list) \cup {t}
         /\ ToSet(list) \subseteq T
         /\ ToSet(list) = {list[i] : i \in 1..Len(list)}
         /\ ToSet(list) = {} => list = <<>>
<1>1. Len(list) \in Nat /\ DOMAIN list = 1..Len(list)
  BY LenProperties
<1>2. ToSet(list) = {list[i] : i \in 1..Len(list)}
  BY <1>1 DEF ToSet
<1>3. ToSet(list) \subseteq T
  BY <1>2, ElementOfSeq
<1>4. ASSUME NEW t \in T
      PROVE  ToSet(Append(list, t)) = ToSet(list) \cup {t}
  <2> DEFINE longer == Append(list, t)
             L == Len(list)
  <2>1. longer \in Seq(T) /\ Len(longer) = L + 1 /\ longer[L + 1] = t
        /\ \A i \in 1..L : longer[i] = list[i]
    BY AppendProperties
  <2>2. DOMAIN longer = 1..L + 1 /\ L \in Nat
    BY <1>1, <2>1, LenProperties
  <2>3. ToSet(list) = {list[i] : i \in 1..L}
    BY <1>2
  <2> HIDE DEF longer, L
  <2>4. ToSet(longer) = {longer[i] : i \in 1..L + 1}
    BY <2>2 DEF ToSet
  <2>5. \A i \in 1..L + 1 : i \in 1..L \/ i = L + 1
    BY <2>2
  <2>6. L + 1 \in 1..L + 1 /\ \A i \in 1..L : i \in 1..L + 1
    BY <2>2
  <2>7. QED BY <2>1, <2>3, <2>4, <2>5, <2>6 DEF longer
<1>5. ToSet(<<>>) = {}
  BY DEF ToSet
<1>6. ASSUME ToSet(list) = {}
      PROVE  list = <<>>
  <2>1. 1..Len(list) = {}
    BY <1>2, <1>6
  <2>2. Len(list) = 0
    BY <1>1, <2>1
  <2>3. QED BY <2>2, EmptySeq
<1>7. QED BY <1>2, <1>3, <1>4, <1>5, <1>6

\* f[n] is what is left of the first n rows of the list.
Leaving(f, T, list, members) ==
    /\ f \in [0..Len(list) -> Seq(T)]
    /\ f[0] = <<>>
    /\ \A n \in 1..Len(list) :
         f[n] = IF list[n] \in members THEN f[n - 1] ELSE Append(f[n - 1], list[n])

LEMMA WithoutRuns ==
  ASSUME NEW T, NEW list \in Seq(T), NEW members
  PROVE  \E f : Leaving(f, T, list, members) /\ Without(list, members) = f[Len(list)]
<1> DEFINE N == Len(list)
           X == Seq(T)
           G == [n \in 1..N |-> [x \in X |-> IF list[n] \in members THEN x ELSE Append(x, list[n])]]
           Left(f) == f = [n \in 0..N |->
                             IF n = 0 THEN <<>>
                             ELSE IF list[n] \in members THEN f[n - 1] ELSE Append(f[n - 1], list[n])]
<1>1. N \in Nat /\ <<>> \in X /\ \A n \in 1..N : list[n] \in T
  BY LenProperties, EmptySeq
<1>2. \A n \in 1..N, x \in X : (IF list[n] \in members THEN x ELSE Append(x, list[n])) \in X
  BY <1>1, AppendProperties
<1> HIDE DEF N, X
<1>3. G \in [1..N -> [X -> X]]
  BY <1>2
<1>4. PICK f : Path(f, X, <<>>, N, G)
  <2> HIDE DEF G
  <2>1. QED BY <1>1, <1>3, Steps
<1>5. f \in [0..N -> X] /\ f[0] = <<>> /\ \A n \in 1..N : f[n] = G[n][f[n - 1]]
  BY <1>4 DEF Path
<1>6. \A n \in 1..N : f[n] = IF list[n] \in members THEN f[n - 1] ELSE Append(f[n - 1], list[n])
  <2>1. \A n \in 1..N : n - 1 \in 0..N
    BY <1>1
  <2>2. \A n \in 1..N : f[n - 1] \in X
    BY <2>1, <1>5
  <2>3. QED BY <1>5, <2>2
<1>7. Left(f)
  <2>1. ASSUME NEW n \in 0..N
        PROVE  f[n] = IF n = 0 THEN <<>>
                      ELSE IF list[n] \in members THEN f[n - 1] ELSE Append(f[n - 1], list[n])
    <3>1. CASE n = 0
      BY <3>1, <1>5
    <3>2. CASE n # 0
      <4>1. n \in 1..N
        BY <3>2, <1>1
      <4>2. f[n] = IF list[n] \in members THEN f[n - 1] ELSE Append(f[n - 1], list[n])
        BY <1>6, <4>1
      <4>3. QED BY <3>2, <4>2
    <3>3. QED BY <3>1, <3>2
  <2>2. f = [n \in 0..N |-> f[n]]
    BY <1>5
  <2>3. QED BY <2>1, <2>2
<1> DEFINE g == CHOOSE h : Left(h)
<1>8. Left(g)
  BY <1>7
<1>9. Without(list, members) = g[N]
  BY DEF Without, N
<1>10. /\ g[0] = <<>>
       /\ \A n \in 1..N : g[n] = IF list[n] \in members THEN g[n - 1] ELSE Append(g[n - 1], list[n])
  <2>1. g = [n \in 0..N |-> IF n = 0 THEN <<>>
                            ELSE IF list[n] \in members THEN g[n - 1] ELSE Append(g[n - 1], list[n])]
    BY <1>8
  <2> HIDE DEF g
  <2>2. \A n \in 0..N : g[n] = IF n = 0 THEN <<>>
                              ELSE IF list[n] \in members THEN g[n - 1] ELSE Append(g[n - 1], list[n])
    BY <2>1
  <2>3. g[0] = <<>>
    BY <1>1, <2>2
  <2>4. ASSUME NEW n \in 1..N
        PROVE  g[n] = IF list[n] \in members THEN g[n - 1] ELSE Append(g[n - 1], list[n])
    <3>1. n \in 0..N /\ n # 0
      BY <1>1
    <3>2. QED BY <2>2, <3>1
  <2>5. QED BY <2>3, <2>4
<1> HIDE DEF g, G
<1>11. Together(f, g, N)
  BY <1>5, <1>6, <1>10 DEF Together
<1>12. f[N] = g[N]
  BY <1>1, <1>11, SameSteps
<1>13. Leaving(f, T, list, members)
  BY <1>5, <1>6 DEF Leaving, N, X
<1>14. QED BY <1>9, <1>12, <1>13 DEF N

LEMMA WithoutUnfolds ==
  ASSUME NEW T, NEW list \in Seq(T), NEW members
  PROVE  /\ Without(list, members) \in Seq(T)
         /\ Without(<<>>, members) = <<>>
         /\ \A t \in T : Without(Append(list, t), members) =
              IF t \in members THEN Without(list, members) ELSE Append(Without(list, members), t)
<1>1. PICK f : Leaving(f, T, list, members) /\ Without(list, members) = f[Len(list)]
  BY WithoutRuns
<1>2. Len(list) \in Nat
  BY LenProperties
<1>3. Without(list, members) \in Seq(T)
  BY <1>1, <1>2 DEF Leaving
<1>4. Without(<<>>, members) = <<>>
  <2>1. <<>> \in Seq(T) /\ Len(<<>>) = 0
    BY EmptySeq
  <2>2. PICK g : Leaving(g, T, <<>>, members) /\ Without(<<>>, members) = g[Len(<<>>)]
    BY <2>1, WithoutRuns
  <2>3. QED BY <2>1, <2>2 DEF Leaving
<1>5. ASSUME NEW t \in T
      PROVE  Without(Append(list, t), members) =
               IF t \in members THEN Without(list, members) ELSE Append(Without(list, members), t)
  <2> DEFINE N == Len(list)
             longer == Append(list, t)
  <2>1. /\ longer \in Seq(T) /\ Len(longer) = N + 1
        /\ \A i \in 1..N : longer[i] = list[i]
        /\ longer[N + 1] = t
    BY AppendProperties
  <2> HIDE DEF longer
  <2>2. PICK g : Leaving(g, T, longer, members) /\ Without(longer, members) = g[Len(longer)]
    BY <2>1, WithoutRuns
  <2>3. /\ g[0] = <<>>
        /\ \A n \in 1..N + 1 :
             g[n] = IF longer[n] \in members THEN g[n - 1] ELSE Append(g[n - 1], longer[n])
    BY <2>1, <2>2 DEF Leaving
  <2>4. /\ f[0] = <<>>
        /\ \A n \in 1..N : f[n] = IF list[n] \in members THEN f[n - 1] ELSE Append(f[n - 1], list[n])
    BY <1>1 DEF Leaving
  <2>5. Together(f, g, N)
    <3>1. \A n \in 1..N : n \in 1..N + 1
      BY <1>2
    <3>2. QED BY <2>1, <2>3, <2>4, <3>1 DEF Together
  <2>6. f[N] = g[N]
    BY <1>2, <2>5, SameSteps
  <2>7. N + 1 \in 1..N + 1 /\ (N + 1) - 1 = N
    BY <1>2
  <2>8. g[N + 1] = IF t \in members THEN g[N] ELSE Append(g[N], t)
    BY <2>1, <2>3, <2>7
  <2>9. QED BY <1>1, <2>1, <2>2, <2>6, <2>8 DEF longer
<1>6. QED BY <1>3, <1>4, <1>5

\* What is left of a list are its other members.
LEMMA WithoutMembers ==
  ASSUME NEW T, NEW list \in Seq(T), NEW members
  PROVE  ToSet(Without(list, members)) = ToSet(list) \ members
<1> DEFINE S == {l \in Seq(T) : ToSet(Without(l, members)) = ToSet(l) \ members}
<1>1. <<>> \in S
  BY EmptySeq, Members, WithoutUnfolds
<1>2. ASSUME NEW l \in Seq(T), NEW t \in T, l \in S
      PROVE  Append(l, t) \in S
  <2>1. Append(l, t) \in Seq(T) /\ Without(l, members) \in Seq(T)
    BY AppendProperties, WithoutUnfolds
  <2>2. ToSet(Append(l, t)) = ToSet(l) \cup {t}
    BY Members
  <2>3. ToSet(Append(Without(l, members), t)) = ToSet(Without(l, members)) \cup {t}
    BY <2>1, Members
  <2>4. Without(Append(l, t), members) =
          IF t \in members THEN Without(l, members) ELSE Append(Without(l, members), t)
    BY WithoutUnfolds
  <2>5. ToSet(Without(Append(l, t), members)) = ToSet(Append(l, t)) \ members
    BY <1>2, <2>2, <2>3, <2>4
  <2>6. QED BY <2>1, <2>5
<1>3. Seq(T) \subseteq S
  <2> HIDE DEF S
  <2>1. QED BY <1>1, <1>2, ByRows
<1>4. QED BY <1>3

\* Nothing, or all of it, is left.
LEMMA WithoutExtremes ==
  ASSUME NEW T, NEW list \in Seq(T), NEW members
  PROVE  /\ ToSet(list) \subseteq members => Without(list, members) = <<>>
         /\ ToSet(list) \cap members = {} => Without(list, members) = list
<1>1. ASSUME ToSet(list) \subseteq members
      PROVE  Without(list, members) = <<>>
  <2>1. Without(list, members) \in Seq(T) /\ ToSet(Without(list, members)) = {}
    BY <1>1, WithoutUnfolds, WithoutMembers
  <2>2. QED BY <2>1, Members
<1> DEFINE S == {l \in Seq(T) : ToSet(l) \cap members = {} => Without(l, members) = l}
<1>2. <<>> \in S
  BY EmptySeq, WithoutUnfolds
<1>3. ASSUME NEW l \in Seq(T), NEW t \in T, l \in S
      PROVE  Append(l, t) \in S
  <2>1. Append(l, t) \in Seq(T) /\ ToSet(Append(l, t)) = ToSet(l) \cup {t}
    BY AppendProperties, Members
  <2>2. ASSUME ToSet(Append(l, t)) \cap members = {}
        PROVE  Without(Append(l, t), members) = Append(l, t)
    <3>1. Without(Append(l, t), members) =
            IF t \in members THEN Without(l, members) ELSE Append(Without(l, members), t)
      BY WithoutUnfolds
    <3>2. ToSet(l) \cap members = {} /\ t \notin members
      BY <2>1, <2>2
    <3>3. Without(l, members) = l
      BY <1>3, <3>2
    <3>4. QED BY <3>1, <3>2, <3>3
  <2>3. QED BY <2>1, <2>2
<1>4. Seq(T) \subseteq S
  <2> HIDE DEF S
  <2>1. QED BY <1>2, <1>3, ByRows
<1>5. QED BY <1>1, <1>4

LEMMA OneMore ==
  ASSUME NEW T, NEW left \in Seq(T), NEW right \in Seq(T), NEW t \in T
  PROVE  left \o Append(right, t) = Append(left \o right, t)
<1> DEFINE both == left \o right
           one  == <<t>>
<1>1. both \in Seq(T) /\ one \in Seq(T)
  BY ConcatProperties
<1>2. Append(right, t) = right \o one /\ Append(both, t) = both \o one
  <2> HIDE DEF both
  <2>1. QED BY <1>1, AppendIsConcat
<1> HIDE DEF one
<1>3. QED BY <1>1, <1>2, ConcatAssociative

\* Leaving members out of two lists, one after the other.
LEMMA WithoutConcat ==
  ASSUME NEW T, NEW left \in Seq(T), NEW right \in Seq(T), NEW members
  PROVE  Without(left \o right, members) = Without(left, members) \o Without(right, members)
<1> DEFINE Apart(b) == Without(left \o b, members) = Without(left, members) \o Without(b, members)
           S == {b \in Seq(T) : Apart(b)}
           kept == Without(left, members)
           none == <<>>
<1>1. kept \in Seq(T) /\ none \in Seq(T) /\ Without(none, members) = none
  BY WithoutUnfolds, EmptySeq
<1>2. none \in S
  <2>1. left \o none = left /\ kept \o none = kept
    BY <1>1, ConcatEmptySeq
  <2>2. QED BY <1>1, <2>1
<1>3. ASSUME NEW b \in Seq(T), NEW t \in T, b \in S
      PROVE  Append(b, t) \in S
  <2> DEFINE rest == Without(b, members)
             both == left \o b
             all  == kept \o rest
  <2>1. rest \in Seq(T) /\ both \in Seq(T) /\ all \in Seq(T) /\ Append(b, t) \in Seq(T)
    BY <1>1, WithoutUnfolds, ConcatProperties, AppendProperties
  <2>2. left \o Append(b, t) = Append(both, t) /\ kept \o Append(rest, t) = Append(all, t)
    BY <1>1, <2>1, OneMore, SMTT(30)
  <2>3. Without(both, members) = all
    BY <1>3
  <2>4. Without(Append(b, t), members) = IF t \in members THEN rest ELSE Append(rest, t)
    BY WithoutUnfolds
  <2> HIDE DEF both
  <2>5. Without(Append(both, t), members) =
          IF t \in members THEN Without(both, members) ELSE Append(Without(both, members), t)
    BY <2>1, WithoutUnfolds, SMTT(30)
  <2> HIDE DEF all, rest, kept
  <2>6. Without(Append(both, t), members) = kept \o Without(Append(b, t), members)
    <3>1. kept \o rest = all
      BY DEF all
    <3>2. QED BY <2>2, <2>3, <2>4, <2>5, <3>1
  <2>7. QED BY <2>1, <2>2, <2>6 DEF kept
<1>4. Seq(T) \subseteq S
  <2> HIDE DEF S
  <2>1. QED BY <1>2, <1>3, ByRows DEF none
<1>5. QED BY <1>4


\* What is left of a list without repetitions has none.
LEMMA WithoutInjective ==
  ASSUME NEW T, NEW list \in Seq(T), NEW members, IsInjective(list)
  PROVE  IsInjective(Without(list, members))
<1> DEFINE S == {l \in Seq(T) : IsInjective(l) => IsInjective(Without(l, members))}
           none == <<>>
<1>1. none \in S
  <2>1. none \in Seq(T) /\ Without(none, members) = none
    BY EmptySeq, WithoutUnfolds
  <2>2. QED BY <2>1
<1>2. ASSUME NEW l \in Seq(T), NEW t \in T
      PROVE  IsInjective(Append(l, t)) <=> IsInjective(l) /\ t \notin ToSet(l)
  <2> DEFINE longer == Append(l, t)
             N == Len(l)
  <2>1. /\ longer \in Seq(T) /\ Len(longer) = N + 1
        /\ \A i \in 1..N : longer[i] = l[i]
        /\ longer[N + 1] = t
    BY AppendProperties
  <2>2. N \in Nat /\ DOMAIN l = 1..N /\ DOMAIN longer = 1..N + 1
    BY <2>1, LenProperties
  <2>3. ToSet(l) = {l[i] : i \in 1..N}
    BY Members
  <2> HIDE DEF longer, N
  <2>4. /\ \A i \in 1..N : i \in 1..N + 1 /\ i # N + 1
        /\ N + 1 \in 1..N + 1
        /\ \A i \in 1..N + 1 : i \in 1..N \/ i = N + 1
    BY <2>2
  <2>5. IsInjective(longer) <=> IsInjective(l) /\ t \notin ToSet(l)
    BY <2>1, <2>2, <2>3, <2>4, SMTT(30) DEF IsInjective
  <2>6. QED BY <2>5 DEF longer
<1>3. ASSUME NEW l \in Seq(T), NEW t \in T, l \in S
      PROVE  Append(l, t) \in S
  <2> DEFINE rest == Without(l, members)
  <2>1. rest \in Seq(T) /\ ToSet(rest) = ToSet(l) \ members /\ Append(l, t) \in Seq(T)
    BY WithoutUnfolds, WithoutMembers, AppendProperties
  <2>2. Without(Append(l, t), members) = IF t \in members THEN rest ELSE Append(rest, t)
    BY WithoutUnfolds
  <2>3. IsInjective(l) => IsInjective(rest)
    BY <1>3
  <2> HIDE DEF rest
  <2>4. IsInjective(Append(l, t)) => IsInjective(Without(Append(l, t), members))
    BY <1>2, <2>1, <2>2, <2>3
  <2>5. QED BY <2>1, <2>4
<1>4. Seq(T) \subseteq S
  <2> HIDE DEF S
  <2>1. QED BY <1>1, <1>3, ByRows DEF none
<1>5. QED BY <1>4

\* Every row that is left has its place in the list, and the rows up to that
\* place are left out or are among those left up to it.
LeftAt(list, members, n, q) ==
    /\ list[q] = Without(list, members)[n]
    /\ \A r \in 1..q : list[r] \in members \/ \E m \in 1..n : Without(list, members)[m] = list[r]

LEMMA WithoutPrefix ==
  ASSUME NEW T, NEW list \in Seq(T), NEW members, NEW n \in 1..Len(Without(list, members))
  PROVE  \E q \in 1..Len(list) : LeftAt(list, members, n, q)
<1> DEFINE Placed(l) == \A k \in 1..Len(Without(l, members)) : \E q \in 1..Len(l) : LeftAt(l, members, k, q)
           S == {l \in Seq(T) : Placed(l)}
           none == <<>>
<1>1. none \in S
  <2>1. none \in Seq(T) /\ Without(none, members) = none /\ Len(none) = 0
    BY EmptySeq, WithoutUnfolds
  <2>2. 1..0 = {}
    OBVIOUS
  <2>3. QED BY <2>1, <2>2
<1>2. ASSUME NEW l \in Seq(T), NEW t \in T, Placed(l)
      PROVE  Append(l, t) \in S
  <2> DEFINE longer == Append(l, t)
             L      == Len(l)
             rest   == Without(l, members)
             left   == Without(longer, members)
             K      == Len(rest)
  <2>1. /\ longer \in Seq(T) /\ Len(longer) = L + 1
        /\ \A i \in 1..L : longer[i] = l[i]
        /\ longer[L + 1] = t
    BY AppendProperties
  <2>2. L \in Nat /\ rest \in Seq(T) /\ K \in Nat
    BY WithoutUnfolds, LenProperties
  <2>3. left = IF t \in members THEN rest ELSE Append(rest, t)
    BY WithoutUnfolds
  <2>4. \A k \in 1..K : \E q \in 1..L : LeftAt(l, members, k, q)
    BY <1>2
  <2>5. /\ Len(Append(rest, t)) = K + 1
        /\ \A i \in 1..K : Append(rest, t)[i] = rest[i]
        /\ Append(rest, t)[K + 1] = t
    BY <2>2, AppendProperties
  <2>6. \A i \in 1..K : left[i] = rest[i]
    BY <2>3, <2>5
  <2>7. /\ \A k \in 1..K, q \in 1..L : LeftAt(l, members, k, q) <=>
             /\ l[q] = rest[k]
             /\ \A r \in 1..q : l[r] \in members \/ \E m \in 1..k : rest[m] = l[r]
        /\ \A k, q : LeftAt(longer, members, k, q) <=>
             /\ longer[q] = left[k]
             /\ \A r \in 1..q : longer[r] \in members \/ \E m \in 1..k : left[m] = longer[r]
    BY DEF LeftAt
  <2>8. ToSet(rest) = ToSet(l) \ members /\ ToSet(l) = {l[i] : i \in 1..L}
        /\ ToSet(rest) = {rest[i] : i \in 1..K}
    BY <2>2, WithoutMembers, Members
  <2> HIDE DEF longer, L, rest, left, K
  <2>9. ASSUME NEW k \in 1..K
        PROVE  \E q \in 1..L + 1 : LeftAt(longer, members, k, q)
    <3>1. PICK q \in 1..L : LeftAt(l, members, k, q)
      BY <2>4
    <3>2. q \in 1..L + 1 /\ \A r \in 1..q : r \in 1..L
      BY <2>2
    <3>3. \A m \in 1..k : m \in 1..K
      BY <2>2
    <3>4. longer[q] = left[k]
      BY <2>1, <2>6, <2>7, <3>1
    <3>5. ASSUME NEW r \in 1..q
          PROVE  longer[r] \in members \/ \E m \in 1..k : left[m] = longer[r]
      <4>1. l[r] \in members \/ \E m \in 1..k : rest[m] = l[r]
        BY <2>7, <3>1
      <4>2. longer[r] = l[r]
        BY <2>1, <3>2
      <4>3. QED BY <2>6, <3>3, <4>1, <4>2
    <3>6. LeftAt(longer, members, k, q)
      BY <2>7, <3>4, <3>5
    <3>7. QED BY <3>2, <3>6
  <2>10. ASSUME t \notin members
         PROVE  \E q \in 1..L + 1 : LeftAt(longer, members, K + 1, q)
    <3>1. left[K + 1] = t /\ longer[L + 1] = t /\ L + 1 \in 1..L + 1
      BY <2>1, <2>2, <2>3, <2>5, <2>10
    <3>2. ASSUME NEW r \in 1..L + 1
          PROVE  longer[r] \in members \/ \E m \in 1..K + 1 : left[m] = longer[r]
      <4>1. CASE r = L + 1
        <5>1. K + 1 \in 1..K + 1
          BY <2>2
        <5>2. QED BY <3>1, <4>1, <5>1
      <4>2. CASE r # L + 1
        <5>1. r \in 1..L
          BY <2>2, <4>2
        <5>2. longer[r] = l[r] /\ l[r] \in ToSet(l)
          BY <2>1, <2>8, <5>1
        <5>3. ASSUME l[r] \notin members
              PROVE  \E m \in 1..K + 1 : left[m] = l[r]
          <6>1. l[r] \in ToSet(rest)
            BY <2>8, <5>2, <5>3
          <6>2. PICK m \in 1..K : rest[m] = l[r]
            BY <2>8, <6>1
          <6>3. m \in 1..K + 1
            BY <2>2
          <6>4. QED BY <2>6, <6>2, <6>3
        <5>4. QED BY <5>2, <5>3
      <4>3. QED BY <4>1, <4>2
    <3>3. LeftAt(longer, members, K + 1, L + 1)
      BY <2>7, <3>1, <3>2
    <3>4. QED BY <3>1, <3>3
  <2>11. \A k \in 1..Len(left) : \E q \in 1..L + 1 : LeftAt(longer, members, k, q)
    <3>1. CASE t \in members
      <4>1. Len(left) = K
        BY <2>3, <3>1 DEF K
      <4>2. QED BY <2>9, <4>1
    <3>2. CASE t \notin members
      <4>1. Len(left) = K + 1
        BY <2>3, <2>5, <3>2
      <4>2. \A k \in 1..K + 1 : k \in 1..K \/ k = K + 1
        BY <2>2
      <4>3. QED BY <2>9, <2>10, <3>2, <4>1, <4>2
    <3>3. QED BY <3>1, <3>2
  <2>12. Placed(longer)
    BY <2>1, <2>11 DEF left
  <2> HIDE DEF Placed
  <2>13. QED BY <2>1, <2>12 DEF longer
<1>3. Seq(T) \subseteq S
  <2>1. \A l \in Seq(T), t \in T : l \in S => Append(l, t) \in S
    BY <1>2
  <2> HIDE DEF S
  <2>2. QED BY <1>1, <2>1, ByRows DEF none
<1>4. QED BY <1>3

LEMMA ConcatMembers ==
  ASSUME NEW T, NEW left \in Seq(T), NEW right \in Seq(T)
  PROVE  ToSet(left \o right) = ToSet(left) \cup ToSet(right)
<1> DEFINE S == {b \in Seq(T) : ToSet(left \o b) = ToSet(left) \cup ToSet(b)}
           none == <<>>
<1>1. none \in S
  <2>1. none \in Seq(T) /\ left \o none = left /\ ToSet(none) = {}
    BY EmptySeq, ConcatEmptySeq, Members
  <2>2. QED BY <2>1
<1>2. ASSUME NEW b \in Seq(T), NEW t \in T, b \in S
      PROVE  Append(b, t) \in S
  <2> DEFINE both == left \o b
  <2>1. both \in Seq(T) /\ Append(b, t) \in Seq(T) /\ left \o Append(b, t) = Append(both, t)
    BY ConcatProperties, AppendProperties, OneMore
  <2>2. ToSet(both) = ToSet(left) \cup ToSet(b)
    BY <1>2
  <2> HIDE DEF both
  <2>3. ToSet(Append(both, t)) = ToSet(both) \cup {t} /\ ToSet(Append(b, t)) = ToSet(b) \cup {t}
    BY <2>1, Members
  <2>4. QED BY <2>1, <2>2, <2>3
<1>3. Seq(T) \subseteq S
  <2> HIDE DEF S
  <2>1. QED BY <1>1, <1>2, ByRows DEF none
<1>4. QED BY <1>3

LEMMA DistinctMembers ==
  ASSUME NEW T, NEW list \in Seq(T)
  PROVE  Distinct(list) \in Seq(T) /\ ToSet(Distinct(list)) = ToSet(list)
<1> DEFINE none == <<>>
           S == {l \in Seq(T) : ToSet(Extended(none, l)) = ToSet(l)}
<1>1. none \in Seq(T) /\ ToSet(none) = {}
  BY EmptySeq, Members
<1>2. \A l \in Seq(T) : Extended(none, l) \in Seq(T)
  <2> HIDE DEF none
  <2>1. QED BY <1>1, ExtendedUnfolds
<1>3. none \in S
  <2>1. Extended(none, none) = none
    <3>1. \A s \in Seq(T) : Extended(s, <<>>) = s
      BY ExtendedUnfolds
    <3>2. QED BY <1>1, <3>1
  <2>2. QED BY <1>1, <2>1
<1>4. ASSUME NEW l \in Seq(T), NEW t \in T, l \in S
      PROVE  Append(l, t) \in S
  <2> DEFINE met == Extended(none, l)
  <2>1. Append(l, t) \in Seq(T) /\ ToSet(Append(l, t)) = ToSet(l) \cup {t}
    BY AppendProperties, Members
  <2>2. met \in Seq(T) /\ ToSet(met) = ToSet(l)
    BY <1>2, <1>4
  <2>3. Extended(none, Append(l, t)) = Meet(met, t)
    <3> HIDE DEF none
    <3>1. QED BY <1>1, ExtendedUnfolds
  <2> HIDE DEF met
  <2>4. ToSet(Meet(met, t)) = ToSet(met) \cup {t}
    <3>1. ToSet(Append(met, t)) = ToSet(met) \cup {t} /\ ToSet(met) = {met[i] : i \in 1..Len(met)}
      BY <2>2, Members
    <3>2. CASE Contains(met, t)
      <4>1. t \in ToSet(met)
        BY <3>1, <3>2 DEF Contains
      <4>2. QED BY <3>2, <4>1 DEF Meet
    <3>3. CASE ~Contains(met, t)
      BY <3>1, <3>3 DEF Meet
    <3>4. QED BY <3>2, <3>3
  <2> HIDE DEF none
  <2>5. QED BY <2>1, <2>2, <2>3, <2>4
<1>5. Seq(T) \subseteq S
  <2>1. none = <<>>
    OBVIOUS
  <2> HIDE DEF S, none
  <2>2. QED BY <1>3, <1>4, <2>1, ByRows
<1>6. QED BY <1>2, <1>5 DEF Distinct

\* The rows of a list of transactions are of those that have any.
LEMMA GatheredMembers ==
  ASSUME NEW cap, NEW list \in Seq(Having(cap))
  PROVE  ToSet(Gathered(cap, list)) = {t \in ToSet(list) : RowsOf(cap, t) # <<>>}
<1> DEFINE T == Having(cap)
           Told(l) == ToSet(Gathered(cap, l)) = {t \in ToSet(l) : RowsOf(cap, t) # <<>>}
           S == {l \in Seq(T) : Told(l)}
           none == <<>>
<1>1. none \in S
  <2>1. none \in Seq(T) /\ Gathered(cap, none) = none /\ ToSet(none) = {}
    BY EmptySeq, GatheredUnfolds, Members
  <2>2. QED BY <2>1
<1>2. ASSUME NEW t \in T
      PROVE  ToSet(RowsOf(cap, t)) = IF RowsOf(cap, t) = <<>> THEN {} ELSE {t}
  <2> DEFINE K == Cardinality({n \in DOMAIN Events[t][cap] : Belongs(cap, Events[t][cap][n])})
             rows == RowsOf(cap, t)
  <2>1. K \in Nat /\ rows \in Seq(T)
    BY RowsOfType
  <2>2. rows = [i \in 1..K |-> t]
    BY DEF RowsOf
  <2> HIDE DEF K
  <2>3. \A i \in DOMAIN rows : rows[i] = t
    BY <2>2
  <2>4. ToSet(rows) \subseteq {t}
    BY <2>3 DEF ToSet
  <2> HIDE DEF rows
  <2>5. rows = <<>> => ToSet(rows) = {}
    BY Members
  <2>6. ToSet(rows) = {} => rows = <<>>
    BY <2>1, Members
  <2>7. ToSet(rows) = IF rows = <<>> THEN {} ELSE {t}
    BY <2>4, <2>5, <2>6
  <2>8. QED BY <2>7 DEF rows
<1>3. ASSUME NEW l \in Seq(T), NEW t \in T, Told(l)
      PROVE  Append(l, t) \in S
  <2> DEFINE sofar == Gathered(cap, l)
             rows  == RowsOf(cap, t)
             longer == Append(l, t)
  <2>1. sofar \in Seq(T) /\ rows \in Seq(T) /\ longer \in Seq(T)
    BY GatheredUnfolds, RowsOfType, AppendProperties
  <2>2. Gathered(cap, longer) = sofar \o rows
    BY GatheredUnfolds
  <2>3. ToSet(longer) = ToSet(l) \cup {t}
    BY Members
  <2>4. ToSet(sofar) = {u \in ToSet(l) : RowsOf(cap, u) # <<>>}
    BY <1>3
  <2>5. ToSet(rows) = IF rows = <<>> THEN {} ELSE {t}
    BY <1>2
  <2> HIDE DEF sofar, longer
  <2>6. ToSet(sofar \o rows) = ToSet(sofar) \cup ToSet(rows)
    <3> HIDE DEF T, rows
    <3>1. QED BY <2>1, ConcatMembers
  <2>7. {u \in ToSet(l) \cup {t} : RowsOf(cap, u) # <<>>}
          = {u \in ToSet(l) : RowsOf(cap, u) # <<>>} \cup (IF rows = <<>> THEN {} ELSE {t})
    OBVIOUS
  <2> HIDE DEF rows
  <2>8. Told(longer)
    BY <2>2, <2>3, <2>4, <2>5, <2>6, <2>7
  <2> HIDE DEF Told
  <2>9. QED BY <2>1, <2>8 DEF longer
<1>4. Seq(T) \subseteq S
  <2>1. \A l \in Seq(T), t \in T : l \in S => Append(l, t) \in S
    BY <1>3
  <2> HIDE DEF S, T
  <2>2. QED BY <1>1, <2>1, ByRows DEF none
<1>5. QED BY <1>4

-----------------------------------------------------------------------------
(* What one page of a feed adds to what has been read of it.                *)

\* The first rows of a list, and a stretch after them.
LEMMA Further ==
  ASSUME NEW T, NEW list \in Seq(T), NEW a \in Nat, NEW k \in Nat
  PROVE  /\ Cut(list, 0, a) \in Seq(T) /\ Cut(list, a, a + k) \in Seq(T)
         /\ Len(Cut(list, a, a + k)) < k => a + k >= Len(list)
         /\ a >= Len(list) => Cut(list, 0, a) = list
<1> DEFINE b == a + k
           left == Cut(list, 0, a)
           right == Cut(list, a, b)
<1>1. b \in Nat /\ 0 \in Nat /\ 0 <= a /\ a <= b /\ b - a = k
  OBVIOUS
<1> HIDE DEF b
<1>2. left \in Seq(T) /\ right \in Seq(T) /\ (Len(right) < b - a => b >= Len(list))
  BY <1>1, CutProperties
<1>3. ASSUME a >= Len(list)
      PROVE  left = list
  <2>1. Len(list) \in Nat
    BY LenProperties
  <2>2. Upper(a, Len(list)) = Len(list)
    BY <1>3, <2>1 DEF Upper
  <2>3. QED BY <2>2, SubSeqFull DEF Cut
<1> HIDE DEF left, right
<1>4. QED BY <1>1, <1>2, <1>3 DEF b, left, right

\* A stretch is the list from its place on, and the first rows are the list's.
Follows(run, list, a, k) ==
    /\ Len(run) \in Nat /\ Len(run) <= k
    /\ \A q \in 1..Len(run) : a + q \in 1..Len(list) /\ run[q] = list[a + q]

First(list, m) == {list[n] : n \in 1..m}

LEMMA StretchFollows ==
  ASSUME NEW T, NEW list \in Seq(T), NEW a \in Nat, NEW k \in Nat
  PROVE  Follows(Cut(list, a, a + k), list, a, k)
<1> DEFINE L == Len(list)
           end == Upper(a + k, L)
           run == Cut(list, a, a + k)
           from == a + 1
<1>1. L \in Nat /\ \A n \in 1..L : list[n] \in T
  BY LenProperties
<1>2. end \in Nat /\ end <= a + k /\ end <= L /\ from \in Nat
  BY <1>1 DEF Upper
<1>3. run = SubSeq(list, from, end)
  BY DEF Cut
<1> HIDE DEF L, end, run
<1>4. \A n \in from..end : list[n] \in T
  BY <1>1, <1>2
<1>5. /\ Len(run) = IF from <= end THEN end - from + 1 ELSE 0
      /\ \A q \in 1..end - from + 1 : run[q] = list[from + q - 1]
  <2> HIDE DEF from
  <2>1. QED BY <1>2, <1>3, <1>4, SubSeqProperties
<1>6. Len(run) \in Nat /\ Len(run) <= k
  BY <1>2, <1>5
<1>7. ASSUME NEW q \in 1..Len(run)
      PROVE  a + q \in 1..L /\ run[q] = list[a + q]
  <2>1. q \in 1..end - from + 1 /\ from + q - 1 = a + q /\ a + q \in 1..L
    BY <1>1, <1>2, <1>5
  <2>2. QED BY <1>5, <2>1
<1>8. QED BY <1>6, <1>7 DEF L, run, Follows

LEMMA FirstMembers ==
  ASSUME NEW T, NEW list \in Seq(T), NEW m \in 0..Len(list)
  PROVE  ToSet(Cut(list, 0, m)) = First(list, m)
<1> DEFINE first == Cut(list, 0, m)
<1>1. Len(list) \in Nat /\ \A n \in 1..Len(list) : list[n] \in T
  BY LenProperties
<1>2. first = SubSeq(list, 1, m)
  <2>1. Upper(m, Len(list)) = m
    BY <1>1 DEF Upper
  <2>2. QED BY <2>1 DEF Cut
<1>3. \A n \in 1..m : list[n] \in T
  BY <1>1
<1>4. 1 \in Int /\ m \in Int /\ m - 1 + 1 = m
  BY <1>1
<1> HIDE DEF first
<1>5. /\ first \in Seq(T)
      /\ Len(first) = IF 1 <= m THEN m - 1 + 1 ELSE 0
      /\ \A i \in 1..m - 1 + 1 : first[i] = list[1 + i - 1]
  BY <1>2, <1>3, <1>4, SubSeqProperties
<1>6. Len(first) = m /\ \A i \in 1..m : first[i] = list[i]
  BY <1>1, <1>4, <1>5
<1>7. ToSet(first) = {first[i] : i \in 1..Len(first)}
  BY <1>5, Members
<1>8. QED BY <1>6, <1>7 DEF first, First

-----------------------------------------------------------------------------
(* AddressHistory: what the providers' answers are.                         *)

\* What lies behind a mark: the rows a caller who holds it has been given.
\* Mark 0, once a page has been read, is the end of the feed.
Behind(chain, i, mark) ==
    IF mark = 0 THEN ToSet(List(chain, i))
    ELSE CASE chain = Ethereum -> ToSet(Cut(List(chain, i), 0, (mark - 1) * Limit))
           [] chain = Bitcoin  -> ToSet(Cut(Confirmed(List(chain, i)), 0, mark))
           [] OTHER            -> ToSet(Cut(List(chain, i), 0, mark))

Covered(chain, i, mark, seen) == Behind(chain, i, mark) \cap Wanted(chain, i) \subseteq seen

Tx == DOMAIN Events

AnyAnswer ==
    [kind : {"rows", "lost"}, rows : Seq(Tx), next : Nat, short : BOOLEAN, partial : BOOLEAN]

\* An adapter that counts rows is not served by the tier that counts its pages in
\* units of its own.
OneUnit(chain) == chain = Ethereum => "explorer" \notin Vendors[chain]

LEMMA FeedsType ==
  ASSUME NEW c \in Chain
  PROVE  /\ c \in {Ethereum, Tron, Bitcoin, Solana}
         /\ Len(Feeds(c)) \in Nat /\ DOMAIN Feeds(c) = 1..Len(Feeds(c)) /\ 1 \in DOMAIN Feeds(c)
         /\ c = Tron => DOMAIN Feeds(c) = {1, 2}
         /\ c \in {Bitcoin, Solana} => DOMAIN Feeds(c) = {1}
         /\ \A i \in DOMAIN Feeds(c) :
              /\ List(c, i) \in Seq(Having(Feeds(c)[i]))
              /\ List(c, i) \in Seq(Tx)
              /\ Wanted(c, i) = {t \in ToSet(List(c, i)) \ (Unconfirmed \cup Void) :
                                    RowsOf(Feeds(c)[i], t) # <<>>}
<1>1. c \in {Ethereum, Tron, Bitcoin, Solana}
  BY AddressHistoryAssumption
<1>2. c = Ethereum => Feeds(c) = <<History, Tokens, Internal>>
  BY DEF Feeds, Ethereum, Tron
<1>3. c = Tron => Feeds(c) = <<History, Tokens>>
  BY DEF Feeds, Ethereum, Tron
<1>4. c \in {Bitcoin, Solana} => Feeds(c) = <<History>>
  BY DEF Feeds, Ethereum, Tron, Bitcoin, Solana
<1>5. ASSUME NEW i \in DOMAIN Feeds(c)
      PROVE  /\ List(c, i) \in Seq(Having(Feeds(c)[i]))
             /\ List(c, i) \in Seq(Tx)
             /\ Wanted(c, i) = {t \in ToSet(List(c, i)) \ (Unconfirmed \cup Void) :
                                    RowsOf(Feeds(c)[i], t) # <<>>}
  <2>1. List(c, i) \in Seq(Having(Feeds(c)[i]))
    BY AddressHistoryAssumption DEF Having
  <2>2. List(c, i) \in Seq(Tx)
    BY <2>1, SeqMonotonic DEF Having, Tx
  <2>3. ToSet(Settled(List(c, i))) = ToSet(List(c, i)) \ (Unconfirmed \cup Void)
    BY <2>2, WithoutMembers DEF Settled
  <2>4. QED BY <2>1, <2>2, <2>3 DEF Wanted
<1>6. QED
  <2>1. Len(Feeds(c)) \in Nat /\ DOMAIN Feeds(c) = 1..Len(Feeds(c)) /\ 1 \in DOMAIN Feeds(c)
    <3> DEFINE f == Feeds(c)
    <3>1. f = <<History, Tokens, Internal>> \/ f = <<History, Tokens>> \/ f = <<History>>
      BY <1>1, <1>2, <1>3, <1>4
    <3> HIDE DEF f
    <3>2. Len(f) \in {1, 2, 3} /\ DOMAIN f = 1..Len(f)
      BY <3>1
    <3>3. Len(f) \in Nat /\ 1 \in 1..Len(f)
      BY <3>2
    <3>4. QED BY <3>2, <3>3 DEF f
  <2>2. c = Tron => DOMAIN Feeds(c) = {1, 2}
    BY <1>3
  <2>3. c \in {Bitcoin, Solana} => DOMAIN Feeds(c) = {1}
    BY <1>4
  <2>4. QED BY <1>1, <1>5, <2>1, <2>2, <2>3

LEMMA BetweenType ==
  ASSUME NEW T, NEW list \in Seq(T), NEW a \in Nat, NEW k \in Nat
  PROVE  Between(list, a, k) \in Seq(T)
BY Further DEF Between

LEMMA Strides ==
  ASSUME NEW mark \in Nat
  PROVE  /\ Limit \in Nat /\ Limit > 0
         /\ (IF mark = 0 THEN 0 ELSE mark - 1) * Limit \in Nat
<1>1. Limit \in Nat /\ Limit > 0
  BY AddressHistoryAssumption
<1> DEFINE p == IF mark = 0 THEN 0 ELSE mark - 1
<1>2. p \in Nat
  OBVIOUS
<1> HIDE DEF p
<1>3. p * Limit \in Nat
  BY <1>1, <1>2
<1>4. QED BY <1>1, <1>3 DEF p

LEMMA VendorRowsType ==
  ASSUME NEW c \in Chain, NEW i \in DOMAIN Feeds(c), NEW mark \in Nat
  PROVE  VendorRows(c, i, mark) \in Seq(Tx) /\ Fingerprint(c, i, mark) \in Nat
<1> DEFINE list == List(c, i)
<1>1. list \in Seq(Tx) /\ PageHint \in Nat /\ Limit \in Nat
  BY FeedsType, AddressHistoryAssumption
<1> HIDE DEF list
<1>2. Confirmed(list) \in Seq(Tx) /\ Pending(list) \in Seq(Tx) /\ <<>> \in Seq(Tx)
  BY <1>1, WithoutUnfolds, EmptySeq DEF Confirmed, Pending
<1>3. CASE c = Ethereum
  <2> DEFINE a == (IF mark = 0 THEN 0 ELSE mark - 1) * Limit
  <2>1. a \in Nat
    BY Strides
  <2>2. VendorRows(c, i, mark) = Between(list, a, Limit)
    BY <1>3 DEF VendorRows, list, Ethereum, Bitcoin
  <2> HIDE DEF a
  <2>3. QED BY <1>1, <1>3, <2>1, <2>2, BetweenType DEF Fingerprint, Tron, Ethereum
<1>4. CASE c = Bitcoin
  <2> DEFINE all  == Confirmed(list)
             head == IF mark = 0 THEN Pending(list) ELSE <<>>
             page == Between(all, mark, PageHint)
  <2>1. VendorRows(c, i, mark) = head \o page
    BY <1>4 DEF VendorRows, list, Ethereum, Bitcoin
  <2>2. head \in Seq(Tx) /\ all \in Seq(Tx)
    BY <1>2
  <2> HIDE DEF all
  <2>3. page \in Seq(Tx)
    BY <1>1, <2>2, BetweenType
  <2> HIDE DEF head, page
  <2>4. head \o page \in Seq(Tx)
    BY <2>2, <2>3, ConcatProperties
  <2>5. QED BY <1>4, <2>1, <2>4 DEF Fingerprint, Tron, Bitcoin
<1>5. CASE c \notin {Ethereum, Bitcoin}
  <2>1. VendorRows(c, i, mark) = Between(list, mark, Limit)
    BY <1>5 DEF VendorRows, list
  <2>2. Fingerprint(c, i, mark) \in Nat
    BY <1>1 DEF Fingerprint
  <2>3. QED BY <1>1, <2>1, <2>2, BetweenType
<1>6. QED BY <1>3, <1>4, <1>5

\* A vendor's answer that does not say it is behind is the page.
LEMMA VendorAnswersAre ==
  ASSUME NEW c \in Chain, NEW i \in DOMAIN Feeds(c), NEW mark \in Nat, NEW v,
         NEW g \in VendorAnswers(v, c, i, mark)
  PROVE  /\ g \in AnyAnswer /\ g.kind = "rows" /\ ~g.short
         /\ ~g.partial => g.rows = VendorRows(c, i, mark) /\ g.next = Fingerprint(c, i, mark)
<1> DEFINE rows == VendorRows(c, i, mark)
           next == Fingerprint(c, i, mark)
           less == Front(rows)
<1>1. rows \in Seq(Tx) /\ next \in Nat
  BY VendorRowsType
<1>2. less \in Seq(Tx)
  <2>1. Len(rows) \in Nat /\ \A n \in 1..Len(rows) : rows[n] \in Tx
    BY <1>1, LenProperties
  <2>2. less = SubSeq(rows, 1, Len(rows) - 1)
    BY DEF Front
  <2> DEFINE end == Len(rows) - 1
  <2>3. end \in Int /\ \A n \in 1..end : n \in 1..Len(rows)
    BY <2>1
  <2> HIDE DEF end, rows
  <2>4. SubSeq(rows, 1, end) \in Seq(Tx)
    BY <2>1, <2>3, SubSeqProperties
  <2>5. QED BY <2>2, <2>4 DEF end
<1>3. g = FeedAnswer(less, next, FALSE, TRUE) \/ g = FeedAnswer(rows, next, FALSE, FALSE)
  BY DEF VendorAnswers
<1> HIDE DEF rows, next, less
<1>4. g \in AnyAnswer
  <2>1. CASE g = FeedAnswer(less, next, FALSE, TRUE)
    BY <1>1, <1>2, <2>1 DEF FeedAnswer, AnyAnswer
  <2>2. CASE g = FeedAnswer(rows, next, FALSE, FALSE)
    BY <1>1, <2>2 DEF FeedAnswer, AnyAnswer
  <2>3. QED BY <1>3, <2>1, <2>2
<1>5. g.kind = "rows" /\ ~g.short /\ (~g.partial => g.rows = rows /\ g.next = next)
  BY <1>3 DEF FeedAnswer
<1>6. QED BY <1>4, <1>5 DEF rows, next

\* The tier's answer for a chain whose pages have no numbers: all of the feed,
\* where nothing is said to be missing.
LEMMA FloorAnswersAre ==
  ASSUME NEW c \in Chain, c = Tron, NEW i \in DOMAIN Feeds(c), NEW mark \in Nat,
         NEW g \in FromFloor(c, i, mark)
  PROVE  /\ g \in AnyAnswer /\ g.kind = "rows" /\ ~g.partial /\ g.next = 0
         /\ ~g.short => Wanted(c, i) \subseteq ToSet(g.rows)
<1> DEFINE cap  == Feeds(c)[i]
           list == List(c, i)
           req  == [chain |-> c, cap |-> cap, page |-> IF mark = 0 THEN 1 ELSE Cursor]
           all  == SitePages * PageSize
           rows == Rows(req)
<1>1. c \notin PagesByNumber
  BY AddressHistoryAssumption DEF Ethereum, Tron
<1>2. PICK reply \in Promise(req) : g = FeedAnswer(reply.rows, 0, reply.short, FALSE)
  BY <1>1 DEF FromFloor
<1>3. req.chain = c /\ req.cap = cap /\ Listed(req) = list
  BY DEF Listed, List
<1>4. list \in Seq(Having(cap)) /\ Having(cap) \subseteq Tx /\ <<>> \in Seq(Tx)
  BY FeedsType, EmptySeq DEF Having, Tx
<1>5. all \in Nat
  BY FloorTierAssumption
<1>6. CASE mark = 0
  <2> DEFINE run == Cut(list, 0, all)
  <2>1. req.page = 1 /\ req.page # Cursor
    BY <1>6 DEF Cursor
  <2>2. 1 * SitePages * PageSize = all /\ (1 - 1) * SitePages * PageSize = 0
    BY FloorTierAssumption
  <2>3. Stretch(req) = run /\ (ReachesEnd(req) <=> all >= Len(list))
    BY <1>3, <2>1, <2>2 DEF Stretch, ReachesEnd
  <2>4. run \in Seq(Having(cap)) /\ (all >= Len(list) => run = list)
    <3> HIDE DEF list, all, cap
    <3>1. QED BY <1>4, <1>5, Further
  <2>5. rows = Gathered(cap, Distinct(run))
    BY <1>3, <2>3 DEF Rows
  <2> HIDE DEF req, run
  <2>6. /\ Distinct(run) \in Seq(Having(cap)) /\ ToSet(Distinct(run)) = ToSet(run)
    <3> HIDE DEF cap
    <3>1. QED BY <2>4, DistinctMembers
  <2>7. rows \in Seq(Having(cap)) /\ ToSet(rows) = {t \in ToSet(run) : RowsOf(cap, t) # <<>>}
    <3> DEFINE d == Distinct(run)
    <3>1. d \in Seq(Having(cap)) /\ ToSet(d) = ToSet(run) /\ rows = Gathered(cap, d)
      BY <2>5, <2>6
    <3> HIDE DEF d, cap, rows
    <3>2. QED BY <3>1, GatheredUnfolds, GatheredMembers
  <2>8. rows \in Seq(Tx)
    BY <1>4, <2>7, SeqMonotonic
  <2>9. PICK short \in BOOLEAN : reply = Reply(rows, short) /\ (~short => ReachesEnd(req))
    BY <1>1, <1>2, <1>3, <2>1 DEF Promise
  <2>10. g = FeedAnswer(rows, 0, short, FALSE)
    BY <1>2, <2>9 DEF Reply
  <2>11. ~short => Wanted(c, i) \subseteq ToSet(rows)
    <3>1. Wanted(c, i) \subseteq {t \in ToSet(list) : RowsOf(cap, t) # <<>>}
      BY FeedsType
    <3>2. QED BY <2>3, <2>4, <2>7, <2>9, <3>1
  <2> HIDE DEF rows
  <2>12. QED BY <2>8, <2>10, <2>11 DEF FeedAnswer, AnyAnswer
<1>7. CASE mark # 0
  <2>1. reply = Reply(<<>>, TRUE)
    BY <1>2, <1>7 DEF Promise
  <2>2. g = FeedAnswer(<<>>, 0, TRUE, FALSE)
    BY <1>2, <2>1 DEF Reply
  <2>3. QED BY <1>4, <2>2 DEF FeedAnswer, AnyAnswer
<1>8. QED BY <1>6, <1>7

\* Whoever answers.
LEMMA AnswersAre ==
  ASSUME NEW c \in Chain, OneUnit(c), NEW i \in DOMAIN Feeds(c), NEW mark \in Nat,
         NEW g \in Answers(c, i, mark)
  PROVE  /\ g \in AnyAnswer
         /\ c # Tron => ~g.short
         /\ g.kind # "lost" /\ ~g.short /\ ~g.partial =>
              \/ g.rows = VendorRows(c, i, mark) /\ g.next = Fingerprint(c, i, mark)
              \/ c = Tron /\ g.next = 0 /\ Wanted(c, i) \subseteq ToSet(g.rows)
<1>1. CASE g = Lost
  <2>1. <<>> \in Seq(Tx)
    BY EmptySeq
  <2>2. QED BY <1>1, <2>1 DEF Lost, AnyAnswer
<1>2. ASSUME g # Lost
      PROVE  \E v \in Vendors[c] : IF v = "explorer" THEN g \in FromFloor(c, i, mark)
                                   ELSE g \in VendorAnswers(v, c, i, mark)
  BY <1>2 DEF Answers
<1>3. ASSUME NEW v \in Vendors[c], v = "explorer", g \in FromFloor(c, i, mark)
      PROVE  /\ g \in AnyAnswer /\ c = Tron
             /\ ~g.short => c = Tron /\ g.next = 0 /\ Wanted(c, i) \subseteq ToSet(g.rows)
  <2>1. c = Tron
    BY <1>3, AddressHistoryAssumption DEF OneUnit
  <2>2. QED BY <1>3, <2>1, FloorAnswersAre
<1>4. ASSUME NEW v \in Vendors[c], g \in VendorAnswers(v, c, i, mark)
      PROVE  /\ g \in AnyAnswer /\ ~g.short
             /\ ~g.partial => g.rows = VendorRows(c, i, mark) /\ g.next = Fingerprint(c, i, mark)
  BY <1>4, VendorAnswersAre
<1>5. QED BY <1>1, <1>2, <1>3, <1>4

-----------------------------------------------------------------------------
(* What a page adds, chain by chain.                                        *)

\* What was wanted of the rows before a stretch has been seen; with the rows of
\* the stretch the same goes for those up to its end, and for the whole list
\* where the stretch is short.
LEMMA StretchRead ==
  ASSUME NEW T, NEW list \in Seq(T), NEW a \in Nat, NEW k \in Nat, NEW out, NEW wanted, NEW seen,
         wanted \cap out = {}, ToSet(Cut(list, 0, a)) \cap wanted \subseteq seen,
         NEW rows, rows = Cut(list, a, a + k)
  PROVE  /\ rows \in Seq(T)
         /\ ToSet(Cut(list, 0, a + k)) \cap wanted \subseteq seen \cup ToSet(Without(rows, out))
         /\ Len(rows) < k \/ a + k >= Len(list) =>
              ToSet(list) \cap wanted \subseteq seen \cup ToSet(Without(rows, out))
<1> DEFINE b == a + k
<1>1. /\ rows \in Seq(T)
      /\ ToSet(Cut(list, 0, b)) = ToSet(Cut(list, 0, a)) \cup ToSet(rows)
      /\ Len(rows) < k => b >= Len(list)
  <2> DEFINE first == Cut(list, 0, a)
             run   == Cut(list, a, b)
  <2>1. b \in Nat /\ a <= b /\ 0 \in Nat /\ 0 <= a
    OBVIOUS
  <2>2. run \in Seq(T) /\ (Len(run) < k => b >= Len(list))
    BY Further
  <2>3. first \in Seq(T)
    BY Further
  <2> HIDE DEF b
  <2>4. Cut(list, 0, b) = first \o run
    BY <2>1, CutAdjacent
  <2> HIDE DEF first, run
  <2>5. ToSet(first \o run) = ToSet(first) \cup ToSet(run)
    BY <2>2, <2>3, ConcatMembers
  <2>6. rows = run
    BY DEF run, b
  <2>7. ToSet(Cut(list, 0, b)) = ToSet(first) \cup ToSet(rows)
    BY <2>4, <2>5, <2>6
  <2>8. QED BY <2>2, <2>6, <2>7 DEF first
<1>2. b \in Nat
  OBVIOUS
<1> HIDE DEF b
<1>3. b >= Len(list) => Cut(list, 0, b) = list
  BY <1>2, Further
<1>4. ToSet(Without(rows, out)) = ToSet(rows) \ out
  BY <1>1, WithoutMembers
<1>5. ToSet(Cut(list, 0, b)) \cap wanted \subseteq seen \cup ToSet(Without(rows, out))
  BY <1>1, <1>4
<1>6. QED BY <1>1, <1>3, <1>5 DEF b

\* The empty stretch at the top.
LEMMA TopOfList ==
  ASSUME NEW T, NEW list \in Seq(T)
  PROVE  ToSet(Cut(list, 0, 0)) = {}
<1>1. Cut(list, 0, 0) = <<>>
  BY CutProperties
<1>2. QED BY <1>1, Members

LEMMA EthereumPage ==
  ASSUME NEW c \in Chain, c = Ethereum, NEW i \in DOMAIN Feeds(c), NEW mark \in Nat, NEW seen,
         mark # 0 => Covered(c, i, mark, seen),
         NEW rows, rows = VendorRows(c, i, mark),
         NEW page, page = IF mark = 0 THEN 1 ELSE mark
  PROVE  /\ Covered(c, i, page + 1, seen \cup ToSet(Items(c, rows)))
         /\ Len(rows) < Limit => Covered(c, i, 0, seen \cup ToSet(Items(c, rows)))
<1> DEFINE list == List(c, i)
           W    == Wanted(c, i)
           out  == Unconfirmed \cup Void
           n    == IF mark = 0 THEN 0 ELSE mark - 1
           a    == n * Limit
<1>1. list \in Seq(Tx) /\ W \cap out = {} /\ Limit \in Nat
  BY FeedsType, Strides
<1>2. a \in Nat /\ n \in Nat
  BY Strides
<1>3. page + 1 # 0 /\ (page + 1) - 1 = n + 1 /\ n = page - 1
  OBVIOUS
<1>4. (n + 1) * Limit = a + Limit
  BY <1>1, <1>2
<1>5. Items(c, rows) = Without(rows, out)
  BY DEF Items, Settled, Ethereum, Bitcoin
<1>6. rows = Cut(list, a, a + Limit)
  <2>1. VendorRows(c, i, mark) = Between(list, a, Limit)
    BY DEF VendorRows, Ethereum, Bitcoin
  <2> HIDE DEF a, list
  <2>2. QED BY <2>1 DEF Between
<1>7. \A m \in Nat \ {0} : Behind(c, i, m) = ToSet(Cut(list, 0, (m - 1) * Limit))
  BY DEF Behind, Ethereum, Bitcoin
<1>8. Behind(c, i, 0) = ToSet(list)
  BY DEF Behind
<1>9. Behind(c, i, page + 1) = ToSet(Cut(list, 0, a + Limit))
  <2>1. page + 1 \in Nat \ {0}
    OBVIOUS
  <2>2. QED BY <1>3, <1>4, <1>7, <2>1
<1>10. ToSet(Cut(list, 0, a)) \cap W \subseteq seen
  <2>1. CASE mark = 0
    <3>1. a = 0
      BY <1>1, <2>1
    <3> HIDE DEF list, a
    <3>2. QED BY <1>1, <3>1, TopOfList
  <2>2. CASE mark # 0
    <3>1. Behind(c, i, mark) = ToSet(Cut(list, 0, a))
      BY <1>7, <2>2
    <3>2. QED BY <2>2, <3>1 DEF Covered
  <2>3. QED BY <2>1, <2>2
<1> HIDE DEF list, W, out, n, a
<1>11. /\ ToSet(Cut(list, 0, a + Limit)) \cap W \subseteq seen \cup ToSet(Without(rows, out))
       /\ Len(rows) < Limit => ToSet(list) \cap W \subseteq seen \cup ToSet(Without(rows, out))
  BY <1>1, <1>2, <1>6, <1>10, StretchRead, ZenonT(60)
<1>12. QED BY <1>5, <1>8, <1>9, <1>11 DEF Covered, W

\* The chains whose mark is a number of rows.
LEMMA RowsPage ==
  ASSUME NEW c \in Chain, c \in {Tron, Solana}, NEW i \in DOMAIN Feeds(c), NEW mark \in Nat, NEW seen,
         mark # 0 => Covered(c, i, mark, seen),
         NEW rows, rows = VendorRows(c, i, mark)
  PROVE  /\ Covered(c, i, mark + Limit, seen \cup ToSet(Items(c, rows)))
         /\ Len(rows) \in Nat /\ Len(rows) <= Limit
         /\ Len(rows) < Limit \/ mark + Limit >= Len(List(c, i)) =>
              Covered(c, i, 0, seen \cup ToSet(Items(c, rows)))
<1> DEFINE list == List(c, i)
           W    == Wanted(c, i)
           out  == Unconfirmed \cup Void
           b    == mark + Limit
<1>1. list \in Seq(Tx) /\ W \cap out = {} /\ Limit \in Nat /\ Limit > 0
  BY FeedsType, Strides
<1>2. Items(c, rows) = Without(rows, out)
  BY DEF Items, Settled, Bitcoin, Tron, Solana
<1>3. rows = Cut(list, mark, b)
  BY DEF VendorRows, Between, Ethereum, Bitcoin, Tron, Solana
<1>4. \A m \in Nat \ {0} : Behind(c, i, m) = ToSet(Cut(list, 0, m))
  BY DEF Behind, Ethereum, Bitcoin, Tron, Solana
<1>5. Behind(c, i, 0) = ToSet(list)
  BY DEF Behind
<1>6. Behind(c, i, b) = ToSet(Cut(list, 0, b))
  <2>1. b \in Nat \ {0}
    BY <1>1
  <2> HIDE DEF b, list
  <2>2. QED BY <1>4, <2>1
<1>7. ToSet(Cut(list, 0, mark)) \cap W \subseteq seen
  <2>1. CASE mark = 0
    <3> HIDE DEF list
    <3>1. QED BY <1>1, <2>1, TopOfList
  <2>2. CASE mark # 0
    <3>1. Behind(c, i, mark) = ToSet(Cut(list, 0, mark))
      BY <1>4, <2>2
    <3>2. QED BY <2>2, <3>1 DEF Covered
  <2>3. QED BY <2>1, <2>2
<1> HIDE DEF list, W, out
<1>8. /\ ToSet(Cut(list, 0, mark + Limit)) \cap W \subseteq seen \cup ToSet(Without(rows, out))
      /\ Len(rows) < Limit \/ mark + Limit >= Len(list) =>
           ToSet(list) \cap W \subseteq seen \cup ToSet(Without(rows, out))
  BY <1>1, <1>3, <1>7, StretchRead
<1>9. Len(rows) \in Nat /\ Len(rows) <= Limit
  <2>1. Follows(rows, list, mark, Limit)
    BY <1>1, <1>3, StretchFollows
  <2>2. QED BY <2>1 DEF Follows
<1>10. QED BY <1>2, <1>5, <1>6, <1>8, <1>9 DEF Covered, W, list

LEMMA SolanaPage ==
  ASSUME NEW c \in Chain, c = Solana, NEW i \in DOMAIN Feeds(c), NEW mark \in Nat, NEW seen,
         mark # 0 => Covered(c, i, mark, seen),
         NEW rows, rows = VendorRows(c, i, mark),
         NEW next, next = IF Len(rows) >= Limit THEN mark + Len(rows) ELSE 0
  PROVE  Covered(c, i, next, seen \cup ToSet(Items(c, rows))) /\ next \in Nat
<1> DEFINE also == seen \cup ToSet(Items(c, rows))
           N    == Len(rows)
<1>1. /\ Covered(c, i, mark + Limit, also) /\ N \in Nat /\ N <= Limit
      /\ N < Limit => Covered(c, i, 0, also)
  BY RowsPage
<1>2. Limit \in Nat
  BY Strides
<1>3. next = IF N >= Limit THEN mark + N ELSE 0
  OBVIOUS
<1> HIDE DEF also, N
<1>4. CASE N >= Limit
  <2>1. N = Limit
    BY <1>1, <1>2, <1>4
  <2>2. QED BY <1>1, <1>3, <1>4, <2>1 DEF also
<1>5. CASE ~(N >= Limit)
  <2>1. N < Limit
    BY <1>1, <1>2, <1>5
  <2>2. QED BY <1>1, <1>3, <1>5, <2>1 DEF also
<1>6. QED BY <1>4, <1>5

\* Whichever of the two answered a feed of Tron.
LEMMA TronPage ==
  ASSUME NEW c \in Chain, OneUnit(c), c = Tron, NEW i \in DOMAIN Feeds(c), NEW mark \in Nat, NEW seen,
         mark # 0 => Covered(c, i, mark, seen),
         NEW g \in Answers(c, i, mark), g.kind # "lost", ~g.short, ~g.partial
  PROVE  Covered(c, i, g.next, seen \cup ToSet(Items(c, g.rows)))
<1> DEFINE rows == g.rows
           list == List(c, i)
           L    == Len(list)
           also == seen \cup ToSet(Items(c, rows))
<1>1. \/ rows = VendorRows(c, i, mark) /\ g.next = Fingerprint(c, i, mark)
      \/ g.next = 0 /\ Wanted(c, i) \subseteq ToSet(rows)
  BY AnswersAre
<1>2. rows \in Seq(Tx) /\ Limit \in Nat /\ L \in Nat
  <2>1. g \in AnyAnswer /\ list \in Seq(Tx)
    BY AnswersAre, FeedsType
  <2>2. L \in Nat
    BY <2>1, LenProperties
  <2>3. QED BY <2>1, <2>2, Strides DEF AnyAnswer
<1>3. CASE rows = VendorRows(c, i, mark) /\ g.next = Fingerprint(c, i, mark)
  <2>1. /\ Covered(c, i, mark + Limit, also)
        /\ mark + Limit >= L => Covered(c, i, 0, also)
    BY <1>3, RowsPage
  <2>2. g.next = IF mark + Limit < L THEN mark + Limit ELSE 0
    BY <1>3 DEF Fingerprint
  <2>3. CASE mark + Limit < L
    BY <2>1, <2>2, <2>3
  <2>4. CASE ~(mark + Limit < L)
    <3>1. mark + Limit >= L
      BY <1>2, <2>4
    <3>2. QED BY <2>1, <2>2, <2>4, <3>1
  <2>5. QED BY <2>3, <2>4
<1>4. CASE g.next = 0 /\ Wanted(c, i) \subseteq ToSet(rows)
  <2>1. Items(c, rows) = Without(rows, Unconfirmed \cup Void)
    BY DEF Items, Settled, Bitcoin, Tron
  <2>2. ToSet(Items(c, rows)) = ToSet(rows) \ (Unconfirmed \cup Void)
    <3> HIDE DEF rows
    <3>1. QED BY <1>2, <2>1, WithoutMembers
  <2>3. Wanted(c, i) \cap (Unconfirmed \cup Void) = {}
    BY FeedsType
  <2>4. QED BY <1>4, <2>2, <2>3 DEF Covered
<1>5. QED BY <1>1, <1>3, <1>4

\* In a list without repetitions a row is found where it stands.
LEMMA PositionFound ==
  ASSUME NEW T, NEW list \in Seq(T), IsInjective(list), NEW n \in 1..Len(list)
  PROVE  PositionOf(list, list[n]) = n
<1>1. DOMAIN list = 1..Len(list)
  BY LenProperties
<1>2. \A m \in DOMAIN list : list[m] = list[n] => m = n
  BY <1>1 DEF IsInjective
<1>3. PositionOf(list, list[n]) \in DOMAIN list /\ list[PositionOf(list, list[n])] = list[n]
  BY <1>1 DEF PositionOf
<1>4. QED BY <1>2, <1>3

BitcoinReads(c, i, rows, all, page) ==
    /\ all \in Seq(Tx) /\ IsInjective(all) /\ ToSet(all) = ToSet(List(c, i)) \ Unconfirmed
    /\ page \in Seq(Tx)
    /\ Confirmed(rows) = page
    /\ Settled(rows) = Without(page, Unconfirmed \cup Void)

\* What is pending stands on top of the first page and is neither kept nor
\* counted; the rest of the page is a stretch of what is confirmed.
LEMMA BitcoinRows ==
  ASSUME NEW c \in Chain, c = Bitcoin, NEW i \in DOMAIN Feeds(c), NEW mark \in Nat,
         NEW rows, rows = VendorRows(c, i, mark),
         NEW all, all = Confirmed(List(c, i)),
         NEW page, page = Cut(all, mark, mark + PageHint)
  PROVE  BitcoinReads(c, i, rows, all, page)
<1> DEFINE list == List(c, i)
           head == IF mark = 0 THEN Pending(list) ELSE <<>>
           out  == Unconfirmed \cup Void
<1>1. list \in Seq(Tx) /\ PageHint \in Nat
  BY FeedsType, AddressHistoryAssumption
<1>2. IsInjective(list)
  <2>1. i = 1
    BY FeedsType
  <2>2. QED BY <2>1, AddressHistoryAssumption
<1>3. all \in Seq(Tx) /\ IsInjective(all) /\ ToSet(all) = ToSet(list) \ Unconfirmed
  <2>1. all = Without(list, Unconfirmed)
    BY DEF Confirmed
  <2> HIDE DEF list
  <2>2. QED BY <1>1, <1>2, <2>1, WithoutUnfolds, WithoutInjective, WithoutMembers
<1>4. rows = head \o page
  <2>1. rows = head \o Between(all, mark, PageHint)
    BY DEF VendorRows, Ethereum, Bitcoin
  <2>2. QED BY <2>1 DEF Between
<1>5. head \in Seq(Tx) /\ ToSet(head) \subseteq Unconfirmed
  <2>1. CASE mark = 0
    <3>1. head = Without(list, ToSet(list) \ Unconfirmed)
      BY <2>1 DEF Pending
    <3>2. ToSet(head) = ToSet(list) \ (ToSet(list) \ Unconfirmed) /\ head \in Seq(Tx)
      <4> DEFINE members == ToSet(list) \ Unconfirmed
      <4> HIDE DEF list, head, members
      <4>1. QED BY <1>1, <3>1, WithoutUnfolds, WithoutMembers DEF members
    <3>3. QED BY <3>2
  <2>2. CASE mark # 0
    <3>1. head = <<>> /\ <<>> \in Seq(Tx)
      BY <2>2, EmptySeq
    <3>2. ToSet(<<>>) = {}
      BY <3>1, Members
    <3>3. QED BY <3>1, <3>2
  <2>3. QED BY <2>1, <2>2
<1> HIDE DEF list, head
<1>6. page \in Seq(Tx) /\ ToSet(page) \subseteq ToSet(all)
  <2>1. page \in Seq(Tx)
    BY <1>1, <1>3, Further
  <2>2. ToSet(page) = {page[n] : n \in 1..Len(page)} /\ ToSet(all) = {all[n] : n \in 1..Len(all)}
    BY <1>3, <2>1, Members
  <2>3. Follows(page, all, mark, PageHint)
    BY <1>1, <1>3, StretchFollows
  <2>4. \A q \in 1..Len(page) : mark + q \in 1..Len(all) /\ page[q] = all[mark + q]
    BY <2>3 DEF Follows
  <2>5. ASSUME NEW x \in ToSet(page)
        PROVE  x \in ToSet(all)
    <3>1. PICK n \in 1..Len(page) : x = page[n]
      BY <2>2
    <3>2. mark + n \in 1..Len(all) /\ x = all[mark + n]
      BY <2>4, <3>1
    <3>3. QED BY <2>2, <3>2
  <2>6. QED BY <2>1, <2>5
<1>7. Without(head, Unconfirmed) = <<>> /\ Without(head, out) = <<>>
  BY <1>5, WithoutExtremes
<1>8. Without(page, Unconfirmed) = page
  BY <1>3, <1>6, WithoutExtremes
<1> HIDE DEF out
<1>9. /\ Without(head \o page, Unconfirmed) = Without(head, Unconfirmed) \o Without(page, Unconfirmed)
      /\ Without(head \o page, out) = Without(head, out) \o Without(page, out)
  <2>1. \A left \in Seq(Tx), right \in Seq(Tx) :
          Without(left \o right, Unconfirmed) = Without(left, Unconfirmed) \o Without(right, Unconfirmed)
    BY WithoutConcat
  <2>2. \A left \in Seq(Tx), right \in Seq(Tx) :
          Without(left \o right, out) = Without(left, out) \o Without(right, out)
    BY WithoutConcat
  <2>3. QED BY <1>5, <1>6, <2>1, <2>2
<1>10. Without(page, out) \in Seq(Tx)
  BY <1>6, WithoutUnfolds
<1>11. /\ <<>> \o page = page
       /\ <<>> \o Without(page, out) = Without(page, out)
  <2> DEFINE kept == Without(page, out)
  <2>1. kept \in Seq(Tx)
    BY <1>10
  <2> HIDE DEF kept
  <2>2. <<>> \o page = page /\ <<>> \o kept = kept
    BY <1>6, <2>1, ConcatEmptySeq
  <2>3. QED BY <2>2 DEF kept
<1>12. Without(rows, Unconfirmed) = page /\ Without(rows, out) = Without(page, out)
  BY <1>4, <1>7, <1>8, <1>9, <1>11
<1>13. QED BY <1>3, <1>6, <1>12 DEF Confirmed, Settled, BitcoinReads, list, out

ReadTo(list, m, wanted, seen) == ToSet(Cut(list, 0, m)) \cap wanted \subseteq seen

\* A page that holds more than was asked for is cut after the last row kept,
\* and the next one starts there.
LEMMA CutPage ==
  ASSUME NEW all \in Seq(Tx), IsInjective(all), NEW mark \in Nat, NEW k \in Nat, NEW out,
         NEW page, page = Cut(all, mark, mark + k),
         NEW kept, kept = Without(page, out),
         NEW n \in Nat \ {0}, Len(kept) > n,
         NEW wanted, NEW seen, wanted \cap out = {}, ReadTo(all, mark, wanted, seen)
  PROVE  /\ PositionOf(all, kept[n]) \in Nat \ {0}
         /\ ReadTo(all, PositionOf(all, kept[n]), wanted, seen \cup ToSet(Cut(kept, 0, n)))
<1>1. page \in Seq(Tx)
  BY Further
<1>2. kept \in Seq(Tx) /\ Len(kept) \in Nat
  BY <1>1, WithoutUnfolds, LenProperties
<1>3. n \in 1..Len(kept) /\ n \in 0..Len(kept)
  BY <1>2
<1>4. PICK q \in 1..Len(page) :
        /\ page[q] = kept[n]
        /\ \A r \in 1..q : page[r] \in out \/ \E m \in 1..n : kept[m] = page[r]
  <2>1. \E q \in 1..Len(page) : LeftAt(page, out, n, q)
    BY <1>1, <1>3, WithoutPrefix
  <2>2. QED BY <2>1 DEF LeftAt
<1> DEFINE p == mark + q
<1>5. /\ Len(page) \in Nat
      /\ \A r \in 1..Len(page) : mark + r \in 1..Len(all) /\ page[r] = all[mark + r]
  <2>1. Follows(page, all, mark, k)
    BY StretchFollows
  <2>2. QED BY <2>1 DEF Follows
<1>6. p \in 1..Len(all) /\ kept[n] = all[p]
  BY <1>4, <1>5
<1>7. PositionOf(all, kept[n]) = p
  <2> HIDE DEF p
  <2>1. QED BY <1>6, PositionFound
<1>8. Len(all) \in Nat /\ p \in 0..Len(all) /\ mark \in 0..Len(all) /\ p \in Nat \ {0}
  <2>1. Len(all) \in Nat
    BY LenProperties
  <2>2. q \in Nat
    BY <1>5
  <2>3. QED BY <1>6, <2>1, <2>2
<1>9. ToSet(Cut(all, 0, mark)) = First(all, mark)
  BY <1>8, FirstMembers
<1>10. ToSet(Cut(kept, 0, n)) = First(kept, n)
  BY <1>2, <1>3, FirstMembers
<1>11. ASSUME NEW x \in 1..p, all[x] \in wanted
       PROVE  all[x] \in seen \cup {kept[m] : m \in 1..n}
  <2>1. CASE x <= mark
    <3>1. x \in 1..mark
      BY <1>8, <2>1
    <3>2. all[x] \in ToSet(Cut(all, 0, mark))
      BY <1>9, <3>1 DEF First
    <3>3. QED BY <1>11, <3>2 DEF ReadTo
  <2>2. CASE ~(x <= mark)
    <3> DEFINE r == x - mark
    <3>1. r \in 1..q /\ r \in 1..Len(page) /\ mark + r = x
      BY <1>5, <2>2
    <3>2. all[x] = page[r]
      BY <1>5, <3>1
    <3> HIDE DEF r
    <3>3. page[r] \in out \/ \E m \in 1..n : kept[m] = page[r]
      BY <1>4, <3>1
    <3>4. QED BY <1>11, <3>2, <3>3
  <2>3. QED BY <2>1, <2>2
<1> HIDE DEF p
<1>12. ToSet(Cut(all, 0, p)) = First(all, p)
  BY <1>8, FirstMembers
<1>13. ReadTo(all, p, wanted, seen \cup ToSet(Cut(kept, 0, n)))
  BY <1>10, <1>11, <1>12 DEF ReadTo, First
<1>14. QED BY <1>7, <1>8, <1>13

LEMMA BitcoinPage ==
  ASSUME NEW c \in Chain, c = Bitcoin, NEW i \in DOMAIN Feeds(c), NEW mark \in Nat, NEW seen,
         mark # 0 => Covered(c, i, mark, seen),
         NEW rows, rows = VendorRows(c, i, mark)
  PROVE  AfterBitcoin(rows) \in Nat /\ Covered(c, i, AfterBitcoin(rows), seen \cup ToSet(Items(c, rows)))
<1> DEFINE list == List(c, i)
           W    == Wanted(c, i)
           out  == Unconfirmed \cup Void
           all  == Confirmed(list)
           page == Cut(all, mark, mark + PageHint)
           kept == Settled(rows)
           items == Items(c, rows)
           next == AfterBitcoin(rows)
<1>1. /\ all \in Seq(Tx) /\ IsInjective(all) /\ ToSet(all) = ToSet(list) \ Unconfirmed
      /\ page \in Seq(Tx) /\ Confirmed(rows) = page /\ kept = Without(page, out)
  <2>1. BitcoinReads(c, i, rows, all, page)
    BY BitcoinRows
  <2>2. QED BY <2>1 DEF BitcoinReads
<1>2. W \cap out = {} /\ W \subseteq ToSet(list)
  BY FeedsType
<1>3. Limit \in Nat \ {0} /\ PageHint \in Nat \ {0}
  BY AddressHistoryAssumption
<1>4. kept \in Seq(Tx) /\ Len(kept) \in Nat
  BY <1>1, WithoutUnfolds, LenProperties
<1>5. items = Cut(kept, 0, Limit)
  BY DEF Items, Cut
<1>6. next = IF Len(kept) > Limit THEN PositionOf(all, kept[Limit])
             ELSE IF Len(page) >= PageHint THEN PositionOf(all, Last(page)) ELSE 0
  <2>1. all = Confirmed(List(Bitcoin, 1))
    BY FeedsType
  <2> HIDE DEF all, page, kept
  <2>2. QED BY <1>1, <2>1 DEF AfterBitcoin, kept
<1>7. \A m \in Nat \ {0} : Behind(c, i, m) = ToSet(Cut(all, 0, m))
  BY DEF Behind, Ethereum, Bitcoin
<1>8. Behind(c, i, 0) = ToSet(list)
  BY DEF Behind
<1>9. ToSet(Cut(all, 0, mark)) \cap W \subseteq seen
  <2>1. CASE mark = 0
    <3> HIDE DEF all
    <3>1. QED BY <1>1, <2>1, TopOfList
  <2>2. CASE mark # 0
    <3>1. Behind(c, i, mark) = ToSet(Cut(all, 0, mark))
      BY <1>7, <2>2
    <3>2. QED BY <2>2, <3>1 DEF Covered
  <2>3. QED BY <2>1, <2>2
<1>10. page = Cut(all, mark, mark + PageHint)
  OBVIOUS
<1> HIDE DEF list, W, all, page, kept, items, next, out
<1>11. ASSUME NEW m \in Nat \ {0}, next = m, ToSet(Cut(all, 0, m)) \cap W \subseteq seen \cup ToSet(items)
       PROVE  next \in Nat /\ Covered(c, i, next, seen \cup ToSet(items))
  BY <1>7, <1>11 DEF Covered, W
<1>12. CASE Len(kept) > Limit
  <2> DEFINE m == PositionOf(all, kept[Limit])
  <2>1. m \in Nat \ {0} /\ ReadTo(all, m, W, seen \cup ToSet(Cut(kept, 0, Limit)))
    <3>1. ReadTo(all, mark, W, seen)
      BY <1>9 DEF ReadTo
    <3>2. QED BY <1>1, <1>2, <1>3, <1>10, <1>12, <3>1, CutPage
  <2>2. next = m
    BY <1>6, <1>12
  <2>3. ToSet(Cut(all, 0, m)) \cap W \subseteq seen \cup ToSet(items)
    BY <1>5, <2>1 DEF ReadTo
  <2> HIDE DEF m
  <2>4. QED BY <1>11, <2>1, <2>2, <2>3 DEF items, next
<1>13. CASE ~(Len(kept) > Limit)
  <2>1. items = kept
    BY <1>3, <1>4, <1>5, <1>13, Further
  <2>2. /\ ToSet(Cut(all, 0, mark + PageHint)) \cap W \subseteq seen \cup ToSet(items)
        /\ Len(page) < PageHint => ToSet(all) \cap W \subseteq seen \cup ToSet(items)
    <3>1. all \in Seq(Tx) /\ items = Without(page, out) /\ W \cap out = {}
      BY <1>1, <1>2, <2>1
    <3>2. PageHint \in Nat
      BY <1>3
    <3>3. QED BY <1>9, <1>10, <3>1, <3>2, StretchRead
  <2>3. /\ Len(page) \in Nat /\ Len(page) <= PageHint
        /\ \A q \in 1..Len(page) : mark + q \in 1..Len(all) /\ page[q] = all[mark + q]
    <3>1. Follows(page, all, mark, PageHint)
      BY <1>1, <1>3, <1>10, StretchFollows
    <3>2. QED BY <3>1 DEF Follows
  <2>4. CASE Len(page) >= PageHint
    <3> DEFINE m == mark + PageHint
    <3>1. Len(page) = PageHint /\ m \in Nat \ {0} /\ PageHint \in 1..Len(page)
      BY <1>3, <2>3, <2>4
    <3>2. m \in 1..Len(all) /\ Last(page) = all[m]
      BY <2>3, <3>1 DEF Last
    <3>3. next = PositionOf(all, all[m])
      BY <1>6, <1>13, <2>4, <3>2
    <3>4. ToSet(Cut(all, 0, m)) \cap W \subseteq seen \cup ToSet(items)
      BY <2>2
    <3> HIDE DEF m
    <3>5. next = m
      BY <1>1, <3>2, <3>3, PositionFound
    <3>6. QED BY <1>11, <3>1, <3>4, <3>5 DEF items, next
  <2>5. CASE ~(Len(page) >= PageHint)
    <3>1. next = 0 /\ Len(page) < PageHint
      BY <1>3, <1>6, <1>13, <2>3, <2>5
    <3>2. W \subseteq ToSet(all)
      <4>1. W \cap Unconfirmed = {}
        BY <1>2 DEF out
      <4>2. QED BY <1>1, <1>2, <4>1
    <3>3. W \subseteq seen \cup ToSet(items)
      BY <2>2, <3>1, <3>2
    <3>4. next \in Nat /\ Covered(c, i, next, seen \cup ToSet(items))
      BY <1>8, <3>1, <3>3 DEF Covered, W
    <3>5. QED BY <3>4 DEF items, next
  <2>6. QED BY <2>4, <2>5
<1>14. QED BY <1>12, <1>13

-----------------------------------------------------------------------------
(* Where the next page starts.                                              *)

Marks(c)   == [DOMAIN Feeds(c) -> Nat]
InStep(c, cursor) == c = Ethereum => \A i \in DOMAIN Feeds(c) : cursor[i] = cursor[1]

\* The answers in hand were given for the marks the page was asked at.
Taken(c, cursor, got) ==
    /\ got \in Seq(AnyAnswer) /\ Len(got) <= Len(Feeds(c))
    /\ \A j \in DOMAIN got : got[j] \in Answers(c, j, cursor[j])

\* Nothing is missing from them that they say is missing.
Whole(c, got) ==
    /\ \A j \in DOMAIN got : got[j].kind # "lost" /\ ~got[j].partial
    /\ ~PageTruncated(c, got)

AllBehind(c, cursor, seen) ==
    \A i \in DOMAIN Feeds(c) : cursor[i] # 0 => Covered(c, i, cursor[i], seen[i])

LEMMA AllTaken ==
  ASSUME NEW c \in Chain, NEW cursor \in Marks(c), NEW got,
         Taken(c, cursor, got), Len(got) = Len(Feeds(c))
  PROVE  /\ DOMAIN got = DOMAIN Feeds(c)
         /\ \A i \in DOMAIN Feeds(c) :
              /\ cursor[i] \in Nat /\ got[i] \in AnyAnswer /\ got[i].rows \in Seq(Tx)
              /\ got[i].next \in Nat /\ Len(got[i].rows) \in Nat
              /\ got[i] \in Answers(c, i, cursor[i])
<1>1. DOMAIN got = 1..Len(got) /\ got \in [1..Len(got) -> AnyAnswer]
  BY LenProperties DEF Taken
<1>2. DOMAIN Feeds(c) = 1..Len(Feeds(c))
  BY FeedsType
<1>3. DOMAIN got = DOMAIN Feeds(c)
  BY <1>1, <1>2
<1>4. ASSUME NEW i \in DOMAIN Feeds(c)
      PROVE  /\ cursor[i] \in Nat /\ got[i] \in AnyAnswer /\ got[i].rows \in Seq(Tx)
             /\ got[i].next \in Nat /\ Len(got[i].rows) \in Nat
             /\ got[i] \in Answers(c, i, cursor[i])
  <2>1. got[i] \in AnyAnswer /\ got[i] \in Answers(c, i, cursor[i]) /\ cursor[i] \in Nat
    BY <1>1, <1>3 DEF Taken, Marks
  <2> DEFINE g == got[i]
  <2> HIDE DEF g
  <2>2. g \in AnyAnswer
    BY <2>1 DEF g
  <2>3. g.rows \in Seq(Tx) /\ g.next \in Nat
    BY <2>2 DEF AnyAnswer
  <2>4. Len(g.rows) \in Nat
    BY <2>3, LenProperties
  <2>5. QED BY <2>1, <2>3, <2>4 DEF g
<1>5. QED BY <1>3, <1>4

\* Every feed has been read up to where the next page starts.
ReadUpTo(c, next, seen, got) ==
    /\ next \in Marks(c) /\ InStep(c, next)
    /\ \A i \in DOMAIN Feeds(c) :
         Covered(c, i, next[i], seen[i] \cup ToSet(Items(c, got[i].rows)))

LEMMA EthereumGoesOn ==
  ASSUME NEW c \in Chain, OneUnit(c), c = Ethereum, NEW cursor \in Marks(c), NEW got, NEW seen,
         Taken(c, cursor, got), Len(got) = Len(Feeds(c)), Whole(c, got),
         InStep(c, cursor), AllBehind(c, cursor, seen)
  PROVE  ReadUpTo(c, NextCursor(c, cursor, got), seen, got)
<1> DEFINE next == NextCursor(c, cursor, got)
           page == IF cursor[1] = 0 THEN 1 ELSE cursor[1]
           full == \E i \in DOMAIN got : Len(got[i].rows) >= Limit
           one  == IF full THEN page + 1 ELSE 0
           also(i) == seen[i] \cup ToSet(Items(c, got[i].rows))
<1>1. /\ DOMAIN got = DOMAIN Feeds(c) /\ 1 \in DOMAIN Feeds(c)
      /\ \A i \in DOMAIN Feeds(c) :
           /\ cursor[i] \in Nat /\ Len(got[i].rows) \in Nat
           /\ got[i] \in Answers(c, i, cursor[i])
  BY AllTaken, FeedsType
<1>2. page \in Nat /\ one \in Nat /\ Limit \in Nat
  BY <1>1, Strides
<1>3. next = [i \in DOMAIN Feeds(c) |-> one]
  BY <1>1 DEF NextCursor, Ethereum, Tron, Bitcoin, Solana
<1>4. ASSUME NEW i \in DOMAIN Feeds(c)
      PROVE  /\ Covered(c, i, page + 1, also(i))
             /\ Len(got[i].rows) < Limit => Covered(c, i, 0, also(i))
  <2>1. cursor[i] # 0 => Covered(c, i, cursor[i], seen[i])
    BY DEF AllBehind
  <2>2. got[i].kind # "lost" /\ ~got[i].partial /\ ~got[i].short
    BY <1>1, AnswersAre DEF Whole, Ethereum, Tron
  <2>3. got[i].rows = VendorRows(c, i, cursor[i])
    BY <1>1, <2>2, AnswersAre DEF Ethereum, Tron
  <2>4. page = IF cursor[i] = 0 THEN 1 ELSE cursor[i]
    BY <1>1 DEF InStep
  <2> DEFINE m == cursor[i]
             rows == got[i].rows
             past == seen[i]
  <2>5. m \in Nat /\ (m # 0 => Covered(c, i, m, past)) /\ rows = VendorRows(c, i, m)
    BY <1>1, <2>1, <2>3
  <2>6. page = IF m = 0 THEN 1 ELSE m
    BY <2>4
  <2> HIDE DEF m, rows, past, page
  <2>7. /\ Covered(c, i, page + 1, past \cup ToSet(Items(c, rows)))
        /\ Len(rows) < Limit => Covered(c, i, 0, past \cup ToSet(Items(c, rows)))
    BY <2>5, <2>6, EthereumPage
  <2>8. QED BY <2>7 DEF past, rows
<1>5. ASSUME NEW i \in DOMAIN Feeds(c)
      PROVE  Covered(c, i, one, also(i))
  <2>1. CASE full
    <3>1. one = page + 1
      BY <2>1
    <3> HIDE DEF one, page, also
    <3>2. QED BY <1>4, <3>1
  <2>2. CASE ~full
    <3>1. one = 0 /\ Len(got[i].rows) < Limit
      BY <1>1, <1>2, <2>2
    <3> HIDE DEF one, page, also
    <3>2. QED BY <1>4, <3>1
  <2>3. QED BY <2>1, <2>2
<1> HIDE DEF one, next
<1>6. next \in Marks(c) /\ InStep(c, next) /\ \A i \in DOMAIN Feeds(c) : next[i] = one
  BY <1>1, <1>2, <1>3 DEF Marks, InStep
<1>7. QED BY <1>5, <1>6 DEF ReadUpTo, next

LEMMA TronGoesOn ==
  ASSUME NEW c \in Chain, OneUnit(c), c = Tron, NEW cursor \in Marks(c), NEW got, NEW seen,
         Taken(c, cursor, got), Len(got) = Len(Feeds(c)), Whole(c, got), AllBehind(c, cursor, seen)
  PROVE  ReadUpTo(c, NextCursor(c, cursor, got), seen, got)
<1> DEFINE next == NextCursor(c, cursor, got)
           x == got[1].next
           y == got[2].next
<1>1. DOMAIN Feeds(c) = {1, 2} /\ DOMAIN got = {1, 2}
  BY AllTaken, FeedsType
<1>2. ASSUME NEW i \in {1, 2}
      PROVE  got[i].next \in Nat /\ Covered(c, i, got[i].next, seen[i] \cup ToSet(Items(c, got[i].rows)))
  <2> DEFINE m == cursor[i]
             g == got[i]
             past == seen[i]
  <2>1. /\ m \in Nat /\ g \in Answers(c, i, m) /\ g.next \in Nat
        /\ m # 0 => Covered(c, i, m, past)
    BY <1>1, AllTaken DEF AllBehind
  <2>2. g.kind # "lost" /\ ~g.partial /\ ~g.short
    BY <1>1 DEF Whole, PageTruncated
  <2> HIDE DEF m, g, past
  <2>3. i \in DOMAIN Feeds(c)
    BY <1>1
  <2>4. Covered(c, i, g.next, past \cup ToSet(Items(c, g.rows)))
    BY <2>1, <2>2, <2>3, TronPage
  <2>5. QED BY <2>1, <2>4 DEF g, past
<1>3. got[2].kind # "lost"
  BY <1>1 DEF Whole
<1>4. next = <<x, y>>
  BY <1>3 DEF NextCursor, JoinCursor, Ethereum, Tron, Bitcoin, Solana
<1>5. x \in Nat /\ y \in Nat
  BY <1>2
<1> HIDE DEF next
<1>6. next[1] = got[1].next /\ next[2] = got[2].next
  BY <1>4
<1> HIDE DEF x, y
<1>7. next \in [{1, 2} -> Nat]
  BY <1>4, <1>5
<1>8. next \in Marks(c) /\ InStep(c, next)
  BY <1>1, <1>7 DEF Marks, InStep, Ethereum, Tron
<1>9. ASSUME NEW i \in {1, 2}
      PROVE  Covered(c, i, next[i], seen[i] \cup ToSet(Items(c, got[i].rows)))
  BY <1>2, <1>6
<1>10. QED BY <1>1, <1>8, <1>9 DEF ReadUpTo, next

\* The chains with one feed.
LEMMA OneFeedGoesOn ==
  ASSUME NEW c \in Chain, OneUnit(c), c \in {Bitcoin, Solana}, NEW cursor \in Marks(c), NEW got, NEW seen,
         Taken(c, cursor, got), Len(got) = Len(Feeds(c)), Whole(c, got), AllBehind(c, cursor, seen)
  PROVE  ReadUpTo(c, NextCursor(c, cursor, got), seen, got)
<1> DEFINE next == NextCursor(c, cursor, got)
           m    == cursor[1]
           g    == got[1]
           rows == g.rows
           past == seen[1]
           also == past \cup ToSet(Items(c, rows))
           x    == IF c = Bitcoin THEN AfterBitcoin(rows)
                   ELSE IF Len(rows) >= Limit THEN m + Len(rows) ELSE 0
<1>1. DOMAIN Feeds(c) = {1} /\ DOMAIN got = {1} /\ 1 \in DOMAIN Feeds(c)
  BY AllTaken, FeedsType
<1>2. /\ m \in Nat /\ g \in Answers(c, 1, m)
      /\ m # 0 => Covered(c, 1, m, past)
  BY <1>1, AllTaken DEF AllBehind
<1>3. c # Tron
  BY DEF Bitcoin, Tron, Solana
<1>4. g.kind # "lost" /\ ~g.partial /\ ~g.short
  BY <1>1, <1>2, <1>3, AnswersAre DEF Whole
<1>5. rows = VendorRows(c, 1, m)
  BY <1>1, <1>2, <1>3, <1>4, AnswersAre
<1>6. next = <<x>>
  <2>1. CASE c = Bitcoin
    BY <2>1 DEF NextCursor, Ethereum, Tron, Bitcoin, Solana
  <2>2. CASE c = Solana
    <3>1. (\E i \in DOMAIN got : Len(got[i].rows) >= Limit) <=> Len(rows) >= Limit
      BY <1>1
    <3>2. QED BY <2>2, <3>1 DEF NextCursor, Ethereum, Tron, Bitcoin, Solana
  <2>3. QED BY <2>1, <2>2
<1> HIDE DEF next, m, g, rows, past
<1>7. x \in Nat /\ Covered(c, 1, x, also)
  <2>1. CASE c = Bitcoin
    BY <1>1, <1>2, <1>5, <2>1, BitcoinPage
  <2>2. CASE c = Solana
    <3>1. x = IF Len(rows) >= Limit THEN m + Len(rows) ELSE 0
      BY <2>2 DEF Bitcoin, Solana
    <3> HIDE DEF x
    <3>2. QED BY <1>1, <1>2, <1>5, <2>2, <3>1, SolanaPage
  <2>3. QED BY <2>1, <2>2
<1> HIDE DEF x, also
<1>8. next \in [{1} -> Nat] /\ next[1] = x
  BY <1>6, <1>7
<1>9. next \in Marks(c) /\ InStep(c, next)
  BY <1>1, <1>8 DEF Marks, InStep, Ethereum, Bitcoin, Solana
<1>10. Covered(c, 1, next[1], seen[1] \cup ToSet(Items(c, got[1].rows)))
  BY <1>7, <1>8 DEF also, past, rows, g
<1>11. QED BY <1>1, <1>9, <1>10 DEF ReadUpTo, next

-----------------------------------------------------------------------------
(* The invariant of a reading.                                              *)

Made(pc, c, cursor, got, seen, flagged, partial) ==
    [pc |-> pc, chain |-> c, cursor |-> cursor, got |-> got, seen |-> seen,
     flagged |-> flagged, partial |-> partial]

\* While nothing is marked, what lies behind the cursor has been seen, the
\* answers in hand are whole pages from there, and a reading that is over has
\* seen everything.
Sound(pc, c, cursor, got, seen) ==
    /\ cursor \in Marks(c) /\ InStep(c, cursor)
    /\ Taken(c, cursor, got)
    /\ \A j \in DOMAIN got : ~got[j].partial
    /\ pc \in {"feeds", "more"} => AllBehind(c, cursor, seen)
    /\ pc = "read" => \A i \in DOMAIN Feeds(c) : Wanted(c, i) \subseteq seen[i]

Unmarked(c, flagged, partial) == OneUnit(c) /\ ~flagged /\ ~partial

ReadingOf(r, c) ==
    /\ r = Made(r.pc, c, r.cursor, r.got, r.seen, r.flagged, r.partial)
    /\ r.flagged \in BOOLEAN /\ r.partial \in BOOLEAN
    /\ Unmarked(c, r.flagged, r.partial) => Sound(r.pc, c, r.cursor, r.got, r.seen)

HistoryInv == reading = NotReading \/ \E c \in Chain : ReadingOf(reading, c)

LEMMA MadeIs ==
  ASSUME NEW c, NEW pc, NEW cursor, NEW got, NEW seen, NEW flagged \in BOOLEAN, NEW partial \in BOOLEAN,
         Unmarked(c, flagged, partial) => Sound(pc, c, cursor, got, seen),
         NEW r, r = Made(pc, c, cursor, got, seen, flagged, partial)
  PROVE  ReadingOf(r, c)
<1>1. /\ r.pc = pc /\ r.cursor = cursor /\ r.got = got /\ r.seen = seen
      /\ r.flagged = flagged /\ r.partial = partial
  BY DEF Made
<1>2. QED BY <1>1 DEF ReadingOf

\* The ways a step changes a reading.
Stopped(r, pc, flagged) == [r EXCEPT !.pc = pc, !.flagged = flagged]
Received(r, got, partial) == [r EXCEPT !.got = got, !.partial = partial]
TurnedOver(r, pc, cursor, got, seen, flagged) ==
    [r EXCEPT !.pc = pc, !.cursor = cursor, !.got = got, !.seen = seen, !.flagged = flagged]

LEMMA StoppedMade ==
  ASSUME NEW pc, NEW c, NEW cursor, NEW got, NEW seen, NEW flagged, NEW partial,
         NEW r, r = Made(pc, c, cursor, got, seen, flagged, partial),
         NEW pc2, NEW flagged2
  PROVE  Stopped(r, pc2, flagged2) = Made(pc2, c, cursor, got, seen, flagged2, partial)
<1> DEFINE S == [pc : {pc, pc2}, chain : {c}, cursor : {cursor}, got : {got},
                 seen : {seen}, flagged : {flagged, flagged2}, partial : {partial}]
           q == Stopped(r, pc2, flagged2)
<1>1. r \in S
  BY DEF Made
<1>2. q \in S
  BY <1>1 DEF Stopped
<1>3. /\ q.pc = pc2 /\ q.chain = c /\ q.cursor = cursor /\ q.got = got
      /\ q.seen = seen /\ q.flagged = flagged2 /\ q.partial = partial
  BY <1>1 DEF Made, Stopped
<1> HIDE DEF q
<1>4. q = [pc |-> q.pc, chain |-> q.chain, cursor |-> q.cursor, got |-> q.got, seen |-> q.seen,
           flagged |-> q.flagged, partial |-> q.partial]
  BY <1>2
<1>5. QED BY <1>3, <1>4 DEF Made, q

LEMMA ReceivedMade ==
  ASSUME NEW pc, NEW c, NEW cursor, NEW got, NEW seen, NEW flagged, NEW partial,
         NEW r, r = Made(pc, c, cursor, got, seen, flagged, partial),
         NEW got2, NEW partial2
  PROVE  Received(r, got2, partial2) = Made(pc, c, cursor, got2, seen, flagged, partial2)
<1> DEFINE S == [pc : {pc}, chain : {c}, cursor : {cursor}, got : {got, got2},
                 seen : {seen}, flagged : {flagged}, partial : {partial, partial2}]
           q == Received(r, got2, partial2)
<1>1. r \in S
  BY DEF Made
<1>2. q \in S
  BY <1>1 DEF Received
<1>3. /\ q.pc = pc /\ q.chain = c /\ q.cursor = cursor /\ q.got = got2
      /\ q.seen = seen /\ q.flagged = flagged /\ q.partial = partial2
  BY <1>1 DEF Made, Received
<1> HIDE DEF q
<1>4. q = [pc |-> q.pc, chain |-> q.chain, cursor |-> q.cursor, got |-> q.got, seen |-> q.seen,
           flagged |-> q.flagged, partial |-> q.partial]
  BY <1>2
<1>5. QED BY <1>3, <1>4 DEF Made, q

LEMMA TurnedOverMade ==
  ASSUME NEW pc, NEW c, NEW cursor, NEW got, NEW seen, NEW flagged, NEW partial,
         NEW r, r = Made(pc, c, cursor, got, seen, flagged, partial),
         NEW pc2, NEW cursor2, NEW got2, NEW seen2, NEW flagged2
  PROVE  TurnedOver(r, pc2, cursor2, got2, seen2, flagged2) = Made(pc2, c, cursor2, got2, seen2, flagged2, partial)
<1> DEFINE S == [pc : {pc, pc2}, chain : {c}, cursor : {cursor, cursor2}, got : {got, got2},
                 seen : {seen, seen2}, flagged : {flagged, flagged2}, partial : {partial}]
           q == TurnedOver(r, pc2, cursor2, got2, seen2, flagged2)
<1>1. r \in S
  BY DEF Made
<1>2. q \in S
  BY <1>1 DEF TurnedOver
<1>3. /\ q.pc = pc2 /\ q.chain = c /\ q.cursor = cursor2 /\ q.got = got2
      /\ q.seen = seen2 /\ q.flagged = flagged2 /\ q.partial = partial
  BY <1>1 DEF Made, TurnedOver
<1> HIDE DEF q
<1>4. q = [pc |-> q.pc, chain |-> q.chain, cursor |-> q.cursor, got |-> q.got, seen |-> q.seen,
           flagged |-> q.flagged, partial |-> q.partial]
  BY <1>2
<1>5. QED BY <1>3, <1>4 DEF Made, q

LEMMA NothingTaken ==
  ASSUME NEW c \in Chain, NEW cursor
  PROVE  Taken(c, cursor, <<>>) /\ \A j \in DOMAIN <<>> : ~(<<>>[j].partial)
<1>1. <<>> \in Seq(AnyAnswer) /\ Len(<<>>) = 0 /\ DOMAIN <<>> = {}
  BY EmptySeq
<1>2. Len(Feeds(c)) \in Nat
  BY FeedsType
<1>3. QED BY <1>1, <1>2 DEF Taken

LEMMA OpenReads ==
  ASSUME NEW c \in Chain, Open(c)
  PROVE  ReadingOf(reading', c)
<1> DEFINE cursor == NoCursor(c)
           seen   == [i \in DOMAIN Feeds(c) |-> {}]
           none   == <<>>
<1>1. reading' = Made("feeds", c, cursor, none, seen, FALSE, FALSE)
  BY DEF Open, Made
<1>2. cursor \in Marks(c) /\ InStep(c, cursor) /\ AllBehind(c, cursor, seen)
  <2>1. 1 \in DOMAIN Feeds(c)
    BY FeedsType
  <2>2. QED BY <2>1 DEF NoCursor, Marks, InStep, AllBehind
<1>3. Taken(c, cursor, none) /\ \A j \in DOMAIN none : ~none[j].partial
  BY NothingTaken
<1> HIDE DEF cursor, seen, none
<1>4. Sound("feeds", c, cursor, none, seen)
  BY <1>2, <1>3 DEF Sound
<1>5. QED BY <1>1, <1>4, MadeIs

\* A step that only ends or resumes the reading.
LEMMA OnlyPcReads ==
  ASSUME NEW c \in Chain, ReadingOf(reading, c), NEW pc,
         pc = "failed" \/ (pc = "feeds" /\ reading.pc = "more"),
         reading' = [reading EXCEPT !.pc = pc]
  PROVE  ReadingOf(reading', c)
<1> DEFINE cursor == reading.cursor
           got    == reading.got
           seen   == reading.seen
           flagged == reading.flagged
           partial == reading.partial
<1>1. /\ reading = Made(reading.pc, c, cursor, got, seen, flagged, partial)
      /\ flagged \in BOOLEAN /\ partial \in BOOLEAN
      /\ Unmarked(c, flagged, partial) => Sound(reading.pc, c, cursor, got, seen)
  BY DEF ReadingOf
<1> HIDE DEF cursor, got, seen, flagged, partial
<1>2. reading' = Made(pc, c, cursor, got, seen, flagged, partial)
  BY <1>1 DEF Made
<1>3. Sound(reading.pc, c, cursor, got, seen) => Sound(pc, c, cursor, got, seen)
  BY DEF Sound
<1>4. QED BY <1>1, <1>2, <1>3, MadeIs

LEMMA StopMarkedReads ==
  ASSUME NEW c \in Chain, ReadingOf(reading, c), StopMarked
  PROVE  ReadingOf(reading', c)
<1> DEFINE cursor == reading.cursor
           got    == reading.got
           seen   == reading.seen
           partial == reading.partial
           flagged == reading.flagged
           pc      == reading.pc
           yes     == TRUE
<1>1. /\ reading = Made(pc, c, cursor, got, seen, flagged, partial)
      /\ partial \in BOOLEAN
  BY DEF ReadingOf
<1>2. reading' = Stopped(reading, "read", yes)
  BY DEF StopMarked, Stopped
<1> HIDE DEF cursor, got, seen, partial, flagged, pc, yes
<1>3. reading' = Made("read", c, cursor, got, seen, yes, partial)
  BY <1>1, <1>2, StoppedMade
<1>4. yes \in BOOLEAN /\ yes
  BY DEF yes
<1>5. QED BY <1>1, <1>3, <1>4, MadeIs DEF Unmarked

\* One more answer in hand.
LEMMA TakenGrows ==
  ASSUME NEW c \in Chain, OneUnit(c), NEW cursor \in Marks(c), NEW got, Taken(c, cursor, got),
         Len(got) < Len(Feeds(c)), NEW g \in Answers(c, Len(got) + 1, cursor[Len(got) + 1]),
         \A j \in DOMAIN got : ~got[j].partial, ~g.partial
  PROVE  /\ Taken(c, cursor, Append(got, g))
         /\ \A j \in DOMAIN Append(got, g) : ~Append(got, g)[j].partial
<1> DEFINE N == Len(got)
           longer == Append(got, g)
<1>1. /\ got \in Seq(AnyAnswer) /\ N \in Nat /\ DOMAIN got = 1..N
      /\ \A j \in 1..N : got[j] \in Answers(c, j, cursor[j])
  BY LenProperties DEF Taken
<1>2. Len(Feeds(c)) \in Nat /\ DOMAIN Feeds(c) = 1..Len(Feeds(c))
  BY FeedsType
<1>3. N + 1 \in DOMAIN Feeds(c) /\ cursor[N + 1] \in Nat
  <2>1. N + 1 \in 1..Len(Feeds(c))
    BY <1>1, <1>2
  <2>2. QED BY <1>2, <2>1 DEF Marks
<1>4. g \in AnyAnswer
  BY <1>3, AnswersAre
<1>5. /\ longer \in Seq(AnyAnswer) /\ Len(longer) = N + 1
      /\ \A j \in 1..N : longer[j] = got[j]
      /\ longer[N + 1] = g
  BY <1>1, <1>4, AppendProperties
<1>6. DOMAIN longer = 1..N + 1
  BY <1>5, LenProperties
<1>7. \A j \in 1..N + 1 : j \in 1..N \/ j = N + 1
  BY <1>1
<1>8. g \in Answers(c, N + 1, cursor[N + 1])
  OBVIOUS
<1> HIDE DEF longer
<1>9. Len(longer) <= Len(Feeds(c))
  BY <1>1, <1>2, <1>5
<1> HIDE DEF N
<1>10. \A j \in DOMAIN longer : longer[j] \in Answers(c, j, cursor[j]) /\ ~longer[j].partial
  BY <1>1, <1>5, <1>6, <1>7, <1>8
<1>11. QED BY <1>5, <1>9, <1>10 DEF Taken, longer

LEMMA ReadFeedReads ==
  ASSUME NEW c \in Chain, ReadingOf(reading, c), ReadFeed
  PROVE  ReadingOf(reading', c)
<1>1. CASE reading' = [reading EXCEPT !.pc = "failed"]
  BY <1>1, OnlyPcReads
<1> DEFINE cursor == reading.cursor
           got    == reading.got
           seen   == reading.seen
           flagged == reading.flagged
           partial == reading.partial
           i == Len(got) + 1
<1>2. /\ reading = Made(reading.pc, c, cursor, got, seen, flagged, partial)
      /\ flagged \in BOOLEAN /\ partial \in BOOLEAN
      /\ Unmarked(c, flagged, partial) => Sound(reading.pc, c, cursor, got, seen)
  BY DEF ReadingOf
<1>3. reading.chain = c /\ reading.pc = "feeds"
  <2>1. reading.pc = "feeds"
    BY DEF ReadFeed
  <2> HIDE DEF cursor, got, seen, flagged, partial
  <2>2. reading.chain = c
    BY <1>2 DEF Made
  <2>3. QED BY <2>1, <2>2
<1>4. ASSUME NEW g \in Answers(c, i, cursor[i]),
             reading' = [reading EXCEPT !.got = Append(@, g), !.partial = @ \/ g.partial]
      PROVE  ReadingOf(reading', c)
  <2> DEFINE more == Append(got, g)
             behind == partial \/ g.partial
  <2>1. reading' = Made("feeds", c, cursor, more, seen, flagged, behind)
    <3>1. reading' = Received(reading, more, behind)
      BY <1>4 DEF Received
    <3>2. reading = Made("feeds", c, cursor, got, seen, flagged, partial)
      BY <1>2, <1>3
    <3> HIDE DEF cursor, got, seen, flagged, partial, more, behind
    <3>3. QED BY <3>1, <3>2, ReceivedMade
  <2> HIDE DEF cursor, seen, flagged
  <2>2. behind \in BOOLEAN
    OBVIOUS
  <2>3. ASSUME Unmarked(c, flagged, behind)
        PROVE  Sound("feeds", c, cursor, more, seen)
    <3>1. Sound("feeds", c, cursor, got, seen) /\ ~g.partial /\ OneUnit(c)
      BY <1>2, <1>3, <2>3 DEF Unmarked
    <3>2. Len(got) < Len(Feeds(c))
      BY <1>3 DEF ReadFeed
    <3> HIDE DEF got
    <3>3. Taken(c, cursor, more) /\ \A j \in DOMAIN more : ~more[j].partial
      BY <1>4, <3>1, <3>2, TakenGrows DEF Sound
    <3> HIDE DEF more
    <3>4. QED BY <3>1, <3>3 DEF Sound
  <2> HIDE DEF more, behind
  <2>4. QED BY <1>2, <2>1, <2>2, <2>3, MadeIs
<1>5. \/ reading' = [reading EXCEPT !.pc = "failed"]
      \/ \E g \in Answers(c, i, cursor[i]) :
           reading' = [reading EXCEPT !.got = Append(@, g), !.partial = @ \/ g.partial]
  BY <1>3 DEF ReadFeed
<1>6. QED BY <1>1, <1>4, <1>5

LEMMA AssembleReads ==
  ASSUME NEW c \in Chain, ReadingOf(reading, c), Assemble
  PROVE  ReadingOf(reading', c)
<1> DEFINE cursor == reading.cursor
           got    == reading.got
           seen   == reading.seen
           flagged == reading.flagged
           partial == reading.partial
           next   == NextCursor(c, cursor, got)
           marked == flagged \/ Gaps(got) # {} \/ PageTruncated(c, got)
           more   == [i \in DOMAIN got |-> seen[i] \cup ToSet(Items(c, got[i].rows))]
           pc     == IF next = NoCursor(c) THEN "read" ELSE "more"
           none   == <<>>
<1>1. /\ reading = Made(reading.pc, c, cursor, got, seen, flagged, partial)
      /\ flagged \in BOOLEAN /\ partial \in BOOLEAN
      /\ Unmarked(c, flagged, partial) => Sound(reading.pc, c, cursor, got, seen)
  BY DEF ReadingOf
<1>2. reading.chain = c /\ reading.pc = "feeds" /\ Len(got) = Len(Feeds(c))
  <2>1. reading.pc = "feeds" /\ Len(got) = Len(Feeds(reading.chain))
    BY DEF Assemble
  <2>2. reading.chain = c
    <3> HIDE DEF cursor, got, seen, flagged, partial
    <3>1. QED BY <1>1 DEF Made
  <2>3. QED BY <2>1, <2>2
<1>3. reading' = TurnedOver(reading, pc, next, none, more, marked)
  BY <1>2 DEF Assemble, TurnedOver
<1>4. reading' = Made(pc, c, next, none, more, marked, partial)
  <2>1. reading = Made("feeds", c, cursor, got, seen, flagged, partial)
    BY <1>1, <1>2
  <2> HIDE DEF cursor, got, seen, flagged, partial, next, marked, more, pc, none
  <2>2. QED BY <1>3, <2>1, TurnedOverMade
<1>5. marked \in BOOLEAN
  OBVIOUS
<1>6. ASSUME Unmarked(c, marked, partial)
      PROVE  Sound(pc, c, next, none, more)
  <2>1. Sound("feeds", c, cursor, got, seen) /\ ~marked /\ OneUnit(c)
    BY <1>1, <1>2, <1>6 DEF Unmarked
  <2>2. Whole(c, got)
    <3>1. Gaps(got) = {} /\ ~PageTruncated(c, got)
      BY <2>1
    <3>2. \A j \in DOMAIN got : ~got[j].partial
      BY <2>1 DEF Sound
    <3>3. QED BY <3>1, <3>2 DEF Whole, Gaps
  <2>3. cursor \in Marks(c) /\ InStep(c, cursor) /\ Taken(c, cursor, got) /\ AllBehind(c, cursor, seen)
    BY <2>1 DEF Sound
  <2>4. DOMAIN got = DOMAIN Feeds(c)
    <3> HIDE DEF cursor, got
    <3>1. QED BY <1>2, <2>3, AllTaken
  <2>5. ReadUpTo(c, next, seen, got)
    <3> HIDE DEF cursor, got, seen
    <3>1. CASE c = Ethereum
      BY <1>2, <2>1, <2>2, <2>3, <3>1, EthereumGoesOn
    <3>2. CASE c = Tron
      BY <1>2, <2>1, <2>2, <2>3, <3>2, TronGoesOn
    <3>3. CASE c \in {Bitcoin, Solana}
      BY <1>2, <2>1, <2>2, <2>3, <3>3, OneFeedGoesOn
    <3>4. c \in {Ethereum, Tron, Bitcoin, Solana}
      BY FeedsType
    <3>5. QED BY <3>1, <3>2, <3>3, <3>4
  <2>6. Taken(c, next, none) /\ \A j \in DOMAIN none : ~none[j].partial
    <3> DEFINE n == next
    <3> HIDE DEF n
    <3>1. Taken(c, n, <<>>) /\ \A j \in DOMAIN <<>> : ~(<<>>[j].partial)
      BY NothingTaken
    <3>2. QED BY <3>1 DEF n
  <2>7. \A i \in DOMAIN Feeds(c) : more[i] = seen[i] \cup ToSet(Items(c, got[i].rows))
    BY <2>4
  <2> HIDE DEF cursor, got, seen, next, more, none
  <2>8. \A i \in DOMAIN Feeds(c) : Covered(c, i, next[i], more[i])
    BY <2>5, <2>7 DEF ReadUpTo
  <2>9. next \in Marks(c) /\ InStep(c, next) /\ AllBehind(c, next, more)
    BY <2>5, <2>8 DEF ReadUpTo, AllBehind
  <2>10. ASSUME next = NoCursor(c), NEW i \in DOMAIN Feeds(c)
         PROVE  Wanted(c, i) \subseteq more[i]
    <3>1. next[i] = 0
      BY <2>10 DEF NoCursor
    <3>2. Covered(c, i, 0, more[i])
      BY <2>8, <3>1
    <3>3. Wanted(c, i) \subseteq ToSet(List(c, i))
      BY FeedsType
    <3>4. QED BY <3>2, <3>3 DEF Covered, Behind
  <2>11. QED BY <2>6, <2>9, <2>10 DEF Sound
<1> HIDE DEF cursor, got, seen, flagged, partial, next, marked, more, pc, none
<1>7. QED BY <1>1, <1>4, <1>5, <1>6, MadeIs

LEMMA HistoryStepReads ==
  ASSUME HistoryInv, HistoryNext
  PROVE  HistoryInv'
<1>1. ASSUME NEW c \in Chain, Open(c)
      PROVE  HistoryInv'
  BY <1>1, OpenReads DEF HistoryInv
<1>2. CASE Close
  BY <1>2 DEF Close, HistoryInv
<1>3. CASE ReadFeed \/ LookupFails \/ Assemble \/ Follow \/ StopMarked
  <2>1. reading # NotReading
    <3>1. reading.pc \in {"feeds", "more"}
      BY <1>3 DEF ReadFeed, LookupFails, Assemble, Follow, StopMarked
    <3>2. QED BY <3>1 DEF NotReading
  <2>2. PICK c \in Chain : ReadingOf(reading, c)
    BY <2>1 DEF HistoryInv
  <2>3. CASE ReadFeed
    BY <2>2, <2>3, ReadFeedReads DEF HistoryInv
  <2>4. CASE Assemble
    BY <2>2, <2>4, AssembleReads DEF HistoryInv
  <2>5. CASE StopMarked
    BY <2>2, <2>5, StopMarkedReads DEF HistoryInv
  <2>6. CASE LookupFails
    <3>1. reading' = [reading EXCEPT !.pc = "failed"]
      BY <2>6 DEF LookupFails
    <3>2. ReadingOf(reading', c)
      BY <2>2, <3>1, OnlyPcReads
    <3>3. QED BY <3>2 DEF HistoryInv
  <2>7. CASE Follow
    <3>1. reading' = [reading EXCEPT !.pc = "feeds"] /\ reading.pc = "more"
      BY <2>7 DEF Follow
    <3>2. ReadingOf(reading', c)
      BY <2>2, <3>1, OnlyPcReads
    <3>3. QED BY <3>2 DEF HistoryInv
  <2>8. QED BY <1>3, <2>3, <2>4, <2>5, <2>6, <2>7
<1>4. QED BY <1>1, <1>2, <1>3 DEF HistoryNext

\* Every chain but one is read to the end whoever answers.
ReadWhereCounted == reading.pc = "read" /\ OneUnit(reading.chain) => UnmarkedMeansRead

LEMMA InvMeansRead == HistoryInv => ReadWhereCounted
<1> SUFFICES ASSUME HistoryInv, reading.pc = "read", ~reading.flagged, ~reading.partial,
                    OneUnit(reading.chain)
             PROVE  \A i \in DOMAIN Feeds(reading.chain) : Wanted(reading.chain, i) \subseteq reading.seen[i]
  BY DEF UnmarkedMeansRead, ReadWhereCounted
<1>1. reading # NotReading
  BY DEF NotReading
<1>2. PICK c \in Chain : ReadingOf(reading, c)
  BY <1>1 DEF HistoryInv
<1>3. reading.chain = c
  BY <1>2 DEF ReadingOf, Made
<1>4. Sound(reading.pc, c, reading.cursor, reading.got, reading.seen)
  BY <1>2, <1>3 DEF ReadingOf, Unmarked
<1>5. QED BY <1>3, <1>4 DEF Sound

LEMMA ReadingInductive ==
  /\ HistoryInit => HistoryInv
  /\ HistoryInv /\ [HistoryNext]_reading => HistoryInv'
<1>1. HistoryInit => HistoryInv
  BY DEF HistoryInit, HistoryInv
<1>2. ASSUME HistoryInv, UNCHANGED reading
      PROVE  HistoryInv'
  BY <1>2 DEF HistoryInv
<1>3. QED BY <1>1, <1>2, HistoryStepReads

\* Whatever serves the other chains, an address read there that carries no mark was
\* read to the end, whichever provider answered which page and whichever feeds
\* were lost; on Ethereum, where the explorer tier does not answer (the
\* adapters' address_history).
THEOREM HistoriesAreReadWhereCounted == HistorySpec => []ReadWhereCounted
BY ReadingInductive, InvMeansRead, PTL DEF HistorySpec

LEMMA InvKnowsItsChain == HistoryInv /\ reading.pc = "read" => reading.chain \in Chain
<1> SUFFICES ASSUME HistoryInv, reading.pc = "read"
             PROVE  reading.chain \in Chain
  OBVIOUS
<1>1. reading # NotReading
  BY DEF NotReading
<1>2. PICK c \in Chain : ReadingOf(reading, c)
  BY <1>1 DEF HistoryInv
<1>3. QED BY <1>2 DEF ReadingOf, Made

\* An address that carries no mark was read to the end (UnmarkedMeansRead), for
\* every history, page size and set of providers that keeps to one unit: every
\* settled transaction has been seen, unless an indexer said it was behind.
THEOREM UnmarkedHistoriesAreRead ==
  ASSUME \A chain \in Chain : OneUnit(chain)
  PROVE  HistorySpec => []UnmarkedMeansRead
<1>1. HistoryInv => UnmarkedMeansRead
  BY InvMeansRead, InvKnowsItsChain DEF ReadWhereCounted, UnmarkedMeansRead
<1>2. QED BY <1>1, ReadingInductive, PTL DEF HistorySpec

=============================================================================
