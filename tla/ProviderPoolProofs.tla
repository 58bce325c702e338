-------------------------- MODULE ProviderPoolProofs --------------------------
(***************************************************************************)
(* Theorems about module ProviderPool, for any providers, requests and     *)
(* callers.  Every step moves each breaker by one of a few operations      *)
(* (Moves), whoever's fetch it was; the breaker facts follow from that     *)
(* alone.  What a fetch skipped is followed by Passed.                     *)
(***************************************************************************)
EXTENDS ProviderPool, TLAPS, WellFoundedInduction

Assumed == /\ Provider \subseteq Nat \ {0} /\ Healthy \subseteq Provider
           /\ Request # {}
           /\ Serves \in [Request -> SUBSET Provider]
           /\ Policy \in [Request -> {"forever", "ttl", "never"}]
           /\ MaxAttempts \in Nat \ {0} /\ Threshold \in Nat \ {0}

LEMMA Assumptions == Assumed
BY ProviderAssumption, RequestAssumption, ServesAssumption, PolicyAssumption, AttemptsAssumption
DEF Assumed

\* Candidates are providers, and their numbers start at one.
LEMMA CandidatesNumbered ==
  ASSUME NEW r \in Request
  PROVE  Serves[r] \subseteq Provider /\ \A q \in Serves[r] : q \in Nat /\ q > 0
<1>1. Serves[r] \subseteq Provider
  BY Assumptions DEF Assumed
<1>2. \A q \in Provider : q \in Nat /\ q # 0
  BY Assumptions DEF Assumed
<1>3. ASSUME NEW q \in Provider PROVE q > 0
  <2>1. q \in Nat /\ q # 0
    BY <1>2
  <2>2. QED BY <2>1
<1>4. QED BY <1>1, <1>2, <1>3

-----------------------------------------------------------------------------
(* The inductive invariant.                                                *)

\* A closed circuit has counted exactly the failures since the last success.
Counted ==
  \A p \in Provider : circuit[p].state = "closed" =>
    circuit[p].failures = streak[p] /\ streak[p] < Threshold

\* A half-open circuit always has its probe out: the slot is never free.
HalfOpenProbed ==
  \A p \in Provider : circuit[p].state = "half_open" => circuit[p].probe

HealthyClosed == \A p \in Healthy : circuit[p].state = "closed"

\* A running fetch has passed no healthy provider by.
Passed ==
  \A c \in Caller : phase[c] # "idle" =>
    \A q \in Serves[request[c]] \cap Healthy : at[c] <= q

\* Attempt n is not the last one.
Repeatable(n) == n + 1 < MaxAttempts

\* What a request brings may be kept.
Kept(r) == Policy[r] # "never"

\* A paused fetch has an attempt left, and only what may be kept is stored.
Intent ==
  \A c \in Caller : /\ phase[c] = "backing_off" => Repeatable(attempt[c])
                    /\ phase[c] = "storing" => Kept(request[c])

BreakerInv == Counted /\ HalfOpenProbed /\ HealthyClosed
FetchInv == Intent /\ Passed /\ FailoverReachesTheHealthy
PoolInv == PoolTypeOK /\ BreakerInv /\ FetchInv

-----------------------------------------------------------------------------
(* The operators.                                                          *)

\* The nearest candidate is one of them, and there is none before it.
LEMMA FirstIsLeast ==
  ASSUME NEW S, S \subseteq Nat, S # {}
  PROVE  First(S) \in S /\ \A other \in S : First(S) <= other
<1> DEFINE Less == {pair \in Nat \X Nat : pair[1] < pair[2]}
<1>1. IsWellFoundedOn(Less, Nat)
  BY NatLessThanWellFounded DEF OpToRel
<1>2. PICK x \in S : \A y \in S : <<y, x>> \notin Less
  <2> HIDE DEF Less
  <2> QED BY <1>1, WFMin
<1>3. ASSUME NEW y \in S PROVE x <= y
  <2>1. x \in Nat /\ y \in Nat
    OBVIOUS
  <2>2. y < x => <<y, x>> \in Less
    BY <2>1
  <2>3. ~(y < x)
    BY <1>2, <2>2
  <2>4. QED BY <2>1, <2>3
<1>4. QED BY <1>3 DEF First

LEMMA AdmittedFields ==
  ASSUME NEW b \in Circuit
  PROVE  /\ Admitted(b) \in Circuit
         /\ b.state = "closed" => Admitted(b) = b
         /\ b.state # "closed" => Admitted(b).state = "half_open" /\ Admitted(b).probe
         /\ b.state # "closed" /\ (b.state = "half_open" => b.probe) => ~Admitted(b).elapsed
BY DEF Admitted, Circuit, CircuitState

LEMMA SucceededFields ==
  ASSUME NEW b \in Circuit
  PROVE  /\ Succeeded(b) \in Circuit
         /\ Succeeded(b).state = "closed" /\ Succeeded(b).failures = 0
BY DEF Succeeded, Circuit, CircuitState

LEMMA FailedFields ==
  ASSUME NEW b \in Circuit
  PROVE  /\ Failed(b) \in Circuit
         /\ b.state = "half_open" \/ b.failures + 1 >= Threshold => Failed(b).state = "open"
         /\ ~(b.state = "half_open" \/ b.failures + 1 >= Threshold) =>
              Failed(b).state = b.state /\ Failed(b).failures = b.failures + 1
BY Assumptions DEF Assumed, Failed, Tripped, Circuit, CircuitState

-----------------------------------------------------------------------------
(* What a step does to the breakers and to one fetch.                      *)

\* One provider's breaker and streak move by one operation, or not at all.
Moves(p) ==
  \/ circuit'[p] = circuit[p] /\ streak'[p] = streak[p]
  \/ /\ Allows(circuit[p])
     /\ circuit'[p] = Admitted(circuit[p]) /\ streak'[p] = streak[p]
  \/ /\ p \notin Healthy
     /\ circuit'[p] = Failed(circuit[p]) /\ streak'[p] = Longer(streak[p])
  \/ circuit'[p] = Succeeded(circuit[p]) /\ streak'[p] = 0
  \/ /\ circuit[p].state # "closed"
     /\ circuit'[p] = [circuit[p] EXCEPT !.elapsed = TRUE] /\ streak'[p] = streak[p]

\* MoveOn from p over breakers b ends the fetch, every candidate beyond p being
\* refused, or lets it through to the nearest that allows it.
Routed(c, p, b) ==
  /\ request' = request
  /\ \/ /\ circuit' = b
        /\ phase' = [phase EXCEPT ![c] = "idle"]
        /\ result' = [result EXCEPT ![c] = "all_failed"]
        /\ at' = at /\ attempt' = attempt
        /\ \A q \in Serves[request[c]] : q > p => ~Allows(b[q])
     \/ \E q \in Serves[request[c]] :
          /\ q > p /\ Allows(b[q])
          /\ \A other \in Serves[request[c]] : other > p /\ Allows(b[other]) => q <= other
          /\ circuit' = [b EXCEPT ![q] = Admitted(b[q])]
          /\ phase' = [phase EXCEPT ![c] = "acquiring"]
          /\ at' = [at EXCEPT ![c] = q]
          /\ attempt' = [attempt EXCEPT ![c] = 0]
          /\ result' = result

LEMMA MoveOnRoutes ==
  ASSUME PoolTypeOK, NEW c \in Caller, NEW p, NEW b, MoveOn(c, request[c], p, b)
  PROVE  Routed(c, p, b)
<1> DEFINE open == Open(request[c], p, b)
<1>1. CASE open = {}
  BY <1>1 DEF MoveOn, End, Routed, Open
<1>2. CASE open # {}
  <2>1. open \subseteq Nat
    BY Assumptions DEF Assumed, Open, PoolTypeOK
  <2>2. First(open) \in open /\ \A other \in open : First(open) <= other
    <3> HIDE DEF open
    <3> QED BY <1>2, <2>1, FirstIsLeast
  <2>3. /\ First(open) \in Serves[request[c]] /\ First(open) > p /\ Allows(b[First(open)])
        /\ \A other \in Serves[request[c]] :
             other > p /\ Allows(b[other]) => First(open) <= other
    BY <2>2 DEF Open
  <2>4. /\ circuit' = [b EXCEPT ![First(open)] = Admitted(b[First(open)])]
        /\ phase' = [phase EXCEPT ![c] = "acquiring"]
        /\ at' = [at EXCEPT ![c] = First(open)]
        /\ attempt' = [attempt EXCEPT ![c] = 0]
        /\ request' = request /\ result' = result
    BY <1>2 DEF MoveOn
  <2> HIDE DEF open
  <2>5. QED BY <2>3, <2>4 DEF Routed
<1>3. QED BY <1>1, <1>2

LEMMA RoutedMoves ==
  ASSUME NEW c \in Caller, NEW p \in Provider \cup {0}, NEW b \in [Provider -> Circuit],
         request[c] \in Request, Routed(c, p, b)
  PROVE  /\ circuit' \in [Provider -> Circuit]
         /\ \A q \in Provider :
              \/ circuit'[q] = b[q]
              \/ q # p /\ Allows(b[q]) /\ circuit'[q] = Admitted(b[q])
<1>1. CASE circuit' = b
  BY <1>1
<1>2. ASSUME NEW q \in Serves[request[c]], q > p, Allows(b[q]),
             circuit' = [b EXCEPT ![q] = Admitted(b[q])]
      PROVE  /\ circuit' \in [Provider -> Circuit]
             /\ \A r \in Provider :
                  \/ circuit'[r] = b[r]
                  \/ r # p /\ Allows(b[r]) /\ circuit'[r] = Admitted(b[r])
  <2>1. q \in Provider /\ q # p
    BY <1>2, Assumptions DEF Assumed
  <2>2. Admitted(b[q]) \in Circuit
    BY <2>1, AdmittedFields
  <2>3. QED BY <1>2, <2>1, <2>2
<1>3. QED BY <1>1, <1>2 DEF Routed

LEMMA StreakTyped ==
  ASSUME NEW n \in 0..Threshold
  PROVE  Longer(n) \in 0..Threshold /\ (n < Threshold => Longer(n) = n + 1)
BY Assumptions DEF Longer, Assumed

\* Moving on without a word about the provider left behind.
LEMMA RoutingMoves ==
  ASSUME PoolTypeOK, NEW c \in Caller, NEW p \in Provider \cup {0},
         Routed(c, p, circuit), streak' = streak
  PROVE  /\ circuit' \in [Provider -> Circuit] /\ streak' \in [Provider -> 0..Threshold]
         /\ \A q \in Provider : Moves(q)
<1>1. circuit \in [Provider -> Circuit] /\ request[c] \in Request
      /\ streak \in [Provider -> 0..Threshold]
  BY DEF PoolTypeOK
<1>2. /\ circuit' \in [Provider -> Circuit]
      /\ \A q \in Provider :
           \/ circuit'[q] = circuit[q]
           \/ q # p /\ Allows(circuit[q]) /\ circuit'[q] = Admitted(circuit[q])
  BY <1>1, RoutedMoves
<1>3. QED BY <1>1, <1>2 DEF Moves

\* The breakers once a failure of p is counted, and the streaks.
FailedAt(p) == [circuit EXCEPT ![p] = Failed(@)]
LongerAt(p) == [streak EXCEPT ![p] = Longer(@)]

\* A failure of p is counted, then the fetch pauses or moves on.
LEMMA FailureMoves ==
  ASSUME PoolTypeOK, NEW c \in Caller, NEW p \in Provider, p \notin Healthy,
         streak' = LongerAt(p),
         circuit' = FailedAt(p) \/ Routed(c, p, FailedAt(p))
  PROVE  /\ circuit' \in [Provider -> Circuit] /\ streak' \in [Provider -> 0..Threshold]
         /\ \A q \in Provider : Moves(q)
<1> DEFINE b == FailedAt(p)
<1>1. /\ circuit[p] \in Circuit /\ Failed(circuit[p]) \in Circuit
      /\ Longer(streak[p]) \in 0..Threshold
  BY FailedFields, StreakTyped DEF PoolTypeOK
<1>2. b \in [Provider -> Circuit] /\ streak' \in [Provider -> 0..Threshold]
  BY <1>1 DEF PoolTypeOK, FailedAt, LongerAt
<1>3. /\ b[p] = Failed(circuit[p]) /\ streak'[p] = Longer(streak[p])
      /\ \A q \in Provider : q # p => b[q] = circuit[q] /\ streak'[q] = streak[q]
  BY DEF PoolTypeOK, FailedAt, LongerAt
<1> HIDE DEF b
<1>4. CASE circuit' = b
  BY <1>2, <1>3, <1>4 DEF Moves
<1>5. CASE Routed(c, p, b)
  <2>1. request[c] \in Request /\ p \in Provider \cup {0}
    BY DEF PoolTypeOK
  <2>2. /\ circuit' \in [Provider -> Circuit]
        /\ \A q \in Provider :
             \/ circuit'[q] = b[q]
             \/ q # p /\ Allows(b[q]) /\ circuit'[q] = Admitted(b[q])
    BY <1>2, <1>5, <2>1, RoutedMoves
  <2>3. ASSUME NEW q \in Provider PROVE Moves(q)
    <3>1. CASE q = p
      BY <1>3, <2>2, <3>1 DEF Moves
    <3>2. CASE q # p
      BY <1>3, <2>2, <3>2 DEF Moves
    <3>3. QED BY <3>1, <3>2
  <2>4. QED BY <1>2, <2>2, <2>3
<1>6. QED BY <1>4, <1>5 DEF b

\* An answer of p closes its circuit.
LEMMA SuccessMoves ==
  ASSUME PoolTypeOK, NEW p \in Provider,
         circuit' = [circuit EXCEPT ![p] = Succeeded(@)],
         streak' = [streak EXCEPT ![p] = 0]
  PROVE  /\ circuit' \in [Provider -> Circuit] /\ streak' \in [Provider -> 0..Threshold]
         /\ \A q \in Provider : Moves(q)
<1>1. circuit[p] \in Circuit /\ Succeeded(circuit[p]) \in Circuit
  BY SucceededFields DEF PoolTypeOK
<1>2. 0 \in 0..Threshold
  BY Assumptions DEF Assumed
<1>3. circuit' \in [Provider -> Circuit] /\ streak' \in [Provider -> 0..Threshold]
  BY <1>1, <1>2 DEF PoolTypeOK
<1>4. QED BY <1>3 DEF Moves, PoolTypeOK

\* Every step moves each breaker by one operation.
LEMMA StepMoves ==
  ASSUME PoolTypeOK, [Next]_vars
  PROVE  /\ circuit' \in [Provider -> Circuit] /\ streak' \in [Provider -> 0..Threshold]
         /\ \A q \in Provider : Moves(q)
<1> DEFINE Goal == /\ circuit' \in [Provider -> Circuit]
                   /\ streak' \in [Provider -> 0..Threshold]
                   /\ \A q \in Provider : Moves(q)
<1>0. circuit' = circuit /\ streak' = streak => Goal
  BY DEF PoolTypeOK, Moves
<1>1. ASSUME NEW c \in Caller, NEW r \in Request, Ask(c, r) PROVE Goal
  BY <1>0, <1>1 DEF Ask
<1>2. ASSUME NEW c \in Caller,
             ServeCached(c) \/ Acquire(c) \/ Retry(c) \/ Store(c) \/ Abandon(c)
      PROVE  Goal
  BY <1>0, <1>2 DEF ServeCached, Acquire, Retry, Store, Abandon
<1>3. ASSUME NEW c \in Caller, Route(c) PROVE Goal
  <2>1. Routed(c, 0, circuit) /\ streak' = streak
    BY <1>3, MoveOnRoutes DEF Route
  <2>2. QED BY <2>1, RoutingMoves
<1>4. ASSUME NEW c \in Caller, NEW p \in Provider, NotFound(c, p) \/ Answer(c, p) PROVE Goal
  BY <1>4, SuccessMoves DEF NotFound, Answer
<1>5. ASSUME NEW c \in Caller, NEW p \in Provider, NEW long \in BOOLEAN, RateLimited(c, p, long)
      PROVE  Goal
  <2> DEFINE b == [circuit EXCEPT ![p] = Throttled(@)]
  <2>1. b = circuit
    BY DEF Throttled, PoolTypeOK
  <2>2. circuit' = circuit \/ MoveOn(c, request[c], p, circuit)
    BY <1>5, <2>1 DEF RateLimited
  <2>3. CASE circuit' = circuit
    BY <1>0, <1>5, <2>3 DEF RateLimited
  <2>4. CASE MoveOn(c, request[c], p, circuit)
    <3>1. Routed(c, p, circuit) /\ streak' = streak
      BY <1>5, <2>4, MoveOnRoutes DEF RateLimited
    <3>2. QED BY <3>1, RoutingMoves
  <2>5. QED BY <2>2, <2>3, <2>4
<1>6. ASSUME NEW c \in Caller, NEW p \in Provider, Unavailable(c, p) \/ Invalid(c, p) PROVE Goal
  <2>1. /\ p \notin Healthy /\ streak' = LongerAt(p)
        /\ circuit' = FailedAt(p) \/ MoveOn(c, request[c], p, FailedAt(p))
    BY <1>6 DEF Unavailable, Invalid, FailedAt, LongerAt
  <2>2. circuit' = FailedAt(p) \/ Routed(c, p, FailedAt(p))
    BY <2>1, MoveOnRoutes
  <2>3. QED BY <2>1, <2>2, FailureMoves
<1>7. ASSUME NEW p \in Provider, Elapse(p) PROVE Goal
  <2>1. circuit[p] \in Circuit /\ [circuit[p] EXCEPT !.elapsed = TRUE] \in Circuit
    BY DEF PoolTypeOK, Circuit
  <2>2. circuit' = [circuit EXCEPT ![p] = [circuit[p] EXCEPT !.elapsed = TRUE]] /\ streak' = streak
    BY <1>7 DEF Elapse
  <2>3. QED BY <1>7, <2>1, <2>2 DEF Moves, PoolTypeOK, Elapse
<1>8. ASSUME NEW r \in Request, Expire(r) PROVE Goal
  BY <1>0, <1>8 DEF Expire
<1>9. CASE UNCHANGED vars
  BY <1>0, <1>9 DEF vars
<1>10. QED BY <1>1, <1>2, <1>3, <1>4, <1>5, <1>6, <1>7, <1>8, <1>9 DEF Next, CallerStep

\* The breaker facts need no more than that.
LEMMA BreakerStep ==
  ASSUME PoolTypeOK, BreakerInv, [Next]_vars
  PROVE  /\ BreakerInv'
         /\ \A p \in Provider : circuit[p].state = "closed" /\ circuit'[p].state = "open"
              => streak'[p] >= Threshold
<1>1. \A p \in Provider : /\ Moves(p)
                          /\ circuit[p] \in Circuit /\ streak[p] \in 0..Threshold
  BY StepMoves DEF PoolTypeOK
<1>2. ASSUME NEW p \in Provider
      PROVE  /\ circuit'[p].state = "closed" =>
                  circuit'[p].failures = streak'[p] /\ streak'[p] < Threshold
             /\ circuit'[p].state = "half_open" => circuit'[p].probe
             /\ p \in Healthy => circuit'[p].state = "closed"
             /\ circuit[p].state = "closed" /\ circuit'[p].state = "open"
                  => streak'[p] >= Threshold
  <2> DEFINE b == circuit[p]
  <2>0. circuit[p] = b
    OBVIOUS
  <2>1. /\ b \in Circuit /\ streak[p] \in 0..Threshold
        /\ b.state \in CircuitState /\ b.failures \in Nat /\ Threshold \in Nat \ {0}
    BY <1>1, Assumptions DEF Circuit, Assumed
  <2>2. /\ b.state = "closed" => b.failures = streak[p] /\ streak[p] < Threshold
        /\ b.state = "half_open" => b.probe
        /\ p \in Healthy => b.state = "closed"
    BY DEF BreakerInv, Counted, HalfOpenProbed, HealthyClosed
  <2>3. CASE circuit'[p] = b /\ streak'[p] = streak[p]
    BY <2>2, <2>3
  <2>4. CASE circuit'[p] = Admitted(b) /\ streak'[p] = streak[p]
    BY <2>1, <2>2, <2>4, AdmittedFields
  <2>5. CASE p \notin Healthy /\ circuit'[p] = Failed(b) /\ streak'[p] = Longer(streak[p])
    <3>1. /\ b.state = "half_open" \/ b.failures + 1 >= Threshold => Failed(b).state = "open"
          /\ ~(b.state = "half_open" \/ b.failures + 1 >= Threshold) =>
               Failed(b).state = b.state /\ Failed(b).failures = b.failures + 1
      BY <2>1, FailedFields
    <3>2. streak[p] < Threshold => Longer(streak[p]) = streak[p] + 1
      BY <2>1, StreakTyped
    <3> HIDE DEF b
    <3>3. QED BY <2>0, <2>1, <2>2, <2>5, <3>1, <3>2 DEF CircuitState
  <2>6. CASE circuit'[p] = Succeeded(b) /\ streak'[p] = 0
    BY <2>1, <2>6, SucceededFields
  <2>7. CASE /\ b.state # "closed"
             /\ circuit'[p] = [b EXCEPT !.elapsed = TRUE] /\ streak'[p] = streak[p]
    BY <2>1, <2>2, <2>7 DEF Circuit
  <2>8. QED BY <1>1, <2>3, <2>4, <2>5, <2>6, <2>7 DEF Moves
<1>3. QED BY <1>2, Assumptions DEF BreakerInv, Counted, HalfOpenProbed, HealthyClosed, Assumed

-----------------------------------------------------------------------------
(* What a step does to a fetch.                                            *)

Waiting == {"acquiring", "calling", "backing_off", "storing"}

\* The fetch leaves p, which is no healthy provider, or the start of the search,
\* passing no healthy provider by.
Passing(c, p) ==
  /\ \/ phase[c] = "looking" /\ p = 0
     \/ phase[c] = "calling" /\ p = at[c] /\ p \notin Healthy
  /\ request' = request
  /\ \/ /\ phase' = [phase EXCEPT ![c] = "idle"]
        /\ result' = [result EXCEPT ![c] = "all_failed"]
        /\ at' = at /\ attempt' = attempt
        /\ \A h \in Serves[request[c]] \cap Healthy : ~(h > p)
     \/ \E q \in Serves[request[c]] :
          /\ phase' = [phase EXCEPT ![c] = "acquiring"]
          /\ at' = [at EXCEPT ![c] = q]
          /\ attempt' = [attempt EXCEPT ![c] = 0]
          /\ result' = result
          /\ \A h \in Serves[request[c]] \cap Healthy : h > p => q <= h

Begins(c) ==
  \E r \in Request : /\ phase' = [phase EXCEPT ![c] = "looking"]
                     /\ request' = [request EXCEPT ![c] = r]
                     /\ result' = [result EXCEPT ![c] = "none"]
                     /\ at' = [at EXCEPT ![c] = 0]
                     /\ attempt' = [attempt EXCEPT ![c] = 0]

Ends(c) == \E outcome \in Result \ {"all_failed"} : End(c, outcome)

Waits(c) ==
  /\ phase[c] \in Waiting
  /\ \E ph \in Waiting : /\ phase' = [phase EXCEPT ![c] = ph]
                         /\ ph = "backing_off" => Repeatable(attempt[c])
                         /\ ph = "storing" => Kept(request[c])
  /\ request' = request /\ at' = at /\ attempt' = attempt /\ result' = result

Repeats(c) ==
  /\ phase[c] = "backing_off"
  /\ phase' = [phase EXCEPT ![c] = "acquiring"]
  /\ attempt' = [attempt EXCEPT ![c] = @ + 1]
  /\ request' = request /\ at' = at /\ result' = result

FetchMoves(c) ==
  \/ Begins(c)
  \/ Ends(c)
  \/ Waits(c)
  \/ Repeats(c)
  \/ \E p \in Provider \cup {0} : Passing(c, p)

\* A healthy provider behind p is allowed, so it is not passed.
LEMMA RoutedPasses ==
  ASSUME PoolTypeOK, NEW c \in Caller, NEW p \in Provider \cup {0}, NEW b, Routed(c, p, b),
         \A h \in Healthy : h # p => b[h].state = "closed",
         \/ phase[c] = "looking" /\ p = 0
         \/ phase[c] = "calling" /\ p = at[c] /\ p \notin Healthy
  PROVE  Passing(c, p)
<1>1. Healthy \subseteq Nat /\ p \in Nat
  BY Assumptions DEF Assumed
<1>2. \A h \in Healthy : h > p => Allows(b[h])
  BY <1>1 DEF Allows
<1>3. QED BY <1>1, <1>2 DEF Routed, Passing

LEMMA StepFetches ==
  ASSUME PoolTypeOK, HealthyClosed, Intent, [Next]_vars
  PROVE  /\ UNCHANGED fetches \/ \E c \in Caller : FetchMoves(c)
         /\ cached' \subseteq {r \in Request : Policy[r] # "never"}
<1> DEFINE Goal == /\ UNCHANGED fetches \/ \E c \in Caller : FetchMoves(c)
                   /\ cached' \subseteq {r \in Request : Policy[r] # "never"}
<1>0. cached' = cached => cached' \subseteq {r \in Request : Policy[r] # "never"}
  BY DEF PoolTypeOK
<1>1. ASSUME NEW c \in Caller, NEW r \in Request, Ask(c, r) PROVE Goal
  BY <1>0, <1>1 DEF Ask, FetchMoves, Begins
<1>2. ASSUME NEW c \in Caller, ServeCached(c) \/ Abandon(c) PROVE Goal
  BY <1>0, <1>2 DEF ServeCached, Abandon, FetchMoves, Ends, Result
<1>3. ASSUME NEW c \in Caller, Store(c) PROVE Goal
  <2>1. End(c, "answered") /\ request[c] \in Request /\ cached' = cached \cup {request[c]}
    BY <1>3 DEF Store, PoolTypeOK
  <2>2. Kept(request[c])
    <3>1. phase[c] = "storing"
      BY <1>3 DEF Store
    <3>2. QED BY <3>1 DEF Intent
  <2>3. QED BY <2>1, <2>2 DEF FetchMoves, Ends, Result, PoolTypeOK, Kept
<1>4. ASSUME NEW c \in Caller, Acquire(c) PROVE Goal
  BY <1>0, <1>4 DEF Acquire, FetchMoves, Waits, Waiting
<1>5. ASSUME NEW c \in Caller, Retry(c) PROVE Goal
  BY <1>0, <1>5 DEF Retry, FetchMoves, Repeats
<1>6. ASSUME NEW c \in Caller, Route(c) PROVE Goal
  <2>1. Routed(c, 0, circuit) /\ cached' = cached
    BY <1>6, MoveOnRoutes DEF Route
  <2>2. Passing(c, 0)
    BY <1>6, <2>1, RoutedPasses DEF Route, HealthyClosed
  <2>3. QED BY <1>0, <2>1, <2>2 DEF FetchMoves
<1>7. ASSUME NEW c \in Caller, NEW p \in Provider, NotFound(c, p) PROVE Goal
  BY <1>0, <1>7 DEF NotFound, FetchMoves, Ends, Result
<1>8. ASSUME NEW c \in Caller, NEW p \in Provider, Answer(c, p) PROVE Goal
  <2>1. cached' = cached /\ phase[c] = "calling"
    BY <1>8 DEF Answer, Calling
  <2>2. CASE End(c, "answered")
    BY <1>0, <2>1, <2>2 DEF FetchMoves, Ends, Result
  <2>3. CASE /\ phase' = [phase EXCEPT ![c] = "storing"]
             /\ UNCHANGED <<request, at, attempt, result>>
             /\ Kept(request[c])
    <3>1. Waits(c)
      BY <2>1, <2>3 DEF Waits, Waiting
    <3>2. QED BY <1>0, <2>1, <3>1 DEF FetchMoves
  <2>4. QED BY <1>8, <2>2, <2>3 DEF Answer, Kept
<1>9. ASSUME NEW c \in Caller, NEW p \in Provider, NEW b, Calling(c, p), p \notin Healthy,
             \A h \in Healthy : h # p => b[h].state = "closed",
             (Pause(c) /\ ~LastAttempt(c)) \/ MoveOn(c, request[c], p, b),
             cached' = cached
      PROVE  Goal
  <2>1. CASE Pause(c) /\ ~LastAttempt(c)
    <3>1. attempt[c] \in Nat /\ MaxAttempts \in Nat
      BY Assumptions DEF PoolTypeOK, Assumed
    <3>2. Waits(c)
      BY <1>9, <2>1, <3>1 DEF Pause, LastAttempt, Repeatable, Calling, Waits, Waiting
    <3>3. QED BY <1>0, <1>9, <3>2 DEF FetchMoves
  <2>2. CASE MoveOn(c, request[c], p, b)
    <3>1. Routed(c, p, b)
      BY <2>2, MoveOnRoutes
    <3>2. Passing(c, p)
      BY <1>9, <3>1, RoutedPasses DEF Calling
    <3>3. QED BY <1>0, <1>9, <3>2 DEF FetchMoves
  <2>3. QED BY <1>9, <2>1, <2>2
<1>10. ASSUME NEW c \in Caller, NEW p \in Provider, NEW long \in BOOLEAN, RateLimited(c, p, long)
       PROVE  Goal
  <2>1. [circuit EXCEPT ![p] = Throttled(@)] = circuit
    BY DEF Throttled, PoolTypeOK
  <2>2. /\ Calling(c, p) /\ p \notin Healthy /\ cached' = cached
        /\ (Pause(c) /\ ~LastAttempt(c)) \/ MoveOn(c, request[c], p, circuit)
    BY <1>10, <2>1 DEF RateLimited
  <2>3. QED BY <1>9, <2>2 DEF HealthyClosed
<1>11. ASSUME NEW c \in Caller, NEW p \in Provider, Unavailable(c, p) \/ Invalid(c, p) PROVE Goal
  <2>1. /\ Calling(c, p) /\ p \notin Healthy /\ cached' = cached
        /\ (Pause(c) /\ ~LastAttempt(c)) \/ MoveOn(c, request[c], p, FailedAt(p))
    BY <1>11 DEF Unavailable, Invalid, FailedAt
  <2>2. \A h \in Healthy : h # p => FailedAt(p)[h].state = "closed"
    BY Assumptions DEF HealthyClosed, FailedAt, PoolTypeOK, Assumed
  <2>3. QED BY <1>9, <2>1, <2>2
<1>12. ASSUME NEW p \in Provider, Elapse(p) PROVE Goal
  BY <1>0, <1>12 DEF Elapse
<1>13. ASSUME NEW r \in Request, Expire(r) PROVE Goal
  BY <1>13 DEF Expire, PoolTypeOK
<1>14. CASE UNCHANGED vars
  BY <1>0, <1>14 DEF vars, fetches
<1>15. QED
  BY <1>1, <1>2, <1>3, <1>4, <1>5, <1>6, <1>7, <1>8, <1>10, <1>11, <1>12, <1>13, <1>14
  DEF Next, CallerStep

\* The fetch facts need no more than FetchMoves.
LEMMA FetchStep ==
  ASSUME PoolTypeOK, HealthyClosed, FetchInv, [Next]_vars
  PROVE  /\ phase' \in [Caller -> Phase] /\ request' \in [Caller -> Request]
         /\ attempt' \in [Caller -> 0..(MaxAttempts - 1)] /\ result' \in [Caller -> Result]
         /\ at' \in [Caller -> Provider \cup {0}]
         /\ \A c \in Caller : phase'[c] \notin {"idle", "looking"}
                              => at'[c] \in Serves[request'[c]]
         /\ FetchInv'
<1> DEFINE Shape == /\ phase' \in [Caller -> Phase] /\ request' \in [Caller -> Request]
                    /\ attempt' \in [Caller -> 0..(MaxAttempts - 1)]
                    /\ result' \in [Caller -> Result] /\ at' \in [Caller -> Provider \cup {0}]
           Fine(c) == /\ phase'[c] \notin {"idle", "looking"} => at'[c] \in Serves[request'[c]]
                      /\ phase'[c] = "backing_off" => Repeatable(attempt'[c])
                      /\ phase'[c] = "storing" => Kept(request'[c])
                      /\ phase'[c] # "idle" =>
                           \A q \in Serves[request'[c]] \cap Healthy : at'[c] <= q
                      /\ result'[c] = "all_failed" => Serves[request'[c]] \cap Healthy = {}
<1>1. /\ \A c \in Caller : /\ phase[c] \in Phase /\ request[c] \in Request
                           /\ at[c] \in Nat /\ attempt[c] \in Nat
                           /\ Serves[request[c]] \subseteq Provider
      /\ Provider \subseteq Nat \ {0} /\ MaxAttempts \in Nat \ {0} /\ 0 \in 0..(MaxAttempts - 1)
  <2>1. /\ Provider \subseteq Nat \ {0} /\ MaxAttempts \in Nat \ {0}
        /\ Serves \in [Request -> SUBSET Provider]
    BY Assumptions DEF Assumed
  <2>2. 0 \in 0..(MaxAttempts - 1)
    BY <2>1
  <2>3. ASSUME NEW c \in Caller
        PROVE  /\ phase[c] \in Phase /\ request[c] \in Request
               /\ at[c] \in Nat /\ attempt[c] \in Nat
               /\ Serves[request[c]] \subseteq Provider
    <3>1. /\ phase[c] \in Phase /\ request[c] \in Request
          /\ attempt[c] \in 0..(MaxAttempts - 1) /\ at[c] \in Provider \cup {0}
      BY DEF PoolTypeOK
    <3>2. Serves[request[c]] \subseteq Provider
      BY <3>1, CandidatesNumbered
    <3>0. \A p \in Provider : p \in Nat
      BY <2>1
    <3>3. at[c] \in Nat
      <4>1. CASE at[c] \in Provider
        BY <3>0, <4>1
      <4>2. CASE at[c] = 0
        BY <4>2
      <4>3. QED BY <3>1, <4>1, <4>2
    <3>3a. attempt[c] \in Nat
      BY <2>1, <3>1
    <3>4. QED BY <3>1, <3>2, <3>3, <3>3a
  <2>4. QED BY <2>1, <2>2, <2>3
<1>2. /\ phase \in [Caller -> Phase] /\ request \in [Caller -> Request]
      /\ attempt \in [Caller -> 0..(MaxAttempts - 1)] /\ result \in [Caller -> Result]
      /\ at \in [Caller -> Provider \cup {0}]
  BY DEF PoolTypeOK
<1>3. \A c \in Caller :
        /\ phase[c] \notin {"idle", "looking"} => at[c] \in Serves[request[c]]
        /\ phase[c] = "backing_off" => Repeatable(attempt[c])
        /\ phase[c] = "storing" => Kept(request[c])
        /\ phase[c] # "idle" => \A q \in Serves[request[c]] \cap Healthy : at[c] <= q
        /\ result[c] = "all_failed" => Serves[request[c]] \cap Healthy = {}
  <2>1. \A c \in Caller : phase[c] \notin {"idle", "looking"} => at[c] \in Serves[request[c]]
    BY DEF PoolTypeOK
  <2>2. Intent /\ Passed /\ FailoverReachesTheHealthy
    BY DEF FetchInv
  <2>3. ASSUME NEW c \in Caller
        PROVE  /\ phase[c] = "backing_off" => Repeatable(attempt[c])
               /\ phase[c] = "storing" => Kept(request[c])
    BY <2>2 DEF Intent
  <2>4. ASSUME NEW c \in Caller
        PROVE  /\ phase[c] # "idle" => \A q \in Serves[request[c]] \cap Healthy : at[c] <= q
               /\ result[c] = "all_failed" => Serves[request[c]] \cap Healthy = {}
    BY <2>2 DEF Passed, FailoverReachesTheHealthy
  <2>5. QED BY <2>1, <2>3, <2>4
<1>4. CASE UNCHANGED fetches
  <2>1. phase' = phase /\ request' = request /\ at' = at /\ attempt' = attempt /\ result' = result
    BY <1>4 DEF fetches
  <2>2. Shape /\ \A c \in Caller : Fine(c)
    BY <1>2, <1>3, <2>1
  <2>3. QED BY <2>2 DEF FetchInv, Intent, Passed, FailoverReachesTheHealthy
<1>5. ASSUME NEW c \in Caller, FetchMoves(c)
      PROVE  Shape /\ \A d \in Caller : Fine(d)
  <2>1. CASE Begins(c)
    <3>1. PICK r \in Request : /\ phase' = [phase EXCEPT ![c] = "looking"]
                               /\ request' = [request EXCEPT ![c] = r]
                               /\ result' = [result EXCEPT ![c] = "none"]
                               /\ at' = [at EXCEPT ![c] = 0]
                               /\ attempt' = [attempt EXCEPT ![c] = 0]
      BY <2>1 DEF Begins
    <3>2. Shape
      BY <1>1, <1>2, <3>1 DEF Phase, Result
    <3>3. ASSUME NEW d \in Caller, d # c PROVE Fine(d)
      BY <1>2, <1>3, <3>1, <3>3
    <3>5. /\ phase'[c] = "looking" /\ request'[c] = r /\ at'[c] = 0 /\ result'[c] = "none"
      BY <1>2, <3>1
    <3>6. \A q \in Serves[r] \cap Healthy : 0 <= q
      BY CandidatesNumbered
    <3>7. Fine(c)
      BY <3>5, <3>6
    <3>8. QED BY <3>2, <3>3, <3>7
  <2>2. CASE Ends(c)
    <3>1. PICK outcome \in Result \ {"all_failed"} : End(c, outcome)
      BY <2>2 DEF Ends
    <3>2. QED BY <1>1, <1>2, <1>3, <3>1 DEF End, Phase
  <2>3. CASE Waits(c)
    <3>1. PICK ph \in Waiting : /\ phase' = [phase EXCEPT ![c] = ph]
                                /\ ph = "backing_off" => Repeatable(attempt[c])
                                /\ ph = "storing" => Kept(request[c])
      BY <2>3 DEF Waits
    <3>2. /\ phase[c] \in Waiting
          /\ request' = request /\ at' = at /\ attempt' = attempt /\ result' = result
      BY <2>3 DEF Waits
    <3>3. /\ ph \in Phase /\ ph \notin {"idle", "looking"}
          /\ phase[c] \notin {"idle", "looking"}
      BY <3>1, <3>2 DEF Phase, Waiting
    <3>6. phase' \in [Caller -> Phase] /\ phase'[c] = ph
          /\ \A d \in Caller : d # c => phase'[d] = phase[d]
      <4>1. phase \in [Caller -> Phase]
        BY DEF PoolTypeOK
      <4>2. phase' = [phase EXCEPT ![c] = ph]
        BY <3>1
      <4>3. ph \in Phase
        BY <3>3
      <4>4. QED BY <4>1, <4>2, <4>3
    <3>4. Shape
      BY <1>2, <3>2, <3>6
    <3>5. ASSUME NEW d \in Caller, d # c PROVE Fine(d)
      BY <1>3, <3>2, <3>5, <3>6
    <3>7. Fine(c)
      BY <1>3, <3>1, <3>2, <3>3, <3>6
    <3>8. QED BY <3>4, <3>5, <3>7
  <2>4. CASE Repeats(c)
    <3>1. /\ phase[c] = "backing_off"
          /\ phase' = [phase EXCEPT ![c] = "acquiring"]
          /\ attempt' = [attempt EXCEPT ![c] = attempt[c] + 1]
          /\ request' = request /\ at' = at /\ result' = result
      BY <2>4 DEF Repeats
    <3>2. attempt[c] + 1 \in 0..(MaxAttempts - 1)
      BY <1>1, <1>3, <3>1 DEF Repeatable
    <3>3. Shape
      BY <1>2, <3>1, <3>2 DEF Phase
    <3>4. ASSUME NEW d \in Caller PROVE Fine(d)
      BY <1>2, <1>3, <3>1
    <3>5. QED BY <3>3, <3>4
  <2>5. ASSUME NEW p \in Provider \cup {0}, Passing(c, p)
        PROVE  Shape /\ \A d \in Caller : Fine(d)
    <3>1. /\ request' = request /\ p \in Nat /\ phase[c] # "idle"
          /\ \A h \in Serves[request[c]] \cap Healthy : h \in Nat /\ h > p
      <4>1. request' = request /\ p \in Nat /\ phase[c] # "idle"
        BY <1>1, <2>5 DEF Passing
      <4>2. CASE phase[c] = "looking" /\ p = 0
        <5>1. \A h \in Serves[request[c]] \cap Healthy : h \in Nat \ {0}
          BY <1>1
        <5>2. QED BY <4>1, <4>2, <5>1
      <4>3. CASE phase[c] = "calling" /\ p = at[c] /\ p \notin Healthy
        <5>1. ASSUME NEW h \in Serves[request[c]] \cap Healthy PROVE h \in Nat /\ h > p
          <6>1. h # p /\ at[c] <= h /\ h \in Nat
            BY <1>1, <1>3, <4>3
          <6>2. QED BY <4>1, <4>3, <6>1
        <5>2. QED BY <4>1, <5>1
      <4>4. QED BY <2>5, <4>2, <4>3 DEF Passing
    <3>2. CASE /\ phase' = [phase EXCEPT ![c] = "idle"]
               /\ result' = [result EXCEPT ![c] = "all_failed"]
               /\ at' = at /\ attempt' = attempt
               /\ \A h \in Serves[request[c]] \cap Healthy : ~(h > p)
      <4>1. Serves[request[c]] \cap Healthy = {}
        BY <3>1, <3>2
      <4>2. Shape
        BY <1>2, <3>1, <3>2 DEF Phase, Result
      <4>3. ASSUME NEW d \in Caller PROVE Fine(d)
        BY <1>2, <1>3, <3>1, <3>2, <4>1
      <4>4. QED BY <4>2, <4>3
    <3>3. ASSUME NEW q \in Serves[request[c]],
                 phase' = [phase EXCEPT ![c] = "acquiring"],
                 at' = [at EXCEPT ![c] = q], attempt' = [attempt EXCEPT ![c] = 0],
                 result' = result,
                 \A h \in Serves[request[c]] \cap Healthy : h > p => q <= h
          PROVE  Shape /\ \A d \in Caller : Fine(d)
      <4>1. Shape
        BY <1>1, <1>2, <3>1, <3>3 DEF Phase
      <4>2. ASSUME NEW d \in Caller PROVE Fine(d)
        BY <1>1, <1>2, <1>3, <3>1, <3>3
      <4>3. QED BY <4>1, <4>2
    <3>4. QED BY <2>5, <3>2, <3>3 DEF Passing
  <2>6. QED BY <1>5, <2>1, <2>2, <2>3, <2>4, <2>5 DEF FetchMoves
<1>6. Shape /\ (\A c \in Caller : Fine(c)) =>
        /\ Shape
        /\ \A c \in Caller : phase'[c] \notin {"idle", "looking"}
                             => at'[c] \in Serves[request'[c]]
        /\ FetchInv'
  BY DEF FetchInv, Intent, Passed, FailoverReachesTheHealthy
<1>7. QED BY <1>4, <1>5, <1>6, StepFetches DEF FetchInv

\* Only routing lets a fetch through.
LEMMA LetThroughRouted ==
  ASSUME PoolTypeOK, [Next]_vars, NEW c \in Caller, NEW p \in Provider, LetThrough(c, p)
  PROVE  \/ \E q \in Provider \cup {0} : Routed(c, q, circuit)
         \/ \E q \in Provider : Routed(c, q, FailedAt(q))
<1> DEFINE Goal == \/ \E q \in Provider \cup {0} : Routed(c, q, circuit)
                   \/ \E q \in Provider : Routed(c, q, FailedAt(q))
<1>0. phase[c] \in {"looking", "calling"} /\ phase'[c] = "acquiring" /\ phase \in [Caller -> Phase]
  BY DEF LetThrough, PoolTypeOK
<1>1. ASSUME NEW d \in Caller, NEW x, phase' = [phase EXCEPT ![d] = x]
      PROVE  x = "acquiring" /\ d = c
  BY <1>0, <1>1
<1>2. ASSUME NEW d \in Caller, NEW q, NEW b, MoveOn(d, request[d], q, b) PROVE Routed(c, q, b)
  <2>1. d = c
    BY <1>1, <1>2 DEF MoveOn, End
  <2>2. QED BY <1>2, <2>1, MoveOnRoutes
<1>3. ASSUME NEW d \in Caller, NEW r \in Request, Ask(d, r) PROVE Goal
  <2>1. phase' = [phase EXCEPT ![d] = "looking"]
    BY <1>3 DEF Ask
  <2>2. QED BY <1>0, <2>1
<1>4. ASSUME NEW d \in Caller, ServeCached(d) \/ Acquire(d) \/ Store(d) \/ Abandon(d) PROVE Goal
  BY <1>1, <1>4 DEF ServeCached, Acquire, Store, Abandon, End
<1>5. ASSUME NEW d \in Caller, Retry(d) PROVE Goal
  BY <1>0, <1>1, <1>5 DEF Retry
<1>6. ASSUME NEW d \in Caller, Route(d) PROVE Goal
  BY <1>2, <1>6 DEF Route
<1>7. ASSUME NEW d \in Caller, NEW q \in Provider, NotFound(d, q) \/ Answer(d, q) PROVE Goal
  BY <1>1, <1>7 DEF NotFound, Answer, End
<1>8. ASSUME NEW d \in Caller, NEW q \in Provider, NEW long \in BOOLEAN, RateLimited(d, q, long)
      PROVE  Goal
  <2>1. [circuit EXCEPT ![q] = Throttled(@)] = circuit
    BY DEF Throttled, PoolTypeOK
  <2>2. Pause(d) \/ MoveOn(d, request[d], q, circuit)
    BY <1>8, <2>1 DEF RateLimited
  <2>3. QED BY <1>1, <1>2, <2>2 DEF Pause
<1>9. ASSUME NEW d \in Caller, NEW q \in Provider, Unavailable(d, q) \/ Invalid(d, q) PROVE Goal
  <2>1. Pause(d) \/ MoveOn(d, request[d], q, FailedAt(q))
    BY <1>9 DEF Unavailable, Invalid, FailedAt
  <2>2. QED BY <1>1, <1>2, <2>1 DEF Pause
<1>10. CASE phase' = phase
  BY <1>0, <1>10
<1>11. QED
  BY <1>3, <1>4, <1>5, <1>6, <1>7, <1>8, <1>9, <1>10
  DEF Next, CallerStep, Elapse, Expire, vars, fetches

\* Whoever is let through to a suspect provider took its reset timeout.
LEMMA ProbeStep ==
  ASSUME PoolTypeOK, HalfOpenProbed, [Next]_vars, NEW c \in Caller, NEW p \in Provider,
         LetThrough(c, p), circuit[p].state # "closed"
  PROVE  circuit[p].elapsed /\ ~circuit'[p].elapsed
<1>1. ASSUME NEW q \in Provider \cup {0}, NEW b \in [Provider -> Circuit], Routed(c, q, b),
             \A other \in Provider : other # q => b[other] = circuit[other]
      PROVE  Allows(circuit[p]) /\ circuit'[p] = Admitted(circuit[p])
  <2>1. phase \in [Caller -> Phase] /\ at \in [Caller -> Provider \cup {0}]
        /\ phase'[c] = "acquiring" /\ at'[c] = p
    BY DEF LetThrough, PoolTypeOK
  <2>2. phase' # [phase EXCEPT ![c] = "idle"]
    BY <2>1
  <2>3. PICK to \in Serves[request[c]] :
          /\ to > q /\ Allows(b[to])
          /\ circuit' = [b EXCEPT ![to] = Admitted(b[to])]
          /\ at' = [at EXCEPT ![c] = to]
    BY <1>1, <2>2 DEF Routed
  <2>4. to = p
    BY <2>1, <2>3
  <2>5. q \in Nat /\ p \in Nat /\ p # q
    BY <2>3, <2>4, Assumptions DEF Assumed
  <2>6. b[p] = circuit[p]
    BY <1>1, <2>5
  <2>7. QED BY <1>1, <2>3, <2>4, <2>6
<1>2. Allows(circuit[p]) /\ circuit'[p] = Admitted(circuit[p])
  <2>1. circuit \in [Provider -> Circuit]
    BY DEF PoolTypeOK
  <2>2. CASE \E q \in Provider \cup {0} : Routed(c, q, circuit)
    BY <1>1, <2>1, <2>2
  <2>3. ASSUME NEW q \in Provider, Routed(c, q, FailedAt(q))
        PROVE  Allows(circuit[p]) /\ circuit'[p] = Admitted(circuit[p])
    <3>1. circuit[q] \in Circuit /\ Failed(circuit[q]) \in Circuit
      BY <2>1, FailedFields
    <3>2. /\ FailedAt(q) \in [Provider -> Circuit]
          /\ \A other \in Provider : other # q => FailedAt(q)[other] = circuit[other]
      BY <2>1, <3>1 DEF FailedAt
    <3>3. QED BY <1>1, <2>3, <3>2
  <2>4. QED BY <2>2, <2>3, LetThroughRouted
<1>3. circuit[p] \in Circuit /\ (circuit[p].state = "half_open" => circuit[p].probe)
  BY DEF PoolTypeOK, HalfOpenProbed
<1>4. circuit[p].elapsed
  BY <1>2, <1>3 DEF Allows
<1>5. ~Admitted(circuit[p]).elapsed
  BY <1>3, AdmittedFields
<1>6. QED BY <1>2, <1>4, <1>5

-----------------------------------------------------------------------------
(* The theorems.                                                           *)

LEMMA PoolInit == Init => PoolInv
<1> SUFFICES ASSUME Init PROVE PoolInv
  OBVIOUS
<1>1. AnyRequest \in Request
  BY Assumptions DEF Assumed, AnyRequest
<1>2. NewCircuit \in Circuit /\ NewCircuit.state = "closed" /\ NewCircuit.failures = 0
  BY DEF NewCircuit, Circuit, CircuitState
<1>3. 0 \in 0..Threshold /\ 0 < Threshold /\ 0 \in 0..(MaxAttempts - 1)
  BY Assumptions DEF Assumed
<1>4. PoolTypeOK
  <2>1. circuit \in [Provider -> Circuit] /\ streak \in [Provider -> 0..Threshold]
    BY <1>2, <1>3 DEF Init
  <2>2. /\ phase \in [Caller -> Phase] /\ request \in [Caller -> Request]
        /\ attempt \in [Caller -> 0..(MaxAttempts - 1)] /\ result \in [Caller -> Result]
        /\ at \in [Caller -> Provider \cup {0}] /\ cached = {}
        /\ \A c \in Caller : phase[c] = "idle"
    BY <1>1, <1>3 DEF Init, Phase, Result
  <2>3. QED BY <2>1, <2>2 DEF PoolTypeOK
<1>5. BreakerInv
  BY <1>2, <1>3, Assumptions DEF Init, BreakerInv, Counted, HalfOpenProbed, HealthyClosed, Assumed
<1>6. FetchInv
  BY DEF Init, FetchInv, Intent, Passed, FailoverReachesTheHealthy
<1>7. QED BY <1>4, <1>5, <1>6 DEF PoolInv

LEMMA PoolStep == PoolInv /\ [Next]_vars => PoolInv'
<1> SUFFICES ASSUME PoolInv, [Next]_vars PROVE PoolInv'
  OBVIOUS
<1>1. PoolTypeOK /\ BreakerInv /\ HealthyClosed /\ FetchInv /\ Intent
  BY DEF PoolInv, BreakerInv, FetchInv
<1>2. circuit' \in [Provider -> Circuit] /\ streak' \in [Provider -> 0..Threshold]
  BY <1>1, StepMoves
<1>3. BreakerInv'
  BY <1>1, BreakerStep
<1>4. cached' \subseteq {r \in Request : Policy[r] # "never"}
  BY <1>1, StepFetches
<1>5. /\ phase' \in [Caller -> Phase] /\ request' \in [Caller -> Request]
      /\ attempt' \in [Caller -> 0..(MaxAttempts - 1)] /\ result' \in [Caller -> Result]
      /\ at' \in [Caller -> Provider \cup {0}]
      /\ \A c \in Caller : phase'[c] \notin {"idle", "looking"} => at'[c] \in Serves[request'[c]]
      /\ FetchInv'
  BY <1>1, FetchStep
<1>6. PoolTypeOK'
  BY <1>2, <1>4, <1>5 DEF PoolTypeOK
<1>7. QED BY <1>3, <1>5, <1>6 DEF PoolInv

LEMMA PoolInvariant == Spec => []PoolInv
BY PoolInit, PoolStep, PTL DEF Spec

\* Breakers, fetches and cache keep their shape, for any deployment of the pool.
THEOREM PoolTypeCorrect == Spec => []PoolTypeOK
<1>1. PoolInv => PoolTypeOK
  BY DEF PoolInv
<1>2. QED BY <1>1, PoolInvariant, PTL

\* record_failure loses no failure: a provider that failed Threshold times in a
\* row is out of rotation.
THEOREM FailingOut == Spec => []FailingProviderOut
<1>1. PoolInv => FailingProviderOut
  <2> SUFFICES ASSUME PoolInv, NEW p \in Provider, streak[p] >= Threshold
               PROVE  circuit[p].state # "closed"
    BY DEF FailingProviderOut
  <2>1. streak[p] \in 0..Threshold /\ Threshold \in Nat
    BY Assumptions DEF PoolInv, PoolTypeOK, Assumed
  <2>2. circuit[p].state = "closed" => streak[p] < Threshold
    BY DEF PoolInv, BreakerInv, Counted
  <2>3. QED BY <2>1, <2>2
<1>2. QED BY <1>1, PoolInvariant, PTL

\* record_failure opens a closed circuit only after Threshold failures in a row.
THEOREM TripsEarned == Spec => TripsAreEarned
<1>1. PoolInv /\ [Next]_vars =>
        [\A p \in Provider : circuit[p].state = "closed" /\ circuit'[p].state = "open"
           => streak'[p] >= Threshold]_vars
  <2>1. PoolInv => PoolTypeOK /\ BreakerInv
    BY DEF PoolInv
  <2>2. QED BY <2>1, BreakerStep
<1>2. QED BY <1>1, PoolInvariant, PTL DEF Spec, TripsAreEarned

\* allow grants one probe per reset timeout, replacements of lost ones included.
THEOREM ProbesSpaced == Spec => OneProbePerTimeout
<1>1. PoolInv /\ [Next]_vars =>
        [\A c \in Caller, p \in Provider : LetThrough(c, p) /\ circuit[p].state # "closed"
           => circuit[p].elapsed /\ ~circuit'[p].elapsed]_vars
  <2>1. PoolInv => PoolTypeOK /\ HalfOpenProbed
    BY DEF PoolInv, BreakerInv
  <2>2. QED BY <2>1, ProbeStep
<1>2. QED BY <1>1, PoolInvariant, PTL DEF Spec, OneProbePerTimeout

\* fetch reports AllProvidersFailed only when no healthy provider serves it.
THEOREM HealthyReached == Spec => []FailoverReachesTheHealthy
<1>1. PoolInv => FailoverReachesTheHealthy
  BY DEF PoolInv, FetchInv
<1>2. QED BY <1>1, PoolInvariant, PTL
=============================================================================
