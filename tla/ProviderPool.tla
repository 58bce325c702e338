----------------------------- MODULE ProviderPool -----------------------------
(***************************************************************************)
(* The pipeline around every vendor call, as the concurrent fetches of one *)
(* server share it: cache, routing by priority, circuit breakers, retries  *)
(* and failover.  Translated from providers/pool.py, providers/breaker.py  *)
(* and the CachePolicy of providers/base.py.                               *)
(*                                                                         *)
(* Code between two awaits is one step: from a vendor's answer to the next *)
(* wait (for the bucket, a backoff, the cache) nothing else runs.          *)
(*                                                                         *)
(* Abstracted: the clock, of which a breaker reads one bit (has its reset  *)
(* timeout run out); the token bucket, which a fetch waits on for a time   *)
(* nobody bounds here; payloads, metrics, and the length of a backoff.     *)
(***************************************************************************)
EXTENDS Integers

CONSTANTS
  Provider,          \* registered providers, numbered by priority
  Request,           \* canonical requests (chain, capability, parameters)
  Serves,            \* the providers that support a request
  Policy,            \* the cache policy of a request's capability
  Caller,            \* the tasks that share the pool
  Healthy,           \* providers that always answer
  MaxAttempts,       \* attempts per provider and fetch
  Threshold          \* failures in a row that open a circuit

ASSUME ProviderAssumption == Provider \subseteq Nat \ {0} /\ Healthy \subseteq Provider
ASSUME RequestAssumption == Request # {}
ASSUME ServesAssumption == Serves \in [Request -> SUBSET Provider]
ASSUME PolicyAssumption == Policy \in [Request -> {"forever", "ttl", "never"}]
ASSUME AttemptsAssumption == MaxAttempts \in Nat \ {0} /\ Threshold \in Nat \ {0}

CircuitState == {"closed", "open", "half_open"}
Circuit == [state : CircuitState, failures : Nat, probe : BOOLEAN, elapsed : BOOLEAN]
NewCircuit == [state |-> "closed", failures |-> 0, probe |-> FALSE, elapsed |-> FALSE]

Phase == {"idle", "looking", "acquiring", "calling", "backing_off", "storing"}
Result == {"none", "cached", "answered", "not_found", "all_failed", "raised"}

VARIABLES
  circuit,   \* per provider, its breaker; elapsed: reset_timeout ran out since opened_at
  cached,    \* requests with an entry young enough to serve
  phase,     \* per caller, what its fetch waits for
  request,   \* per caller, what it asked last
  at,        \* per caller, the candidate it is at
  attempt,   \* per caller, the attempt it makes there, from 0
  result,    \* per caller, how its last fetch ended
  streak     \* history: failures in a row of a provider, counted up to Threshold

fetches == <<phase, request, at, attempt, result>>
vars == <<circuit, cached, fetches, streak>>

-----------------------------------------------------------------------------
(* The breaker: allow, record_success, record_failure.                     *)

\* Allow as it was before a stale probe slot was released.
AllowsUnlessProbed(b) ==
  \/ b.state = "closed"
  \/ b.state = "open" /\ b.elapsed
  \/ b.state = "half_open" /\ ~b.probe

Allows(b) ==
  \/ b.state = "closed"
  \/ b.elapsed
  \/ b.state = "half_open" /\ ~b.probe

\* The free slot of a half-open circuit is taken without touching the timer; a
\* first probe and one that replaces a stale probe restart it.
Admitted(b) ==
  IF b.state = "closed" THEN b
  ELSE IF b.state = "half_open" /\ ~b.probe THEN [b EXCEPT !.probe = TRUE]
  ELSE [b EXCEPT !.state = "half_open", !.probe = TRUE, !.elapsed = FALSE]

\* A circuit that closes but keeps its count.
SucceededUncleared(b) == [b EXCEPT !.state = "closed", !.probe = FALSE]

Succeeded(b) == [b EXCEPT !.state = "closed", !.failures = 0, !.probe = FALSE]

Tripped(b) == [state |-> "open", failures |-> 0, probe |-> FALSE, elapsed |-> FALSE]

Failed(b) ==
  IF b.state = "half_open" \/ b.failures + 1 >= Threshold
    THEN Tripped(b) ELSE [b EXCEPT !.failures = @ + 1]

\* A 429 taken for a sign of life, and one that gives the probe slot back.
ThrottledAlive(b) == Succeeded(b)
ThrottledReleasing(b) == [b EXCEPT !.probe = FALSE]

\* A 429 penalizes the bucket and leaves the breaker alone.
Throttled(b) == b

-----------------------------------------------------------------------------
(* Routing.                                                                *)

\* The candidates behind position p that would take a call now.
Open(r, p, b) == {q \in Serves[r] : q > p /\ Allows(b[q])}

First(positions) == CHOOSE q \in positions : \A other \in positions : q <= other

\* The fetch of c is over.
End(c, outcome) ==
  /\ phase' = [phase EXCEPT ![c] = "idle"]
  /\ result' = [result EXCEPT ![c] = outcome]
  /\ UNCHANGED <<request, at, attempt>>

\* The first provider that is refused ends the search.
MoveOnUntilRefused(c, r, p, b) ==
  LET left == {q \in Serves[r] : q > p}
  IN IF left = {} \/ ~Allows(b[First(left)])
       THEN /\ End(c, "all_failed")
            /\ circuit' = b
       ELSE /\ circuit' = [b EXCEPT ![First(left)] = Admitted(@)]
            /\ phase' = [phase EXCEPT ![c] = "acquiring"]
            /\ at' = [at EXCEPT ![c] = First(left)]
            /\ attempt' = [attempt EXCEPT ![c] = 0]
            /\ UNCHANGED <<request, result>>

\* On to the next candidate whose breaker allows it, or to AllProvidersFailed.
MoveOn(c, r, p, b) ==
  IF Open(r, p, b) = {}
    THEN /\ End(c, "all_failed")
         /\ circuit' = b
    ELSE LET q == First(Open(r, p, b))
         IN /\ circuit' = [b EXCEPT ![q] = Admitted(@)]
            /\ phase' = [phase EXCEPT ![c] = "acquiring"]
            /\ at' = [at EXCEPT ![c] = q]
            /\ attempt' = [attempt EXCEPT ![c] = 0]
            /\ UNCHANGED <<request, result>>

\* An attempt counted only after it is repeated.
LastAttemptLate(c) == attempt[c] >= MaxAttempts

LastAttempt(c) == attempt[c] + 1 >= MaxAttempts

\* The provider is asked again after a pause.
Pause(c) ==
  /\ phase' = [phase EXCEPT ![c] = "backing_off"]
  /\ UNCHANGED <<request, at, attempt, result>>

-----------------------------------------------------------------------------
(* The steps.                                                              *)

AnyRequest == CHOOSE r \in Request : TRUE

Init ==
  /\ circuit = [p \in Provider |-> NewCircuit]
  /\ cached = {}
  /\ phase = [c \in Caller |-> "idle"]
  /\ request = [c \in Caller |-> AnyRequest]
  /\ at = [c \in Caller |-> 0]
  /\ attempt = [c \in Caller |-> 0]
  /\ result = [c \in Caller |-> "none"]
  /\ streak = [p \in Provider |-> 0]

\* fetch: the cache is asked first, across an await of its own.
Ask(c, r) ==
  /\ phase[c] = "idle"
  /\ phase' = [phase EXCEPT ![c] = "looking"]
  /\ request' = [request EXCEPT ![c] = r]
  /\ result' = [result EXCEPT ![c] = "none"]
  /\ at' = [at EXCEPT ![c] = 0]
  /\ attempt' = [attempt EXCEPT ![c] = 0]
  /\ UNCHANGED <<circuit, cached, streak>>

ServeCached(c) ==
  /\ phase[c] = "looking"
  /\ request[c] \in cached
  /\ End(c, "cached")
  /\ UNCHANGED <<circuit, cached, streak>>

Route(c) ==
  /\ phase[c] = "looking"
  /\ request[c] \notin cached
  /\ MoveOn(c, request[c], 0, circuit)
  /\ UNCHANGED <<cached, streak>>

\* The bucket hands out a token and the call starts.
Acquire(c) ==
  /\ phase[c] = "acquiring"
  /\ phase' = [phase EXCEPT ![c] = "calling"]
  /\ UNCHANGED <<circuit, cached, request, at, attempt, result, streak>>

Longer(n) == IF n < Threshold THEN n + 1 ELSE n

Calling(c, p) == phase[c] = "calling" /\ at[c] = p

\* ResourceNotFound is an answer: it is not cached and goes to no one else.
NotFound(c, p) ==
  /\ Calling(c, p)
  /\ circuit' = [circuit EXCEPT ![p] = Succeeded(@)]
  /\ streak' = [streak EXCEPT ![p] = 0]
  /\ End(c, "not_found")
  /\ UNCHANGED cached

Answer(c, p) ==
  /\ Calling(c, p)
  /\ circuit' = [circuit EXCEPT ![p] = Succeeded(@)]
  /\ streak' = [streak EXCEPT ![p] = 0]
  /\ IF Policy[request[c]] = "never"
       THEN End(c, "answered")
       ELSE /\ phase' = [phase EXCEPT ![c] = "storing"]
            /\ UNCHANGED <<request, at, attempt, result>>
  /\ UNCHANGED cached

\* ProviderRateLimited: the same provider again, unless the attempts are spent
\* or Retry-After is longer than the pool honours.
RateLimited(c, p, long) ==
  /\ Calling(c, p) /\ p \notin Healthy
  /\ LET b == [circuit EXCEPT ![p] = Throttled(@)]
     IN IF long \/ LastAttempt(c) THEN MoveOn(c, request[c], p, b)
                                  ELSE Pause(c) /\ circuit' = b
  /\ UNCHANGED <<cached, streak>>

\* ProviderUnavailable: counted, and retried unless that opened the circuit.
Unavailable(c, p) ==
  /\ Calling(c, p) /\ p \notin Healthy
  /\ streak' = [streak EXCEPT ![p] = Longer(@)]
  /\ LET b == [circuit EXCEPT ![p] = Failed(@)]
     IN IF b[p].state = "open" \/ LastAttempt(c) THEN MoveOn(c, request[c], p, b)
                                                 ELSE Pause(c) /\ circuit' = b
  /\ UNCHANGED cached

\* ProviderResponseInvalid: counted, never retried.
Invalid(c, p) ==
  /\ Calling(c, p) /\ p \notin Healthy
  /\ streak' = [streak EXCEPT ![p] = Longer(@)]
  /\ MoveOn(c, request[c], p, [circuit EXCEPT ![p] = Failed(@)])
  /\ UNCHANGED cached

\* A repetition that does not count as an attempt.
RetryUncounted(c) ==
  /\ phase[c] = "backing_off"
  /\ phase' = [phase EXCEPT ![c] = "acquiring"]
  /\ UNCHANGED <<circuit, cached, request, at, attempt, result, streak>>

Retry(c) ==
  /\ phase[c] = "backing_off"
  /\ phase' = [phase EXCEPT ![c] = "acquiring"]
  /\ attempt' = [attempt EXCEPT ![c] = @ + 1]
  /\ UNCHANGED <<circuit, cached, request, at, result, streak>>

Store(c) ==
  /\ phase[c] = "storing"
  /\ cached' = cached \cup {request[c]}
  /\ End(c, "answered")
  /\ UNCHANGED <<circuit, streak>>

\* A cancellation, an error the client did not translate, a cache that raises:
\* the fetch ends and records nothing.
Abandon(c) ==
  /\ phase[c] # "idle"
  /\ End(c, "raised")
  /\ UNCHANGED <<circuit, cached, streak>>

\* reset_timeout runs out since the circuit opened or its last probe went out.
Elapse(p) ==
  /\ circuit[p].state # "closed" /\ ~circuit[p].elapsed
  /\ circuit' = [circuit EXCEPT ![p].elapsed = TRUE]
  /\ UNCHANGED <<cached, fetches, streak>>

\* An entry outgrows ttl_seconds; immutable data never does.
Expire(r) ==
  /\ r \in cached /\ Policy[r] = "ttl"
  /\ cached' = cached \ {r}
  /\ UNCHANGED <<circuit, fetches, streak>>

CallerStep(c) ==
  \/ ServeCached(c)
  \/ Route(c)
  \/ Acquire(c)
  \/ Retry(c)
  \/ Store(c)
  \/ \E p \in Provider :
       \/ NotFound(c, p)
       \/ Answer(c, p)
       \/ \E long \in BOOLEAN : RateLimited(c, p, long)
       \/ Unavailable(c, p)
       \/ Invalid(c, p)

Next ==
  \/ \E c \in Caller :
       \/ \E r \in Request : Ask(c, r)
       \/ CallerStep(c)
       \/ Abandon(c)
  \/ \E p \in Provider : Elapse(p)
  \/ \E r \in Request : Expire(r)

Spec == Init /\ [][Next]_vars

\* A waiting fetch is resumed and a vendor answers or times out; time passes.
FairSpec ==
  /\ Spec
  /\ \A c \in Caller : WF_vars(CallerStep(c))
  /\ \A p \in Provider : WF_vars(Elapse(p))

-----------------------------------------------------------------------------
(* Properties.                                                             *)

\* Breakers, fetches and cache keep their shape; a fetch stays at a provider that
\* serves its request and makes no more attempts there than it may.
PoolTypeOK ==
  /\ circuit \in [Provider -> Circuit]
  /\ cached \subseteq {r \in Request : Policy[r] # "never"}
  /\ phase \in [Caller -> Phase]
  /\ request \in [Caller -> Request]
  /\ attempt \in [Caller -> 0..(MaxAttempts - 1)]
  /\ result \in [Caller -> Result]
  /\ streak \in [Provider -> 0..Threshold]
  /\ at \in [Caller -> Provider \cup {0}]
  /\ \A c \in Caller : phase[c] \notin {"idle", "looking"} => at[c] \in Serves[request[c]]

\* A provider that failed Threshold times in a row is out of rotation, however the
\* failures of concurrent fetches, their throttled answers and late results mix.
FailingProviderOut ==
  \A p \in Provider : streak[p] >= Threshold => circuit[p].state # "closed"

\* A circuit is only opened on a provider that really failed that often in a row:
\* no leftover of an earlier outage counts against it.
TripsAreEarned ==
  [][\A p \in Provider : circuit[p].state = "closed" /\ circuit'[p].state = "open"
        => streak'[p] >= Threshold]_vars

\* c is let through to p by p's breaker in this step.
LetThrough(c, p) ==
  phase[c] \in {"looking", "calling"} /\ phase'[c] = "acquiring" /\ at'[c] = p

\* While a provider is suspect, one fetch at most is let through to it per reset
\* timeout, lost probes and their replacements included.
OneProbePerTimeout ==
  [][\A c \in Caller, p \in Provider : LetThrough(c, p) /\ circuit[p].state # "closed"
        => circuit[p].elapsed /\ ~circuit'[p].elapsed]_vars

\* A fetch never reports that every provider failed when one that serves it is
\* well: neither the others' failures nor a refusal on the way hide it.
FailoverReachesTheHealthy ==
  \A c \in Caller : result[c] = "all_failed" => Serves[request[c]] \cap Healthy = {}

\* No breaker is wedged: time alone re-admits a provider, whatever became of the
\* probe that was sent to it.
NoWedge == \A p \in Provider : []<>Allows(circuit[p])

\* A fetch that is not cancelled comes to an end, however it is throttled.
EveryFetchEnds == \A c \in Caller : phase[c] # "idle" ~> phase[c] = "idle"
=============================================================================
