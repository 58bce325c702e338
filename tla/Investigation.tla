---------------------------- MODULE Investigation ----------------------------
(***************************************************************************)
(* The life of one investigation: the route that starts it, the loop that  *)
(* works its frontier under budgets, the budget pursuit, the two ends a    *)
(* run can come to, the resume route, and the process dying under all of   *)
(* it.  Layered on TraceGraph: every iteration of the loop is one of its   *)
(* steps plus the budget it is charged to.  Translated from                *)
(* investigation/engine.py (start, run, _run, _pursue, _finish_completed,  *)
(* _finish_partial), investigation/budgets.py, api/app.py (start, resume,  *)
(* launch) and InvestigationRepository.                                    *)
(***************************************************************************)
EXTENDS TraceGraph

CONSTANTS
  Operator,       \* callers of the resume route
  Starter,        \* the run the start route launches
  BudgetChoices,  \* the budgets an operator may ask for
  MaxCrashes      \* bound: how often the process may die

Runner == Operator \cup {Starter}

Budgets == [api_calls : Nat \ {0}, max_nodes : Nat \ {0}, max_depth : Depths,
            pursue : BOOLEAN, max_extensions : Nat]

ASSUME StarterAssumption == Starter \notin Operator
ASSUME BudgetsAssumption == BudgetChoices \subseteq Budgets /\ BudgetChoices # {}
ASSUME MaxCrashesAssumption == MaxCrashes \in Nat

Status == {"none", "created", "running", "partial", "completed", "failed"}

\* What a report says of an objective it could not answer.
Headline == {"unnamed", "over_mixer", "nothing"}
Ending == [direction : Objectives, headline : Headline, exhausted : BOOLEAN,
           complete : BOOLEAN]

VARIABLES
  status,    \* investigations.status
  budgets,   \* investigations.budgets: what the operator asked for
  spent,     \* investigations.spent: provider calls and self-granted extensions
  reports,   \* the terminal findings filed per unanswered objective
  runs,      \* per runner, the task in memory and its BudgetTracker
  requests,  \* resumes checked but not yet claimed: <<operator, budgets>>
  crashes    \* how often the process has died

row == <<status, budgets, spent, reports>>
vars == <<ledger, labels, nodes, edges, findings, row, runs, requests, crashes>>

-----------------------------------------------------------------------------
(* The tracker of one run.                                                 *)

Phase == {"idle", "launched", "looping"}
Run == [phase : Phase, asked : BudgetChoices, granted : [api_calls : Nat, max_nodes : Nat],
        api_calls : Nat, nodes : Nat, extensions : Nat, late : BOOLEAN]

AnyBudgets == CHOOSE b \in BudgetChoices : TRUE
Idle == [phase |-> "idle", asked |-> AnyBudgets,
         granted |-> [api_calls |-> 0, max_nodes |-> 0],
         api_calls |-> 0, nodes |-> 0, extensions |-> 0, late |-> FALSE]
Launched == [Idle EXCEPT !.phase = "launched"]

Active(r) == runs[r].phase # "idle"
Looping(r) == runs[r].phase = "looping"

NodeCount == Cardinality({n \in Node : Present(n)})

\* A tracker that forgets what earlier runs spent.
FreshTracker ==
  [phase |-> "looping", asked |-> budgets,
   granted |-> [api_calls |-> budgets.api_calls, max_nodes |-> budgets.max_nodes],
   api_calls |-> 0, nodes |-> NodeCount, extensions |-> 0, late |-> FALSE]

\* seed_nodes and seed_spent: everything spent carries over but the wall clock;
\* limits raised by an earlier run do not, they were never the operator's.
SeededTracker ==
  [phase |-> "looping", asked |-> budgets,
   granted |-> [api_calls |-> budgets.api_calls, max_nodes |-> budgets.max_nodes],
   api_calls |-> spent.api_calls, nodes |-> NodeCount,
   extensions |-> spent.extensions, late |-> FALSE]

\* Off by one against a limit just reached.
ExhaustedLate(run) ==
  IF run.api_calls > run.granted.api_calls THEN "api_calls"
  ELSE IF run.late THEN "seconds"
  ELSE IF run.nodes >= run.granted.max_nodes THEN "max_nodes"
  ELSE "none"

\* The first budget that ran out.
Exhausted(run) ==
  IF run.api_calls >= run.granted.api_calls THEN "api_calls"
  ELSE IF run.late THEN "seconds"
  ELSE IF run.nodes >= run.granted.max_nodes THEN "max_nodes"
  ELSE "none"

\* The ceiling read one too high.
MayExtendOnceMore(run) == run.asked.pursue /\ run.extensions <= run.asked.max_extensions

\* Counted across the investigation, earlier runs included.
MayExtend(run) == run.asked.pursue /\ run.extensions < run.asked.max_extensions

\* What the run may spend once the budget that ran out is granted again.
Raised(run, budget) ==
  [api_calls |-> IF budget = "api_calls" THEN run.granted.api_calls + run.asked.api_calls
                                         ELSE run.granted.api_calls,
   max_nodes |-> IF budget = "max_nodes" THEN run.granted.max_nodes + run.asked.max_nodes
                                         ELSE run.granted.max_nodes]

\* Another allowance of seconds is what ends lateness.
StillLate(run, budget) == IF budget = "seconds" THEN FALSE ELSE run.late

\* A grant nobody counts.
ExtendedUncounted(run, budget) ==
  [run EXCEPT !.granted = Raised(run, budget), !.late = StillLate(run, budget)]

\* One more allowance of the size the operator asked for.
Extended(run, budget) ==
  [run EXCEPT !.granted = Raised(run, budget), !.late = StillLate(run, budget),
              !.extensions = run.extensions + 1]

\* spent_snapshot
Snapshot(run) == [api_calls |-> run.api_calls, extensions |-> run.extensions]

-----------------------------------------------------------------------------
(* What the findings answer.                                               *)

FiledFor(d, kind, speculative) ==
  \E n \in Node : /\ n[2] = d
                  /\ findings[<<kind, n>>] > 0
                  /\ nodes[n].speculative = speculative

\* An answer drawn past a mixer taken for one.
NamedAnyhow(d) == FiledFor(d, "vasp", FALSE) \/ FiledFor(d, "vasp", TRUE)

\* Only a sourced endpoint reached by following value answers an objective.
Named(d) == FiledFor(d, "vasp", FALSE)

Unanswered == {d \in Objectives : ~Named(d)}

\* shortfall: the headline of the terminal that closes an unanswered objective.
Shortfall(d) ==
  IF FiledFor(d, "service", FALSE) THEN "unnamed"
  ELSE IF FiledFor(d, "vasp", TRUE) \/ FiledFor(d, "service", TRUE) THEN "over_mixer"
  ELSE "nothing"

Endings(exhausted) ==
  {[direction |-> d, headline |-> Shortfall(d), exhausted |-> exhausted,
    complete |-> exhausted /\ CoverageComplete] : d \in Unanswered}

\* _pursue: an allowance is bought only for an open question with work queued.
Pursuing(run) == Unanswered # {} /\ Frontier # {} /\ MayExtend(run)

-----------------------------------------------------------------------------
(* The steps.                                                              *)

Init ==
  /\ TraceInit
  /\ status = "none"
  /\ budgets = AnyBudgets
  /\ spent = [api_calls |-> 0, extensions |-> 0]
  /\ reports = {}
  /\ runs = [r \in Runner |-> Idle]
  /\ requests = {}
  /\ crashes = 0

\* POST /investigations: the row and the root node commit, then the task starts.
Start(b) ==
  /\ status = "none"
  /\ AdmitRoot
  /\ status' = "created"
  /\ budgets' = b
  /\ runs' = [runs EXCEPT ![Starter] = Launched]
  /\ UNCHANGED <<spent, reports, requests, crashes>>

\* The head of _run: the row is read and marked running in one transaction.
BeginRun(r) ==
  /\ runs[r].phase = "launched"
  /\ runs' = [runs EXCEPT ![r] = SeededTracker]
  /\ status' = "running"
  /\ UNCHANGED <<ledger, labels, graph, budgets, spent, reports, requests, crashes>>

Created == {m \in Node : ~Present(m) /\ nodes'[m].state # "absent"}

\* The iteration's spend is committed with the iteration.
Charge(r, calls) ==
  LET run == [runs[r] EXCEPT !.api_calls = @ + calls, !.nodes = @ + Cardinality(Created)]
  IN /\ runs' = [runs EXCEPT ![r] = run]
     /\ spent' = Snapshot(run)

\* A crossing stops proposing nodes at the node budget; an ordinary expansion
\* may overshoot it and is caught at the next turn of the loop.
Room(r) == runs[r].granted.max_nodes - runs[r].nodes

Work(r, n) ==
  /\ Looping(r)
  /\ Exhausted(runs[r]) = "none"
  /\ Claimable(n)
  /\ LET depth == runs[r].asked.max_depth
     IN \/ CloseAtVasp(n) /\ Charge(r, 0)
        \/ CloseAtHorizon(n, depth) /\ Charge(r, 0)
        \/ \E followed \in SUBSET ExitCandidates(n) :
             /\ Cardinality(New(followed)) <= Room(r)
             /\ CrossMixer(n, depth, followed)
             /\ Charge(r, 1)
        \/ \E seen \in Readable(n) : \E followed \in Followable(n, seen) :
             Expand(n, depth, seen, followed) /\ Charge(r, 1)
  /\ UNCHANGED <<status, budgets, reports, requests, crashes>>

\* The grant is committed before anything is spent against it.
ExtendBudget(r) ==
  /\ Looping(r)
  /\ Exhausted(runs[r]) # "none"
  /\ Pursuing(runs[r])
  /\ runs' = [runs EXCEPT ![r] = Extended(@, Exhausted(@))]
  /\ spent' = Snapshot(Extended(runs[r], Exhausted(runs[r])))
  /\ UNCHANGED <<ledger, labels, graph, status, budgets, reports, requests, crashes>>

\* A run that ends leaves its terminals, its spend and its status in one commit.
Finish(r, outcome) ==
  /\ status' = outcome
  /\ spent' = Snapshot(runs[r])
  /\ reports' = reports \cup Endings(outcome = "completed")
  /\ runs' = [runs EXCEPT ![r] = Idle]
  /\ UNCHANGED <<ledger, labels, graph, budgets, requests, crashes>>

\* The budget that ran out, written where the status belongs.
FinishPartialByName(r) ==
  /\ Looping(r)
  /\ Exhausted(runs[r]) # "none"
  /\ ~Pursuing(runs[r])
  /\ Finish(r, Exhausted(runs[r]))

FinishPartial(r) ==
  /\ Looping(r)
  /\ Exhausted(runs[r]) # "none"
  /\ ~Pursuing(runs[r])
  /\ Finish(r, "partial")

FinishCompleted(r) ==
  /\ Looping(r)
  /\ Exhausted(runs[r]) = "none"
  /\ Frontier = {}
  /\ Finish(r, "completed")

\* A failure that commits what the iteration had written of its node.
FailRunKeepingClaim(r) ==
  /\ Active(r)
  /\ status' = "failed"
  /\ runs' = [runs EXCEPT ![r] = Idle]
  /\ nodes' = [n \in Node |-> IF Claimable(n) THEN [nodes[n] EXCEPT !.state = "expanded"]
                                              ELSE nodes[n]]
  /\ UNCHANGED <<ledger, labels, edges, findings, budgets, spent, reports, requests, crashes>>

\* A provider or a read raises: the iteration rolls back and the run is failed.
FailRun(r) ==
  /\ Active(r)
  /\ status' = "failed"
  /\ runs' = [runs EXCEPT ![r] = Idle]
  /\ UNCHANGED <<ledger, labels, graph, budgets, spent, reports, requests, crashes>>

\* The run's wall clock passes its limit.
ClockRunsOut(r) ==
  /\ Looping(r) /\ ~runs[r].late
  /\ runs' = [runs EXCEPT ![r].late = TRUE]
  /\ UNCHANGED <<ledger, labels, graph, row, requests, crashes>>

\* POST .../resume, first half: the status and the room left are read.
CheckResume(o, b) ==
  /\ \A other \in requests : other[1] # o
  /\ status = "partial"
  /\ b.api_calls > spent.api_calls
  /\ b.max_nodes > NodeCount
  /\ requests' = requests \cup {<<o, b>>}
  /\ UNCHANGED <<ledger, labels, graph, row, runs, crashes>>

\* The claim without its guard on the status.
ClaimResumeUnguarded(o, b) ==
  /\ <<o, b>> \in requests
  /\ requests' = requests \ {<<o, b>>}
  /\ status' = "running"
  /\ budgets' = b
  /\ runs' = [runs EXCEPT ![o] = Launched]
  /\ UNCHANGED <<ledger, labels, graph, spent, reports, crashes>>

\* A failed run taken for a resumable one.
ClaimResumeOfFailed(o, b) ==
  /\ <<o, b>> \in requests
  /\ requests' = requests \ {<<o, b>>}
  /\ IF status \in {"partial", "failed"}
       THEN /\ status' = "running"
            /\ budgets' = b
            /\ runs' = [runs EXCEPT ![o] = Launched]
       ELSE UNCHANGED <<status, budgets, runs>>
  /\ UNCHANGED <<ledger, labels, graph, spent, reports, crashes>>

\* Second half: claim_for_resume is one UPDATE guarded on 'partial'; whoever
\* finds the row gone is told so and nothing changes.
ClaimResume(o, b) ==
  /\ <<o, b>> \in requests
  /\ requests' = requests \ {<<o, b>>}
  /\ IF status = "partial"
       THEN /\ status' = "running"
            /\ budgets' = b
            /\ runs' = [runs EXCEPT ![o] = Launched]
       ELSE UNCHANGED <<status, budgets, runs>>
  /\ UNCHANGED <<ledger, labels, graph, spent, reports, crashes>>

\* The server dies: tasks and requests are gone, the committed record is not.
Crash ==
  /\ crashes < MaxCrashes
  /\ crashes' = crashes + 1
  /\ runs' = [r \in Runner |-> Idle]
  /\ requests' = {}
  /\ UNCHANGED <<ledger, labels, graph, row>>

\* The README's remedy, by hand in the database, for a run a killed server left
\* at 'running'.
Unstrand ==
  /\ status = "running"
  /\ \A r \in Runner : ~Active(r)
  /\ status' = "partial"
  /\ UNCHANGED <<ledger, labels, graph, budgets, spent, reports, runs, requests, crashes>>

Refresh ==
  /\ \E claim \in Volatile : RefreshLabels(claim[1], claim[2])
  /\ UNCHANGED <<row, runs, requests, crashes>>

RunStep(r) ==
  \/ BeginRun(r)
  \/ \E n \in Node : Work(r, n)
  \/ ExtendBudget(r)
  \/ FinishPartial(r)
  \/ FinishCompleted(r)

Next ==
  \/ \E b \in BudgetChoices : Start(b)
  \/ \E r \in Runner : RunStep(r) \/ FailRun(r) \/ ClockRunsOut(r)
  \/ \E o \in Operator, b \in BudgetChoices : CheckResume(o, b) \/ ClaimResume(o, b)
  \/ Crash
  \/ Unstrand
  \/ Refresh

Spec == Init /\ [][Next]_vars

\* A launched task keeps being scheduled; nothing else is promised.
FairSpec == Spec /\ \A r \in Runner : WF_vars(RunStep(r))

-----------------------------------------------------------------------------
(* Properties.                                                             *)

\* The row, the tasks and the requests keep their shape.
LoopTypeOK ==
  /\ status \in Status
  /\ budgets \in BudgetChoices
  /\ spent \in [api_calls : Nat, extensions : Nat]
  /\ reports \subseteq Ending
  /\ runs \in [Runner -> Run]
  /\ requests \subseteq Operator \X BudgetChoices
  /\ crashes \in 0..MaxCrashes

\* However resumes and crashes interleave, one task at most works the frontier
\* (claim_frontier locks nothing), and only while the row says so.
OneRun ==
  \A r \in Runner : Active(r) =>
    /\ status \in {"created", "running"}
    /\ \A other \in Runner : Active(other) => other = r

\* While a run is looping, its tracker and the committed record agree on what was
\* spent and on how much of the graph exists: no commit lags what a budget sees.
TrackerMirrorsRecord ==
  \A r \in Runner : Looping(r) =>
    /\ spent = Snapshot(runs[r])
    /\ runs[r].nodes = NodeCount
    /\ runs[r].asked = budgets

\* No provider call is charged past what the operator asked for and the recorded
\* extensions added to it, whatever crashes and resumes lie between.
SpendWithinGrants ==
  [][spent'.api_calls > spent.api_calls =>
       spent'.api_calls <= budgets.api_calls * (1 + spent'.extensions)]_vars

\* The extensions of all runs together stay under the largest ceiling asked for:
\* a resume does not buy a fresh set.
ExtensionsCapped ==
  \E b \in BudgetChoices : spent.extensions <= b.max_extensions

\* A completed investigation drained its frontier, and each objective is either
\* answered by a traced, sourced endpoint or closed by a terminal that says how
\* far the trace fell short.
CompletedAnswers ==
  status = "completed" =>
    /\ Frontier = {}
    /\ \A d \in Objectives :
         \/ \E n \in Node : /\ n[2] = d /\ findings[<<"vasp", n>>] > 0
                            /\ \E p \in Node : TracedFrom(p, n)
         \/ \E e \in reports : e.direction = d /\ e.exhausted

\* What was spent stays spent across crashes, failures and resumes.
SpendNeverForgotten ==
  [][spent'.api_calls >= spent.api_calls /\ spent'.extensions >= spent.extensions]_vars

\* Nothing is added to a closed account: after completion or failure neither the
\* graph, the spend nor the terminals change again.
ClosedAccount ==
  [][(status \in {"completed", "failed"}) =>
       (status' = status /\ UNCHANGED <<graph, spent, reports>>)]_vars

\* The loop never moves the graph but by TraceGraph's steps.
GraphIsTraced == TraceSpec

\* Every run comes to an end: pursuit buys allowance, never an endless loop.
EveryRunStops == \A r \in Runner : Active(r) ~> ~Active(r)

\* A resume is only launched with budget left to spend.
RoomOnResume ==
  \A o \in Operator : runs[o].phase = "launched" =>
    budgets.api_calls > spent.api_calls /\ budgets.max_nodes > NodeCount

\* "No endpoint reached without crossing a mixer" is only reported when no
\* labelled exchange was reached by value from a traced node.
HeadlineTrue ==
  status = "completed" =>
    \A e \in reports : e.exhausted /\ e.headline = "over_mixer" =>
      \A n \in Node : n[2] = e.direction /\ findings[<<"vasp", n>>] > 0 =>
        ~\E p \in Node : /\ <<p, n>> \in edges
                         /\ Traced(p) /\ nodes[p].state = "expanded"
=============================================================================
