------------------------ MODULE InvestigationProofs ------------------------
(***************************************************************************)
(* Proofs about the life of an investigation: the loop moves the graph by  *)
(* TraceGraph's steps alone, so every theorem about the graph holds of the *)
(* running system; one task at most works the frontier; what a run spends  *)
(* stays inside what was granted and is never forgotten; a closed account  *)
(* stays closed.                                                           *)
(***************************************************************************)
EXTENDS Investigation, TraceGraphProofs, FiniteSetTheorems

\* A looping run was granted no more than what was asked for and its recorded
\* extensions add up to.
GrantsCounted ==
  \A r \in Runner : Looping(r) =>
    runs[r].granted.api_calls <= budgets.api_calls * (1 + runs[r].extensions)

\* A finding is filed against a node on record.
FiledOnRecord == \A f \in Finding : findings[f] > 0 => Present(f[2])

Account == LoopTypeOK /\ OneRun /\ TrackerMirrorsRecord /\ GrantsCounted /\ ExtensionsCapped
LoopInv == IInv /\ Account /\ FiledOnRecord /\ CompletedAnswers

-----------------------------------------------------------------------------
(* The refinement: each step of the system is a step of the graph or none. *)

LEMMA AskedDepth ==
  ASSUME LoopTypeOK, NEW r \in Runner
  PROVE  runs[r].asked.max_depth \in Depths
<1>1. runs[r].asked \in Budgets
  BY BudgetsAssumption DEF LoopTypeOK, Run
<1>2. QED BY <1>1 DEF Budgets

\* The four branches of the loop's body are ProcessNode under the run's horizon.
LEMMA WorkIsTraced ==
  ASSUME LoopTypeOK, NEW r \in Runner, NEW n \in Node, Work(r, n)
  PROVE  ProcessNode(n, runs[r].asked.max_depth)
  BY DEF Work, ProcessNode

LEMMA StepIsTraced == LoopTypeOK /\ [Next]_vars => [TraceNext]_traceVars
<1> SUFFICES ASSUME LoopTypeOK, [Next]_vars PROVE [TraceNext]_traceVars
  OBVIOUS
<1>1. ASSUME NEW b \in BudgetChoices, Start(b) PROVE TraceNext
  BY <1>1 DEF Start, TraceNext
<1>2. ASSUME NEW r \in Runner, NEW n \in Node, Work(r, n) PROVE TraceNext
  BY <1>2, WorkIsTraced, AskedDepth DEF TraceNext
<1>3. ASSUME NEW r \in Runner,
             BeginRun(r) \/ ExtendBudget(r) \/ FinishPartial(r) \/ FinishCompleted(r)
               \/ FailRun(r) \/ ClockRunsOut(r)
      PROVE  UNCHANGED traceVars
  BY <1>3 DEF BeginRun, ExtendBudget, FinishPartial, FinishCompleted, Finish, FailRun,
              ClockRunsOut, traceVars, graph
<1>4. ASSUME NEW o \in Operator, NEW b \in BudgetChoices, CheckResume(o, b) \/ ClaimResume(o, b)
      PROVE  UNCHANGED traceVars
  BY <1>4 DEF CheckResume, ClaimResume, traceVars, graph
<1>5. CASE Crash \/ Unstrand
  BY <1>5 DEF Crash, Unstrand, traceVars, graph
<1>6. CASE Refresh
  BY <1>6 DEF Refresh, TraceNext
<1>7. CASE UNCHANGED vars
  BY <1>7 DEF vars, traceVars
<1>8. QED BY <1>1, <1>2, <1>3, <1>4, <1>5, <1>6, <1>7 DEF Next, RunStep

\* The initial states agree as well, so the graph's invariant is the system's.
LEMMA InitIsTraced == Init => TraceInit
  BY DEF Init

-----------------------------------------------------------------------------
(* The shape of a run.                                                     *)

LEMMA NodeFinite == IsFiniteSet(Node)
<1>1. IsFiniteSet(Direction)
  <2>1. Direction = {"backward"} \cup {"forward"}
    BY DEF Direction
  <2>2. IsFiniteSet({"backward"})
    BY FS_Singleton
  <2>3. QED BY <2>1, <2>2, FS_AddElement
<1>2. IsFiniteSet(Objectives)
  BY <1>1, ObjectivesAssumption, FS_Subset
<1>3. IsFiniteSet(Objectives \cup {Undirected})
  BY <1>2, FS_AddElement
<1>4. QED BY <1>3, AddressAssumption, FS_Product DEF Node

LEMMA NodeCountIsNat == NodeCount \in Nat
<1>1. IsFiniteSet({n \in Node : Present(n)})
  BY NodeFinite, FS_Subset
<1>2. QED BY <1>1, FS_CardinalityType DEF NodeCount

LEMMA BudgetFields ==
  ASSUME NEW b \in BudgetChoices
  PROVE  /\ b.api_calls \in Nat /\ b.max_nodes \in Nat /\ b.max_depth \in Depths
         /\ b.max_extensions \in Nat /\ b.api_calls > 0
<1>1. b \in Budgets
  BY BudgetsAssumption
<1>2. QED BY <1>1 DEF Budgets

LEMMA RunFields ==
  ASSUME LoopTypeOK, NEW r \in Runner
  PROVE  /\ runs[r] \in Run /\ runs[r].phase \in Phase /\ runs[r].asked \in BudgetChoices
         /\ runs[r].granted \in [api_calls : Nat, max_nodes : Nat]
         /\ runs[r].granted.api_calls \in Nat /\ runs[r].granted.max_nodes \in Nat
         /\ runs[r].api_calls \in Nat /\ runs[r].nodes \in Nat /\ runs[r].extensions \in Nat
         /\ runs[r].late \in BOOLEAN
  BY DEF LoopTypeOK, Run

LEMMA IdleIsRun == Idle \in Run /\ Launched \in Run /\ Idle.phase = "idle" /\ Launched.phase = "launched"
<1>1. AnyBudgets \in BudgetChoices
  BY BudgetsAssumption DEF AnyBudgets
<1>2. QED BY <1>1 DEF Idle, Launched, Run, Phase

LEMMA SeededIsRun ==
  ASSUME LoopTypeOK
  PROVE  /\ SeededTracker \in Run /\ SeededTracker.phase = "looping"
         /\ SeededTracker.api_calls = spent.api_calls /\ SeededTracker.nodes = NodeCount
         /\ SeededTracker.extensions = spent.extensions /\ SeededTracker.asked = budgets
         /\ SeededTracker.granted.api_calls = budgets.api_calls
<1>1. budgets \in BudgetChoices /\ budgets.api_calls \in Nat /\ budgets.max_nodes \in Nat
  BY BudgetFields DEF LoopTypeOK
<1>2. QED BY <1>1, NodeCountIsNat DEF SeededTracker, LoopTypeOK, Run, Phase

\* What an extension does to a tracker: one more of the named budget, counted.
LEMMA ExtendedRun ==
  ASSUME LoopTypeOK, NEW r \in Runner, NEW budget
  PROVE  /\ Extended(runs[r], budget) \in Run
         /\ Extended(runs[r], budget).phase = runs[r].phase
         /\ Extended(runs[r], budget).asked = runs[r].asked
         /\ Extended(runs[r], budget).api_calls = runs[r].api_calls
         /\ Extended(runs[r], budget).nodes = runs[r].nodes
         /\ Extended(runs[r], budget).extensions = runs[r].extensions + 1
         /\ \/ Extended(runs[r], budget).granted.api_calls = runs[r].granted.api_calls
            \/ Extended(runs[r], budget).granted.api_calls
                 = runs[r].granted.api_calls + runs[r].asked.api_calls
<1> DEFINE g == Raised(runs[r], budget)
           late == StillLate(runs[r], budget)
<1>1. /\ runs[r] \in Run /\ runs[r].asked \in BudgetChoices
      /\ runs[r].granted.api_calls \in Nat /\ runs[r].granted.max_nodes \in Nat
      /\ runs[r].late \in BOOLEAN /\ runs[r].extensions \in Nat
  BY RunFields
<1>2. runs[r].asked.api_calls \in Nat /\ runs[r].asked.max_nodes \in Nat
  BY <1>1, BudgetFields
<1>3. g \in [api_calls : Nat, max_nodes : Nat]
  BY <1>1, <1>2 DEF Raised
<1>4. late \in BOOLEAN
  <2>1. CASE budget = "seconds"
    BY <2>1 DEF StillLate
  <2>2. CASE budget # "seconds"
    BY <1>1, <2>2 DEF StillLate
  <2>3. QED BY <2>1, <2>2
<1>5. \/ g.api_calls = runs[r].granted.api_calls
      \/ g.api_calls = runs[r].granted.api_calls + runs[r].asked.api_calls
  BY DEF Raised
<1>6. runs[r].extensions + 1 \in Nat
  BY <1>1
<1>7. Extended(runs[r], budget)
        = [runs[r] EXCEPT !.granted = g, !.late = late, !.extensions = runs[r].extensions + 1]
  BY DEF Extended
<1> DEFINE run == runs[r]
           e == runs[r].extensions + 1
           new == [run EXCEPT !.granted = g, !.late = late, !.extensions = e]
<1>8. run \in Run /\ e \in Nat
  BY <1>1, <1>6
<1> HIDE DEF g, late, run, e
<1>9. /\ new \in Run /\ new.phase = run.phase /\ new.asked = run.asked
      /\ new.granted = g /\ new.api_calls = run.api_calls /\ new.nodes = run.nodes
      /\ new.extensions = e
  BY <1>3, <1>4, <1>8 DEF Run
<1> HIDE DEF new
<1>10. Extended(runs[r], budget) = new
  BY <1>7 DEF new, run, e
<1>11. QED BY <1>5, <1>9, <1>10 DEF run, e

\* The work of an iteration is charged to one run, which goes on looping.
LEMMA WorkCharges ==
  ASSUME LoopTypeOK, NEW r \in Runner, NEW n \in Node, Work(r, n)
  PROVE  \E calls \in {0, 1} : Charge(r, calls)
  BY DEF Work

LEMMA CreatedIsNat == IsFiniteSet(Created) /\ Cardinality(Created) \in Nat
  BY NodeFinite, FS_Subset, FS_CardinalityType DEF Created

LEMMA ChargedRun ==
  ASSUME LoopTypeOK, NEW r \in Runner, NEW calls \in {0, 1}, Charge(r, calls)
  PROVE  /\ runs' \in [Runner -> Run]
         /\ \A other \in Runner : other # r => runs'[other] = runs[other]
         /\ runs'[r].phase = runs[r].phase /\ runs'[r].asked = runs[r].asked
         /\ runs'[r].granted = runs[r].granted
         /\ runs'[r].api_calls = runs[r].api_calls + calls
         /\ runs'[r].nodes = runs[r].nodes + Cardinality(Created)
         /\ runs'[r].extensions = runs[r].extensions
         /\ spent' = Snapshot(runs'[r])
<1> DEFINE run == [runs[r] EXCEPT !.api_calls = @ + calls, !.nodes = @ + Cardinality(Created)]
<1>1. runs' = [runs EXCEPT ![r] = run] /\ spent' = Snapshot(run)
  BY DEF Charge
<1> DEFINE old == runs[r]
           c == runs[r].api_calls + calls
           k == runs[r].nodes + Cardinality(Created)
           new == [old EXCEPT !.api_calls = c, !.nodes = k]
<1>2. old \in Run /\ c \in Nat /\ k \in Nat
  BY RunFields, CreatedIsNat
<1>3. run = new
  OBVIOUS
<1> HIDE DEF run, old, c, k
<1>4. /\ new \in Run /\ new.phase = old.phase /\ new.asked = old.asked
      /\ new.granted = old.granted /\ new.api_calls = c /\ new.nodes = k
      /\ new.extensions = old.extensions
  BY <1>2 DEF Run
<1> HIDE DEF new
<1>5. QED BY <1>1, <1>3, <1>4 DEF LoopTypeOK, old, c, k

-----------------------------------------------------------------------------
(* One run at a time.                                                      *)

\* The status is the lock: it admits a run only when no run is active.
LEMMA StepOneRun == LoopTypeOK /\ OneRun /\ [Next]_vars => OneRun'
<1> SUFFICES ASSUME LoopTypeOK, OneRun, [Next]_vars PROVE OneRun'
  OBVIOUS
<1>r. runs \in [Runner -> Run] /\ Starter \in Runner /\ Operator \subseteq Runner
  BY DEF LoopTypeOK, Runner
<1>1. ASSUME NEW b \in BudgetChoices, Start(b) PROVE OneRun'
  BY <1>1, <1>r, IdleIsRun DEF Start, OneRun, Active
<1>2. ASSUME NEW r \in Runner, BeginRun(r) PROVE OneRun'
  BY <1>2, <1>r DEF BeginRun, OneRun, Active
<1>3. ASSUME NEW r \in Runner, NEW n \in Node, Work(r, n) PROVE OneRun'
  <2>1. \A other \in Runner : (Active(other))' <=> Active(other)
    BY <1>3, WorkCharges, ChargedRun DEF Active
  <2>2. status' = status
    BY <1>3 DEF Work
  <2>3. QED BY <2>1, <2>2 DEF OneRun
<1>4. ASSUME NEW r \in Runner, ExtendBudget(r) PROVE OneRun'
  <2>1. \A other \in Runner : (Active(other))' <=> Active(other)
    BY <1>4, <1>r, ExtendedRun DEF ExtendBudget, Active, Looping
  <2>2. QED BY <1>4, <2>1 DEF OneRun, ExtendBudget
<1>5. ASSUME NEW r \in Runner, FinishPartial(r) \/ FinishCompleted(r) \/ FailRun(r)
      PROVE  OneRun'
  <2>1. Active(r) /\ runs' = [runs EXCEPT ![r] = Idle]
    BY <1>5 DEF FinishPartial, FinishCompleted, FailRun, Finish, Active, Looping
  <2>2. \A other \in Runner : ~(Active(other))'
    BY <2>1, <1>r, IdleIsRun DEF OneRun, Active
  <2>3. QED BY <2>2 DEF OneRun
<1>6. ASSUME NEW r \in Runner, ClockRunsOut(r) PROVE OneRun'
  BY <1>6, <1>r DEF ClockRunsOut, row, OneRun, Active, Looping
<1>7. ASSUME NEW o \in Operator, NEW b \in BudgetChoices, CheckResume(o, b) PROVE OneRun'
  BY <1>7 DEF CheckResume, row, OneRun, Active
<1>8. ASSUME NEW o \in Operator, NEW b \in BudgetChoices, ClaimResume(o, b) PROVE OneRun'
  <2>1. CASE status = "partial"
    BY <1>8, <2>1, <1>r, IdleIsRun DEF ClaimResume, OneRun, Active
  <2>2. CASE status # "partial"
    BY <1>8, <2>2 DEF ClaimResume, OneRun, Active
  <2>3. QED BY <2>1, <2>2
<1>9. CASE Crash
  BY <1>9, IdleIsRun DEF Crash, OneRun, Active
<1>10. CASE Unstrand
  BY <1>10 DEF Unstrand, OneRun, Active
<1>11. CASE Refresh
  BY <1>11 DEF Refresh, row, OneRun, Active
<1>12. CASE UNCHANGED vars
  BY <1>12 DEF vars, row, OneRun, Active
<1>13. QED
  BY <1>1, <1>2, <1>3, <1>4, <1>5, <1>6, <1>7, <1>8, <1>9, <1>10, <1>11, <1>12 DEF Next, RunStep

-----------------------------------------------------------------------------
(* The record keeps its shape.                                             *)

LEMMA SnapshotType ==
  ASSUME LoopTypeOK, NEW r \in Runner
  PROVE  Snapshot(runs[r]) \in [api_calls : Nat, extensions : Nat]
<1>1. runs[r].api_calls \in Nat /\ runs[r].extensions \in Nat
  BY RunFields
<1>2. QED BY <1>1 DEF Snapshot

LEMMA EndingsType == ASSUME NEW e \in BOOLEAN PROVE Endings(e) \subseteq Ending
<1> SUFFICES ASSUME NEW d \in Objectives
             PROVE  [direction |-> d, headline |-> Shortfall(d), exhausted |-> e,
                     complete |-> e /\ CoverageComplete] \in Ending
  BY DEF Endings, Unanswered
<1>1. Shortfall(d) \in Headline
  BY DEF Shortfall, Headline
<1>2. (e /\ CoverageComplete) \in BOOLEAN
  OBVIOUS
<1>3. QED BY <1>1, <1>2 DEF Ending

LEMMA StepLoopType == LoopTypeOK /\ [Next]_vars => LoopTypeOK'
<1> SUFFICES ASSUME LoopTypeOK, [Next]_vars PROVE LoopTypeOK'
  OBVIOUS
<1>r. /\ runs \in [Runner -> Run] /\ Starter \in Runner /\ Operator \subseteq Runner
      /\ Idle \in Run /\ Launched \in Run
  BY IdleIsRun DEF LoopTypeOK, Runner
<1>1. ASSUME NEW b \in BudgetChoices, Start(b) PROVE LoopTypeOK'
  BY <1>1, <1>r DEF Start, LoopTypeOK, Status
<1>2. ASSUME NEW r \in Runner, BeginRun(r) PROVE LoopTypeOK'
  <2>1. SeededTracker \in Run
    BY SeededIsRun
  <2>2. QED BY <1>2, <1>r, <2>1 DEF BeginRun, LoopTypeOK, Status
<1>3. ASSUME NEW r \in Runner, NEW n \in Node, Work(r, n) PROVE LoopTypeOK'
  <2>1. PICK calls \in {0, 1} : Charge(r, calls)
    BY <1>3, WorkCharges
  <2>2. /\ runs' \in [Runner -> Run] /\ spent' = Snapshot(runs'[r])
    BY <2>1, ChargedRun
  <2>3. runs'[r].api_calls \in Nat /\ runs'[r].extensions \in Nat
    BY <2>2 DEF Run
  <2>4. spent' \in [api_calls : Nat, extensions : Nat]
    BY <2>2, <2>3 DEF Snapshot
  <2>5. QED BY <1>3, <2>2, <2>4 DEF Work, LoopTypeOK
<1>4. ASSUME NEW r \in Runner, ExtendBudget(r) PROVE LoopTypeOK'
  <2> DEFINE new == Extended(runs[r], Exhausted(runs[r]))
  <2>1. new \in Run
    BY ExtendedRun
  <2>2. new.api_calls \in Nat /\ new.extensions \in Nat
    BY <2>1 DEF Run
  <2>3. Snapshot(new) \in [api_calls : Nat, extensions : Nat]
    BY <2>2 DEF Snapshot
  <2>4. runs' = [runs EXCEPT ![r] = new] /\ spent' = Snapshot(new)
    BY <1>4, <1>r DEF ExtendBudget
  <2> HIDE DEF new
  <2>5. QED BY <1>4, <1>r, <2>1, <2>3, <2>4 DEF ExtendBudget, LoopTypeOK
<1>5. ASSUME NEW r \in Runner, NEW outcome \in {"partial", "completed"}, Finish(r, outcome)
      PROVE  LoopTypeOK'
  <2>1. Endings(outcome = "completed") \subseteq Ending
    BY EndingsType
  <2>2. Snapshot(runs[r]) \in [api_calls : Nat, extensions : Nat]
    BY SnapshotType
  <2>3. QED BY <1>5, <1>r, <2>1, <2>2 DEF Finish, LoopTypeOK, Status
<1>6. ASSUME NEW r \in Runner, FinishPartial(r) \/ FinishCompleted(r) PROVE LoopTypeOK'
  BY <1>5, <1>6 DEF FinishPartial, FinishCompleted
<1>7. ASSUME NEW r \in Runner, FailRun(r) PROVE LoopTypeOK'
  BY <1>7, <1>r DEF FailRun, LoopTypeOK, Status
<1>8. ASSUME NEW r \in Runner, ClockRunsOut(r) PROVE LoopTypeOK'
  <2> DEFINE old == runs[r]
             new == [old EXCEPT !.late = TRUE]
  <2>1. old \in Run /\ runs' = [runs EXCEPT ![r] = new]
    BY <1>8, <1>r DEF ClockRunsOut
  <2> HIDE DEF old
  <2>2. new \in Run
    BY <2>1 DEF Run
  <2> HIDE DEF new
  <2>3. QED BY <1>8, <1>r, <2>1, <2>2 DEF ClockRunsOut, row, LoopTypeOK
<1>9. ASSUME NEW o \in Operator, NEW b \in BudgetChoices, CheckResume(o, b) PROVE LoopTypeOK'
  BY <1>9 DEF CheckResume, row, LoopTypeOK
<1>10. ASSUME NEW o \in Operator, NEW b \in BudgetChoices, ClaimResume(o, b) PROVE LoopTypeOK'
  BY <1>10, <1>r DEF ClaimResume, LoopTypeOK, Status
<1>11. CASE Crash
  BY <1>11, <1>r, MaxCrashesAssumption DEF Crash, row, LoopTypeOK
<1>12. CASE Unstrand
  BY <1>12 DEF Unstrand, LoopTypeOK, Status
<1>13. CASE Refresh
  BY <1>13 DEF Refresh, row, LoopTypeOK
<1>14. CASE UNCHANGED vars
  BY <1>14 DEF vars, row, LoopTypeOK
<1>15. QED
  BY <1>1, <1>2, <1>3, <1>4, <1>6, <1>7, <1>8, <1>9, <1>10, <1>11, <1>12, <1>13, <1>14
  DEF Next, RunStep

-----------------------------------------------------------------------------
(* The account: what a tracker holds and what the row says are one thing.  *)

\* A claim only adds rows, and Created is exactly what it adds.
LEMMA CreatedCounts ==
  ASSUME TypeOK, Tidy, NEW n \in Node, NEW depth, ProcessNode(n, depth)
  PROVE  NodeCount' = NodeCount + Cardinality(Created)
<1> DEFINE S == {m \in Node : Present(m)}
           T == {m \in Node : (Present(m))'}
<1>1. \A m \in Node : Present(m) => (Present(m))'
  <2>1. PICK r, reached, speculative : Claim(n, r, reached, speculative)
    BY StepShape
  <2>2. QED BY <2>1, ClaimKeepsRows
<1>2. T = S \cup Created /\ S \cap Created = {}
  BY <1>1 DEF Created, Present
<1>3. IsFiniteSet(S) /\ IsFiniteSet(Created)
  BY NodeFinite, CreatedIsNat, FS_Subset
<1>4. Cardinality(T) = Cardinality(S) + Cardinality(Created) - Cardinality(S \cap Created)
  BY <1>2, <1>3, FS_Union
<1>5. Cardinality(S \cap Created) = 0
  BY <1>2, FS_EmptySet
<1>6. Cardinality(S) \in Nat /\ Cardinality(Created) \in Nat
  BY <1>3, FS_CardinalityType
<1>7. Cardinality(T) = Cardinality(S) + Cardinality(Created)
  BY <1>4, <1>5, <1>6
<1>8. NodeCount = Cardinality(S) /\ NodeCount' = Cardinality(T)
  BY DEF NodeCount
<1>9. QED BY <1>7, <1>8

\* Steps that leave the nodes alone leave their count alone.
LEMMA CountStands == UNCHANGED nodes => NodeCount' = NodeCount
  BY DEF NodeCount, Present

\* Every step that moves a looping run's account moves the row in the same commit.
LEMMA StepMirrors ==
  LoopTypeOK /\ TypeOK /\ Tidy /\ OneRun /\ TrackerMirrorsRecord /\ [Next]_vars => TrackerMirrorsRecord'
<1> SUFFICES ASSUME LoopTypeOK, TypeOK, Tidy, OneRun, TrackerMirrorsRecord, [Next]_vars
             PROVE  TrackerMirrorsRecord'
  OBVIOUS
<1>r. /\ runs \in [Runner -> Run] /\ Starter \in Runner /\ Operator \subseteq Runner
      /\ Idle.phase = "idle" /\ Launched.phase = "launched"
  BY IdleIsRun DEF LoopTypeOK, Runner
<1>1. ASSUME NEW b \in BudgetChoices, Start(b) PROVE TrackerMirrorsRecord'
  <2>1. \A other \in Runner : ~(Looping(other))'
    BY <1>1, <1>r DEF Start, OneRun, Active, Looping
  <2>2. QED BY <2>1 DEF TrackerMirrorsRecord
<1>2. ASSUME NEW r \in Runner, BeginRun(r) PROVE TrackerMirrorsRecord'
  <2>1. runs' = [runs EXCEPT ![r] = SeededTracker] /\ UNCHANGED <<spent, nodes, budgets>>
    BY <1>2 DEF BeginRun, graph
  <2>2. \A other \in Runner : (Looping(other))' => other = r
    BY <1>2, <1>r, <2>1 DEF BeginRun, OneRun, Active, Looping
  <2>3. spent = Snapshot(SeededTracker)
    BY SeededIsRun DEF Snapshot, LoopTypeOK
  <2>4. runs'[r] = SeededTracker
    BY <1>r, <2>1
  <2>5. NodeCount' = NodeCount
    BY <2>1, CountStands
  <2>6. QED BY <2>1, <2>2, <2>3, <2>4, <2>5, SeededIsRun DEF TrackerMirrorsRecord, Snapshot
<1>3. ASSUME NEW r \in Runner, NEW n \in Node, Work(r, n) PROVE TrackerMirrorsRecord'
  <2>1. PICK calls \in {0, 1} : Charge(r, calls)
    BY <1>3, WorkCharges
  <2>2. NodeCount' = NodeCount + Cardinality(Created)
    BY <1>3, WorkIsTraced, CreatedCounts
  <2>3. \A other \in Runner : (Looping(other))' => other = r
    BY <1>3, <2>1, ChargedRun DEF Work, OneRun, Active, Looping
  <2>4. Looping(r) /\ runs[r].nodes = NodeCount /\ runs[r].asked = budgets /\ budgets' = budgets
    BY <1>3 DEF Work, TrackerMirrorsRecord
  <2>5. runs'[r].nodes = NodeCount' /\ runs'[r].asked = budgets' /\ spent' = Snapshot(runs'[r])
    BY <2>1, <2>2, <2>4, ChargedRun
  <2>6. QED BY <2>3, <2>5 DEF TrackerMirrorsRecord, Snapshot
<1>4. ASSUME NEW r \in Runner, ExtendBudget(r) PROVE TrackerMirrorsRecord'
  <2> DEFINE new == Extended(runs[r], Exhausted(runs[r]))
  <2>1. new.nodes = runs[r].nodes /\ new.asked = runs[r].asked
    BY ExtendedRun
  <2>2. /\ runs' = [runs EXCEPT ![r] = new] /\ spent' = Snapshot(new) /\ Looping(r)
        /\ UNCHANGED <<nodes, budgets>>
    BY <1>4, <1>r DEF ExtendBudget, graph
  <2> HIDE DEF new
  <2>3. \A other \in Runner : (Looping(other))' => other = r
    BY <1>r, <2>2 DEF OneRun, Active, Looping
  <2>4. runs'[r] = new
    BY <1>r, <2>2
  <2>5. NodeCount' = NodeCount
    BY <2>2, CountStands
  <2>6. QED BY <2>1, <2>2, <2>3, <2>4, <2>5 DEF TrackerMirrorsRecord, Snapshot
<1>5. ASSUME NEW r \in Runner, FinishPartial(r) \/ FinishCompleted(r) \/ FailRun(r)
      PROVE  TrackerMirrorsRecord'
  <2>1. Active(r) /\ runs' = [runs EXCEPT ![r] = Idle]
    BY <1>5 DEF FinishPartial, FinishCompleted, FailRun, Finish, Active, Looping
  <2>2. \A other \in Runner : ~(Looping(other))'
    BY <2>1, <1>r DEF OneRun, Active, Looping
  <2>3. QED BY <2>2 DEF TrackerMirrorsRecord
<1>6. ASSUME NEW r \in Runner, ClockRunsOut(r) PROVE TrackerMirrorsRecord'
  <2> DEFINE old == runs[r]
             new == [old EXCEPT !.late = TRUE]
  <2>1. old \in Run /\ runs' = [runs EXCEPT ![r] = new] /\ Looping(r)
    BY <1>6, <1>r DEF ClockRunsOut
  <2>2. spent = Snapshot(old) /\ old.nodes = NodeCount /\ old.asked = budgets
    BY <2>1 DEF TrackerMirrorsRecord
  <2>3. \A other \in Runner : (Looping(other))' => other = r
    BY <1>r, <2>1 DEF OneRun, Active, Looping
  <2>4. runs'[r] = new
    BY <1>r, <2>1
  <2>5. NodeCount' = NodeCount /\ UNCHANGED <<spent, budgets>>
    BY <1>6, CountStands DEF ClockRunsOut, graph, row
  <2> HIDE DEF old
  <2>6. new.nodes = old.nodes /\ new.asked = old.asked /\ new.api_calls = old.api_calls
        /\ new.extensions = old.extensions
    BY <2>1 DEF Run
  <2> HIDE DEF new
  <2>7. QED BY <2>2, <2>3, <2>4, <2>5, <2>6 DEF TrackerMirrorsRecord, Snapshot
<1>7. ASSUME NEW o \in Operator, NEW b \in BudgetChoices, CheckResume(o, b) \/ ClaimResume(o, b)
      PROVE  TrackerMirrorsRecord'
  <2>1. CASE UNCHANGED <<runs, spent, budgets, nodes>>
    <3>1. NodeCount' = NodeCount
      BY <2>1, CountStands
    <3>2. QED BY <2>1, <3>1 DEF TrackerMirrorsRecord, Looping, Snapshot
  <2>2. CASE status = "partial" /\ runs' = [runs EXCEPT ![o] = Launched]
    <3>1. \A other \in Runner : ~(Looping(other))'
      BY <2>2, <1>r DEF OneRun, Active, Looping
    <3>2. QED BY <3>1 DEF TrackerMirrorsRecord
  <2>3. QED BY <1>7, <2>1, <2>2 DEF CheckResume, ClaimResume, graph, row
<1>8. CASE Crash
  <2>1. \A other \in Runner : ~(Looping(other))'
    BY <1>8, <1>r DEF Crash, Looping
  <2>2. QED BY <2>1 DEF TrackerMirrorsRecord
<1>9. CASE Unstrand
  <2>1. \A other \in Runner : ~(Looping(other))'
    BY <1>9 DEF Unstrand, Active, Looping
  <2>2. QED BY <2>1 DEF TrackerMirrorsRecord
<1>10. CASE Refresh \/ UNCHANGED vars
  <2>1. UNCHANGED <<runs, spent, budgets, nodes>>
    BY <1>10 DEF Refresh, RefreshLabels, row, vars
  <2>2. NodeCount' = NodeCount
    BY <2>1, CountStands
  <2>3. QED BY <2>1, <2>2 DEF TrackerMirrorsRecord, Looping, Snapshot
<1>11. QED
  BY <1>1, <1>2, <1>3, <1>4, <1>5, <1>6, <1>7, <1>8, <1>9, <1>10 DEF Next, RunStep

-----------------------------------------------------------------------------
(* What was granted is counted, and so is bounded.                         *)

LEMMA OneAllowance ==
  ASSUME NEW a \in Nat, NEW e \in Nat PROVE a <= a * (1 + e)
<1>1. a * (1 + e) = a + a * e /\ a * e \in Nat
  BY SMT
<1>2. QED BY <1>1

LEMMA OneMoreAllowance ==
  ASSUME NEW a \in Nat, NEW e \in Nat PROVE a * (1 + (e + 1)) = a * (1 + e) + a
  BY SMT

LEMMA StepGrants ==
  LoopTypeOK /\ OneRun /\ TrackerMirrorsRecord /\ GrantsCounted /\ [Next]_vars => GrantsCounted'
<1> SUFFICES ASSUME LoopTypeOK, OneRun, TrackerMirrorsRecord, GrantsCounted, [Next]_vars
             PROVE  GrantsCounted'
  OBVIOUS
<1>r. /\ runs \in [Runner -> Run] /\ Starter \in Runner /\ Operator \subseteq Runner
      /\ Idle.phase = "idle" /\ Launched.phase = "launched"
      /\ budgets \in BudgetChoices /\ budgets.api_calls \in Nat
  BY IdleIsRun, BudgetFields DEF LoopTypeOK, Runner
<1>1. ASSUME NEW b \in BudgetChoices, Start(b) PROVE GrantsCounted'
  <2>1. \A other \in Runner : ~(Looping(other))'
    BY <1>1, <1>r DEF Start, OneRun, Active, Looping
  <2>2. QED BY <2>1 DEF GrantsCounted
<1>2. ASSUME NEW r \in Runner, BeginRun(r) PROVE GrantsCounted'
  <2>1. runs' = [runs EXCEPT ![r] = SeededTracker] /\ budgets' = budgets
    BY <1>2 DEF BeginRun
  <2>2. \A other \in Runner : (Looping(other))' => other = r
    BY <1>2, <1>r, <2>1 DEF BeginRun, OneRun, Active, Looping
  <2>3. SeededTracker.extensions \in Nat
    BY SeededIsRun DEF LoopTypeOK
  <2>4. SeededTracker.granted.api_calls <= budgets.api_calls * (1 + SeededTracker.extensions)
    BY <1>r, <2>3, SeededIsRun, OneAllowance
  <2>5. runs'[r] = SeededTracker
    BY <1>r, <2>1
  <2>6. QED BY <2>1, <2>2, <2>4, <2>5 DEF GrantsCounted
<1>3. ASSUME NEW r \in Runner, NEW n \in Node, Work(r, n) PROVE GrantsCounted'
  <2>1. PICK calls \in {0, 1} : Charge(r, calls)
    BY <1>3, WorkCharges
  <2>2. \A other \in Runner : /\ runs'[other].phase = runs[other].phase
                              /\ runs'[other].granted = runs[other].granted
                              /\ runs'[other].extensions = runs[other].extensions
    BY <2>1, ChargedRun
  <2>3. QED BY <1>3, <2>2 DEF Work, GrantsCounted, Looping
<1>4. ASSUME NEW r \in Runner, ExtendBudget(r) PROVE GrantsCounted'
  <2> DEFINE new == Extended(runs[r], Exhausted(runs[r]))
             a == budgets.api_calls
             e == runs[r].extensions
             g == runs[r].granted.api_calls
  <2>1. new.extensions = e + 1 /\ (new.granted.api_calls = g
                                    \/ new.granted.api_calls = g + runs[r].asked.api_calls)
    BY ExtendedRun
  <2>2. runs' = [runs EXCEPT ![r] = new] /\ Looping(r) /\ budgets' = budgets
    BY <1>4, <1>r DEF ExtendBudget
  <2> HIDE DEF new
  <2>3. runs[r].asked = budgets /\ g <= a * (1 + e)
    BY <2>2 DEF TrackerMirrorsRecord, GrantsCounted
  <2>4. a \in Nat /\ e \in Nat /\ g \in Nat
    BY <1>r, RunFields
  <2>5. new.granted.api_calls = g \/ new.granted.api_calls = g + a
    BY <2>1, <2>3
  <2> HIDE DEF a, e, g
  <2>6. a * (1 + (e + 1)) = a * (1 + e) + a /\ a * (1 + e) \in Nat
    BY <2>4, OneMoreAllowance
  <2>7. new.granted.api_calls <= a * (1 + (e + 1))
    BY <2>3, <2>4, <2>5, <2>6
  <2>8. runs'[r] = new
    BY <1>r, <2>2
  <2>9. \A other \in Runner : (Looping(other))' => other = r
    BY <1>r, <2>2 DEF OneRun, Active, Looping
  <2>10. runs'[r].granted.api_calls <= budgets'.api_calls * (1 + runs'[r].extensions)
    BY <2>1, <2>2, <2>7, <2>8 DEF a
  <2>11. QED BY <2>9, <2>10 DEF GrantsCounted
<1>5. ASSUME NEW r \in Runner, FinishPartial(r) \/ FinishCompleted(r) \/ FailRun(r)
      PROVE  GrantsCounted'
  <2>1. Active(r) /\ runs' = [runs EXCEPT ![r] = Idle]
    BY <1>5 DEF FinishPartial, FinishCompleted, FailRun, Finish, Active, Looping
  <2>2. \A other \in Runner : ~(Looping(other))'
    BY <2>1, <1>r DEF OneRun, Active, Looping
  <2>3. QED BY <2>2 DEF GrantsCounted
<1>6. ASSUME NEW r \in Runner, ClockRunsOut(r) PROVE GrantsCounted'
  <2> DEFINE old == runs[r]
             new == [old EXCEPT !.late = TRUE]
  <2>1. old \in Run /\ runs' = [runs EXCEPT ![r] = new] /\ budgets' = budgets
    BY <1>6, <1>r DEF ClockRunsOut, row
  <2> HIDE DEF old
  <2>2. new.phase = old.phase /\ new.granted = old.granted /\ new.extensions = old.extensions
    BY <2>1 DEF Run
  <2> HIDE DEF new
  <2>3. \A other \in Runner : /\ runs'[other].phase = runs[other].phase
                              /\ runs'[other].granted = runs[other].granted
                              /\ runs'[other].extensions = runs[other].extensions
    BY <1>r, <2>1, <2>2 DEF old
  <2>4. QED BY <2>1, <2>3 DEF GrantsCounted, Looping
<1>7. ASSUME NEW o \in Operator, NEW b \in BudgetChoices, CheckResume(o, b) \/ ClaimResume(o, b)
      PROVE  GrantsCounted'
  <2>1. CASE UNCHANGED <<runs, budgets>>
    BY <2>1 DEF GrantsCounted, Looping
  <2>2. CASE status = "partial" /\ runs' = [runs EXCEPT ![o] = Launched]
    <3>1. \A other \in Runner : ~(Looping(other))'
      BY <2>2, <1>r DEF OneRun, Active, Looping
    <3>2. QED BY <3>1 DEF GrantsCounted
  <2>3. QED BY <1>7, <2>1, <2>2 DEF CheckResume, ClaimResume, row
<1>8. CASE Crash
  <2>1. \A other \in Runner : ~(Looping(other))'
    BY <1>8, <1>r DEF Crash, Looping
  <2>2. QED BY <2>1 DEF GrantsCounted
<1>9. CASE Unstrand \/ Refresh \/ UNCHANGED vars
  <2>1. UNCHANGED <<runs, budgets>>
    BY <1>9 DEF Unstrand, Refresh, row, vars
  <2>2. QED BY <2>1 DEF GrantsCounted, Looping
<1>10. QED
  BY <1>1, <1>2, <1>3, <1>4, <1>5, <1>6, <1>7, <1>8, <1>9 DEF Next, RunStep

\* The steps that move the recorded spend: work adds at most one call under a
\* grant that leaves room for it, an extension is counted under the ceiling.
LEMMA StepSpend ==
  ASSUME LoopTypeOK, TrackerMirrorsRecord, GrantsCounted, [Next]_vars
  PROVE  \/ spent' = spent
         \/ /\ budgets' = budgets /\ spent'.extensions = spent.extensions
            /\ spent'.api_calls \in Nat /\ spent'.api_calls >= spent.api_calls
            /\ \/ spent'.api_calls = spent.api_calls
               \/ spent'.api_calls <= budgets.api_calls * (1 + spent.extensions)
         \/ /\ budgets' = budgets /\ spent'.api_calls = spent.api_calls
            /\ spent'.extensions = spent.extensions + 1
            /\ spent'.extensions <= budgets.max_extensions
<1>0. budgets \in BudgetChoices /\ budgets.api_calls \in Nat /\ budgets.max_extensions \in Nat
      /\ spent.api_calls \in Nat /\ spent.extensions \in Nat
  BY BudgetFields DEF LoopTypeOK
<1>1. ASSUME NEW r \in Runner, NEW n \in Node, Work(r, n)
      PROVE  /\ budgets' = budgets /\ spent'.extensions = spent.extensions
             /\ spent'.api_calls \in Nat /\ spent'.api_calls >= spent.api_calls
             /\ \/ spent'.api_calls = spent.api_calls
                \/ spent'.api_calls <= budgets.api_calls * (1 + spent.extensions)
  <2>1. PICK calls \in {0, 1} : Charge(r, calls)
    BY <1>1, WorkCharges
  <2>2. /\ runs'[r].api_calls = runs[r].api_calls + calls
        /\ runs'[r].extensions = runs[r].extensions /\ spent' = Snapshot(runs'[r])
    BY <2>1, ChargedRun
  <2>3. /\ spent = Snapshot(runs[r])
        /\ runs[r].granted.api_calls <= budgets.api_calls * (1 + runs[r].extensions)
    BY <1>1 DEF Work, TrackerMirrorsRecord, GrantsCounted
  <2>4. spent.api_calls = runs[r].api_calls /\ spent.extensions = runs[r].extensions
    BY <2>3 DEF Snapshot
  <2>5. spent'.api_calls = spent.api_calls + calls /\ spent'.extensions = spent.extensions
    BY <2>2, <2>4 DEF Snapshot
  <2>6. ~(runs[r].api_calls >= runs[r].granted.api_calls)
    BY <1>1 DEF Work, Exhausted
  <2>7. runs[r].granted.api_calls \in Nat
    BY RunFields
  <2> DEFINE bound == budgets.api_calls * (1 + spent.extensions)
  <2>8. bound \in Nat
    BY <1>0
  <2>9. runs[r].granted.api_calls <= bound
    BY <2>3, <2>4
  <2> HIDE DEF bound
  <2>10. spent.api_calls + 1 <= bound
    BY <1>0, <2>4, <2>6, <2>7, <2>8, <2>9
  <2>11. budgets' = budgets
    BY <1>1 DEF Work
  <2>12. QED BY <1>0, <2>5, <2>10, <2>11 DEF bound
<1>2. ASSUME NEW r \in Runner, ExtendBudget(r)
      PROVE  /\ budgets' = budgets /\ spent'.api_calls = spent.api_calls
             /\ spent'.extensions = spent.extensions + 1
             /\ spent'.extensions <= budgets.max_extensions
  <2> DEFINE new == Extended(runs[r], Exhausted(runs[r]))
  <2>1. new.extensions = runs[r].extensions + 1 /\ new.api_calls = runs[r].api_calls
    BY ExtendedRun
  <2>2. spent' = Snapshot(new) /\ Looping(r) /\ budgets' = budgets
        /\ runs[r].extensions < runs[r].asked.max_extensions
    BY <1>2 DEF ExtendBudget, Pursuing, MayExtend
  <2> HIDE DEF new
  <2>3. spent = Snapshot(runs[r]) /\ runs[r].asked = budgets
    BY <2>2 DEF TrackerMirrorsRecord
  <2>4. QED BY <1>0, <2>1, <2>2, <2>3 DEF Snapshot
<1>3. ASSUME NEW r \in Runner, FinishPartial(r) \/ FinishCompleted(r) PROVE spent' = spent
  BY <1>3 DEF FinishPartial, FinishCompleted, Finish, TrackerMirrorsRecord
<1>4. ASSUME NEW r \in Runner, BeginRun(r) \/ FailRun(r) \/ ClockRunsOut(r) PROVE spent' = spent
  BY <1>4 DEF BeginRun, FailRun, ClockRunsOut, row
<1>5. ASSUME NEW b \in BudgetChoices, Start(b) PROVE spent' = spent
  BY <1>5 DEF Start
<1>6. ASSUME NEW o \in Operator, NEW b \in BudgetChoices, CheckResume(o, b) \/ ClaimResume(o, b)
      PROVE  spent' = spent
  BY <1>6 DEF CheckResume, ClaimResume, row
<1>7. ASSUME Crash \/ Unstrand \/ Refresh \/ UNCHANGED vars PROVE spent' = spent
  BY <1>7 DEF Crash, Unstrand, Refresh, row, vars
<1>8. QED BY <1>1, <1>2, <1>3, <1>4, <1>5, <1>6, <1>7 DEF Next, RunStep

LEMMA StepCapped ==
  LoopTypeOK /\ TrackerMirrorsRecord /\ GrantsCounted /\ ExtensionsCapped /\ [Next]_vars
    => ExtensionsCapped'
<1> SUFFICES ASSUME LoopTypeOK, TrackerMirrorsRecord, GrantsCounted, ExtensionsCapped, [Next]_vars
             PROVE  ExtensionsCapped'
  OBVIOUS
<1>1. budgets \in BudgetChoices
  BY DEF LoopTypeOK
<1>2. CASE spent'.extensions = spent.extensions
  BY <1>2 DEF ExtensionsCapped
<1>3. CASE spent'.extensions <= budgets.max_extensions
  BY <1>1, <1>3 DEF ExtensionsCapped
<1>4. QED BY <1>2, <1>3, StepSpend

-----------------------------------------------------------------------------
(* What is filed, and what completion means.                               *)

\* Findings are filed against the claimed node and the rows its claim adds.
LEMMA ProcessFiles ==
  ASSUME TypeOK, Tidy, NEW n \in Node, NEW depth, ProcessNode(n, depth), NEW f \in Finding,
         findings'[f] > 0
  PROVE  findings[f] > 0 \/ (Present(f[2]))'
<1>0. n \in Frontier /\ Present(n)
  BY DEF ProcessNode, Claimable, Frontier, Present
<1>1. (Present(n))'
  <2>1. PICK r, reached, speculative : Claim(n, r, reached, speculative)
    BY StepShape
  <2>2. QED BY <1>0, <2>1, ClaimKeepsRows
<1>2. ASSUME NEW r, NEW reached, NEW speculative \in BOOLEAN, reached \subseteq Node,
             Settle(n, r, reached, speculative), NEW m \in New(reached)
      PROVE  (Present(m))'
  <2>1. CASE m = n
    BY <1>1, <2>1
  <2>2. CASE m # n
    <3>1. m \in Node /\ nodes'[m] = Discovered(n, m, speculative)
      BY <1>2, <2>2 DEF Settle, New
    <3>2. Discovered(n, m, speculative).state # "absent"
      BY DiscoveredRow
    <3>3. QED BY <3>1, <3>2 DEF Present
  <2>3. QED BY <2>1, <2>2
<1>3. \A filed : File(filed) => findings[f] > 0 \/ f \in filed
  BY DEF File
<1>4. \A x : <<x, n>>[2] = n
  OBVIOUS
<1>5. f \in ClaimFindings(n) => f[2] = n
  BY DEF ClaimFindings
<1>6. \A new : f \in DiscoveryFindings(new) => f[2] \in new
  BY DEF DiscoveryFindings
<1>7. CASE CloseAtVasp(n) \/ CloseAtHorizon(n, depth)
  BY <1>1, <1>3, <1>5, <1>7 DEF CloseAtVasp, CloseAtHorizon
<1>8. ASSUME NEW followed \in SUBSET ExitCandidates(n), CrossMixer(n, depth, followed)
      PROVE  findings[f] > 0 \/ (Present(f[2]))'
  <2>1. followed \subseteq Node
    BY DEF ExitCandidates, Counterparties
  <2>2. \A m \in New(followed) : (Present(m))'
    BY <1>2, <1>8, <2>1 DEF CrossMixer
  <2>3. findings[f] > 0 \/ f \in ClaimFindings(n) \/ f = <<"crossing", n>>
          \/ f \in DiscoveryFindings(New(followed))
    BY <1>3, <1>8 DEF CrossMixer
  <2>4. QED BY <1>1, <1>5, <1>6, <2>2, <2>3
<1>9. ASSUME NEW seen \in Readable(n), NEW followed \in Followable(n, seen),
             Expand(n, depth, seen, followed)
      PROVE  findings[f] > 0 \/ (Present(f[2]))'
  <2> DEFINE reached == {Destination(m) : m \in followed}
  <2>1. reached \subseteq Node
    BY RootIsNode DEF Destination, Followable, Readable, Counterparties
  <2>2. nodes[n].speculative \in BOOLEAN
    BY RowFields DEF TypeOK
  <2>3. \A m \in New(reached) : (Present(m))'
    BY <1>2, <1>9, <2>1, <2>2 DEF Expand
  <2>4. findings[f] > 0 \/ f \in ClaimFindings(n) \/ f \in ExpansionFindings(n, seen)
          \/ f \in DiscoveryFindings(New(reached))
    BY <1>3, <1>9 DEF Expand
  <2>5. f \in ExpansionFindings(n, seen) => f[2] = n
    BY DEF ExpansionFindings
  <2>6. QED BY <1>1, <1>5, <1>6, <2>3, <2>4, <2>5
<1>10. QED BY <1>7, <1>8, <1>9 DEF ProcessNode

LEMMA StepFiled == IInv /\ FiledOnRecord /\ [TraceNext]_traceVars => FiledOnRecord'
<1> SUFFICES ASSUME IInv, FiledOnRecord, [TraceNext]_traceVars, NEW f \in Finding, findings'[f] > 0
             PROVE  (Present(f[2]))'
  BY DEF FiledOnRecord
<1>0. TypeOK /\ Tidy /\ f[2] \in Node
  BY DEF IInv, Finding
<1>1. CASE AdmitRoot
  <2>1. findings[f] > 0
    BY <1>1 DEF AdmitRoot
  <2>2. RootFirst /\ ~Present(RootNode)
    BY <1>1 DEF IInv, AdmitRoot
  <2>3. QED BY <1>0, <2>1, <2>2 DEF FiledOnRecord, RootFirst
<1>2. ASSUME NEW n \in Node, NEW depth \in Depths, ProcessNode(n, depth) PROVE (Present(f[2]))'
  <2>1. findings[f] > 0 \/ (Present(f[2]))'
    BY <1>0, <1>2, ProcessFiles
  <2>2. PICK r, reached, speculative : Claim(n, r, reached, speculative)
    BY <1>0, <1>2, StepShape
  <2>3. QED BY <1>0, <2>1, <2>2, ClaimKeepsRows DEF FiledOnRecord
<1>3. ASSUME NEW claim \in Volatile, RefreshLabels(claim[1], claim[2]) PROVE (Present(f[2]))'
  BY <1>3 DEF RefreshLabels, FiledOnRecord, Present
<1>4. CASE UNCHANGED traceVars
  BY <1>4 DEF traceVars, FiledOnRecord, Present
<1>5. QED BY <1>1, <1>2, <1>3, <1>4 DEF TraceNext

\* A status that admits no further run admits no further change.
LEMMA StepClosed ==
  ASSUME LoopTypeOK, OneRun, [Next]_vars, status \in {"completed", "failed"}
  PROVE  status' = status /\ UNCHANGED <<graph, spent, reports>>
<1>1. \A r \in Runner : ~Active(r)
  BY DEF OneRun
<1>2. \A r \in Runner : ~Looping(r) /\ runs[r].phase # "launched"
  BY <1>1 DEF Active, Looping
<1>3. ASSUME NEW r \in Runner, RunStep(r) \/ FailRun(r) \/ ClockRunsOut(r) PROVE FALSE
  BY <1>1, <1>2, <1>3 DEF RunStep, BeginRun, Work, ExtendBudget, FinishPartial, FinishCompleted,
                          FailRun, ClockRunsOut
<1>4. ASSUME NEW b \in BudgetChoices, Start(b) PROVE FALSE
  BY <1>4 DEF Start
<1>5. ASSUME NEW o \in Operator, NEW b \in BudgetChoices, CheckResume(o, b) PROVE FALSE
  BY <1>5 DEF CheckResume
<1>6. ASSUME NEW o \in Operator, NEW b \in BudgetChoices, ClaimResume(o, b)
      PROVE  status' = status /\ UNCHANGED <<graph, spent, reports>>
  BY <1>6 DEF ClaimResume
<1>7. CASE Crash
  BY <1>7 DEF Crash, row
<1>8. CASE Unstrand
  BY <1>8 DEF Unstrand
<1>9. CASE Refresh
  BY <1>9 DEF Refresh, RefreshLabels, row, graph
<1>10. CASE UNCHANGED vars
  BY <1>10 DEF vars, row, graph
<1>11. QED BY <1>3, <1>4, <1>5, <1>6, <1>7, <1>8, <1>9, <1>10 DEF Next

\* An objective named by a traced endpoint is answered by a path.
LEMMA NamedIsTraced ==
  ASSUME TypeOK, Provenance, FiledOnRecord, NEW d \in Objectives, Named(d)
  PROVE  \E n \in Node : /\ n[2] = d /\ findings[<<"vasp", n>>] > 0
                         /\ \E p \in Node : TracedFrom(p, n)
<1>1. PICK n \in Node : n[2] = d /\ findings[<<"vasp", n>>] > 0 /\ nodes[n].speculative = FALSE
  BY DEF Named, FiledFor
<1>2. n # RootNode
  BY <1>1, ObjectivesAssumption DEF RootNode, Undirected, Direction
<1>3. <<"vasp", n>> \in Finding
  BY DEF Finding, Kind
<1>4. Traced(n)
  BY <1>1, <1>3 DEF FiledOnRecord, Traced
<1>5. QED BY <1>1, <1>2, <1>4 DEF Provenance, NoLaundering

LEMMA StepCompleted ==
  ASSUME IInv, FiledOnRecord, LoopTypeOK, OneRun, CompletedAnswers, [Next]_vars
  PROVE  CompletedAnswers'
<1> SUFFICES ASSUME status' = "completed" PROVE CompletedAnswers'
  BY DEF CompletedAnswers
<1>1. CASE status = "completed"
  <2>1. UNCHANGED <<nodes, edges, findings, reports>>
    BY <1>1, StepClosed DEF graph
  <2>2. QED BY <1>1, <2>1 DEF CompletedAnswers, Frontier, TracedFrom
<1>2. ASSUME NEW r \in Runner, FinishCompleted(r) PROVE CompletedAnswers'
  <2>1. /\ Frontier = {} /\ UNCHANGED <<nodes, edges, findings>>
        /\ reports' = reports \cup Endings(TRUE)
    BY <1>2 DEF FinishCompleted, Finish, graph
  <2>2. ASSUME NEW d \in Objectives
        PROVE  \/ \E n \in Node : /\ n[2] = d /\ findings[<<"vasp", n>>] > 0
                                  /\ \E p \in Node : TracedFrom(p, n)
               \/ \E e \in reports' : e.direction = d /\ e.exhausted
    <3>1. CASE Named(d)
      BY <3>1, NamedIsTraced DEF IInv
    <3>2. CASE ~Named(d)
      <4> DEFINE e == [direction |-> d, headline |-> Shortfall(d), exhausted |-> TRUE,
                       complete |-> TRUE /\ CoverageComplete]
      <4>1. e \in Endings(TRUE)
        BY <3>2 DEF Endings, Unanswered
      <4>2. e.direction = d /\ e.exhausted
        OBVIOUS
      <4> HIDE DEF e
      <4>3. e \in reports'
        BY <2>1, <4>1
      <4>4. QED BY <4>2, <4>3
    <3>3. QED BY <3>1, <3>2
  <2>3. QED BY <2>1, <2>2 DEF CompletedAnswers, Frontier, TracedFrom
<1>3. CASE status # "completed" /\ ~\E r \in Runner : FinishCompleted(r)
  BY <1>3 DEF Next, RunStep, Start, BeginRun, Work, ExtendBudget, FinishPartial, Finish, FailRun,
              ClockRunsOut, CheckResume, ClaimResume, Crash, Unstrand, Refresh, vars, row
<1>4. QED BY <1>1, <1>2, <1>3

-----------------------------------------------------------------------------
(* The theorems.                                                           *)

LEMMA InitLoop == Init => LoopInv
<1> SUFFICES ASSUME Init PROVE LoopInv
  OBVIOUS
<1>1. IInv
  BY InitIsTraced, InitInvariant
<1>2. AnyBudgets \in BudgetChoices /\ \A r \in Runner : runs[r].phase = "idle"
  BY BudgetsAssumption, IdleIsRun DEF Init, AnyBudgets
<1>3. LoopTypeOK
  BY <1>2, IdleIsRun, MaxCrashesAssumption DEF Init, LoopTypeOK, Status
<1>4. OneRun /\ TrackerMirrorsRecord /\ GrantsCounted
  BY <1>2 DEF OneRun, TrackerMirrorsRecord, GrantsCounted, Active, Looping
<1>5. ExtensionsCapped
  <2>1. AnyBudgets.max_extensions \in Nat
    BY <1>2, BudgetFields
  <2>2. QED BY <1>2, <2>1 DEF Init, ExtensionsCapped
<1>6. FiledOnRecord /\ CompletedAnswers
  BY DEF Init, TraceInit, FiledOnRecord, CompletedAnswers
<1>7. QED BY <1>1, <1>3, <1>4, <1>5, <1>6 DEF LoopInv, Account

LEMMA StepLoop == LoopInv /\ [Next]_vars => LoopInv'
<1> SUFFICES ASSUME LoopInv, [Next]_vars PROVE LoopInv'
  OBVIOUS
<1>1. /\ IInv /\ TypeOK /\ Tidy /\ LoopTypeOK /\ OneRun /\ TrackerMirrorsRecord /\ GrantsCounted
      /\ ExtensionsCapped /\ FiledOnRecord /\ CompletedAnswers
  BY DEF LoopInv, Account, IInv
<1>2. [TraceNext]_traceVars
  BY <1>1, StepIsTraced
<1>3. IInv' /\ FiledOnRecord'
  BY <1>1, <1>2, StepInvariant, StepFiled
<1>4. LoopTypeOK' /\ OneRun' /\ TrackerMirrorsRecord' /\ GrantsCounted' /\ ExtensionsCapped'
  BY <1>1, StepLoopType, StepOneRun, StepMirrors, StepGrants, StepCapped
<1>5. CompletedAnswers'
  BY <1>1, StepCompleted
<1>6. QED BY <1>3, <1>4, <1>5 DEF LoopInv, Account

\* Everything below holds because this does, in every state of every run.
THEOREM LoopInvariant == Spec => []LoopInv
<1>1. QED BY InitLoop, StepLoop, PTL DEF Spec

\* The row, the tasks and the requests keep their shape.
THEOREM LoopTypeCorrect == Spec => []LoopTypeOK
<1>1. LoopInv => LoopTypeOK
  BY DEF LoopInv, Account
<1>2. QED BY <1>1, LoopInvariant, PTL

\* Whatever callers of the resume route and crashes do, one task at most works
\* the frontier: the guarded UPDATE of claim_for_resume is lock enough.
THEOREM OneRunAtATime == Spec => []OneRun
<1>1. LoopInv => OneRun
  BY DEF LoopInv, Account
<1>2. QED BY <1>1, LoopInvariant, PTL

\* No commit lags what a budget sees: the tracker in memory and the row agree.
THEOREM TrackerIsRecord == Spec => []TrackerMirrorsRecord
<1>1. LoopInv => TrackerMirrorsRecord
  BY DEF LoopInv, Account
<1>2. QED BY <1>1, LoopInvariant, PTL

\* The pursuit's ceiling is the investigation's, not the run's.
THEOREM PursuitIsCapped == Spec => []ExtensionsCapped
<1>1. LoopInv => ExtensionsCapped
  BY DEF LoopInv, Account
<1>2. QED BY <1>1, LoopInvariant, PTL

\* A completed investigation is an answered one, or says what it lacks.
THEOREM CompletionAnswers == Spec => []CompletedAnswers
<1>1. LoopInv => CompletedAnswers
  BY DEF LoopInv
<1>2. QED BY <1>1, LoopInvariant, PTL

\* The loop implements the graph's specification: what is proved of a trace
\* holds under budgets, pursuit, resumes, failures and crashes.
THEOREM LoopTraces == Spec => GraphIsTraced
<1>1. LoopInv => LoopTypeOK
  BY DEF LoopInv, Account
<1>2. QED BY <1>1, InitIsTraced, StepIsTraced, LoopInvariant, PTL
          DEF Spec, GraphIsTraced, TraceSpec

\* So no guess is laundered into a traced node, however a run is cut short.
THEOREM GuessesStayGuessesInRuns == Spec => []Provenance
<1>1. QED BY LoopTraces, GuessesStayGuesses, PTL DEF GraphIsTraced

\* Every provider call is covered by the operator's budget times the recorded
\* grants, over all runs of the investigation.
THEOREM SpendIsGranted == Spec => SpendWithinGrants
<1>1. LoopInv /\ [Next]_vars =>
        [spent'.api_calls > spent.api_calls =>
           spent'.api_calls <= budgets.api_calls * (1 + spent'.extensions)]_vars
  <2> SUFFICES ASSUME LoopInv, Next, spent'.api_calls > spent.api_calls
               PROVE  spent'.api_calls <= budgets.api_calls * (1 + spent'.extensions)
    OBVIOUS
  <2>1. LoopTypeOK /\ TrackerMirrorsRecord /\ GrantsCounted /\ spent.api_calls \in Nat
    BY DEF LoopInv, Account, LoopTypeOK
  <2>2. QED BY <2>1, StepSpend
<1>2. QED BY <1>1, LoopInvariant, PTL DEF Spec, SpendWithinGrants

\* What was spent stays spent.
THEOREM SpendStands == Spec => SpendNeverForgotten
<1>1. LoopInv /\ [Next]_vars =>
        [spent'.api_calls >= spent.api_calls /\ spent'.extensions >= spent.extensions]_vars
  <2> SUFFICES ASSUME LoopInv, Next
               PROVE  spent'.api_calls >= spent.api_calls /\ spent'.extensions >= spent.extensions
    OBVIOUS
  <2>1. LoopTypeOK /\ TrackerMirrorsRecord /\ GrantsCounted
        /\ spent.api_calls \in Nat /\ spent.extensions \in Nat
    BY DEF LoopInv, Account, LoopTypeOK
  <2>2. QED BY <2>1, StepSpend
<1>2. QED BY <1>1, LoopInvariant, PTL DEF Spec, SpendNeverForgotten

\* Neither the graph nor the account of a completed or failed investigation moves.
THEOREM ClosedStaysClosed == Spec => ClosedAccount
<1>1. LoopInv /\ [Next]_vars =>
        [(status \in {"completed", "failed"} =>
            (status' = status /\ UNCHANGED <<graph, spent, reports>>))]_vars
  <2>1. LoopInv => LoopTypeOK /\ OneRun
    BY DEF LoopInv, Account
  <2>2. QED BY <2>1, StepClosed
<1>2. QED BY <1>1, LoopInvariant, PTL DEF Spec, ClosedAccount
=============================================================================
