---------------------------- MODULE HarvestCycle ---------------------------
(* The harvest: harvest/worker.py and scheduler.py for what a cycle does,   *)
(* runs.py for the record it keeps of itself and the panel that reads it.   *)
(* A cycle is a process, started by cron or by the button of the panel; it  *)
(* may be killed between any two steps.  What its claims do to the labels   *)
(* is LabelStore's; here only which sources have any.                       *)
EXTENDS HarvestSources, Sequences, SequencesExt

CONSTANTS Cycle,       \* the cycles of a behaviour
          Sites,       \* [Origin -> what its page may answer]
          AllDrops,    \* the files an operator may put in the drop directory
          StaleAfter,      \* [Origin -> stale_after_days]
          Override,    \* the operator's own window, or Undated
          StalledAfter,
          MaxClock, MaxDrops, MaxStops

\* The sources are a finite list, and the panel's own lines are not named like one.
ASSUME OriginAssumption == IsFiniteSet(Origin) /\ Origin \cap {"stalled", "error"} = {}

Plan == SetToSeq(Origin)

VARIABLES clock,
          drops,       \* the drop directory
          supplied,    \* how many files were put there
          labelled,    \* the sources with a row in the label store, of those only a drop
                       \* feeds: no other is ever "not supplied"
          runs,        \* harvest_runs, by id
          byStart,     \* their ids as they were stamped: an adopted one again, and the later
                       \* stamp is its started_at
          cycle,       \* each cycle's process, and in fed, history, the sources that had labels
                       \* in the store when it asked which ever had
          stops        \* cycles killed or interrupted so far
harvestVars == <<clock, drops, supplied, labelled, runs, byStart, cycle, stops>>

NotStarted == [step |-> "off", claimed |-> 0, run |-> 0, contributed |-> {}, fed |-> {},
               outcomes |-> <<>>]
Over == [NotStarted EXCEPT !.step = "over"]

\* A row is open until finished_at is set; when a closed one started nobody reads,
\* but for the order.
OpenRow(now) == [open |-> TRUE, started |-> now, status |-> "running", error |-> FALSE, sources |-> <<>>]
ClosedRow(status, error, sources) ==
    [open |-> FALSE, started |-> Undated, status |-> status, error |-> error, sources |-> sources]

IsOpen(id) == runs[id].open
Latest == byStart[Len(byStart)]
InFlight == runs # <<>> /\ IsOpen(Latest) /\ clock - runs[Latest].started < StalledAfter

\* Cycles are numbered as they start.
IsNext(c) == \A d \in Cycle : d < c => cycle[d].step # "off"

Step(c, from, to) == cycle[c].step = from /\ cycle' = [cycle EXCEPT ![c].step = to]

-----------------------------------------------------------------------------
(* The button: start_cycle.                                                 *)

Press(c) ==
    /\ IsNext(c) /\ ~InFlight
    /\ Step(c, "off", "pressed")
    /\ UNCHANGED <<clock, drops, supplied, labelled, runs, byStart, stops>>

\* The row is claimed before the child is spawned.  A spawn that fails closes it,
\* and so does a cancelled one, whose child may be running already.
Spawn(c) ==
    LET id == Len(runs) + 1
    IN  \E alive, told \in BOOLEAN :
          /\ told => alive
          /\ cycle[c].step = "pressed"
          /\ cycle' = [cycle EXCEPT ![c] = IF alive THEN [NotStarted EXCEPT !.step = "spawned", !.claimed = id]
                                                  ELSE Over]
          /\ runs' = Append(runs, IF told THEN OpenRow(clock) ELSE ClosedRow("failed", TRUE, <<>>))
          /\ byStart' = Append(byStart, id)
          /\ UNCHANGED <<clock, drops, supplied, labelled, stops>>

\* Cron asks nobody.
Cron(c) ==
    /\ IsNext(c)
    /\ Step(c, "off", "spawned")
    /\ UNCHANGED <<clock, drops, supplied, labelled, runs, byStart, stops>>

\* Bug: the named row is adopted, open or not.
AdoptsAnyRow(id) == id # 0

Adopts(id) == id # 0 /\ IsOpen(id)

\* open_run: the claimed row restamped, or a row of its own.
OpenRun(c) ==
    LET claimed == cycle[c].claimed
        id == IF Adopts(claimed) THEN claimed ELSE Len(runs) + 1
    IN  /\ cycle[c].step = "spawned"
        /\ cycle' = [cycle EXCEPT ![c].step = "open", ![c].run = id]
        /\ runs' = IF id = claimed THEN [runs EXCEPT ![id].started = clock]
                                   ELSE Append(runs, OpenRow(clock))
        /\ byStart' = Append(byStart, id)
        /\ UNCHANGED <<clock, drops, supplied, labelled, stops>>

-----------------------------------------------------------------------------
(* The cycle: HarvestWorker.run.                                            *)

\* _sources_that_have_contributed; a failed read returns no source at all.
ReadContributed(c) ==
    /\ cycle[c].step = "open"
    /\ \E known \in {labelled, {}} :
          cycle' = [cycle EXCEPT ![c].step = "harvest", ![c].contributed = known,
                                    ![c].fed = labelled]
    /\ UNCHANGED <<clock, drops, supplied, labelled, runs, byStart, stops>>

Turn(c) == Plan[Cardinality(DOMAIN cycle[c].outcomes) + 1]

Nothing(unsupplied) == [ok |-> FALSE, notSupplied |-> unsupplied, claims |-> FALSE, date |-> Undated]
Contributes(read) ==
    [ok |-> TRUE, notSupplied |-> FALSE, claims |-> read.claims # {},
     date |-> IF read.claims = {} THEN Undated ELSE read.date]

Including(s, outcome, outcomes) ==
    [r \in {s} \cup DOMAIN outcomes |-> IF r = s THEN outcome ELSE outcomes[r]]

\* _harvest: one source, its claims in a transaction of their own, which may fail.
HarvestSource(c) ==
    LET s == Turn(c)
        Turned(outcome) == cycle' = [cycle EXCEPT ![c].outcomes = Including(s, outcome, @)]
    IN  /\ cycle[c].step = "harvest" /\ DOMAIN cycle[c].outcomes # Origin
        /\ \E site \in Sites[s] :
             LET read == Reading(s, site, drops)
             IN  IF read.kind = "claims"
                   THEN \/ Turned(Contributes(read))
                           /\ labelled' = labelled \cup (IF read.claims = {} THEN {} ELSE {s} \ Fetched)
                        \/ Turned(Nothing(FALSE)) /\ UNCHANGED labelled
                   ELSE /\ Turned(Nothing(read.kind = "not supplied" /\ s \notin cycle[c].contributed))
                        /\ UNCHANGED labelled
        /\ UNCHANGED <<clock, drops, supplied, runs, byStart, stops>>

IsStale(outcome, s, window, now) ==
    outcome.date # Undated /\ now - outcome.date > (IF window = Undated THEN StaleAfter[s] ELSE window)

\* Bug: a source that broke counts only if it was never stale before.
ExitCodeOfBroken(outcomes, reconciled, now) ==
    IF ~reconciled THEN 1
    ELSE IF \E s \in DOMAIN outcomes : IsStale(outcomes[s], s, Override, now) THEN 3 ELSE 0

\* scheduler._exit_code.
ExitCode(outcomes, reconciled, now) ==
    IF ~reconciled \/ \E s \in DOMAIN outcomes : ~outcomes[s].ok /\ ~outcomes[s].notSupplied THEN 1
    ELSE IF \E s \in DOMAIN outcomes : IsStale(outcomes[s], s, Override, now) THEN 3 ELSE 0

RunStatus(code) == CASE code = 0 -> "ok" [] code = 3 -> "stale" [] OTHER -> "failed"

\* close_run, with the report's rows as each source's own window grades them.
CloseRun(c, status, error, outcomes) ==
    /\ runs' = [runs EXCEPT ![cycle[c].run] =
         ClosedRow(status, error, [s \in DOMAIN outcomes |->
                                  [ok |-> outcomes[s].ok, notSupplied |-> outcomes[s].notSupplied,
                                   stale |-> IsStale(outcomes[s], s, Undated, clock)]])]
    /\ cycle' = [cycle EXCEPT ![c] = Over]

\* reconcile, last and once, and then the end of the cycle.
FinishCycle(c) ==
    /\ cycle[c].step = "harvest" /\ DOMAIN cycle[c].outcomes = Origin
    /\ \E reconciled \in BOOLEAN :
         CloseRun(c, RunStatus(ExitCode(cycle[c].outcomes, reconciled, clock)), ~reconciled,
               cycle[c].outcomes)
    /\ UNCHANGED <<clock, drops, supplied, labelled, byStart, stops>>

Working(c) == cycle[c].step \in {"open", "harvest"}

\* An exception or an interrupt that leaves run(): no report, and the row is closed.
Interrupt(c) ==
    /\ Working(c) /\ stops < MaxStops /\ stops' = stops + 1
    /\ CloseRun(c, "failed", TRUE, <<>>)
    /\ UNCHANGED <<clock, drops, supplied, labelled, byStart>>

Kill(c) ==
    /\ Working(c) \/ cycle[c].step = "spawned"
    /\ stops < MaxStops /\ stops' = stops + 1
    /\ cycle' = [cycle EXCEPT ![c] = Over]
    /\ UNCHANGED <<clock, drops, supplied, labelled, runs, byStart>>

-----------------------------------------------------------------------------
(* The panel: sync_status.                                                  *)

PanelState == IF IsOpen(Latest) THEN IF InFlight THEN "syncing" ELSE "stalled" ELSE "idle"

\* The last closed run's rows stand in while a cycle is open.
ShownRows ==
    IF ~IsOpen(Latest) THEN runs[Latest].sources
    ELSE LET closed == SelectSeq(byStart, LAMBDA i : ~IsOpen(i))
         IN  runs[Latest].sources @@ (IF closed = <<>> THEN <<>> ELSE runs[closed[Len(closed)]].sources)

\* _attention: the lines a person has to act upon, by what they are about.
Attention ==
    (IF PanelState = "stalled" THEN {"stalled"} ELSE {})
      \cup (IF runs[Latest].error THEN {"error"} ELSE {})
      \cup {s \in DOMAIN ShownRows : ShownRows[s].notSupplied \/ ~ShownRows[s].ok \/ ShownRows[s].stale}

Waiting == {s \in DOMAIN ShownRows : ShownRows[s].notSupplied}

-----------------------------------------------------------------------------
SupplyDrop ==
    /\ supplied < MaxDrops /\ supplied' = supplied + 1
    /\ \E d \in AllDrops \ drops : drops' = drops \cup {d}
    /\ UNCHANGED <<clock, labelled, runs, byStart, cycle, stops>>

LoseDrop ==
    /\ \E d \in drops : drops' = drops \ {d}
    /\ UNCHANGED <<clock, supplied, labelled, runs, byStart, cycle, stops>>

Tick ==
    /\ clock < MaxClock /\ clock' = clock + 1
    /\ UNCHANGED <<drops, supplied, labelled, runs, byStart, cycle, stops>>

HarvestInit ==
    /\ clock = 0 /\ drops = {} /\ supplied = 0 /\ labelled = {}
    /\ runs = <<>> /\ byStart = <<>> /\ stops = 0
    /\ cycle = [c \in Cycle |-> NotStarted]

HarvestNext ==
    \/ \E c \in Cycle : \/ Press(c) \/ Spawn(c) \/ Cron(c) \/ OpenRun(c) \/ ReadContributed(c)
                        \/ HarvestSource(c) \/ FinishCycle(c) \/ Interrupt(c) \/ Kill(c)
    \/ SupplyDrop \/ LoseDrop \/ Tick

HarvestSpec == HarvestInit /\ [][HarvestNext]_harvestVars

-----------------------------------------------------------------------------
(* Properties.                                                              *)

\* A cycle at work has an open row of its own, however it was started and
\* whatever became of the press that started it (runs.py: a run that happens
\* without a record is the one outcome the table exists to prevent).
CyclesAreOnRecord ==
    \A c \in Cycle : Working(c) =>
        /\ IsOpen(cycle[c].run)
        /\ \A d \in Cycle \ {c} : Working(d) => cycle[d].run # cycle[c].run

\* Does the cycle fail if a source that had fed the store contributed nothing?
LostIsRed(c) ==
    cycle[c].step = "harvest" /\ (\E s \in cycle[c].fed \cap DOMAIN cycle[c].outcomes : ~cycle[c].outcomes[s].ok)
      => ExitCode(cycle[c].outcomes, TRUE, clock) = 1

\* A store it could not read told the cycle that nobody ever fed it.
Misread(c) == cycle[c].contributed # cycle[c].fed

\* The panel and the exit code agree: the last run, when closed, is ok exactly when
\* the panel has nothing to act upon but drops filed as never supplied.  Only a window
\* the operator imposed can grade a run otherwise than the rows on the panel.  And a drop
\* is not so filed that was working before: losing it fails the cycle, whatever other
\* cycles do meanwhile, unless the cycle could not read the store (LostDropsAreRed).
RedIsExplained ==
    /\ runs # <<>> /\ PanelState = "idle" /\ Override = Undated =>
         (runs[Latest].status = "ok" <=> Attention = Waiting)
    /\ \A c \in Cycle : ~Misread(c) => LostIsRed(c)

\* A source that had fed the store and now contributes nothing fails the cycle, whether
\* or not the store could be read (worker.py, _sources_that_have_contributed: if it cannot be
\* read, "every unsupplied source reports as a plain failure").
LostDropsAreRed == \A c \in Cycle : LostIsRed(c)
=============================================================================
