------------------------- MODULE HarvestCycleProofs ------------------------
(***************************************************************************)
(* Proofs about the record the harvest keeps of itself, for any number of  *)
(* cycles, started by cron or by the button, killed or interrupted at any  *)
(* point: a cycle at work has an open row of its own, the panel is clean   *)
(* exactly when the exit code was, and a lost drop is in that code.        *)
(*                                                                         *)
(* The first rests on who may close a row.  A press claims a row before    *)
(* its child exists, so a row has two kinds of owner: a cycle at work, by  *)
(* run, and one just spawned, by claimed.  Owned says that no two of them  *)
(* ever share a row; a claimed row may be closed by then, and its child    *)
(* opens another.                                                          *)
(***************************************************************************)
EXTENDS HarvestCycle, SequenceTheorems, FiniteSetTheorems, TLAPS

\* A cycle's process and a row of harvest_runs are records of these fields.
IsProcess(p) ==
  p = [step |-> p.step, claimed |-> p.claimed, run |-> p.run, contributed |-> p.contributed,
       fed |-> p.fed, outcomes |-> p.outcomes]

IsRow(r) ==
  r = [open |-> r.open, started |-> r.started, status |-> r.status, error |-> r.error,
       sources |-> r.sources]

Tables ==
  /\ DOMAIN cycle = Cycle
  /\ \A c \in Cycle : IsProcess(cycle[c])
  /\ \E Rows : runs \in Seq(Rows)
  /\ \A id \in 1..Len(runs) : IsRow(runs[id])

AtWork(p) == p.step \in {"open", "harvest"}

\* A spawned cycle that names a row.
Claiming(p) == p.step = "spawned" /\ p.claimed # 0

\* The row a cycle names, claimed or its own.
Names(p, id) ==
  \/ AtWork(p) /\ id = p.run
  \/ Claiming(p) /\ id = p.claimed

\* A row that a cycle names is in the table, and open if the cycle is at work.
OnTable ==
  \A c \in Cycle :
    /\ cycle[c].step = "off" => cycle[c].claimed = 0
    /\ \A id : Names(cycle[c], id) => id \in 1..Len(runs)
    /\ AtWork(cycle[c]) => runs[cycle[c].run].open

\* No two cycles name one row.
Owned ==
  \A c \in Cycle : \A d \in Cycle \ {c} : \A id : ~(Names(cycle[c], id) /\ Names(cycle[d], id))

HInv == Tables /\ OnTable /\ Owned

\* What the handlers make of a process.
Moved(p, to) == [p EXCEPT !.step = to]
Named(p, to, id) == [p EXCEPT !.step = to, !.claimed = id]
Opened(p, to, id) == [p EXCEPT !.step = to, !.run = id]
Asked(p, to, known, fed) == [p EXCEPT !.step = to, !.contributed = known, !.fed = fed]
Reported(p, report) == [p EXCEPT !.outcomes = report]

\* A source that was never supplied had nothing to date.
Sound(outcome) ==
  /\ outcome.ok \in BOOLEAN /\ outcome.notSupplied \in BOOLEAN
  /\ outcome.notSupplied => ~outcome.ok /\ outcome.date = Undated

\* The report as close_run files it.
Graded(outcomes) ==
  [s \in DOMAIN outcomes |-> [ok |-> outcomes[s].ok, notSupplied |-> outcomes[s].notSupplied,
                              stale |-> IsStale(outcomes[s], s, Undated, clock)]]

\* What a step does to the cycles: c becomes p, the others stay.
Becomes(c, p) ==
  /\ IsProcess(p)
  /\ DOMAIN cycle' = Cycle /\ cycle'[c] = p
  /\ \A d \in Cycle \ {c} : cycle'[d] = cycle[d]

\* The rows after a step are rows, and those before are there still.
Extends ==
  /\ \E Rows : runs' \in Seq(Rows)
  /\ Len(runs') \in {Len(runs), Len(runs) + 1}
  /\ \A id \in 1..Len(runs') : IsRow(runs'[id])

\* What it does to the rows: nothing, one more, or one rewritten.
Appends(row) ==
  /\ IsRow(row)
  /\ \E Rows : runs' \in Seq(Rows)
  /\ Len(runs') = Len(runs) + 1 /\ runs'[Len(runs) + 1] = row
  /\ \A id \in 1..Len(runs) : runs'[id] = runs[id]

Rewrites(id, row) ==
  /\ IsRow(row)
  /\ \E Rows : runs' \in Seq(Rows)
  /\ Len(runs') = Len(runs) /\ runs'[id] = row
  /\ \A i \in 1..Len(runs) \ {id} : runs'[i] = runs[i]

-----------------------------------------------------------------------------
(* Tables.                                                                 *)

\* The table has a length.
LEMMA Lengths == Tables => Len(runs) \in Nat
BY LenProperties DEF Tables

LEMMA AppendRow ==
  ASSUME Tables, NEW row, IsRow(row), runs' = Append(runs, row)
  PROVE  Appends(row)
<1>1. PICK Rows : runs \in Seq(Rows)
  BY DEF Tables
<1>2. runs \in Seq(Rows \cup {row})
  BY <1>1, SeqMonotonic
<1>3. QED BY <1>2, AppendProperties DEF Appends

LEMMA RewriteRow ==
  ASSUME Tables, NEW id \in 1..Len(runs), NEW row, IsRow(row), runs' = [runs EXCEPT ![id] = row]
  PROVE  Rewrites(id, row)
<1>1. PICK Rows : runs \in Seq(Rows)
  BY DEF Tables
<1>2. runs \in Seq(Rows \cup {row})
  BY <1>1, SeqMonotonic
<1>3. QED BY <1>2, ExceptSeq DEF Rewrites

LEMMA ReplaceProcess ==
  ASSUME Tables, NEW c \in Cycle, NEW p, IsProcess(p), cycle' = [cycle EXCEPT ![c] = p]
  PROVE  Becomes(c, p)
BY DEF Tables, Becomes

LEMMA Edits ==
  ASSUME NEW p, IsProcess(p), NEW v, NEW w, NEW x
  PROVE  /\ /\ IsProcess(Moved(p, v)) /\ Moved(p, v).step = v /\ Moved(p, v).run = p.run
            /\ Moved(p, v).claimed = p.claimed /\ Moved(p, v).outcomes = p.outcomes
         /\ /\ IsProcess(Named(p, v, w)) /\ Named(p, v, w).step = v
            /\ Named(p, v, w).claimed = w /\ Named(p, v, w).outcomes = p.outcomes
         /\ /\ IsProcess(Opened(p, v, w)) /\ Opened(p, v, w).step = v
            /\ Opened(p, v, w).run = w /\ Opened(p, v, w).outcomes = p.outcomes
         /\ /\ IsProcess(Asked(p, v, w, x)) /\ Asked(p, v, w, x).step = v
            /\ Asked(p, v, w, x).run = p.run /\ Asked(p, v, w, x).outcomes = p.outcomes
         /\ /\ IsProcess(Reported(p, v)) /\ Reported(p, v).step = p.step
            /\ Reported(p, v).run = p.run /\ Reported(p, v).outcomes = v
            /\ Reported(p, v).contributed = p.contributed /\ Reported(p, v).fed = p.fed
<1> DEFINE Steps == {p.step, v}
           Claimed == {p.claimed, w}
           Runs == {p.run, w}
           Known == {p.contributed, w}
           Fed == {p.fed, x}
           Reports == {p.outcomes, v}
           Processes == [step : Steps, claimed : Claimed, run : Runs, contributed : Known,
                         fed : Fed, outcomes : Reports]
<1>1. p \in Processes
  BY DEF IsProcess
<1>2. v \in Steps /\ w \in Claimed /\ w \in Runs /\ w \in Known /\ x \in Fed /\ v \in Reports
  OBVIOUS
<1> HIDE DEF Steps, Claimed, Runs, Known, Fed, Reports
<1>3. \A q \in Processes : IsProcess(q)
  BY DEF IsProcess
<1>4. /\ IsProcess(Moved(p, v))
      /\ Moved(p, v).step = v /\ Moved(p, v).run = p.run
      /\ Moved(p, v).claimed = p.claimed /\ Moved(p, v).outcomes = p.outcomes
  <2>1. Moved(p, v) \in Processes
    BY <1>1, <1>2 DEF Moved
  <2>2. /\ Moved(p, v).step = v /\ Moved(p, v).run = p.run
        /\ Moved(p, v).claimed = p.claimed /\ Moved(p, v).outcomes = p.outcomes
    BY <1>1 DEF Moved
  <2> HIDE DEF Processes
  <2>3. QED BY <1>3, <2>1, <2>2
<1>5. /\ IsProcess(Named(p, v, w))
      /\ Named(p, v, w).step = v /\ Named(p, v, w).claimed = w
      /\ Named(p, v, w).outcomes = p.outcomes
  <2>1. Named(p, v, w) \in Processes
    BY <1>1, <1>2 DEF Named
  <2>2. /\ Named(p, v, w).step = v /\ Named(p, v, w).claimed = w
        /\ Named(p, v, w).outcomes = p.outcomes
    BY <1>1 DEF Named
  <2> HIDE DEF Processes
  <2>3. QED BY <1>3, <2>1, <2>2
<1>6. /\ IsProcess(Opened(p, v, w))
      /\ Opened(p, v, w).step = v /\ Opened(p, v, w).run = w
      /\ Opened(p, v, w).outcomes = p.outcomes
  <2>1. Opened(p, v, w) \in Processes
    BY <1>1, <1>2 DEF Opened
  <2>2. /\ Opened(p, v, w).step = v /\ Opened(p, v, w).run = w
        /\ Opened(p, v, w).outcomes = p.outcomes
    BY <1>1 DEF Opened
  <2> HIDE DEF Processes
  <2>3. QED BY <1>3, <2>1, <2>2
<1>7. /\ IsProcess(Asked(p, v, w, x))
      /\ Asked(p, v, w, x).step = v /\ Asked(p, v, w, x).run = p.run
      /\ Asked(p, v, w, x).outcomes = p.outcomes
  <2>1. Asked(p, v, w, x) \in Processes
    BY <1>1, <1>2 DEF Asked
  <2>2. /\ Asked(p, v, w, x).step = v /\ Asked(p, v, w, x).run = p.run
        /\ Asked(p, v, w, x).outcomes = p.outcomes
    BY <1>1 DEF Asked
  <2> HIDE DEF Processes
  <2>3. QED BY <1>3, <2>1, <2>2
<1>8. /\ IsProcess(Reported(p, v))
      /\ Reported(p, v).step = p.step /\ Reported(p, v).run = p.run
      /\ Reported(p, v).outcomes = v
      /\ Reported(p, v).contributed = p.contributed /\ Reported(p, v).fed = p.fed
  <2>1. Reported(p, v) \in Processes
    BY <1>1, <1>2 DEF Reported
  <2>2. /\ Reported(p, v).step = p.step /\ Reported(p, v).run = p.run
        /\ Reported(p, v).outcomes = v
        /\ Reported(p, v).contributed = p.contributed /\ Reported(p, v).fed = p.fed
    BY <1>1 DEF Reported
  <2> HIDE DEF Processes
  <2>3. QED BY <1>3, <2>1, <2>2
<1>9. QED BY <1>4, <1>5, <1>6, <1>7, <1>8

\* A process that has not started, or is over, names no row.
LEMMA EndedProcess ==
  /\ IsProcess(NotStarted) /\ NotStarted.step = "off" /\ NotStarted.claimed = 0
  /\ NotStarted.outcomes = <<>>
  /\ IsProcess(Over) /\ Over.step = "over" /\ Over.outcomes = <<>>
<1>1. /\ IsProcess(NotStarted) /\ NotStarted.step = "off" /\ NotStarted.claimed = 0
      /\ NotStarted.outcomes = <<>>
  <2>1. NotStarted = [step |-> "off", claimed |-> 0, run |-> 0, contributed |-> {},
                      fed |-> {}, outcomes |-> <<>>]
    BY DEF NotStarted
  <2>2. QED BY <2>1 DEF IsProcess
<1>2. Over = Moved(NotStarted, "over")
  BY DEF Over, Moved
<1>3. QED BY <1>1, <1>2, Edits

\* What each handler makes of its cycle.
LEMMA StepBecomes ==
  ASSUME Tables, NEW c \in Cycle, NEW from, NEW to, Step(c, from, to)
  PROVE  /\ cycle[c].step = from
         /\ \E p : /\ Becomes(c, p) /\ p.step = to /\ p.claimed = cycle[c].claimed
                   /\ p.run = cycle[c].run /\ p.outcomes = cycle[c].outcomes
<1> DEFINE old == cycle[c]
           p == Moved(old, to)
<1>1. IsProcess(old) /\ DOMAIN cycle = Cycle
  BY DEF Tables
<1>2. cycle' = [cycle EXCEPT ![c] = p]
  BY <1>1 DEF Step, Moved
<1>3. IsProcess(p) /\ p.step = to /\ p.claimed = old.claimed /\ p.run = old.run /\ p.outcomes = old.outcomes
  BY <1>1, Edits
<1> HIDE DEF p
<1>4. Becomes(c, p)
  BY <1>2, <1>3, ReplaceProcess
<1>5. QED BY <1>3, <1>4 DEF Step

LEMMA SpawnBecomes ==
  ASSUME Tables, NEW c \in Cycle, Spawn(c)
  PROVE  \E p, row :
           /\ Becomes(c, p) /\ Appends(row) /\ p.outcomes = <<>>
           /\ \/ p.step = "spawned" /\ p.claimed = Len(runs) + 1
              \/ p.step = "over"
           /\ ~row.open => row.status = "failed" /\ row.error = TRUE /\ row.sources = <<>>
<1>1. PICK alive \in BOOLEAN, told \in BOOLEAN :
        /\ cycle' = [cycle EXCEPT ![c] = IF alive THEN [NotStarted EXCEPT !.step = "spawned",
                                                                         !.claimed = Len(runs) + 1]
                                                  ELSE Over]
        /\ runs' = Append(runs, IF told THEN OpenRow(clock) ELSE ClosedRow("failed", TRUE, <<>>))
  BY DEF Spawn
<1> DEFINE born == Named(NotStarted, "spawned", Len(runs) + 1)
           p == IF alive THEN born ELSE Over
           row == IF told THEN OpenRow(clock) ELSE ClosedRow("failed", TRUE, <<>>)
<1>2. IsProcess(born) /\ born.step = "spawned" /\ born.claimed = Len(runs) + 1 /\ born.outcomes = <<>>
  BY EndedProcess, Edits
<1> HIDE DEF born
<1>3. cycle' = [cycle EXCEPT ![c] = p]
  BY <1>1 DEF born, Named
<1>4. IsProcess(p) /\ p.outcomes = <<>>
  BY <1>2, EndedProcess
<1>5. IsRow(row) /\ (~row.open => row.status = "failed" /\ row.error = TRUE /\ row.sources = <<>>)
  BY DEF OpenRow, ClosedRow, IsRow
<1>6. (p.step = "spawned" /\ p.claimed = Len(runs) + 1) \/ p.step = "over"
  BY <1>2, EndedProcess
<1> HIDE DEF p, row
<1>7. Becomes(c, p) /\ Appends(row)
  BY <1>1, <1>3, <1>4, <1>5, ReplaceProcess, AppendRow DEF row
<1>8. QED BY <1>4, <1>5, <1>6, <1>7

LEMMA OpenBecomes ==
  ASSUME Tables, OnTable, NEW c \in Cycle, OpenRun(c)
  PROVE  /\ cycle[c].step = "spawned"
         /\ \E p, row :
              /\ Becomes(c, p) /\ p.step = "open" /\ p.outcomes = cycle[c].outcomes /\ row.open
              /\ \/ p.run = Len(runs) + 1 /\ Appends(row)
                 \/ /\ Claiming(cycle[c]) /\ p.run = cycle[c].claimed /\ runs[p.run].open
                    /\ p.run \in 1..Len(runs) /\ Rewrites(p.run, row)
<1> DEFINE old == cycle[c]
           id == IF Adopts(old.claimed) THEN old.claimed ELSE Len(runs) + 1
           p == Opened(old, "open", id)
<1>1. /\ old.step = "spawned"
      /\ cycle' = [cycle EXCEPT ![c].step = "open", ![c].run = id]
      /\ runs' = IF id = old.claimed THEN [runs EXCEPT ![id].started = clock]
                                     ELSE Append(runs, OpenRow(clock))
  BY DEF OpenRun
<1>2. IsProcess(old) /\ (old.claimed # 0 => old.claimed \in 1..Len(runs)) /\ Len(runs) \in Nat
  BY <1>1, Lengths DEF Tables, OnTable, Names, Claiming
<1> HIDE DEF id
<1>3. cycle' = [cycle EXCEPT ![c] = p]
  BY <1>1 DEF Tables, Opened
<1>4. IsProcess(p) /\ p.step = "open" /\ p.run = id /\ p.outcomes = old.outcomes
  BY <1>2, Edits
<1> HIDE DEF p
<1>5. Becomes(c, p)
  BY <1>3, <1>4, ReplaceProcess
<1>6. CASE Adopts(old.claimed)
  <2>1. id = old.claimed /\ id \in 1..Len(runs) /\ runs[id].open
    BY <1>2, <1>6 DEF Adopts, IsOpen, id
  <2> DEFINE row == [open |-> runs[id].open, started |-> clock, status |-> runs[id].status,
                     error |-> runs[id].error, sources |-> runs[id].sources]
  <2>2. runs' = [runs EXCEPT ![id] = [runs[id] EXCEPT !.started = clock]]
    BY <1>1, <2>1
  <2>3. [runs[id] EXCEPT !.started = clock] = row
    <3>1. IsRow(runs[id])
      BY <2>1 DEF Tables
    <3>2. QED BY <3>1 DEF IsRow
  <2>4. IsRow(row)
    BY DEF IsRow
  <2>5. Rewrites(id, row)
    <3> HIDE DEF row
    <3>1. QED BY <2>1, <2>2, <2>3, <2>4, RewriteRow
  <2>6. row.open
    BY <2>1
  <2>7. Claiming(old) /\ p.run = old.claimed /\ runs[p.run].open /\ p.run \in 1..Len(runs)
    BY <1>1, <1>2, <1>4, <2>1 DEF Claiming
  <2> HIDE DEF row
  <2>8. Rewrites(p.run, row)
    BY <1>4, <2>5
  <2>9. QED BY <1>1, <1>4, <1>5, <2>6, <2>7, <2>8
<1>7. CASE ~Adopts(old.claimed)
  <2>1. id = Len(runs) + 1 /\ id # old.claimed
    BY <1>2, <1>7 DEF id
  <2>2. IsRow(OpenRow(clock)) /\ OpenRow(clock).open = TRUE
    BY DEF IsRow, OpenRow
  <2>3. Appends(OpenRow(clock))
    BY <1>1, <2>1, <2>2, AppendRow
  <2>4. QED BY <1>1, <1>4, <1>5, <2>1, <2>2, <2>3
<1>8. QED BY <1>6, <1>7

LEMMA ReadBecomes ==
  ASSUME Tables, NEW c \in Cycle, ReadContributed(c)
  PROVE  /\ cycle[c].step = "open"
         /\ \E p : /\ Becomes(c, p) /\ p.step = "harvest" /\ p.run = cycle[c].run
                   /\ p.outcomes = cycle[c].outcomes
<1>1. PICK known \in {labelled, {}} :
        cycle' = [cycle EXCEPT ![c].step = "harvest", ![c].contributed = known,
                           ![c].fed = labelled]
  BY DEF ReadContributed
<1> DEFINE old == cycle[c]
           p == Asked(old, "harvest", known, labelled)
<1>2. IsProcess(old) /\ DOMAIN cycle = Cycle
  BY DEF Tables
<1>3. cycle' = [cycle EXCEPT ![c] = p]
  BY <1>1, <1>2 DEF Asked
<1>4. IsProcess(p) /\ p.step = "harvest" /\ p.run = old.run /\ p.outcomes = old.outcomes
  BY <1>2, Edits
<1> HIDE DEF p
<1>5. Becomes(c, p)
  BY <1>3, <1>4, ReplaceProcess
<1>6. QED BY <1>4, <1>5 DEF ReadContributed

LEMMA SourceBecomes ==
  ASSUME Tables, NEW c \in Cycle, HarvestSource(c)
  PROVE  /\ cycle[c].step = "harvest" /\ DOMAIN cycle[c].outcomes # Origin
         /\ \E p, outcome :
              /\ Becomes(c, p) /\ p.step = cycle[c].step /\ p.run = cycle[c].run
              /\ p.outcomes = Including(Turn(c), outcome, cycle[c].outcomes)
              /\ p.contributed = cycle[c].contributed
              /\ Sound(outcome) /\ (outcome.notSupplied => Turn(c) \notin cycle[c].contributed)
<1> DEFINE old == cycle[c]
           s == Turn(c)
           p(outcome) == Reported(old, Including(s, outcome, old.outcomes))
<1>1. \A flag \in BOOLEAN : Sound(Nothing(flag)) /\ Nothing(flag).notSupplied = flag
  BY DEF Sound, Nothing
<1>2. \A read : Sound(Contributes(read)) /\ Contributes(read).notSupplied = FALSE
  BY DEF Sound, Contributes
<1>3. PICK outcome :
        /\ cycle' = [cycle EXCEPT ![c].outcomes = Including(s, outcome, @)]
        /\ Sound(outcome) /\ (outcome.notSupplied => s \notin cycle[c].contributed)
  <2> HIDE DEF s
  <2>1. PICK site \in Sites[s] :
          LET read == Reading(s, site, drops)
              Turned(outcome) == cycle' = [cycle EXCEPT ![c].outcomes = Including(s, outcome, @)]
          IN  \/ Turned(Contributes(read)) \/ Turned(Nothing(FALSE))
              \/ Turned(Nothing(read.kind = "not supplied" /\ s \notin cycle[c].contributed))
    BY DEF HarvestSource, s
  <2> DEFINE flag == Reading(s, site, drops).kind = "not supplied" /\ s \notin cycle[c].contributed
  <2>2. flag \in BOOLEAN
    OBVIOUS
  <2>3. flag => s \notin cycle[c].contributed
    OBVIOUS
  <2> HIDE DEF flag
  <2> DEFINE fits(outcome) == Sound(outcome) /\ (outcome.notSupplied => s \notin cycle[c].contributed)
  <2>4. fits(Nothing(flag)) /\ fits(Nothing(FALSE)) /\ fits(Contributes(Reading(s, site, drops)))
    BY <1>1, <1>2, <2>2, <2>3
  <2>5. QED BY <2>1, <2>4 DEF flag
<1> HIDE DEF s
<1>4. IsProcess(old) /\ DOMAIN cycle = Cycle
  BY DEF Tables
<1>5. cycle' = [cycle EXCEPT ![c] = p(outcome)]
  BY <1>3, <1>4 DEF Reported
<1>6. /\ IsProcess(p(outcome)) /\ p(outcome).step = old.step /\ p(outcome).run = old.run
      /\ p(outcome).outcomes = Including(s, outcome, old.outcomes)
      /\ p(outcome).contributed = old.contributed
  BY <1>4, Edits
<1> HIDE DEF p
<1>7. Becomes(c, p(outcome))
  BY <1>5, <1>6, ReplaceProcess
<1>8. QED BY <1>3, <1>6, <1>7 DEF HarvestSource, s

LEMMA CloseBecomes ==
  ASSUME Tables, NEW c \in Cycle, cycle[c].run \in 1..Len(runs),
         NEW status, NEW error, NEW outcomes, CloseRun(c, status, error, outcomes)
  PROVE  /\ Becomes(c, Over)
         /\ Rewrites(cycle[c].run, ClosedRow(status, error, Graded(outcomes)))
<1>1. IsRow(ClosedRow(status, error, Graded(outcomes)))
  BY DEF IsRow, ClosedRow
<1>2. QED BY <1>1, EndedProcess, ReplaceProcess, RewriteRow DEF CloseRun, Graded

-----------------------------------------------------------------------------
(* The invariant.                                                          *)

\* A cycle may close no row but the one it named, and not while at work on it.
KeepsOpen(c, p) ==
  /\ p.step = "off" => p.claimed = 0
  /\ AtWork(p) => runs'[p.run].open
  /\ \A id \in 1..Len(runs) : runs[id].open /\ ~Names(cycle[c], id) => runs'[id].open

\* It may take over the row it named, or a new one.
TakesOver(c, p) ==
  \A id : Names(p, id) => Names(cycle[c], id) \/ id \in (1..Len(runs')) \ (1..Len(runs))

LEMMA Extending ==
  ASSUME Tables,
         \/ UNCHANGED runs
         \/ \E row : Appends(row)
         \/ \E id \in 1..Len(runs) : \E row : Rewrites(id, row)
  PROVE  Extends
<1>1. Len(runs) \in Nat /\ \A id \in 1..Len(runs) : IsRow(runs[id])
  BY Lengths DEF Tables
<1>2. CASE UNCHANGED runs
  BY <1>1, <1>2 DEF Tables, Extends
<1>3. ASSUME NEW row, Appends(row)
      PROVE  Extends
  BY <1>1, <1>3 DEF Appends, Extends
<1>4. ASSUME NEW id \in 1..Len(runs), NEW row, Rewrites(id, row)
      PROVE  Extends
  BY <1>1, <1>4 DEF Rewrites, Extends
<1>5. QED BY <1>2, <1>3, <1>4

LEMMA NamesKept ==
  ASSUME HInv, NEW c \in Cycle, NEW p, Becomes(c, p), Extends, KeepsOpen(c, p), TakesOver(c, p)
  PROVE  HInv'
<1>1. Len(runs) \in Nat
  BY Lengths DEF HInv
<1>2. Tables'
  <2>1. \A d \in Cycle : IsProcess(cycle'[d])
    BY DEF HInv, Tables, Becomes
  <2>2. QED BY <2>1 DEF Tables, Becomes, Extends
<1>3. \A d \in Cycle \ {c} : \A id : Names(cycle[d], id) => id \in 1..Len(runs) /\ ~Names(cycle[c], id)
  BY DEF HInv, OnTable, Owned
<1>4. \A d \in Cycle \ {c} : \A id : Names(cycle[d], id) => ~Names(p, id)
  BY <1>1, <1>3 DEF TakesOver
<1>5. OnTable'
  <2> SUFFICES ASSUME NEW d \in Cycle
               PROVE  /\ cycle'[d].step = "off" => cycle'[d].claimed = 0
                      /\ \A id : Names(cycle'[d], id) => id \in 1..Len(runs')
                      /\ AtWork(cycle'[d]) => runs'[cycle'[d].run].open
    BY DEF OnTable, Names, AtWork, Claiming
  <2>1. CASE d = c
    <3>1. \A id : Names(p, id) => id \in 1..Len(runs')
      BY <1>1 DEF HInv, OnTable, Extends, TakesOver
    <3>2. QED BY <2>1, <3>1 DEF Becomes, KeepsOpen
  <2>2. CASE d # c
    <3>1. cycle'[d] = cycle[d]
      BY <2>2 DEF Becomes
    <3>2. \A id : Names(cycle[d], id) => id \in 1..Len(runs')
      BY <1>1, <1>3, <2>2 DEF Extends
    <3>3. AtWork(cycle[d]) => Names(cycle[d], cycle[d].run) /\ runs[cycle[d].run].open
      BY DEF HInv, OnTable, Names
    <3>4. AtWork(cycle[d]) => runs'[cycle[d].run].open
      BY <1>3, <2>2, <3>3 DEF KeepsOpen
    <3>5. QED BY <3>1, <3>2, <3>4 DEF HInv, OnTable
  <2>3. QED BY <2>1, <2>2
<1>6. Owned'
  <2>1. \A d \in Cycle \ {c} : cycle'[d] = cycle[d]
    BY DEF Becomes
  <2>2. \A d \in Cycle : \A e \in Cycle \ {d} : \A id : ~(Names(cycle'[d], id) /\ Names(cycle'[e], id))
    BY <1>4, <2>1 DEF HInv, Owned, Becomes
  <2>3. QED BY <2>2 DEF Owned, Names, AtWork, Claiming
<1>7. QED BY <1>2, <1>5, <1>6 DEF HInv

LEMMA NextKept == HInv /\ [HarvestNext]_harvestVars => HInv'
<1> SUFFICES ASSUME HInv, [HarvestNext]_harvestVars
             PROVE  HInv'
  OBVIOUS
<1> USE DEF HInv
<1>1. Len(runs) \in Nat
  BY Lengths
<1>2. ASSUME NEW c \in Cycle, Press(c)
      PROVE  HInv'
  <2>1. PICK p : Becomes(c, p) /\ p.step = "pressed"
    BY <1>2, StepBecomes DEF Press
  <2>2. UNCHANGED runs /\ Extends
    BY <1>2, Extending DEF Press
  <2>3. QED BY <2>1, <2>2, NamesKept DEF Names, AtWork, Claiming, KeepsOpen, TakesOver
<1>3. ASSUME NEW c \in Cycle, Cron(c)
      PROVE  HInv'
  <2>1. PICK p : Becomes(c, p) /\ p.step = "spawned" /\ p.claimed = cycle[c].claimed
    BY <1>3, StepBecomes DEF Cron
  <2>2. p.claimed = 0
    BY <1>3, <2>1 DEF Cron, Step, OnTable
  <2>3. UNCHANGED runs /\ Extends
    BY <1>3, Extending DEF Cron
  <2>4. QED BY <2>1, <2>2, <2>3, NamesKept DEF Names, AtWork, Claiming, KeepsOpen, TakesOver
<1>4. ASSUME NEW c \in Cycle, Spawn(c)
      PROVE  HInv'
  <2>1. PICK p, row : /\ Becomes(c, p) /\ Appends(row)
                      /\ \/ p.step = "spawned" /\ p.claimed = Len(runs) + 1
                         \/ p.step = "over"
    BY <1>4, SpawnBecomes
  <2>2. Extends
    BY <2>1, Extending
  <2>3. TakesOver(c, p)
    BY <2>1 DEF Names, AtWork, Claiming, Appends, TakesOver
  <2>4. \A id \in 1..Len(runs) : runs'[id] = runs[id]
    BY <2>1 DEF Appends
  <2>5. QED BY <2>1, <2>2, <2>3, <2>4, NamesKept DEF AtWork, KeepsOpen
<1>5. ASSUME NEW c \in Cycle, OpenRun(c)
      PROVE  HInv'
  <2>1. PICK p, row :
          /\ Becomes(c, p) /\ p.step = "open" /\ row.open
          /\ \/ p.run = Len(runs) + 1 /\ Appends(row)
             \/ /\ Claiming(cycle[c]) /\ p.run = cycle[c].claimed
                /\ p.run \in 1..Len(runs) /\ Rewrites(p.run, row)
    BY <1>5, OpenBecomes
  <2>2. Extends
    BY <2>1, Extending
  <2>3. TakesOver(c, p)
    BY <2>1 DEF Names, AtWork, Claiming, Appends, TakesOver
  <2>4. KeepsOpen(c, p)
    BY <2>1 DEF Appends, Rewrites, KeepsOpen
  <2>5. QED BY <2>1, <2>2, <2>3, <2>4, NamesKept
<1>6. ASSUME NEW c \in Cycle, NEW p, Becomes(c, p), AtWork(cycle[c]), AtWork(p),
             p.run = cycle[c].run, UNCHANGED runs
      PROVE  HInv'
  <2>1. Extends /\ p.step # "off"
    BY <1>6, Extending DEF AtWork
  <2>2. TakesOver(c, p)
    BY <1>6 DEF Names, AtWork, Claiming, TakesOver
  <2>3. KeepsOpen(c, p)
    BY <1>6, <2>1 DEF OnTable, KeepsOpen
  <2>4. QED BY <1>6, <2>1, <2>2, <2>3, NamesKept
<1>7. ASSUME NEW c \in Cycle, ReadContributed(c)
      PROVE  HInv'
  <2>1. UNCHANGED runs
    BY <1>7 DEF ReadContributed
  <2>2. PICK p : Becomes(c, p) /\ AtWork(cycle[c]) /\ AtWork(p) /\ p.run = cycle[c].run
    BY <1>7, ReadBecomes DEF AtWork
  <2>3. QED BY <1>6, <2>1, <2>2
<1>8. ASSUME NEW c \in Cycle, HarvestSource(c)
      PROVE  HInv'
  <2>1. UNCHANGED runs
    BY <1>8 DEF HarvestSource
  <2>2. PICK p : Becomes(c, p) /\ AtWork(cycle[c]) /\ AtWork(p) /\ p.run = cycle[c].run
    BY <1>8, SourceBecomes DEF AtWork
  <2>3. QED BY <1>6, <2>1, <2>2
<1>9. ASSUME NEW c \in Cycle, AtWork(cycle[c]), NEW status, NEW error, NEW outcomes,
             CloseRun(c, status, error, outcomes)
      PROVE  HInv'
  <2> DEFINE own == cycle[c].run
  <2>1. Names(cycle[c], own) /\ own \in 1..Len(runs)
    BY <1>9 DEF OnTable, Names
  <2>2. PICK row : Becomes(c, Over) /\ Rewrites(own, row)
    BY <1>9, <2>1, CloseBecomes
  <2>3. Extends
    BY <2>1, <2>2, Extending
  <2>4. \A id \in 1..Len(runs) \ {own} : runs'[id] = runs[id]
    BY <2>2 DEF Rewrites
  <2>5. ~AtWork(Over) /\ Over.step # "off" /\ \A id : ~Names(Over, id)
    BY EndedProcess DEF AtWork, Names, Claiming
  <2>6. QED BY <2>1, <2>2, <2>3, <2>4, <2>5, NamesKept DEF KeepsOpen, TakesOver
<1>10. ASSUME NEW c \in Cycle, FinishCycle(c)
       PROVE  HInv'
  BY <1>9, <1>10 DEF FinishCycle, AtWork
<1>11. ASSUME NEW c \in Cycle, Interrupt(c)
       PROVE  HInv'
  BY <1>9, <1>11 DEF Interrupt, Working, AtWork
<1>12. ASSUME NEW c \in Cycle, Kill(c)
       PROVE  HInv'
  <2>1. Becomes(c, Over) /\ UNCHANGED runs /\ Extends
    BY <1>12, EndedProcess, ReplaceProcess, Extending DEF Kill
  <2>2. ~AtWork(Over) /\ Over.step # "off" /\ \A id : ~Names(Over, id)
    BY EndedProcess DEF AtWork, Names, Claiming
  <2>3. QED BY <2>1, <2>2, NamesKept DEF KeepsOpen, TakesOver
<1>13. CASE UNCHANGED <<runs, cycle>>
  BY <1>13 DEF Tables, OnTable, Owned, Names, AtWork, Claiming
<1>14. QED
  BY <1>2, <1>3, <1>4, <1>5, <1>7, <1>8, <1>10, <1>11, <1>12, <1>13
  DEF HarvestNext, SupplyDrop, LoseDrop, Tick, harvestVars

LEMMA InitEstablishes == HarvestInit => HInv
<1> SUFFICES ASSUME HarvestInit
             PROVE  HInv
  OBVIOUS
<1>1. \A c \in Cycle : cycle[c] = NotStarted
  BY DEF HarvestInit
<1>2. IsProcess(NotStarted) /\ NotStarted.step = "off" /\ NotStarted.claimed = 0
  BY EndedProcess
<1>3. Tables
  <2>1. runs \in Seq({}) /\ Len(runs) = 0
    BY DEF HarvestInit
  <2>2. QED BY <1>1, <1>2, <2>1 DEF HarvestInit, Tables
<1>4. OnTable /\ Owned
  BY <1>1, <1>2 DEF OnTable, Owned, Names, AtWork, Claiming
<1>5. QED BY <1>3, <1>4 DEF HInv

\* The record of the harvest is sound: rows named by cycles exist, no two cycles
\* name one, and those of cycles at work are open.
THEOREM RowsAreOwned == HarvestSpec => []HInv
BY InitEstablishes, NextKept, PTL DEF HarvestSpec

\* runs.py: a cycle at work has an open row of its own, whatever became of the
\* press that claimed one for it.
THEOREM OnRecord == HarvestSpec => []CyclesAreOnRecord
<1>1. HInv => CyclesAreOnRecord
  BY DEF HInv, OnTable, Owned, Names, CyclesAreOnRecord, Working, AtWork, IsOpen
<1>2. QED BY <1>1, RowsAreOwned, PTL

-----------------------------------------------------------------------------
(* The panel.  A closed row says what its exit code said, and nothing      *)
(* stamps a row that is not in the table.                                  *)

\* The bad rows of a report are those the panel puts before a person.
Bad(graded) == ~graded.ok \/ graded.stale

Explained(row) ==
  /\ DOMAIN row.sources \subseteq Origin
  /\ Override = Undated =>
       (row.status = "ok" <=> /\ ~row.error
                              /\ \A s \in DOMAIN row.sources :
                                   Bad(row.sources[s]) => row.sources[s].notSupplied)

\* The outcomes of a cycle are of sources.
Reportable(outcomes) ==
  DOMAIN outcomes \subseteq Origin /\ \A s \in DOMAIN outcomes : Sound(outcomes[s])

Stamps(log, size) ==
  /\ log \in Seq(Nat)
  /\ \A i \in 1..Len(log) : log[i] \in 1..size
  /\ size # 0 => Len(log) # 0

EInv ==
  /\ \A c \in Cycle : Reportable(cycle[c].outcomes)
  /\ \A id \in 1..Len(runs) : ~runs[id].open => Explained(runs[id])
  /\ Stamps(byStart, Len(runs))

\* The plan lists every source once, so that the next turn is some source's.
LEMMA TurnIsASource ==
  ASSUME NEW c \in Cycle, DOMAIN cycle[c].outcomes \subseteq Origin,
         DOMAIN cycle[c].outcomes # Origin
  PROVE  Turn(c) \in Origin
<1> DEFINE had == DOMAIN cycle[c].outcomes
           N == Cardinality(Origin)
<1>1. N \in Nat /\ ExistsBijection(1..N, Origin)
  BY FS_CardinalityType, OriginAssumption
<1>2. IsFiniteSet(had) /\ Cardinality(had) <= N /\ Cardinality(had) # N
  BY FS_Subset, OriginAssumption
<1>3. Cardinality(had) \in Nat
  BY <1>2, FS_CardinalityType
<1>4. \E f \in [1..N -> Origin] : IsInjective(f)
  BY <1>1 DEF ExistsBijection, Bijection, Injection
<1>5. Plan \in [1..N -> Origin]
  BY <1>4 DEF Plan, SetToSeq
<1> HIDE DEF had, N
<1>6. Cardinality(had) + 1 \in 1..N
  BY <1>1, <1>2, <1>3
<1>7. QED BY <1>5, <1>6 DEF Turn, had

\* _harvest adds one outcome to the report.
LEMMA IncludingKeeps ==
  ASSUME NEW outcomes, Reportable(outcomes), NEW s \in Origin, NEW outcome, Sound(outcome)
  PROVE  Reportable(Including(s, outcome, outcomes))
BY DEF Reportable, Including

\* runs.py closes the row with the grades of the report, and the exit code it had.
LEMMA ClosesExplained ==
  ASSUME NEW outcomes, Reportable(outcomes), NEW reconciled \in BOOLEAN
  PROVE  Explained(ClosedRow(RunStatus(ExitCode(outcomes, reconciled, clock)), ~reconciled,
                             Graded(outcomes)))
<1> DEFINE code == ExitCode(outcomes, reconciled, clock)
           row == ClosedRow(RunStatus(code), ~reconciled, Graded(outcomes))
           late(s) == IsStale(outcomes[s], s, Undated, clock)
<1>1. row.status = "ok" <=> code = 0
  <2>1. row.status = RunStatus(code)
    BY DEF ClosedRow
  <2> HIDE DEF code, row
  <2>2. QED BY <2>1 DEF RunStatus
<1>2. row.error = ~reconciled /\ row.sources = Graded(outcomes)
  BY DEF ClosedRow
<1>3. DOMAIN Graded(outcomes) = DOMAIN outcomes
  BY DEF Graded
<1>4. \A s \in DOMAIN outcomes :
         /\ Graded(outcomes)[s].ok = outcomes[s].ok
         /\ Graded(outcomes)[s].notSupplied = outcomes[s].notSupplied
         /\ Graded(outcomes)[s].stale = late(s)
  BY DEF Graded
<1>5. \A s \in DOMAIN outcomes : outcomes[s].notSupplied => ~outcomes[s].ok /\ ~late(s)
  BY DEF Reportable, Sound, IsStale
<1>6. ASSUME Override = Undated
      PROVE  code = 0 <=> /\ reconciled
                          /\ \A s \in DOMAIN outcomes : outcomes[s].ok \/ outcomes[s].notSupplied
                          /\ \A s \in DOMAIN outcomes : ~late(s)
  BY <1>6 DEF ExitCode
<1> HIDE DEF code, row, late
<1>7. \A s \in DOMAIN outcomes :
         (Bad(Graded(outcomes)[s]) => Graded(outcomes)[s].notSupplied)
           <=> (outcomes[s].ok \/ outcomes[s].notSupplied) /\ ~late(s)
  BY <1>4, <1>5 DEF Bad
<1>8. Override = Undated =>
        (row.status = "ok" <=> /\ ~row.error
                               /\ \A s \in DOMAIN row.sources :
                                    Bad(row.sources[s]) => row.sources[s].notSupplied)
  BY <1>1, <1>2, <1>3, <1>6, <1>7
<1>9. DOMAIN row.sources \subseteq Origin
  BY <1>2, <1>3 DEF Reportable
<1>10. QED BY <1>8, <1>9 DEF Explained, row, code

\* A row closed without a report is red, and so is its panel.
LEMMA FailedExplained == Explained(ClosedRow("failed", TRUE, <<>>))
BY DEF Explained, ClosedRow

\* A stamp is of a row in the table, and the table only grows.
LEMMA StampsKept ==
  ASSUME NEW size \in Nat, NEW more \in Nat, size <= more, Stamps(byStart, size),
         \/ UNCHANGED byStart /\ more = size
         \/ \E id \in 1..more : byStart' = Append(byStart, id)
  PROVE  Stamps(byStart', more)
<1>1. CASE UNCHANGED byStart /\ more = size
  BY <1>1
<1>2. ASSUME NEW id \in 1..more, byStart' = Append(byStart, id)
      PROVE  Stamps(byStart', more)
  <2>1. /\ byStart' \in Seq(Nat) /\ Len(byStart') = Len(byStart) + 1
        /\ byStart'[Len(byStart) + 1] = id /\ \A i \in 1..Len(byStart) : byStart'[i] = byStart[i]
        /\ Len(byStart) \in Nat
    BY <1>2, AppendProperties DEF Stamps
  <2>2. QED BY <2>1, SMTT(30) DEF Stamps
<1>3. QED BY <1>1, <1>2

\* What a step may do to the reports and to the rows.
LEMMA ReportsKept ==
  ASSUME EInv, NEW c \in Cycle, NEW p, Becomes(c, p), Reportable(p.outcomes)
  PROVE  \A d \in Cycle : Reportable(cycle'[d].outcomes)
BY DEF EInv, Becomes

LEMMA RowsKept ==
  ASSUME Tables, EInv,
         \/ UNCHANGED runs
         \/ \E row : Appends(row) /\ (row.open \/ Explained(row))
         \/ \E id \in 1..Len(runs) : \E row : Rewrites(id, row) /\ (row.open \/ Explained(row))
  PROVE  \A id \in 1..Len(runs') : ~runs'[id].open => Explained(runs'[id])
<1>1. Len(runs) \in Nat /\ \A id \in 1..Len(runs) : ~runs[id].open => Explained(runs[id])
  BY Lengths DEF EInv
<1>2. CASE UNCHANGED runs
  BY <1>1, <1>2
<1>3. ASSUME NEW row, Appends(row), row.open \/ Explained(row)
      PROVE  \A id \in 1..Len(runs') : ~runs'[id].open => Explained(runs'[id])
  BY <1>1, <1>3 DEF Appends
<1>4. ASSUME NEW i \in 1..Len(runs), NEW row, Rewrites(i, row), row.open \/ Explained(row)
      PROVE  \A id \in 1..Len(runs') : ~runs'[id].open => Explained(runs'[id])
  BY <1>1, <1>4 DEF Rewrites
<1>5. QED BY <1>2, <1>3, <1>4

LEMMA ExplainedKept ==
  ASSUME EInv,
         \A d \in Cycle : Reportable(cycle'[d].outcomes),
         \A id \in 1..Len(runs') : ~runs'[id].open => Explained(runs'[id]),
         Stamps(byStart', Len(runs'))
  PROVE  EInv'
BY DEF EInv, Reportable, Explained, Sound, Bad, Stamps

\* The two actions that stamp a row.
LEMMA SpawnExplained ==
  ASSUME Tables, NEW c \in Cycle, Spawn(c)
  PROVE  \E p, row : /\ Becomes(c, p) /\ Appends(row) /\ p.outcomes = <<>>
                     /\ row.open \/ Explained(row)
<1>1. PICK p, row :
        /\ Becomes(c, p) /\ Appends(row) /\ p.outcomes = <<>>
        /\ ~row.open => row.status = "failed" /\ row.error = TRUE /\ row.sources = <<>>
  BY SpawnBecomes
<1>2. row.open \/ Explained(row)
  BY <1>1 DEF Explained
<1>3. QED BY <1>1, <1>2

LEMMA OpenStamps ==
  ASSUME Tables, OnTable, NEW c \in Cycle, OpenRun(c)
  PROVE  \E p, row :
           /\ Becomes(c, p) /\ p.outcomes = cycle[c].outcomes /\ row.open
           /\ p.run \in 1..Len(runs') /\ Len(runs) <= Len(runs')
           /\ Appends(row) \/ \E id \in 1..Len(runs) : Rewrites(id, row)
           /\ byStart' = Append(byStart, p.run)
<1>1. PICK p, row :
        /\ Becomes(c, p) /\ p.outcomes = cycle[c].outcomes /\ row.open
        /\ \/ p.run = Len(runs) + 1 /\ Appends(row)
           \/ p.run \in 1..Len(runs) /\ Rewrites(p.run, row)
  BY OpenBecomes
<1>2. Len(runs) \in Nat
  BY Lengths
<1>3. p.run \in 1..Len(runs') /\ Len(runs) <= Len(runs')
  BY <1>1, <1>2 DEF Appends, Rewrites
<1>4. byStart' = Append(byStart, p.run)
  <2> DEFINE id == IF Adopts(cycle[c].claimed) THEN cycle[c].claimed ELSE Len(runs) + 1
  <2>1. byStart' = Append(byStart, id) /\ cycle' = [cycle EXCEPT ![c].step = "open", ![c].run = id]
    BY DEF OpenRun
  <2> HIDE DEF id
  <2>2. IsProcess(cycle[c]) /\ cycle' = [cycle EXCEPT ![c] = Opened(cycle[c], "open", id)]
    BY <2>1 DEF Tables, Opened
  <2>3. cycle'[c] = Opened(cycle[c], "open", id)
    BY <2>2 DEF Tables
  <2>4. p.run = id
    BY <1>1, <2>2, <2>3, Edits DEF Becomes
  <2>5. QED BY <2>1, <2>4
<1>5. QED BY <1>1, <1>3, <1>4

LEMMA NextExplained == HInv /\ EInv /\ [HarvestNext]_harvestVars => EInv'
<1> SUFFICES ASSUME HInv, EInv, [HarvestNext]_harvestVars
             PROVE  EInv'
  OBVIOUS
<1>1. Tables /\ Len(runs) \in Nat
  BY Lengths DEF HInv
<1>2. Reportable(<<>>)
  BY DEF Reportable
<1>3. ASSUME NEW c \in Cycle, NEW p, Becomes(c, p), Reportable(p.outcomes), UNCHANGED <<runs, byStart>>
      PROVE  EInv'
  <2>1. Stamps(byStart', Len(runs'))
    BY <1>3 DEF EInv
  <2>2. QED BY <1>1, <1>3, <2>1, ReportsKept, RowsKept, ExplainedKept
<1>4. ASSUME NEW c \in Cycle, Press(c) \/ Cron(c) \/ ReadContributed(c)
      PROVE  EInv'
  <2>1. PICK p : Becomes(c, p) /\ p.outcomes = cycle[c].outcomes
    BY <1>1, <1>4, StepBecomes, ReadBecomes DEF Press, Cron
  <2>2. UNCHANGED <<runs, byStart>> /\ Reportable(p.outcomes)
    BY <1>4, <2>1 DEF Press, Cron, ReadContributed, EInv
  <2>3. QED BY <1>3, <2>1, <2>2
<1>5. ASSUME NEW c \in Cycle, Spawn(c)
      PROVE  EInv'
  <2>1. PICK p, row : /\ Becomes(c, p) /\ Appends(row) /\ p.outcomes = <<>>
                      /\ row.open \/ Explained(row)
    BY <1>1, <1>5, SpawnExplained
  <2>2. byStart' = Append(byStart, Len(runs) + 1) /\ Len(runs') = Len(runs) + 1
    BY <1>5, <2>1 DEF Spawn, Appends
  <2>3. Stamps(byStart', Len(runs'))
    BY <1>1, <2>2, StampsKept DEF EInv
  <2>4. QED BY <1>1, <1>2, <2>1, <2>3, ReportsKept, RowsKept, ExplainedKept
<1>6. ASSUME NEW c \in Cycle, OpenRun(c)
      PROVE  EInv'
  <2>1. PICK p, row :
          /\ Becomes(c, p) /\ p.outcomes = cycle[c].outcomes /\ row.open
          /\ p.run \in 1..Len(runs') /\ Len(runs) <= Len(runs')
          /\ Appends(row) \/ \E id \in 1..Len(runs) : Rewrites(id, row)
          /\ byStart' = Append(byStart, p.run)
    BY <1>1, <1>6, OpenStamps DEF HInv
  <2>2. Reportable(p.outcomes)
    BY <2>1 DEF EInv
  <2>3. Len(runs') \in Nat
    BY <1>1, <2>1 DEF Appends, Rewrites
  <2>4. Stamps(byStart', Len(runs'))
    BY <1>1, <2>1, <2>3, StampsKept DEF EInv
  <2>5. QED BY <1>1, <2>1, <2>2, <2>4, ReportsKept, RowsKept, ExplainedKept
<1>7. ASSUME NEW c \in Cycle, HarvestSource(c)
      PROVE  EInv'
  <2>1. PICK p, outcome : /\ Becomes(c, p) /\ Sound(outcome)
                          /\ p.outcomes = Including(Turn(c), outcome, cycle[c].outcomes)
    BY <1>1, <1>7, SourceBecomes
  <2>2. Reportable(cycle[c].outcomes) /\ Turn(c) \in Origin
    BY <1>1, <1>7, SourceBecomes, TurnIsASource DEF EInv, Reportable
  <2>3. Reportable(p.outcomes)
    BY <2>1, <2>2, IncludingKeeps
  <2>4. UNCHANGED <<runs, byStart>>
    BY <1>7 DEF HarvestSource
  <2>5. QED BY <1>3, <2>1, <2>3, <2>4
<1>8. ASSUME NEW c \in Cycle, AtWork(cycle[c]), UNCHANGED byStart,
             NEW status, NEW error, NEW outcomes, CloseRun(c, status, error, outcomes),
             Explained(ClosedRow(status, error, Graded(outcomes)))
      PROVE  EInv'
  <2>1. cycle[c].run \in 1..Len(runs)
    BY <1>8 DEF HInv, OnTable, Names
  <2>2. Becomes(c, Over) /\ Rewrites(cycle[c].run, ClosedRow(status, error, Graded(outcomes)))
    BY <1>1, <1>8, <2>1, CloseBecomes
  <2>3. Stamps(byStart', Len(runs'))
    BY <1>8, <2>2 DEF EInv, Rewrites
  <2>4. \A id \in 1..Len(runs') : ~runs'[id].open => Explained(runs'[id])
    BY <1>1, <1>8, <2>1, <2>2, RowsKept
  <2>5. QED BY <1>2, <2>2, <2>3, <2>4, EndedProcess, ReportsKept, ExplainedKept
<1>9. ASSUME NEW c \in Cycle, FinishCycle(c)
      PROVE  EInv'
  <2>1. PICK reconciled \in BOOLEAN :
          CloseRun(c, RunStatus(ExitCode(cycle[c].outcomes, reconciled, clock)), ~reconciled,
                   cycle[c].outcomes)
    BY <1>9 DEF FinishCycle
  <2>2. AtWork(cycle[c]) /\ UNCHANGED byStart /\ Reportable(cycle[c].outcomes)
    BY <1>9 DEF FinishCycle, AtWork, EInv
  <2>3. QED BY <1>8, <2>1, <2>2, ClosesExplained
<1>10. ASSUME NEW c \in Cycle, Interrupt(c)
       PROVE  EInv'
  <2>1. AtWork(cycle[c]) /\ UNCHANGED byStart /\ CloseRun(c, "failed", TRUE, <<>>)
    BY <1>10 DEF Interrupt, Working, AtWork
  <2>2. Graded(<<>>) = <<>>
    BY DEF Graded
  <2>3. QED BY <1>8, <2>1, <2>2, FailedExplained
<1>11. ASSUME NEW c \in Cycle, Kill(c)
       PROVE  EInv'
  <2>1. Becomes(c, Over) /\ UNCHANGED <<runs, byStart>>
    BY <1>1, <1>11, EndedProcess, ReplaceProcess DEF Kill
  <2>2. QED BY <1>2, <1>3, <2>1, EndedProcess
<1>12. CASE UNCHANGED <<runs, byStart, cycle>>
  BY <1>12 DEF EInv, Reportable, Explained, Sound, Bad, Stamps
<1>13. QED
  BY <1>4, <1>5, <1>6, <1>7, <1>9, <1>10, <1>11, <1>12
  DEF HarvestNext, SupplyDrop, LoseDrop, Tick, harvestVars

LEMMA InitExplained == HarvestInit => EInv
<1> SUFFICES ASSUME HarvestInit
             PROVE  EInv
  OBVIOUS
<1>1. \A c \in Cycle : Reportable(cycle[c].outcomes)
  BY EndedProcess DEF HarvestInit, Reportable
<1>2. Len(runs) = 0 /\ Stamps(byStart, Len(runs))
  BY DEF HarvestInit, Stamps
<1>3. QED BY <1>1, <1>2 DEF EInv

\* Every closed row of the record says of its sources what its status says of the run.
THEOREM ClosedRowsExplain == HarvestSpec => [](HInv /\ EInv)
BY InitEstablishes, NextKept, InitExplained, NextExplained, PTL DEF HarvestSpec

-----------------------------------------------------------------------------
(* A lost drop.  A cycle reports nothing before it has asked which sources *)
(* ever contributed, and files none of those as never supplied.            *)

WellFiled(p) ==
  /\ p.step = "harvest" \/ p.outcomes = <<>>
  /\ \A s \in DOMAIN p.outcomes : p.outcomes[s].notSupplied => s \notin p.contributed

FInv == \A c \in Cycle : WellFiled(cycle[c])

\* A report with nothing in it is well filed, and stays so as _harvest adds to it.
LEMMA EmptyWellFiled == ASSUME NEW p, p.outcomes = <<>> PROVE WellFiled(p)
BY DEF WellFiled

LEMMA IncludingWellFiled ==
  ASSUME NEW old, WellFiled(old), NEW p, p.step = "harvest", p.contributed = old.contributed,
         NEW s, NEW outcome, outcome.notSupplied => s \notin old.contributed,
         p.outcomes = Including(s, outcome, old.outcomes)
  PROVE  WellFiled(p)
BY DEF WellFiled, Including

LEMMA FilingKept ==
  ASSUME FInv, NEW c \in Cycle, NEW p, Becomes(c, p), WellFiled(p)
  PROVE  FInv'
<1>1. \A d \in Cycle : WellFiled(cycle'[d])
  BY DEF FInv, Becomes
<1>2. QED BY <1>1 DEF FInv, WellFiled

LEMMA NextWellFiled == HInv /\ FInv /\ [HarvestNext]_harvestVars => FInv'
<1> SUFFICES ASSUME HInv, FInv, [HarvestNext]_harvestVars
             PROVE  FInv'
  OBVIOUS
<1>1. Tables /\ OnTable
  BY DEF HInv
<1>2. ASSUME NEW c \in Cycle, cycle[c].step # "harvest",
             Press(c) \/ Cron(c) \/ OpenRun(c) \/ ReadContributed(c)
      PROVE  FInv'
  <2>1. PICK p : Becomes(c, p) /\ p.outcomes = cycle[c].outcomes
    BY <1>1, <1>2, StepBecomes, OpenBecomes, ReadBecomes DEF Press, Cron
  <2>2. cycle[c].outcomes = <<>>
    BY <1>2 DEF FInv, WellFiled
  <2>3. QED BY <2>1, <2>2, EmptyWellFiled, FilingKept
<1>3. ASSUME NEW c \in Cycle, Press(c) \/ Cron(c) \/ OpenRun(c) \/ ReadContributed(c)
      PROVE  cycle[c].step # "harvest"
  BY <1>3 DEF Press, Cron, Step, OpenRun, ReadContributed
<1>4. ASSUME NEW c \in Cycle, Spawn(c)
      PROVE  FInv'
  <2>1. PICK p : Becomes(c, p) /\ p.outcomes = <<>>
    BY <1>1, <1>4, SpawnBecomes
  <2>2. QED BY <2>1, EmptyWellFiled, FilingKept
<1>5. ASSUME NEW c \in Cycle, HarvestSource(c)
      PROVE  FInv'
  <2>1. PICK p, outcome :
          /\ Becomes(c, p) /\ p.step = "harvest" /\ p.contributed = cycle[c].contributed
          /\ p.outcomes = Including(Turn(c), outcome, cycle[c].outcomes)
          /\ outcome.notSupplied => Turn(c) \notin cycle[c].contributed
    BY <1>1, <1>5, SourceBecomes
  <2>2. WellFiled(cycle[c])
    BY DEF FInv
  <2>3. WellFiled(p)
    BY <2>1, <2>2, IncludingWellFiled
  <2>4. QED BY <2>1, <2>3, FilingKept
<1>6. ASSUME NEW c \in Cycle, cycle' = [cycle EXCEPT ![c] = Over]
      PROVE  FInv'
  <2>1. Becomes(c, Over) /\ WellFiled(Over)
    BY <1>1, <1>6, EndedProcess, EmptyWellFiled, ReplaceProcess
  <2>2. QED BY <2>1, FilingKept
<1>7. ASSUME NEW c \in Cycle, FinishCycle(c) \/ Interrupt(c) \/ Kill(c)
      PROVE  FInv'
  BY <1>6, <1>7 DEF FinishCycle, Interrupt, Kill, CloseRun
<1>8. CASE UNCHANGED cycle
  BY <1>8 DEF FInv, WellFiled
<1>9. QED
  BY <1>2, <1>3, <1>4, <1>5, <1>7, <1>8 DEF HarvestNext, SupplyDrop, LoseDrop, Tick, harvestVars

LEMMA InitWellFiled == HarvestInit => FInv
BY EndedProcess, EmptyWellFiled DEF HarvestInit, FInv

\* scheduler._exit_code: what a cycle that could read the store did not get from a source
\* that had fed it is no setup step, and fails the run.
LEMMA LossesShow ==
  ASSUME EInv, FInv, NEW c \in Cycle, ~Misread(c)
  PROVE  LostIsRed(c)
<1> SUFFICES ASSUME NEW s \in cycle[c].fed \cap DOMAIN cycle[c].outcomes, ~cycle[c].outcomes[s].ok
             PROVE  ExitCode(cycle[c].outcomes, TRUE, clock) = 1
  BY DEF LostIsRed
<1>1. ~cycle[c].outcomes[s].notSupplied
  BY DEF FInv, WellFiled, Misread
<1>2. QED BY <1>1 DEF ExitCode

\* runs.py, the panel: while no cycle is open, it has something to act upon exactly
\* when the last run's exit code was not zero; and the loss of a drop that had fed the
\* store is in that exit code, unless the cycle could not read the store.
THEOREM PanelAgreesWithExitCode == HarvestSpec => []RedIsExplained
<1>1. ASSUME HInv, EInv
      PROVE  runs # <<>> /\ PanelState = "idle" /\ Override = Undated =>
               (runs[Latest].status = "ok" <=> Attention = Waiting)
  <2> SUFFICES ASSUME runs # <<>>, PanelState = "idle", Override = Undated
               PROVE  runs[Latest].status = "ok" <=> Attention = Waiting
    OBVIOUS
  <2> DEFINE row == runs[Latest]
  <2>1. ~IsOpen(Latest)
    BY DEF PanelState
  <2>2. Latest \in 1..Len(runs)
    <3>1. Len(runs) \in Nat /\ Len(runs) # 0
      BY <1>1, Lengths, EmptySeq DEF HInv, Tables
    <3>2. Len(byStart) \in Nat /\ Len(byStart) # 0
      BY <1>1, <3>1 DEF EInv, Stamps
    <3>3. QED BY <1>1, <3>2 DEF EInv, Stamps, Latest
  <2>3. /\ DOMAIN row.sources \subseteq Origin
        /\ row.status = "ok" <=> /\ ~row.error
                                 /\ \A s \in DOMAIN row.sources :
                                      Bad(row.sources[s]) => row.sources[s].notSupplied
    BY <1>1, <2>1, <2>2 DEF EInv, Explained, IsOpen
  <2>4. ShownRows = row.sources
    BY <2>1 DEF ShownRows
  <2> DEFINE shown == row.sources
             waiting == {s \in DOMAIN shown : shown[s].notSupplied}
             lines == {s \in DOMAIN shown : shown[s].notSupplied \/ ~shown[s].ok \/ shown[s].stale}
  <2>5. Waiting = waiting
    BY <2>4 DEF Waiting
  <2>6. Attention = (IF row.error THEN {"error"} ELSE {}) \cup lines
    BY <2>4 DEF Attention
  <2>7. "error" \notin waiting
    BY <2>3, OriginAssumption
  <2>8. lines = waiting <=> \A s \in DOMAIN shown : Bad(shown[s]) => shown[s].notSupplied
    BY DEF Bad
  <2>9. Attention = waiting <=> ~row.error /\ lines = waiting
    <3> HIDE DEF row, shown
    <3>1. CASE row.error
      <4>1. "error" \in Attention
        BY <2>6, <3>1
      <4> HIDE DEF waiting, lines
      <4>2. QED BY <2>7, <3>1, <4>1
    <3>2. CASE ~row.error
      <4> HIDE DEF waiting, lines
      <4>1. QED BY <2>6, <3>2
    <3>3. QED BY <3>1, <3>2
  <2> HIDE DEF row
  <2>10. QED BY <2>3, <2>5, <2>8, <2>9 DEF row
<1>2. HInv /\ EInv /\ FInv => RedIsExplained
  BY <1>1, LossesShow DEF RedIsExplained
<1>3. HarvestSpec => []FInv
  BY RowsAreOwned, InitWellFiled, NextWellFiled, PTL DEF HarvestSpec
<1>4. QED BY <1>2, <1>3, ClosedRowsExplain, PTL

=============================================================================
