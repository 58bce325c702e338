# Verification of the investigation engine

TLA+ modules, TLC runs and TLAPS proofs for CipherChain, the blockchain
investigation platform in this repository. An investigation starts at one
address, follows value backward (who funded it) or forward (where it went) and
ends at addresses a sourced label names. Everything the product says rests on a
graph built over days by a loop that is cut short by budgets, resumed by hand,
killed with its server and fed by label data that changes underneath it. That
loop and that graph are the core modelled here, with the provider pool every one
of its reads goes through, and around them the parts that decide what the graph is
made of: how a history is read, how transfers are stored, what is concluded from
them, where labels come from and what is filed as evidence.

Paths below are relative to `backend/src/cipherchain/` unless they start with
`docs/` or name another directory of the repository.

## 1. Inventory

| Component | Source | State it keeps | Operations | Hard because | Must be true |
|---|---|---|---|---|---|
| Trace graph and frontier | `investigation/engine.py` (`_process_node` and what it calls), `storage/repositories.py`, `storage/tables.py`, `investigation/frontier.py` | `nodes` (also the checkpointed frontier), `edges`, `findings` | claim, attribute, close, cross a mixer, expand | labels change between discovery and claim; one address has a node per direction; rows are never overwritten; histories are cut | a guess never becomes a traced node; hop means distance; nothing filed twice; a coverage claim is true |
| Run loop, budgets, pursuit, resume | `investigation/engine.py` (`run`, `_run`, `_pursue`, `_finish_*`), `investigation/budgets.py`, `api/app.py` (start, resume, launch) | the `investigations` row; a `BudgetTracker` per task | start, begin, iterate, extend, finish, fail, check, claim | two resumes race; the process dies between commits; grants outlive runs | one run at a time; the account survives and is bounded; a closed account stays closed; every run ends |
| Answers, path evidence | `investigation/answers.py`, `graph/paths.py` | none | rank endpoints; search a path as a claim is filed | the search sees the edges of one moment; runs and late labels add findings | a path is on record and no guess carries it; answers only improve |
| Provider pool and cache | `providers/`, `storage/provider_cache.py` | breaker, token bucket and metrics per provider; a cache table | fetch with failover, retry, backoff | many calls share one breaker across awaits; late answers; probes that never return | one probe at a time; a failing provider leaves rotation and comes back; no busier than the bucket |
| Last-resort explorer tier | `providers/clients/explorer_fetch.py` | robots verdicts, a page cache, token scales, per process | enumerate pages, read transactions, convert | public pages whose markup changes; several pages per answer | an answer is the truth about the stretch asked for, or an error |
| Vendor clients, chain adapters, feeds | `providers/clients/`, `chains/` | none | read an address's feeds page by page; normalise a transaction into movements | a feed may be lost, a page cut, the vendor change between pages; every vantage shows another part | an address without a mark was read to the end; a transfer is stored once |
| Manual expansion | `investigation/manual_expand.py` | none | counterparties of one page | UTXO transactions have halves | agrees with the trace |
| Mixer exits | `analysis/mixers/exits.py` | none | facts, five rungs, candidates | folding per party, windows, two directions | a link holds both ways; an edge is drawn with the transfer that was judged |
| Behavioural heuristics, clustering | `analysis/heuristics/`, `analysis/clustering/` | none | detectors, sweeps, service test, co-spend clusters | greedy pairing, ties, insertion order | conclusions do not depend on the order of reading |
| Label lifecycle | `intel/service.py`, `intel/policy.py`, `LabelRepository`; leads and tags write through it | `labels`, `label_events` | ingest, resettle, reconcile | read-then-write over concurrent transactions | an active untrusted claim is corroborated; the log explains every status |
| Attributor refresh | `intel/attributor_source.py` | index, watermark, time of last check | build, check, reload | watermark against commit order; failed reloads | a stale index has a reason to be reloaded |
| Harvest runs | `harvest/runs.py`, `harvest/worker.py`, `harvest/scheduler.py` | `harvest_runs` | press, spawn, open or adopt, close; the panel | check-then-insert, timer against button, slow against dead, kills | every cycle at work has a record; panel and exit code agree |
| Harvest sources and parsers | `harvest/sources.py`, `harvest/parsers.py`, `harvest/exchanges.py`, `harvest/sanctions.py` | the drop directory | fetch or take a drop; parse | partial documents, changed formats, dates | a source contributes its claims or says why not |
| Bridges, reporting, keys, scripts, UI, proxy | `chains/bridges.py`, `reporting/`, `api/auth.py`, `backend/scripts/`, `client/`, `server/` | little | conversion and I/O | — | — |

How they interact. The API commits a row and a root node, then launches a task
in its own event loop. The task's loop opens one database transaction per
iteration: it claims the first frontier node, asks the attributor, calls the
provider pool through a chain adapter, writes facts, nodes, edges and findings,
stores its spend and commits. Harvest is a separate process that writes labels;
the attributor notices by polling the event table. A resume is an HTTP request
that reads the row, compares budgets, claims the row by a guarded `UPDATE` and
launches another task. Nothing but the database survives the process.

`PROJECT.json` lists every component with its status and every hazard with the
line it bites at, those no property covers yet included.

## 2. Modules

| Module | Role |
|---|---|
| `TraceGraph` | the graph of one investigation; one action per thing a claimed node can meet |
| `CaseFile` | EXTENDS `TraceGraph`: the routes filed with an exchange claim, and the answers |
| `MCTraceGraph` | ledgers and label indexes of both for TLC |
| `TraceGraphProofs` | inductive invariant and theorems of the graph; what is filed, what ends a branch, what the coverage statement says |
| `CaseFileProofs` | EXTENDS `CaseFile` and it: the path search and the answers |
| `Investigation` | EXTENDS `TraceGraph`: start, loop, budgets, pursuit, resume, failure, crash |
| `MCInvestigation` | its ledgers and budgets for TLC |
| `InvestigationProofs` | EXTENDS both: refinement and theorems of a whole investigation |
| `ProviderPool` | concurrent fetches over cache, breakers, retries and failover |
| `ProviderPoolProofs` | inductive invariant and theorems of the pool |
| `FloorTier` | what the last-resort tier promises: the rows of a stretch, or a failure |
| `ExplorerFetch` | EXTENDS `FloorTier`, and implements it out of public pages |
| `AddressHistory` | one address read feed by feed and page by page; EXTENDS `FloorTier`, whose promise is one of its providers |
| `ReadingProofs` | EXTENDS both: `ExplorerFetch` implements `FloorTier` for every site; an address without a mark was read |
| `Movements` | transactions acquired from many vantages into one table; the trace's and the explorer's reading of it |
| `MixerExits` | the facts around a mixer and the exit ladder |
| `Behaviour`, `Cospend` | the detectors over a growing log; the co-spend forest |
| `LabelStore` | label transactions at read committed, and the attributor that follows them |
| `HarvestSources` | loading and parsing, operators only |
| `HarvestCycle` | EXTENDS `HarvestSources`: cycles, their record and the panel |
| `HarvestCycleProofs`, `LabelStoreProofs` | inductive invariants and theorems of the record keepers |
| `ConclusionsProofs` | theorems of `Movements`, `MixerExits`, `Cospend` and `Behaviour`: what is concluded from what is stored |
| `MCReads` | small instances of these modules but the label store, one at work at a time, for TLC |
| `MCServices` | small instances of the pool and the label store, one at work at a time, for TLC |

`TraceGraph` is the abstract specification of what the loop may do to the graph;
`Investigation` is the detailed one and implements it (`GraphIsTraced`, checked
and proved). The refinement mapping is the identity on the five variables they
share: each turn of the loop is a `ProcessNode` step under the horizon the
operator asked for, each budget, resume, failure and crash step leaves the graph
alone. `ExplorerFetch` implements `FloorTier` (`AnswersAreTrue`, checked and proved): the mapping keeps the
request and the answer and hides pages, caches and robots. `AddressHistory` is written
against the abstract tier alone. `CaseFile` adds one variable to `TraceGraph` and takes
each of its steps.

### TraceGraph

| Model | Code |
|---|---|
| `ledger` | the chain. Never written; what a provider serves of it may be cut (`Busy`) |
| `labels` | `RefreshingAttributor`'s index: a set of categories per address |
| `nodes[<<address, direction>>]` | `NodeRow`, unique per investigation, address and direction; the root's direction is NULL |
| `edges` | `EdgeRow`, movement and mixer-exit edges alike |
| `findings[<<kind, node>>]` | how many `FindingRow`s of a kind one node filed; there is no uniqueness constraint, so it is a count |
| `AdmitRoot` | `start`: the root node joins the frontier |
| `Claimable`, `Precedes` | `claim_frontier`: traced before guessed, then nearest |
| `CloseAtVasp` | a labelled exchange ends the branch (never the root) |
| `CloseAtHorizon` | `hop_distance >= max_depth` |
| `CrossMixer` | `_cross_mixer` and `_enqueue_mixer_candidates`: the branch ends, up to `MaxFollow` guesses start |
| `Expand` | the rest of `_process_node`: detectors, service inference, supernode guard, cycle guard, discovery |
| `RefreshLabels` | a harvest lands or retires a claim and the index follows |

One claimed node is one step because `_run` gives each iteration one transaction
and one run works an investigation at a time (which `Investigation` proves).

Abstractions, and why they lose nothing a property looks at:

- Amounts are gone. `value_share` ranks siblings within a hop, and the ranking is
  any order here: a supernode follows any `SupernodeFollow` of its counterparties,
  equals among the claimable are claimed in any order.
- An address has at most one claim per category. Entities and confidences only
  choose wording.
- A refresh inside an iteration (two lookups of one node's step seeing different
  indexes) is a refresh before it, save for one address discovered in both
  directions by one root expansion, which may then be attributed on one side only.
- The exit ladder may propose any counterparties of the pool or none. Which rung
  proposes whom is `MixerExits`.
- Bridge findings are left out: they file text and change nothing else. Path
  evidence is `CaseFile`.
- A root labelled as an exchange files a finding without a direction, which
  answers no objective; the model keeps it on the root's undirected node.

### Investigation

| Model | Code |
|---|---|
| `status`, `budgets`, `spent`, `reports` | the `investigations` row and its per-objective terminal findings |
| `runs[r]` | a task and its `BudgetTracker`: phase, what was asked, what is granted, what is spent |
| `requests` | resumes between `_check_budgets_leave_room` and `claim_for_resume` |
| `crashes` | a bound on how often the process dies |
| `Start`, `BeginRun` | `start_investigation`; the head of `_run` with `seed_nodes` and `seed_spent` |
| `Work` | one iteration: claim, process, `update_spent`, commit |
| `ExtendBudget` | `_pursue` and its own commit before anything is spent |
| `FinishPartial`, `FinishCompleted` | `_finish_partial`, `_finish_completed` |
| `FailRun` | `run`'s `except`: the iteration rolls back, the row says failed |
| `CheckResume`, `ClaimResume` | the two halves of the resume route |
| `Crash`, `Unstrand` | the process dies; the operator resets a stranded `running` row as README.md tells them to |

The wall clock is one bit, `late`, that may rise at any time and that an
extension of the seconds budget lowers. `txs_normalized` limits nothing and is
left out, as is the status `paused`, which no code sets. The partial terminal
without a direction is left out: it says why the run stopped, not what an
objective lacks. The node budget is checked between iterations, so an ordinary
expansion may overshoot it; only a crossing stops in the middle.

### ProviderPool

Stands alone: the investigation sees of a pool that a read is served, cut or
fails, which `TraceGraph` (`Busy`) and `Investigation` (`FailRun`) let happen.

| Model | Code |
|---|---|
| `circuit[p]` | a `CircuitBreaker`; `elapsed` says whether `reset_timeout` ran out since `_opened_at` |
| `cached` | requests with an entry the cache policy still serves |
| `phase`, `request`, `at`, `attempt`, `result` | the local state of one `fetch` and the `await` it is suspended at |
| `streak` | history: failures of a provider in a row, whoever's fetch met them |
| `Allows`, `Admitted` | the answer and the effect of `allow` |
| `Succeeded`, `Failed`, `Tripped` | `record_success`, `record_failure`, `_trip` |
| `MoveOn` | the `for` over the candidates, from one provider to the next that allows a call |
| `Ask`, `ServeCached`, `Route` | `fetch` up to its first provider |
| `Acquire` | the bucket hands over a token and `execute` starts |
| `NotFound`, `Answer`, `RateLimited`, `Unavailable`, `Invalid` | the five ways `execute` ends |
| `Retry`, `Store` | the end of a backoff; `_cache_store` |
| `Abandon` | a cancellation, or an exception `fetch` does not catch |
| `Elapse`, `Expire` | time passes for a breaker, for a cache entry |

The pool runs on one event loop, so what lies between two `await`s is one action:
counting a failure, asking the next breakers and taking a probe slot happen at
once. Providers are numbered by priority, ties broken by registration as the
stable sort does. The bucket is a wait of unknown length, and backoffs have no
length. A provider in `Healthy` always answers; the others may do anything.

### CaseFile

| Model | Code |
|---|---|
| `routes[n]` | the evidence references of the exchange finding filed at `n`, as positions instead of hashes |
| `ShortestTo`, `Carries`, `Joined` | `path_tx_hashes`: breadth first, edges either way, a guess never passed |
| `Findable` | the edges the search may see: those of before, the one into the node, and any of the same step that come first |
| `Answer`, `Closest`, `BestLead` | `select_answers` over `vasp_findings_with_hops` |

The search returns any shortest route, since rows come in no order. Routes are shorter
than the ten references a finding keeps. Sanctioned endpoints beside the three slots are
left out, and confidences, which only pick within a slot.

### FloorTier and ExplorerFetch

| Model | Code |
|---|---|
| `Promise` | what `execute` may answer: rows of `site_pages_per_call` pages, and a mark when it is cut |
| `call` | the locals of one `execute` and the `await` it is at |
| `robots`, `pages`, `scale` | `RobotsPolicy`'s verdict, the LRU of transaction pages, `_decimals` |
| `Faithful`, `Changed` (and of transactions) | what the parsers make of a page, as it is today and after its markup moved |
| `ReadAddressPage`, `FetchTransaction`, `ReuseTransaction`, `FetchScale`, `EmitRows` | `_enumerate`, `_rows_for`, `_token_decimals`, the emitters |
| `Legible`, `ProvesNone`, `Consistent` | what proves emptiness, absence, and that a section can be converted |

A failed or refused request and an unreadable page both end the call. A refusal kept from
a transport error while robots.txt was read holds for the life of the process, as in the code.

### AddressHistory

| Model | Code |
|---|---|
| `reading` | one `address_history` call and its follow-ups: feeds read so far, marks, what was seen, whether the node is marked |
| `Outcome` | how each client reads transport, status and envelope |
| `ReadFeed`, `Assemble` | the adapters: a lost optional feed is a gap; the next cursor; what is kept |
| `Follow`, `StopMarked` | an API caller asks for the next page; the engine marks the node |

A provider that answers partly and says so (Blockscout's status 2) is flagged in the model
by `partial`: the EVM payload has no place for it. Assumed: one page size for all vendors of
an adapter. With mixed sizes a failover between pages skips or repeats rows, which no part of
the code guards.

### Movements

| Model | Code |
|---|---|
| `stored` | `movements`, unique per transaction and `dedup_key` |
| `acquired` | history: every row some acquisition normalised |
| `Views` | the vantage points: an account history with the feeds that answered, a whole transaction, scripts decoded or not |
| `Normalises`, `DedupKey`, `Ends` | the four adapters' `normalize` |
| `Batches` | what one acquisition of a transaction may show: the normalised rows of each view of it |
| `Stores` | `store_movements`, the first row stands |
| `Traced...`, `Explored...` | `derive_counterparties` and `one_hop_counterparties`, `one_hop_transfers` |

`OneRowPerTransfer` names its exceptions. `Indistinct`: token transfers of one transaction, pair
and contract share a key (on Tron, where the amount is part of it, those of one amount), as do
internal calls of one amount when the vendor names no trace. All but one of them are lost. `Renamed`:
an internal call read from a vendor that names its trace and from one that does not has two keys and
is stored twice, which `InternalStoredOnce` shows (section 4).

### MixerExits, Behaviour, Cospend

`MixerExits` grows the set of stored transfers one at a time and evaluates `_mixer_facts` and the
ladder over every state, for every anchor and both directions. `ReadLimit` is `_MOVEMENT_QUERY_LIMIT`:
it bounds each side of the mixer, and each side of the anchor's own party, among whose newest transfers
alone direct payments are looked for (`ReadAround`, `Linked`). A transfer has both ends: halves without a
counterparty make no event and no payment. Transfers are rows of one table (`TransfersAssumption`), so their place in a transaction
tells them apart. `Behaviour` grows a log, whose order is the order of the row ids, and evaluates every
detector over the evidence-grade window of one address. Percentages are the code's; minima are
scaled down. `Cospend` takes transactions in any order; `parent` is the forest. Path compression
in `find` writes a parent to itself in this code and is left out. Which input comes first is any
choice (`first`): the properties do not depend on it.

### LabelStore

| Model | Code |
|---|---|
| `rows`, `events` | `labels` and `label_events` of one address, committed |
| `txn[t]` | what a session has read, set and logged and not yet committed |
| `ReadClaim`, `WriteClaim` | `ingest` with `upsert_claim` and `_resettle` |
| `ReadActive`, `Demote`, `Promote` | `reconcile`, with the session's identity map: a row read keeps its content, which is the stalest it may act on; where the code reads a row again it acts on a newer one |
| `LosesTheKey`, `Fails` | the unique key; cancellation, a kill, a lost connection |
| `BuildRows`, `BuildMark` | `build_store_attributor` |
| `Check`, `Reload`, `ReloadFails` | `_maybe_refresh` |

Writes wait for row locks, reads do not. An `UPDATE` writes the columns that differ from what the
session read, so a stale session keeps what another one committed in the other columns, as the ORM
does. `retire` has no caller in the program and is left out.

### HarvestSources and HarvestCycle

| Model | Code |
|---|---|
| `Load`, `Fetch`, `LoadDrop` | `FirstAvailableSource`, `HttpDocumentSource`, `ManualDropSource` |
| `ParsePack`, `ParseProofOfReserves`, `ParseCoinbaseReserves`, `ParseSdn` | the four parsers: what is rejected, what is filed, under which date |
| `runs`, `byStart` | `harvest_runs` and its order by `started_at` |
| `cycle[c]` | a process, from the press or the timer to its end; its `fed` is history: the sources with labels when it asked which ever had any, whatever it was told |
| `Press`, `Spawn`, `Cron`, `OpenRun` | `start_cycle`, `scheduler`, `open_run` |
| `ReadContributed`, `HarvestSource`, `FinishCycle` | `HarvestWorker.run` |
| `Interrupt`, `Kill` | an exception that leaves `run`; the process dying |
| `PanelState`, `ShownRows`, `Attention` | `sync_status` |

## 3. Runs

| Run | Question | Bounds | Outcome |
|---|---|---|---|
| `graph` | Do the graph's invariants, the evidence and the answers hold whatever the ledger and whenever labels land? | seven addresses (subject, four plain, a pool, an exchange), every choice of up to eight of ten payments around the pool and every subset of eight in layers upstream, both objectives, horizons 2 and 3 mixed freely, `b` with a cut history and custodial behaviour, a supernode threshold of 2, one volatile exchange label | passes |
| `life` | Do the account, the lock and the endings hold under resumes, failure, a crash and pursuit? | two operators, one crash, three budgets (tight with pursuit, larger with pursuit, no pursuit), four ledgers, one volatile label | passes |
| `sanctions` | Is every sanctioned address that was settled on record as such? | one ledger | violated |
| `screening` | Was every expanded address screened by the detectors? | one ledger, both objectives | violated |
| `headline` | Does "no endpoint reached without crossing a mixer" mean that? | one ledger, one run | violated |
| `room` | Is a resume only launched with budget to spend? | one ledger, two operators | violated |
| `services` | Do breakers and failover keep their promises when fetches overlap? Do racing label transactions leave a log that explains the labels, an index that knows it is stale, and a store that settles? | two machines, one of them at work in a behaviour. Two fetches at a time, a flaky provider over a healthy floor, one request of each cache policy (the floor lacks one), two attempts, threshold 3. Two sources, four offers, two ingests and the reconcile at once, three claims, one failure, an attributor that starts at any time | passes |
| `reads` | Do the parts around the trace keep their promises? | seven machines in one instance, one of them at work in a behaviour (`part`): see below | passes |
| `unsaid` | Is an address read through the explorer tier alone marked when it was cut? | as `reads`, a limit of four rows, two site pages of two rows | violated |
| `resweep` | Do the same transfers give the same conclusions in whatever order they were stored? | as `reads`, two forwards of one instant | violated |
| `twice` | Is an internal transfer stored once whichever vendor served it? | as `reads` | violated |
| `lost` | Does a lost drop fail the cycle, also where the store cannot be read? | as `reads` | violated |

Why the bounds suffice. The ledgers of `graph` contain every shape the
invariants are about: a pool upstream and downstream of the subject, two ways to
the same address of different length, one of them through the pool, a cycle to
the subject, an address on both sides of it, an exchange behind either. Both
horizons occur in one behaviour, as they do over a resume. Threshold 2 makes three
counterparties a supernode and two not; `a`, the volatile exchange, is next to the
subject, so that it may be named after its discovery. A wrong claim order shows only
when a chain of three is worked before a second payer of the subject, which is what the
eight payments in layers are for. In `life` the tight budget runs out on
calls after one iteration and on nodes after three, so pursuit, its ceiling, a
partial end, a resume with the other budgets and a race of the two operators all
happen within a trace of four nodes.

Threshold 3 with two attempts means that no single fetch opens a circuit: it takes
two, overlapping or in sequence, which is where a shared count can go wrong. `streak`
stops counting at the threshold. A request only the flaky provider serves makes
`AllProvidersFailed` possible, and its cache policy makes every fetch reach it.

The seven machines of `reads` share no state, and a behaviour fixes one of them at its
start; their states add up and never multiply. What each instance contains:

- *tier*: a chain whose caller pages by number and one whose caller cannot; two site pages
  of two rows per call; a transaction on two rows of a page and one on two pages; one changed
  page per behaviour, at any place; a cache of two pages.
- *history*: all four adapters, every vendor of each and the explorer tier on Tron, feeds longer and
  shorter than a page of two, an unconfirmed and a void transaction on the first page.
- *movements*: a swap with an internal call reverted and one repeated, a failed call, a Tron batch with a
  token sent twice, a UTXO spend with change and an input nobody could decode, a Solana split; every
  order of every vantage.
- *exits*: eleven transfers with a shared gas price, two assets in one transaction, one transaction that pays
  two parties, an instant shared by both sides, a payment around the pool; all 2048 subsets; a read limit
  that cuts the pool's sides, and the payment from the read of the party it went to.
- *behaviour*: seven transfers in every order, one forged asset, one of no value.
- *clusters*: eight transactions in every order, one of them a coinjoin by shape, one with a
  mixer's input, one with a single input, labels of two entities.
- *harvest*: two cycles, a fetched and a dropped source, good and rejected files, one arrival of
  a file and any loss of it, one tick, one kill or interrupt: two presses that both pass the
  in-flight check, a row taken for dead, cron beside the button.

In the label store of `services` two ingests and the reconcile are what every wrong order of two writers and a reader
takes, and a third claim lets a source change its mind after it was promoted or cited.

Each property is paired with a mutant, a version of one definition with a
plausible mistake, kept beside the definition it would replace
(`PrecedesByHop` next to `Precedes`). Replacing the definition makes the property
fail, which shows that it looks at that code.

Fairness. `FairSpec` assumes weak fairness of each runner's own steps: asyncio
keeps scheduling a task that can run, and provider calls have timeouts. Nothing is
assumed of operators, failures, the clock, label refreshes or crashes. Pursuit
could defeat termination: every exhausted budget may be bought again. That it does
not is due to the recorded extensions, and `EveryRunStops` fails when a grant goes
uncounted.

In `ProviderPool`, weak fairness of each caller says that a suspended fetch is resumed:
backoffs are finite, HTTP clients time out, the bucket refills. It also assumes that
a fetch is not starved at its bucket for ever, which the code leaves to the event loop.
Weak fairness of `Elapse` is time passing. No answer is assumed to be a good one.

In `LabelStore`, weak fairness of each ingest says that a transaction under way ends, and that
of the reconcile that the daily cycle runs. Nothing is assumed of arrivals, failures (bounded) or
the attributor. `Settles` needs it twice: one reconcile may decide on rows that an ingest has
since changed, and only the next puts it right.

Deadlock is checked in `services` and in the runs of `MCReads`, where a caller may always ask again,
a clustering is done and a harvest rests. It is not in the others: a completed investigation has
nothing left to do.

## 4. What the code does otherwise than it says

1. *Sanctions lost at discovery* (`sanctions`). `_attribute_on_discovery` leaves
   sanctions to the claim, and closes what it can name so that it is never
   claimed. An address on both lists gets its endpoint finding and no sanctions
   finding, where the ruling (`docs/research/ENGINE_DESIGN.md`, R2) is to record it.
2. *Detectors suppressed* (`screening`). `has_processed_sibling` counts a sibling
   closed at the horizon as processed. It ran no detector, and the sibling that is
   expanded then runs none either.
3. *Stale headline* (`headline`). A position keeps the row and the finding of its
   first discovery. An exchange first found past a pool and later reached by value
   from a traced node is still reported as reached only across a mixer.
4. *A resume without room* (`room`). The check on what is left and the claim are
   separate, and the claim looks at the status only. Two operators and one short
   run suffice to launch a resume that exhausts on its first check.
5. *A cut history that is not said* (`unsaid`). The EVM adapter infers that there is more from a
   feed as long as its limit. The explorer tier stops at a bound in site pages and leaves the rest
   to a caller that pages by number; where a transaction filled two rows the answer is shorter than
   the limit, nobody asks for the next page and the node is counted as read in full.
6. *Sweeps depend on insertion order* (`resweep`). The repository breaks ties on chain data so that a
   re-run finds the same; `find_sweep_matches` then breaks them on the row id.
7. *One internal transfer, two rows* (`twice`). The comment of `_internal` in `explorer_fetch.py` holds that
   a row without a trace id merges with the vendor's row of the same transfer; `normalize` of the EVM
   adapter builds the key out of the trace id where there is one and out of ends and amount where there
   is none, so the two never meet and the value is counted twice.
8. *A lost drop taken for setup* (`lost`). Where the worker cannot read which sources ever contributed, its
   comment wants every unsupplied source graded as a plain failure. It goes on with the empty set, so every one
   is graded as awaiting its first file, a source that worked yesterday included, and the exit code leaves those out.
   `RedIsExplained` shows that this is the only way: a cycle that could read the store fails when a drop is
   lost, whatever other cycles do.

Two comments claim more than the code does where no run of its own shows it. `intel/attributor_source.py` (68-70)
and `storage/repositories.py` (1605-1611) hold that one `max()` over the append-only, monotonic event ids says
whether anything changed. An event committed between the attributor's two reads at start, or with a lower id than
one already seen, is noticed only with the next event. `StalenessIsSignalled` excepts these two cases by name
(`passed`) and shows that there is no third.

Behaviour worth knowing that contradicts nothing written down, and is part of the models:

- A call let through while a circuit was closed still goes out after another fetch opened it; the
  failure it may record there ends its attempts (`providers/pool.py`, between `allow` and `execute`).
- A promotion decided on a stale row is undone by the next reconcile, not before (`Settles`).
- Two presses of the harvest button may both pass the in-flight check, cron never asks, and a slow
  cycle is taken for dead. Cycles then overlap, each on its own row (`CyclesAreOnRecord`).
- An operator's own staleness window may grade a run `stale` with no line on the panel to explain it.
- The path search walks edges both ways: the route filed to an exchange may lead over a payment of
  the subject's own (`Joined`).
- The gas-price rung judges uniqueness over the newest rows of each side only. Where one transaction pays
  two parties, it links a deposit to neither, while from either of them it leads to the deposit
  (`Alone` in `SameLinkBothWays`).
- A direct payment is looked for among the newest transfers of the party one starts from. To a party with
  more recent transfers than are read, it is found from the quiet end and not from the busy one
  (`ReadInFull` in `SameLinkBothWays`).

## 5. Proofs

Assumptions: those the modules name, all of them the shape of the constants: finite sets of addresses,
labels and rows, bounds that are numbers, a ledger whose transactions place a transfer once, listings
that are sequences of transactions whose transfers are listed, sources that are not called like the error row.
`AddressHistory` names four facts of the adapters besides: their chains are the four, a Bitcoin history lists a
transaction once, the explorer tier covers Ethereum and Tron, only Ethereum's adapter asks for pages by number.
Addresses, ledgers, labels, thresholds, budgets, operators, transactions, processes and crashes are otherwise arbitrary.

**The graph.** `IInv` is `TypeOK`, the properties `Provenance`, `CleanFirst` and
`NearestFirst`, and three strengthenings. `RootFirst`: nothing exists before the
root, which is a traced node at hop 0. `Tidy`: absent rows are blank, frontier
rows have no reason, edges leave only nodes that were claimed. `HopBand`: no traced
node lies more than one hop beyond a traced frontier node. `HopBand` is why
`NearestFirst` holds and what the claim order is for: the node claimed is the
nearest on the frontier, so what it newly reaches is at the far edge of the band
and what it reaches again is no further than one hop beyond it. `NearestFirst` alone
is not inductive, since an edge into a deep traced node would break it.
`StepShape` reduces the four branches of `ProcessNode` to one formula, `Claim`, that
keeps only what the invariants read; every conjunct is then preserved by `Claim`.
From it: `TypeCorrect`, `GuessesStayGuesses`, `CleanWorkFirst`, `FirstHopIsDistance`
and, as an action property, `AccountStands`.

**The investigation.** `StepIsTraced` maps every step to a `TraceGraph` step or a
stutter, so `LoopTraces` proves the refinement and carries the graph's theorems
over (`GuessesStayGuessesInRuns`). `LoopInv` adds `OneRun` (the status is the lock:
it admits a run only when none is active), `TrackerMirrorsRecord` (tracker and row
move in the same commit; the node count needs that a claim only adds rows),
`GrantsCounted` (what a run may spend is the operator's number times one plus the
extensions counted) and `FiledOnRecord`. `GrantsCounted` needs `TrackerMirrorsRecord`
because a grant is of the size the row's budgets name; `SpendWithinGrants` needs
both. From it: `OneRunAtATime`, `TrackerIsRecord`, `PursuitIsCapped`,
`CompletionAnswers`, `SpendIsGranted`, `SpendStands`, `ClosedStaysClosed`.

**The pool.** `StepMoves` shows that every step, whoever takes it, moves each breaker by
one of five operations or not at all; `StepFetches` that it changes at most one fetch,
in one of five ways. `BreakerInv` follows from the first alone: a closed circuit has
counted exactly the failures in a row, a half-open one always has its probe out, a
healthy provider's stays closed. `FetchInv` follows from the second with `HealthyClosed`:
`Passed`, no running fetch stands beyond a healthy candidate, is what makes the failover
property inductive, and `Intent` carries what was decided before an `await` across it.
From them: `PoolTypeCorrect`, `FailingOut`, `TripsEarned`, `ProbesSpaced`, `HealthyReached`,
for any providers, callers, policies, attempts and thresholds.

**The record of a trace.** `Accounted` adds to the graph's invariant what is filed when: a row still to
be claimed bears at most what its discovery filed, patterns are filed by expansions, a row that ended a
branch has a reason, an expansion nothing cut short reached everybody. `FilingShape` says what a claim
files and how it ends. From it `NothingFiledTwice`, `ExchangesEndBranches` and
`CoverageIsHonest`.

**Evidence and answers.** A filed route is what a breadth-first search made of the edges of one moment.
Its soundness and its completeness (a route exists whenever value connects the two) are inductions on
the rounds of the search (`FoundHolds`, `SearchFinds`), from them `EvidenceIsSound`: what is filed is on
record, carries the value without a guess and is present wherever it must be. `AnswersGetNearer` needs that a node that left the
frontier stands and that a claim only adds findings.

**The last resort.** `FetchInv` relates a call to the stretch it was asked for. While it lists
(`ListedSoFar`), what it collected is what the first pages of the stretch hold, each transaction once;
once it reads transactions (`RowsSoFar`), what it collected is the whole stretch, split into what is done
and what is to do, and its rows are those of what is done. `PageInHand` and `PagesType` say that a page in
hand or kept is one its transaction can have, which is why a page kept by an earlier call that failed on
it is harmless. The lemmas are about the ways a page is read (`LegiblePanes`: a pane that is legible lists
the rows of the page, whatever became of the markup; `RowsAreTrue`: the same of a transaction), about
stretches (`CutAdjacent`, `ReadOn`: a page shorter than a full one was the last) and about lists built row
by row (`ExtendedTwice`, `GatheredUnfolds`). Every step is then one of `FloorTier` or none
(`StepServes`), and `TheTierKeepsItsPromise` is the refinement.

**Reading an address.** `HistoryInv` says that, while nothing is marked, what lies behind the cursor has been
seen (`AllBehind`, of `Covered` and `Behind`: the rows above a feed's mark, or all of them where the mark is back
at nothing), that Ethereum's feeds stand at one page (`InStep`), and that the answers in hand were given for the
cursor's marks (`Taken`). One lemma per
adapter shows that a page and the mark that goes with it leave no gap. On Ethereum and Solana a page of fewer rows
than were asked for was the last (`EthereumPage`, `RowsPage`, `SolanaPage`); on Tron a fingerprint is missing only
where nothing follows (`TronPage`). On Bitcoin a page that keeps more than the limit is cut, and the
mark is the last transaction kept, which has one place among the confirmed ones since the list is injective; what
comes before it on the page is a prefix of what was kept (`WithoutPrefix`, `CutPage`, `BitcoinPage`). Steps are put together by `AssembleReads` and
`HistoryStepReads`. One thing is asked of the pool, and of Ethereum alone (`OneUnit`):
that its history is not answered by the explorer tier, whose pages are not the rows the adapter counts. Nothing is
asked of the other chains (`HistoriesAreReadWhereCounted`), and of a pool in one unit throughout
`UnmarkedHistoriesAreRead` is the property itself. The code guarantees no such thing of Ethereum: without it the
property is false, which is what the run `unsaid` shows, and the run `reads` has the explorer tier serve Tron only.

**Harvest.** `HInv`: a process at work names an open row of the table (`OnTable`), and no two processes name
one row (`Owned`); `OnRecord` follows. `EInv` adds that the status of a closed row is what its source rows
and its error make of it (`ClosedRowsExplain`), from which `PanelAgreesWithExitCode`: the panel and the
exit code read that status alike. Its second half rests on `FInv`: a cycle reports nothing before it asked
which sources ever contributed, and files none of those as never supplied (`LossesShow`).

**Labels.** An ingest decides the status of a claim and the event that tells of it together, under the
row's lock and with the event's id taken under it, and a reconcile that decided on a stale row writes
only what differs from what it read. `LInv` says so state by state: no row is held by two transactions
(`Locks`), no event id is taken twice (`Fresh`), a held row will be what its holder's last event tells and
that event comes after every committed one of the row (`HeldRows`), a committed row is what its own last
event tells (`RowsTold`), and an index that differs has an event above its watermark (`IndexTold`). From
it `LogExplainsLabels` and `StaleIndexIsNoticed`.

**Conclusions.** `ConclusionsProofs` holds four arguments that share nothing but their subject.

- The store. `MovementsInv`: every stored row was acquired, every acquired row has one in the store that
  clashes with it, no two stored rows clash. `SameName` and `OtherwiseNamed` say when two rows of one
  transfer have one key, whatever the vantages, which is all of the chains' normalisation that
  `StoredOnce` needs; `SameCounterparties` needs that rows that clash have the same ends (`ClashingRows`).
- The ladder. `LadderAnswers`: the answer is the first rung that fired, whole, or the crowd.
  `OneStands`: one row stands for a party in a transaction, so the event determines the transfer
  (`CrossingsAreDrawnAsProposed`). `PaymentSeenBack`: a payment read from one end is read from the other, if
  that party's transfers were read in full. `RungsMirror`: what an address, such a payment or a gas price of one
  party singles out from one end it singles out from the other (`LinksAreFoundFromBothEnds`).
- The forest. `Forest` says that parents lead somewhere (every set they do not lead out of holds a root), so
  that `find` has one answer (`FindReachesTheRoot`); a union keeps that (`UnionKeepsTheForest`). `Tied` and
  `Sealed` are the two halves of the theorem: inputs of a joined transaction share a root, and no set
  that the joined transactions respect separates addresses of one root (`UnionTies`).
- The relay. `Greedy` says of a pairing that whoever took a transfer found the earlier ones of its window
  taken (`Prompt`) and whoever took none found its whole window taken, by receipts no later than itself
  (`Starved`); the detector's turns keep it (`TakesGreedily`, `RelaysGreedily`). From it, the receipts from
  which on everything is used, up to one that took none (`Full`), reach exactly what they took, so
  their number bounds any pairing and the detector meets the bound (`RelayCyclesAreMaximal`). Ties within an
  instant do not matter to it, which is as well, since two rows of one transaction may share their place.

Inductions over data (rounds of a search, members of a finite set) are proved in set form, from the
library's theorems about finite sets and well-founded orders: the set of counterexamples would have a
least member. The library's own induction rules take an operator and cannot be used here.

**Only model-checked.** `Settles`, `EveryRunStops`, `NoWedge`, `EveryFetchEnds`: liveness under fairness and
ENABLED are outside this prover's reach. Every invariant and action property of a passing run is a theorem.

## 6. Plan

1. What the refinement of `TraceGraph` by `Investigation` does not carry: the routes and answers of `CaseFile` over
   a whole run.
2. `HarvestSources`: what a source's file is made of, beyond what `CyclesAreOnRecord` and `RedIsExplained` need.

## 7. Not modelled

- *Keys* (`api/auth.py`): issue and revocation are writes of one row without a second step.
- *Token bucket*: a wait of unknown length in `ProviderPool`. Refill is real-valued arithmetic on a
  clock; `EveryFetchEnds` assumes the wait ends, which the code leaves to the event loop.
- *Versions of a cached answer*: two fetches may store theirs in either order and nothing says which
  must win.
- *Prices, VASP metadata, bridges*: lookups in tables or at a vendor that keep nothing the other
  parts read.
- *Reporting* (`reporting/`): collects rows and lays them out.
- *The read routes* of `api/app.py`, configuration, migrations, scripts, the explorer proxy
  (`server/`) and the client: conversion, wiring and I/O.
- In the modelled parts: amounts beyond comparison, HTML tokenising, log decoding, address formats,
  wording and confidences.
