# A verification project for drmd

`drmd` learns a vocabulary of recurring capability sequences from a stream of
episodes, plans each episode with it and executes it against the machine. The
repository holds the daemon (Rust, `src/crates/`) and the archived C++ programs it
came from (`src/historical/`), each with published results. This directory holds
TLA+ modules of both, translated from the sources, the TLC configurations that check
them on small instances (the archived programs also on the very workloads they were
published with), and theorems about them that TLAPS checks for every value of the
constants.

`PROJECT.json` lists the components, the runs, the mutants (one plausible bug for
every property, which the property must catch), the map from definitions to
source lines, the findings, the hazards and the theorems.

## 1. The system

| Part | State it keeps | Operations | Who calls it |
|---|---|---|---|
| Capabilities, episodes (`drm-core/capability.rs`, `episode.rs`) | none | `root_expansion`, `is_known_capability` | vocabulary, executor |
| Vocabulary (`vocabulary.rs`) | `derived`, `counter` | `expand_symbol`, `audit`, `depth`, `expansions`, `compress`, `compress_with` | the planners |
| Base planner (`planner.rs`) | `active`, `lru`, `history`, `history_version`, `subseq_users`, `version` | `plan`, `touch`, `note_subseqs`, `diff_middle`, `maybe_grow` | benchmark; the hybrid planner holds one as `base` |
| Hybrid planner (`hybrid.rs`) | the above, `pstats`, `provisional`, `struct_step`, counters, `pending_*` | `plan`, `consolidate_pending` | the daemon |
| Executor (`drm-exec/executor.rs`) | data buffer, counters, `state_runs`; files in the work directory | `start`, `execute` | the daemon |
| Fixture servers (`servers.rs`) | listener thread, stop flag | `get`, `roundtrip`, `Drop` | the executor |
| Daemon (`drmd/serve.rs`) | one mutex around planner, executor, `next_idx`, `episodes_planned` | accept, handler threads, maintenance thread | clients |
| Protocol, client, CLI, reports (`protocol.rs`, `client.rs`, `cli.rs`, `main.rs`, `fmt.rs`) | none | parse, format | daemon, shell |
| Baselines (`baseline.rs`) | the plans seen | `plan` | benchmark |
| Benchmark, workload, selftest | none | fixed runs | CLI |

The archived programs (`src/historical/`, not built or shipped,
`historical/README.md:3-5`), each one file beside a copy of the reference engine:

| Program | State it keeps | Operations |
|---|---|---|
| Reference engine (`drm_cpp_odc_peer_bundle`) | planner, executor counters, baselines | plan and execute 99 episodes |
| Learning path (`hybrid_fast.cpp`) | a planner that grows in cascades; one with a provisional tier, learning inside `plan` | the same episodes |
| Staged deployment (`staged_deploy.cpp`) | the tiered planner with a queue, accounts of six stages | plan, execute, consolidate 708 episodes; gates |
| Week, mature week (`week_workflow.cpp`, `mature_week.cpp`) | the same planner, accounts of seven days, the baselines | 81 episodes cold, 60 more warm |
| Bytecode (`bytecode.cpp`) | programs in two encodings, two block tables, five executors | compile, intern, decode, execute, audit |
| Runtime descent (`runtime_descent.cpp`) | parameters of a family, steps, baseline, probes | tune in paired runs or on production episodes; certify; validate |

**How they interact.** A connection carries one line. Its handler reads the line,
takes the mutex, takes the next episode number, and under the mutex answers a
status, refuses a malformed line, or plans the episode, executes it (child process,
sockets and files included) and counts it; it writes the response after releasing
the mutex. The maintenance thread sleeps, takes the same mutex and runs
`consolidate_pending`. `plan` queues vocabulary work; `consolidate_pending` does it.
The executor calls the fixture servers, whose threads live until `Drop`.

**What is hard about it.** Two containers (working set and recency order) updated by
hand; two copies of what is known of a task, read for different decisions; evidence
that is scored long after it was queued; three operations that edit one capped tier
in one consolidation, in an order that matters; a mutex that promises no order
between handlers and maintenance; a process that systemd may stop between two system
calls; episodes that fail half way; reads without timeouts. In the archived programs:
the same learning in three orders of work; words whose fields share a few bits and ids
that run out; a tuner that judges parameters by costs measured earlier, one coordinate
at a time, while its streak may break. The `hazards` list of
`PROJECT.json` names each at its line with the properties that watch it.

**What makes each part correct.**

- vocabulary: compression loses nothing, learning is exact, the tokenizer is optimal
  and monotone, every word reduces to capabilities and no expansion cycles;
- planner memory: order and working set agree, eviction is least recently used, the
  working set is a cache of the history, evidence is complete, recovery is one-shot,
  a repair replans the least middle;
- growth: a word is learned only if the corpus with the vocabulary becomes shorter by
  the threshold; deferring and localizing the scoring change nothing about that;
- provisional tier: capped, free of duplicates, apart from the permanent words,
  accounted for, fresh when nothing is queued;
- executor: commits are atomic across stops, success means a complete output of this
  episode, counters stay accountable, an episode ends;
- fixture servers: calls end, shutdown ends, no call fails while the thread lives;
- daemon: one thread in the critical section, statuses never half done, each
  submission planned once, reported metrics current, lines answered, maintenance done;
- archived programs: their published numbers; deferring and localizing learning is
  invisible; windows of accounts tile the run; caching baselines are never cheaper;
- bytecode: encodings are exact, tables are injective and immutable, all modes execute
  the same;
- tuner: what it compares with is current, it descends, it converges, what converged
  is a local optimum, what is certified has the output of the default parameters.

## 2. The modules

| Module | Models | Builds on |
|---|---|---|
| `Vocabulary` | the pure algorithms of `vocabulary.rs`, `note_subseqs`, `semantic_cost`, `diff_middle` | |
| `VocabularyGrowth` | abstract: learning one unexpressed sequence at a time; the laws of the algorithms | `Vocabulary` |
| `WorkingSet` | abstract: everything is remembered, the most recent are at hand | |
| `PlannerMemory` | the state of `DrmPlanner` and what both planners do to it alike | `Vocabulary`; instances of the two abstract modules |
| `DrmPlanner` | `DrmPlanner::plan` with inline growth | `PlannerMemory` |
| `HybridPlanner` | `HybridPlanner::plan` and `consolidate_pending` | `PlannerMemory` |
| `DrmdServe` | `serve.rs`: connections, mutex, maintenance | `HybridPlanner` |
| `LiveExecutor` | `LiveExecutor::start` and `execute`, stops and restarts | |
| `FixtureServers` | both servers, their callers and `Drop` | |
| `OdcPlanner` | the four C++ planners as operators on the value of a planner object | `Vocabulary` |
| `OdcWorkloads` | `CAP_ROOT` and the five workloads, episode by episode | `OdcPlanner` |
| `OdcRuns` | the C++ programs: plan, execute, consolidate, account; gates, return values, self tests | `OdcWorkloads` |
| `OdcBytecode` | the two encodings, bit by bit | `OdcWorkloads` |
| `BytecodeMachine` | `bc::run`: block tables, representation audit, five modes, root audits | `OdcBytecode` |
| `RuntimeDescent` | both tuners, from the first episode of a family to its last validation | `OdcWorkloads` |
| `MC*` | bounded instances for TLC | one each |
| `VocabularyProofs` | induction, sums and the lemmas about the pure algorithms; no specification | `Vocabulary` |
| `PlannerMemoryProofs` | lemmas about what both Rust planners do | `PlannerMemory`, `VocabularyProofs` |
| `DrmPlannerProofs` | the theorems of `DrmPlanner` and of `VocabularyGrowth`, which it implements | both, `PlannerMemoryProofs` |
| `LiveExecutorProofs`, `OdcRunsProofs`, `RuntimeDescentProofs` | the theorems of one module | that module |
| `BytecodeProofs` | the theorems of the encodings and of `BytecodeMachine` | `MCBytecode`, for what its run tries of the encodings |
| `DrmdServeProofs` | the theorems of `HybridPlanner`, then of `DrmdServe`, which extends it | `DrmdServe`, `PlannerMemoryProofs` |

**How state and actions correspond.** A derived word `d<k>` is the number k: words
are numbered by a counter that only grows and none is removed, so the map `derived`
is a sequence. Maps keyed by task are functions on the tasks they hold;
`subseq_users` and the tasks of `pstats` are relations. `Remember` is the part of
`plan` both planners share, ending in `Touch`; `Decision` prices the episode;
`Grown` is the rule of growth, with the choice among equal keys left open because the
code iterates a hash set. `DrmPlanner!Plan` is the whole of `plan`, growth included.
`HybridPlanner!ConsolidatePending` is the whole of `consolidate_pending`: growth,
absorption of provisional words that became permanent, admission, expiry, reset of
the queue, in that order and each on what the last one left. `DrmdServe` extends
`HybridPlanner`, so planning a line is `Plan` itself; the handler between `lock` and
`drop(guard)` is split where it does long work (`PlanEpisode`, `ExecuteEpisode`) so
that everything else may run in between. `LiveExecutor` has one action for each
system call that a stop may fall behind: create the candidate, fill it, rename it,
write the text of a notification, write its newline; `Fail` is an error of any
fallible operation, and `Crash` takes memory and leaves the disk. `FixtureServers`
has one action for each step of the server's loop and of a call.

The C++ planners iterate `std::set` and `std::map`, so the first candidate in the
order of names wins among equals and a run is a function of its episodes. `OdcPlanner`
is therefore made of operators (`BasePlan`, `CascadePlan`, `InlinePlan`,
`DeferredPlan`, `Consolidated`) on a record, where `DrmPlanner` and `HybridPlanner`
are state machines that leave the choice open. The algorithms of the vocabulary are
the same in both languages (`Expand`, `Audit`, `Depth`, `Compress`, `SemanticCost` in
`Vocabulary`; `map` names the C++ lines for these and the Rust lines for the helpers
only Rust has as functions). The loops of the code are recursive functions whose domain
is the range of the loop: `Scan` is the left-to-right pass of `compress` over the
positions of a text, `Expand` descends through the dictionary a level at a time (a
function of the depth that yields a function of the symbol), costs of a corpus are
sums over its tasks (`SumFunction`). `OdcRuns` has one action for `plan`, one for `execute`
(which may fail at any capability, or at the verification of the output) and one for
what follows an execution: consolidation, accounts, baselines. `BytecodeMachine` has
one action for each task compiled, each workflow begun, each mode executed and each
audit. `RuntimeDescent` has one for each episode, each neighbour compared (the choice
of measurements is the choice of noise) and each decision of a search or an anchor.

**What is abstracted.** A capability name is a model value; the data an episode
carries is empty or not; a file is whether it exists, is complete, is empty, who
wrote it, and for `state.txt` the run count. A line is a submission, a status query,
malformed (any `ProtocolError`) or not UTF-8; a submission may be *silent*: its execution
makes a call that never returns, as `ipc.request` with an empty payload does. Wording of responses, uptime,
`avg_depth`, `structure_bytes`, and fields that are written and never read
(`PStat.hits`, `PWord.transfer_hits`) are left out. What an execution under some
parameters takes and yields is a *landscape*: a cost for each setting of each
coordinate, a pair of settings with a cost of its own, settings that fail or change
the output, and a noise; all of `RuntimeDescent` is about one family, since families
share only the planner. Of a C++ execution `OdcRuns` and `BytecodeMachine` keep the
root counts, the commits and where it fails; the C++ socket servers and the system
calls of its executor are not modelled again. `Expand` merges the errors
`Cycle` and `Unknown`, which no caller tells apart.

## 3. The runs

Every passing run finishes; every property of one is violated by the mutant listed
for it.

| Run | Shows | Bounds and why they are enough |
|---|---|---|
| `vocabulary_laws` | `CompressionLossless`, `LearningIsExact`, `TilingIsLeast` (against the minimum over all cuts) | all texts over two capabilities up to length 4, all vocabularies of up to two words learned from them: words nest, overlap and tie |
| `drm_planner` | `EvidenceComplete`, `RepairIsLeast`, `GrowthShrinksCorpus`, `RecoveryOnlyWhenEvicted`, and that the planner implements `WorkingSet` (so what is at hand is what was last stored) | 3 tasks for a working set of 2 (evictions and recoveries), 3 sequences that share and nest motifs, `MaxVersion` = 5 plans, threshold 1 (two words are learned, the second out of the first) |
| `hybrid_planner` | `TierSound`, `QuietTierIsFresh`, `LocalizedIsExact`, `DeferredGrowthPays`, implements `VocabularyGrowth` | 3 tasks, 5 plans, consolidations between any two; 4 sequences: one that nests in another, one with a name that is no capability, one that begins with the name of the first word (`Foreign` holds both names); threshold 1: words of foreign names are learned, and plain words behind them and out of each other; tier of 1 (the cap bites), grace 2 (words expire) |
| `live_executor` | `CommitsAreAtomic`, `SuccessLeavesItsOutput`, `RootsCoverEffects`, `EpisodeEnds` | `MaxEpisodes` = 3 of 4 programs that use all twelve capabilities and an unknown one, any number of stops: a candidate left by one episode meets the next |
| `fixture_servers` | `CallEnds`, `DropEnds` | 3 connections: one served, one waiting, one to wake the thread; accept may fail |
| `serve` | `MutexHeld`, `StatusIsConsistent`, `PlannedOnce`, `MetricsAreCurrent`, `LinesAreAnswered`, `MaintenanceHappens` | 2 connections and the maintenance thread, 2 tasks, one sequence (at threshold 0 a second task of it grows the vocabulary); every kind of line, silent ones included, and responses that cannot be written: a silent submission before, behind and beside every other line; the theorems are for any number of connections |
| `odc_runs` | `PublishedOutcome`, `BaselinesNeverCheaper`, `WindowsTile`, `DeferralIsInvisible` | the six published runs in full; all streams of 4 episodes of 2 tasks and 3 sequences through the deferred planner and of 3 through the cascade, with a working set of 1, a tier of 1 and grace 2 (evictions, admissions and expiries happen); streams with a warm-up and one failure anywhere |
| `bytecode` | `TablesSound`, `ModesAgree`, `PublishedRepresentation`, `FormatsAreExact` | the published workload and one that drifts; tables of 65535, 2, 3 and 4 blocks (the small ones overflow); at most one failing execution; all words of both encodings alone, and all programs of up to three (two) over words that are valid, truncated, out of range or carry a wrong operand |
| `runtime_descent` | `BaselineIsCurrent`, `ConvergedIsLocal`, `CertifiedIsSettled`, `OutputKept`, `ConvergedIsCertified`, `CommitsDescend`, `Converges` | the 5 families of the programs; falling costs, valleys, ridges a step of two jumps, gains just above and just below the least one, failing and changing settings, settings that pay only together, a setting that begins to pay when its coordinate has been found stable, gains in processor time only; 35 episodes (the shortest families of the paired program; the shortest of the online program have 55) or as many as it takes; noise of 60 microseconds on the smallest family; a streak that breaks once anywhere |

`PublishedOutcome` says that the modelled programs end with what the documents beside
them report: 214 decisions and 11 words for the reference engine, 166 for the learning
path, 831 decisions, 22 + 20 words, 538 bytes and every stage's row for the staged
deployment, 161 and 68 decisions with the baselines' 404/264/254 and 308/117/117 for
the two weeks, that they return 0 and that the self tests pass. It is the check of the
translation as much as of the code: a slip in a rule or in one of about 900 episodes
changes a number. `PublishedRepresentation` does the same for the bytes of the
encodings.

`CHECK_DEADLOCK FALSE` stands where the system may really stop: the bounded numbers
of plans and of words, a fixture server that has been dropped, and the archived
programs, which end. The daemon's run checks deadlock (its maintenance thread's timer is always
there to run, or it waits for a mutex whose holder can step), and so does the executor's.
Symmetry is over tasks or capabilities, which the modules only compare; the runs with
liveness use none.

### Where the code and its documentation disagree

Three runs check one sentence of the documentation each, and find it violated.

- `hybrid_evidence`: two structural episodes before one consolidation: the second
  *replaces* what the first queued (`hybrid.rs:334-335`), though `consolidate_pending`
  is documented to apply whatever was queued since the last call (`hybrid.rs:280-281`).
  The evidence stays in `subseq_users`, so a later episode with the sequence brings it
  back; a stream that does not repeat it loses it. In the staged deployment, which
  consolidates after every plan, nothing is lost: that is `DeferralIsInvisible`.
- `fixture_empty`: `roundtrip("")` and the server wait for each other
  (`servers.rs:108`, `127-131`); `ipc.request` sends the task name when it has no
  data, and a task may be named by an empty value. The daemon executes under its mutex, so
  one such submission stops every later line and the maintenance. The `serve` run has
  these submissions: its two liveness properties say that nothing else stops them.
- `bytecode_audit`: the root audit of an executed workflow passes `std::all_of` the
  begin of one temporary vector and the end of another (`bytecode.cpp:260`, `264`).
  That is undefined; the model lets it return either answer or end the program. The
  runs of `bytecode` show what holds if it returns: the audits decide nothing else.

Further disagreements, which no run of its own checks:

- `plan` runs before the executor refuses an unknown name, and nothing checks names
  earlier. Tasks that repeat a sequence with such a name teach a word for it
  (`hybrid.rs:271`; `planner.rs:112` by the same rule). The word has no expansion, so it
  compresses nothing, though a motif is documented to be promoted only when that shrinks
  the corpus (`docs/ARCHITECTURE.md:40-42`), and `audit`, "the one invariant that must
  never break" (`docs/ARCHITECTURE.md:11-12`), is false from then on. What holds is
  `DeferredGrowthPays`: words that do reduce to capabilities pay.
- A family is documented to be certified "when no adjacent move is at least 3% or 0.05 ms
  faster" (`RUNTIME_DESCENT_RESULTS.md:14`). The code asks a move for more than the
  *larger* of the two (`runtime_descent.cpp:289-290`), so a family with a cost of 9.1 ms is
  certified beside a neighbour that is 0.1 ms faster every time. `CertifiedIsSettled`
  states the code's rule.
- An output whose own extension is `candidate` is written in place (`executor.rs:175`),
  against "every commit ... is atomic" (`serve.rs:17-18`). `CommitsAtomic` takes the
  hypothesis that no output is named so.
- `writeln!` makes two writes (`executor.rs:193`); a stop between them runs two
  notifications together.
- "Candidate output must remain valid" (`RUNTIME_DESCENT_RESULTS.md:11`) is not what
  the online program does: `observe` reads neither `ok` nor the value
  (`runtime_descent.cpp:153`), so a probe that fails early is a fast one and may be
  committed. The anchors of the certification compare outputs, and roll it back; what
  holds is `OutputKept`.
- `execute_bytecode` does not look at operands (`bytecode.cpp:173`), so it executes
  words `decode_caps` refuses; and the program's return value does not ask for the round
  trips, "Any mismatch is a hard test failure" (`PEER_PROTOCOL.md:9`).
- The flag `converged` survives an idle rollback: an online family may end with it set,
  not certified, at the default parameters. The program then does not return 0.

### Fairness

- `LiveExecutor`: weak fairness of `Step`. The thread that executes an episode runs;
  no system call is assumed to succeed, and nobody is obliged to submit or to stop.
- `FixtureServers`: weak fairness of the server thread, the call and `Drop`, each a
  thread that keeps running. Nobody is obliged to call or drop; accept need not fail.
- `RuntimeDescent`: weak fairness of `Next`. The programs are one thread each that runs
  until it is done; an execution ends because a failing one is reported as failed.
  `OdcRuns` and `BytecodeMachine` state no liveness and no fairness.
- `DrmdServe`: weak fairness of a handler's work and of the maintenance thread's timer
  and work; strong fairness of taking the mutex. A standard mutex promises no order,
  but when it is released again and again, waiters are woken, and the only thread that
  comes back for it sleeps in between; that a waiter then gets it is assumed and not
  shown. Clients are not obliged to do anything. An execution that is not silent is
  assumed to end: `EpisodeEnds` shows it for the executor, given that calls to the servers
  end, which `CallEnds` shows for payloads that are not empty. A silent execution is not
  obliged to end; `Wedged` says that one is under way. `LinesAreAnswered` and
  `MaintenanceHappens` allow for a mutex held so for good (`[]Wedged`), and for nothing
  else: failing episodes, malformed lines, clients that hang up and responses that cannot
  be written stop nobody.

## 4. What is proved

TLAPS proves these for every value of the constants; each that names a property
proves the very definition TLC checks. Type invariants are proved rather than checked
(`TypeCorrect`, `MemoryTyped`).

**Assumptions on constants.** `ExecutorAssumption` (files have names of their own),
`ConstantsAssumption` and `TierAssumption` (capacities are naturals, episodes are
sequences of symbols), `NamesApart` (a capability is no foreign name
and no name of a word), `ClientAssumption`, `LineAssumption`, `LandscapesAssumption` (durations are not negative, a
family has a coordinate, the noise is a finite set), `BudgetsAreSome` (a family comes
into being with its first episode), `RankAssumption` (names are ordered, and different
ones differ in the order), `ProgramsAssumption` (a program starts with a constructed
planner, its episodes are not empty and consist of capabilities, and where it keeps
accounts of windows its episodes go through the windows in order),
`CapabilitiesAssumption` (the capabilities are the twelve keys of `CAP_ROOT`, all
different), `MachineAssumption` (tables have room for a natural number of blocks,
workloads are sequences of episodes of capabilities). TLC evaluates each of
them on the instances of the runs.

**Induction over data.** The library's induction theorems take a predicate as a
parameter, which the installed provers cannot instantiate. `VocabularyProofs` takes a
*set* instead, the set of the values that have the property: `LeastNat` (a nonempty set of
naturals has a least element, from the well-foundedness of `<`), `InductionUpTo`,
`StrongInduction`, `FiniteInduction`, `InductionDown`. A recursive function is first shown
to exist (`PartInduction`, `FoldExists`, `ScanExists`, `ExpandExists`, `CostExists`: a
part of its domain on which it exists can be extended by one value), which gives its
equation (`ScanIs`, `ExpandIs`, `CostIs`). From there:

- sums over a corpus (`SumTakesOut`, `SumOfDifferences`, `SumOfSame`);
- `PiecesProperties`: a scan cuts a text into pieces that join to the text;
- `GroundedExpand`, `GroundedAppend`: in a dictionary whose words only use older words and
  capabilities, every word has a finite expansion into capabilities, and a word learned
  behind it changes no expansion;
- `CompressLossless`, `LearningExact`: what is compressed expands to the text, and a word
  learned from a text expands to it;
- `MiddleIsLeast`: no kept beginning and kept end leave less than `diff_middle`.

**`DrmPlannerProofs`**, of the growing vocabulary: `CompressionIsLossless`,
`WordsMeanWhatTheyWereLearnedFor`, for texts of capabilities, and `TokenizerIsLeast`, for
any texts: by induction from the
end of the text, the tokenizer's cost is at most the number of pieces of any cut, and
some cut has that many (`CostIsLeast`; `TilingHead` takes the first piece off).

**`LiveExecutorProofs`**: `TypeCorrect`, `RootsAccount`. `CommitsAtomic` and
`SuccessIsReal` add the hypothesis `CandidatesApart`: no output is the candidate file of
an output. It is needed: an output named like a candidate file is written in place. The
inductive invariant says what each stage of a commit knows of the candidate file: opened,
it is incomplete; filled, it is complete and this episode's; and a target is complete
whenever it exists.

**`PlannerMemoryProofs`** holds the lemmas both planners use. The inductive invariant
`MemoryInv` joins types, `LruCoherent`, `ActiveIsHistory`, `LruIsMostRecent`,
`EvidenceComplete` and finiteness of the history. None is inductive alone: that the
evicted task is the oldest needs the order of versions along the order (`LruIsMostRecent`),
which needs each task once in it (`LruCoherent`), which needs types. The refinement is
one counting argument (`AtHandIsMostRecent`): along an order of growing versions, the
tasks newer than the i-th are the ones behind it, and a task outside has ActiveCap
newer ones, so the working set is `WorkingSet!MostRecent`.

**`DrmPlannerProofs`**, of the planner: `MemoryTyped`, `OrderAgrees`, `CacheAgrees`, `EvictionIsLru`,
`EvidenceNeverMissed`, `RecoveryNeedsEviction`, `RepairsAreLeast`; the refinements
`KeepsTheWorkingSet` and `GrowsTheVocabulary`; and `GrowthPaysOff`, for episodes of
capabilities: the program scores a word by its expansion before the word is in the
dictionary and charges the definition, the theorem measures the corpus and the dictionary
with the word in it. The hypothesis is needed: a sequence with a foreign name has no
expansion, is learned and then never used, and so never pays. Only the benchmark and the
self test run this planner on its own, and their workloads are sequences of capabilities;
the daemon's planner gets what callers send, and its theorem makes no such assumption.

**`DrmdServeProofs`**, of the hybrid planner: `TierStaysSound`, `StaleWordsAreQueued` by
the invariant `TierInv`, one lemma for each operation of a consolidation
(`RemovalIsSound`, `AdmissionIsSound`, `ExpiryIsSound`), whatever the compressor and the
scores compute; `EvidenceIsComplete` and the refinements `HybridKeepsTheWorkingSet` and
`HybridGrowsTheVocabulary`, with consolidations anywhere between plans;
`LocalizedScoringIsExact` and `DeferredGrowthPaysOff` add `QueueInv`: what is queued is
subsequences of what callers sent. Neither assumes anything of the names callers use.
`DeferredGrowthPays` is about the words that reduce to capabilities, learned at a time when
no queued candidate holds the name of a word and no definition the name of a word to come
(`WordNamesFree`: somebody would have to write `d001` in `ops`). Both conditions are
needed. Dictionaries may hold words that never reduce: `ExpandsBy`, `AppendLeaves` and
`LearningPlain` show that such words change nothing of what the others expand to, so that
`GrowthPays` needs only that the new word adds its own expansion.
`UsersSuffice` is why localized scoring is exact: a task that is not a user of a candidate
holds no occurrence of it (`EvidenceComplete`), so the candidate compresses nothing of it,
and the sum over the corpus is the sum over the users.

Of the daemon, for any number of connections: `Mutex`, then by what the
critical section gives, `MetricsStayCurrent`, `StatusesConsistent` (every version is an
episode counted or the one executing; tasks are no more than versions; the working set
is part of the history, from `MemoryInv`) and `SubmissionsPlannedOnce` (the number a
handler holds is nobody else's).

**`OdcRunsProofs`**, for every program, planner and stream that `ProgramsAssumption`
admits, with a failure anywhere. `EvictionNeverCosts`: `RunsInv` says that between
episodes the planner remembers exactly what the caching baselines have seen (`Settled`,
whose `planner.history = baselines.seen` no planner operation but the plan disturbs), that
the working set is part of the history (`CacheOK`), so that the plan it repairs is the
one the baselines repair whether it was evicted or not, and that the decision taken is no
dearer (`Deciding`); compression never lengthens the middle that is replanned.
`DeferralChangesNothing` needs `KnowledgeOK`: the index of users is complete (`IndexOK`),
so the localized scoring of the consolidation is the whole scoring of the plan
(`LocalizedIsWhole`), and the queue is empty between episodes, so what is scored is what
was just noted; then `SameKnowledge`, that two planners differ in working set and queue
alone, is carried through growth, removal, admission and expiry one at a time
(`GrowthAgrees`, `RemovalAgrees`, `AdmissionAgrees`, `ExpiryAgrees`). That the greatest of
a set of candidates is one (`GreatestExists`, `BeforeOrders`, `FirstIsOne`) is why a run is
a function of its episodes. `WindowsAddUp` adds `TileInv`: the account of every window
reached starts where the one before it ends, and a window not reached is empty.

**`RuntimeDescentProofs`**, for every landscape, noise and number of episodes.
`OutputIsKept` by `OutputInv`: what a search has found yields the output of the
parameters it began with (`FoundIsSame`: `compare` calls nothing else valid), only
the paired program certifies without an anchor and nothing is committed behind a
certification (`Ordered`), and an episode was executed before the episodes are
over (`HasExecuted`), which is what makes the default output one that did not fail.
`BaselineStaysCurrent`, `ConvergedStaysLocal`, `CertifiedStaysSettled`,
`ConvergedGetsCertified` and `CommitsAlwaysDescend` share the invariant `TunerInv`, one
lemma for each action:

- `SweepInv`: the costs in `baseline` are of the present parameters, and every move in
  the coordinate being swept is still to be tried or has been observed, at the cost of the
  parameters it leads to, so that the best of the observed is the best there is. A commit
  must restart the baseline.
- `StableInv`: a coordinate that counts as stable is at the finest step and has no move
  that would be taken. It is why convergence, which is reached one coordinate at a time,
  is convergence in all: a commit clears the flags of all.
- `OptimizeInv`, `FoundInv`, `CertifyInv`: a search has passed only what is not better,
  and what it found is cheaper, but for the noise.
- `SettledInv`, `LandedIsLocal`, `KeptInv`: what was true when the episodes ended holds
  through anchor, idle search and final anchor. The idle search asks no less of a move than
  tuning did, so it finds nothing where tuning converged.

`Quiet`, no noise, is part of the properties that compare costs: with noise a worse move
may look better, and then only `CommitsDescend` holds, up to the noise.

**`BytecodeProofs`**, of the two encodings: `ExplicitIsExact` and `DenseIsExact`, for
programs of every length. What a decoder accepts is the encoding of what it returns, so no
two programs decode to one workflow; the roots it gives are the workflow's; and
`execute_bytecode`, which looks at no operand, runs of such a program what decoding gives.
The fields of a word are cut out by arithmetic (`PackIs`, `UnpackIs`, `DensePackIs`,
`DenseUnpackIs`). The decoder is a recursive function from the end of the program
(`WalkExists`, `WalkIs`); `CompiledDecodes` and `DecodedCompiles` go through the program
from the end, capability by capability: the words of the first one are those its roots ask
for (`WordsExpand`, `ExpandsWords`), and what is left is again a program.
`DecodersAreExact` says that what the run tries is a part of this.

Of the machine, for every workload, table size, number of executed workflows and of
failures:

- `TablesStaySound`, by `TableInv`: a block is what the compiler emits for its workflow
  (`Interns`), and until the last audit both tables hold the same workflows under the same
  number of ids. The second half is why one check for room serves both: the explicit
  table throws first, so the dense one's own check never fires. What comes to be interned are sequences of capabilities because a history only
  holds what was planned (`PlansRecall`, `TasksListed`, `SubsetType`).
- `ModesStayOne`, by `ModesInv`: a mode that is through with d workflows has counted no more
  roots and commits than these d hold (`Ideal`), and exactly that if it completed them all
  (`Keeps`). It compares each mode with the workload and not modes with each other: five
  modes that agree so far tell nothing of the next step. `ExecutableIs` is where the
  encodings enter: compiled now or taken from a table, a program is the workflow.
- `IdsNameOneBlock`, an action property: a workflow keeps its id and an id its block.
- `AuditsFindNothing`, by `AuditInv`: every final task round-trips in both formats, with its
  roots, and the historical program is immutable. `PublishedRepresentation` shows the counts
  of one workload; this is why they are 57 of 57.

**Only model-checked.**

- Liveness and everything under fairness (`EpisodeEnds`, `CallEnds`, `DropEnds`,
  `LinesAreAnswered`, `MaintenanceHappens`, `Converges`), which this prover does not reach.
- `PublishedOutcome` and `PublishedRepresentation` are about the numbers of the published
  workloads: they are computations, and TLC does them in full. That the audit of the
  words finds them uniform (`all_uniform`) is part of the latter.

## 5. What is not modelled

- Poisoning of the mutex: no call under it is known to panic. If one did, handlers
  would go on and maintenance would stop (`serve.rs:69` against `serve.rs:109`).
- Requests to the fixture servers longer than one read, and contents of replies.
- That the run count in `state.txt` starts over with the process (`executor.rs:181`)
  and that a line that is not UTF-8 is closed without a response (`serve.rs:104`): the
  modules do both, and no property asks for anything else.
- A measurement of the tuner that fails by chance: what an execution yields depends on its
  parameters alone, so a last validation finds what certification found.
- That two processes fed one stream may learn different words, because ties are
  broken by hash order; the models allow every choice, and no property compares runs.
- The C++ socket servers (`main.cpp:164-176`) and the system calls of the C++ executor:
  their Rust counterparts are `FixtureServers` and `LiveExecutor`.
- Times of the archived programs: latency gates, the dispatch benchmark, the simulated
  clock of a week, bytes of structure and memory.
- The counts only a log reads: probes, regret, bookkeeping, medians of episodes.
- The grammar of the protocol, client, CLI, benchmark, and the Rust ports of workload
  and selftest: sequential and pinned by tests.
- The archived Rust prototypes (`drm_live_vm`, `drm_rust_eval`), predecessors of
  `src/crates`; packaging.

## 6. Plan

Order of work, most important behaviour first:

1. (done) vocabulary, planner memory, both planners, executor, fixture servers,
   daemon, with their runs, mutants and theorems.
2. (done) the archived programs: the planners and the runs on their published
   workloads, the bytecode and the tuner, with the theorem on its output.
3. Breadth: the daemon with submissions that never return (done: the silent lines of
   `DrmdServe`; the executor's and the servers' steps are not composed with it);
   hash-order ties as a twin run of two planners on one stream.
4. (done) Depth: the algorithms of the vocabulary by induction, growth that pays off and
   localized scoring that is exact, the tuner's optimality, and the archived programs'
   windows, baselines and deferral, as theorems.
5. (done) Depth: the bytecode, exact for programs of every length, its tables and modes.
6. Depth, next: an abstract specification of the daemon as an atomic register of plans,
   and `DrmdServe` shown to implement it; the uniformity audit of the words of any
   workload, from the growth lemmas of `OdcRunsProofs`.

## 7. Running it

    tlc -workers 2 -config MCHybridPlanner.cfg MCHybridPlanner.tla
    tlapm DrmPlannerProofs.tla
