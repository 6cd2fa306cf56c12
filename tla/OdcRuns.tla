------------------------------ MODULE OdcRuns ------------------------------
(***************************************************************************)
(* The archived C++ programs at work: each plans the episodes of its       *)
(* workload in order, executes them against the machine, consolidates what *)
(* its planner deferred, and keeps accounts for each window of the         *)
(* workload, a stage of the deployment or a day of the week.               *)
(*                                                                         *)
(* A program is a record: the kind of its planner and the planner it       *)
(* constructs; the episodes it only trains on (the mature week is preceded *)
(* by the cold one) and the episodes it measures; the number of windows;   *)
(* whether it executes, and how many episodes may fail when it does; and   *)
(* whether it notes at the boundary of a window how much is known.  Times, *)
(* memory and bytes are left out.                                          *)
(***************************************************************************)
EXTENDS OdcWorkloads

CONSTANT Programs   \* the programs a behaviour may run

(* The planner a program constructs is empty; every episode uses some      *)
(* capabilities and no other names.                                        *)
IsConstructed(p) ==
  /\ p = NewPlanner(p.active_cap, p.mdl_threshold, p.provisional_cap, p.grace)
  /\ {p.active_cap, p.provisional_cap, p.grace} \subseteq Nat
  /\ p.mdl_threshold \in Int

AreEpisodes(s) ==
  /\ s \in Seq(Range(s))
  /\ \A ep \in Range(s) : ep.ops \in Seq(Capability) \ {<<>>}

(* A program that notes boundaries goes through its windows one by one.    *)
WindowsInOrder(s, count) ==
  /\ s # <<>> /\ s[1].window = 0
  /\ \A i \in DOMAIN s : s[i].window \in 0..(count - 1)
  /\ \A i \in 1..(Len(s) - 1) : s[i + 1].window \in {s[i].window, s[i].window + 1}

ASSUME ProgramsAssumption ==
  \A pr \in Programs :
    /\ pr.kind \in {"base", "cascade", "inline", "deferred"}
    /\ IsConstructed(pr.planner)
    /\ AreEpisodes(pr.warmup) /\ AreEpisodes(pr.episodes)
    /\ pr.notes_boundaries =>
         pr.warmup = <<>> /\ pr.windows \in Nat /\ WindowsInOrder(pr.episodes, pr.windows)

VARIABLES program,    \* the program that runs
          planner,    \* its DrmPlanner or HybridPlanner
          next,       \* the place of the episode at hand
          pc,         \* what is done with it next
          decision,   \* the PlanMetrics of it
          ok,         \* whether it executed
          executor,   \* the counters of LiveExecutor
          baselines,  \* what the caching baselines saw and all three decided
          seen,       \* the tasks measured so far
          windows     \* StageMetric, DayMetric: the accounts of each window

vars == <<program, planner, next, pc, decision, ok, executor, baselines, seen, windows>>

Stream  == program.warmup \o program.episodes
Current == Stream[next]
Warming == next <= Len(program.warmup)

NoDecision == [semantic |-> 0, recovery |-> 0, local_repair |-> 0, structural_change |-> 0]

Known(p) == [permanent |-> Len(p.derived), provisional |-> Cardinality(DOMAIN p.provisional)]

NewWindow(p) ==
  [episodes |-> 0, success |-> 0, semantic |-> 0, structural |-> 0, recoveries |-> 0,
   repairs |-> 0, first_seen |-> 0, first_semantic |-> 0, first_one |-> 0,
   repeat_count |-> 0, repeat_semantic |-> 0, post_recovery |-> 0, post_recovery_zero |-> 0,
   attention |-> 0, half_minutes |-> 0, uniform |-> TRUE, start |-> Known(p), end |-> Known(p)]

Init ==
  /\ program \in Programs
  /\ planner = program.planner
  /\ next = 1
  /\ pc = "plan"
  /\ decision = NoDecision
  /\ ok = TRUE
  /\ executor = [OBSERVE |-> 0, DERIVE |-> 0, COMMIT |-> 0, commits |-> 0, failures |-> 0]
  /\ baselines = [seen |-> <<>>, stateless |-> 0, template_cache |-> 0, checkpoint_replay |-> 0]
  /\ seen = {}
  /\ windows = [w \in 0..(program.windows - 1) |-> NewWindow(program.planner)]

----------------------------------------------------------------------------
(* plan.                                                                   *)

Decide(p, ep) == IF program.kind \in {"base", "cascade"} THEN GreedyDecision(p, ep)
                 ELSE TieredDecision(p, ep)

Planned(p, ep) ==
  CASE program.kind = "base"     -> BasePlan(p, ep)
    [] program.kind = "cascade"  -> CascadePlan(p, ep)
    [] program.kind = "inline"   -> InlinePlan(p, ep)
    [] program.kind = "deferred" -> DeferredPlan(p, ep)

PlanEpisode ==
  /\ pc = "plan"
  /\ next <= Len(Stream)
  /\ planner' = Planned(planner, Current)
  /\ decision' = [Decide(planner, Current) EXCEPT !.structural_change = @ + Changes(planner, planner')]
  /\ pc' = IF program.executes THEN "execute" ELSE "settle"
  /\ UNCHANGED <<program, next, ok, executor, baselines, seen, windows>>

----------------------------------------------------------------------------
(* execute: the roots of a capability are counted before it runs, its      *)
(* commit after.  An episode fails at a capability, or at the verification *)
(* of its output behind the last.                                          *)

CommitCaps == {fs_write, state_write, notify_send}

RootCount(ops, root) ==
  Len(SelectSeq(Flatten([i \in DOMAIN ops |-> CapRoot(ops[i])]), LAMBDA r : r = root))

Executed(begun, done, succeeded) ==
  [OBSERVE |-> executor.OBSERVE + RootCount(begun, "OBSERVE"),
   DERIVE  |-> executor.DERIVE + RootCount(begun, "DERIVE"),
   COMMIT  |-> executor.COMMIT + RootCount(begun, "COMMIT"),
   commits |-> executor.commits + Len(SelectSeq(done, LAMBDA c : c \in CommitCaps)),
   failures |-> executor.failures + Count(~succeeded)]

ExecuteEpisode ==
  /\ pc = "execute"
  /\ LET ops == Current.ops IN
       \/ ok' = TRUE /\ executor' = Executed(ops, ops, TRUE)
       \/ /\ executor.failures < program.max_failures
          /\ ok' = FALSE
          /\ \E i \in DOMAIN ops : executor' = Executed(SubSeq(ops, 1, i), SubSeq(ops, 1, i - 1), FALSE)
       \/ /\ executor.failures < program.max_failures
          /\ fs_write \in Range(ops)
          /\ ok' = FALSE
          /\ executor' = Executed(ops, ops, FALSE)
  /\ pc' = IF Warming /\ ~ok' THEN "aborted" ELSE "settle"
  /\ UNCHANGED <<program, planner, next, decision, baselines, seen, windows>>

----------------------------------------------------------------------------
(* What the baselines decide: Baseline::plan of the three kinds.  The two  *)
(* that cache store every episode, so they have seen the same.             *)

Stateless(ep) == Len(ep.ops)

TemplateCache(ep) ==
  IF ep.task \in DOMAIN baselines.seen /\ baselines.seen[ep.task] = ep.ops THEN 1 ELSE Len(ep.ops)

CheckpointReplay(ep) ==
  IF ep.task \notin DOMAIN baselines.seen THEN Len(ep.ops)
  ELSE IF baselines.seen[ep.task] = ep.ops THEN 1
  ELSE Max({1, Len(DiffMiddle(baselines.seen[ep.task], ep.ops))})

BaselinesAfter(ep, counted) ==
  [seen |-> Put(baselines.seen, ep.task, ep.ops),
   stateless |-> baselines.stateless + IF counted THEN Stateless(ep) ELSE 0,
   template_cache |-> baselines.template_cache + IF counted THEN TemplateCache(ep) ELSE 0,
   checkpoint_replay |-> baselines.checkpoint_replay + IF counted THEN CheckpointReplay(ep) ELSE 0]

(* The modelled attention of a person, in seconds; every episode of these  *)
(* workloads is scheduled.                                                 *)
AttentionSeconds(first, m) ==
  (IF first THEN 30 ELSE 4) + 3 * Max({0, m.semantic - 1}) + 20 * m.local_repair + 20 * m.recovery

(* The accounts of a window after an episode that cost m and left p.       *)
Accounted(w, ep, m, p) ==
  LET first == ep.task \notin seen
  IN  [w EXCEPT
         !.episodes = @ + 1,
         !.success = @ + Count(ok),
         !.semantic = @ + m.semantic,
         !.structural = @ + m.structural_change,
         !.recoveries = @ + m.recovery,
         !.repairs = @ + m.local_repair,
         !.first_seen = @ + Count(first),
         !.first_semantic = @ + IF first THEN m.semantic ELSE 0,
         !.first_one = @ + Count(first /\ m.semantic = 1),
         !.repeat_count = @ + Count(ep.expected_repeat),
         !.repeat_semantic = @ + IF ep.expected_repeat THEN m.semantic ELSE 0,
         !.post_recovery = @ + Count(ep.post_recovery),
         !.post_recovery_zero = @ + Count(ep.post_recovery /\ m.recovery = 0),
         !.attention = @ + AttentionSeconds(first, m),
         !.half_minutes = @ + ep.half_minutes,
         !.uniform = @ /\ Audit(planner.derived),
         !.end = Known(p)]

(* (Mutant: the boundary is noted before the consolidation.)               *)
BoundaryEarly(accounts, p) ==
  IF program.notes_boundaries /\ next < Len(Stream) /\ Stream[next + 1].window # Current.window
  THEN [accounts EXCEPT ![Stream[next + 1].window].start = Known(planner)]
  ELSE accounts

(* When the next episode opens a window, that window starts with what is   *)
(* known now.                                                              *)
Boundary(accounts, p) ==
  IF program.notes_boundaries /\ next < Len(Stream) /\ Stream[next + 1].window # Current.window
  THEN [accounts EXCEPT ![Stream[next + 1].window].start = Known(p)]
  ELSE accounts

(* consolidate_pending, and the accounts of a measured episode.  The       *)
(* mature week opens its accounts when its warm-up is over.                *)
SettleEpisode ==
  /\ pc = "settle"
  /\ planner' = IF program.kind = "deferred" THEN Consolidated(planner) ELSE planner
  /\ LET m == [decision EXCEPT !.structural_change = @ + Changes(planner, planner')]
         w == Current.window
     IN  IF Warming
         THEN /\ windows' = IF next < Len(program.warmup) THEN windows
                            ELSE [v \in DOMAIN windows |-> NewWindow(planner')]
              /\ UNCHANGED seen
         ELSE /\ windows' = Boundary([windows EXCEPT ![w] = Accounted(@, Current, m, planner')], planner')
              /\ seen' = seen \cup {Current.task}
  /\ baselines' = BaselinesAfter(Current, ~Warming)
  /\ next' = next + 1
  /\ pc' = IF next < Len(Stream) THEN "plan" ELSE "done"
  /\ UNCHANGED <<program, decision, ok, executor>>

Next == PlanEpisode \/ ExecuteEpisode \/ SettleEpisode

Spec == Init /\ [][Next]_vars

----------------------------------------------------------------------------
(* What a program reports at its end, and what it returns.                 *)

Total(field) == MapThenSumSet(LAMBDA w : windows[w][field], DOMAIN windows)

(* The tokens of the final tasks: raw, compressed, and of the definitions. *)
CorpusTokens ==
  <<MapThenSumSet(LAMBDA t : Len(planner.history[t]), DOMAIN planner.history),
    MapThenSumSet(LAMBDA t : Len(Compress(planner.derived, planner.history[t])), DOMAIN planner.history),
    MapThenSumSet(LAMBDA i : Len(planner.derived[i]), DOMAIN planner.derived)>>

(* The fused image: each distinct block once, and two bytes for each task. *)
FusedBytes ==
  MapThenSumSet(Len, Range(planner.history)) + 2 * Cardinality(DOMAIN planner.history)

(* The gates of a stage but the one on the planner's latency: success, a   *)
(* uniform vocabulary, no recovery after a recovery, cheap repeats.        *)
GatePasses(w) ==
  /\ w.success = w.episodes
  /\ w.uniform
  /\ w.post_recovery_zero = w.post_recovery
  /\ w.repeat_count > 0 => 10 * w.repeat_semantic <= 11 * w.repeat_count

(* 0 is returned when every episode executed, the vocabulary is uniform    *)
(* and, by the staged deployment, every gate was passed.                   *)
Succeeds ==
  /\ Total("success") = Total("episodes")
  /\ Audit(planner.derived)
  /\ program.name = "staged" => \A w \in DOMAIN windows : GatePasses(windows[w])

(* --self-test of the reference engine: a nested word reduces to roots,    *)
(* and what an episode of another task evicted is recovered, once.         *)
SelfTest ==
  LET words   == <<<<transform_summarize, fs_write>>, <<fs_read, 1>>>>
      first   == Ep(0, Task("old"), <<fs_read, transform_summarize, fs_write>>)
      evicted == BasePlan(BasePlan(NewPlanner(1, 3, 0, 0), first), [first EXCEPT !.task = Task("other")])
      roots   == [i \in DOMAIN Expand(words, 2) |-> CapRoot(Expand(words, 2)[i])]
  IN  /\ Audit(words) /\ Flatten(roots) = <<"OBSERVE", "DERIVE", "DERIVE", "COMMIT">>
      /\ Recovers(evicted, Ancestral(first))
      /\ ~Recovers(BasePlan(evicted, Ancestral(first)), first)

(* And of the learning path: thirty episodes leave a uniform vocabulary    *)
(* and a word on trial.                                                    *)
HybridSelfTest ==
  LET after[i \in 0..30] ==
        IF i = 0 THEN NewPlanner(8, 3, 20, 12) ELSE InlinePlan(after[i - 1], ReferenceWorkload[i])
  IN  Audit(after[30].derived) /\ DOMAIN after[30].provisional # {}

----------------------------------------------------------------------------
(* Short of a recovery no episode costs the planner more than it costs the *)
(* baselines, which never evict, and a baseline that caches more costs no  *)
(* more: what the working set has dropped is found again in the history.   *)
BaselinesNeverCheaper ==
  pc = "settle" =>
    /\ decision.recovery = 0 => decision.semantic <= CheckpointReplay(Current)
    /\ CheckpointReplay(Current) <= TemplateCache(Current)
    /\ TemplateCache(Current) <= Stateless(Current)

(* Where boundaries are noted the windows tile the run: each starts with   *)
(* the vocabulary the one before it ended with, so that what the windows   *)
(* gain adds up to what the run has learned.                               *)
WindowsTile ==
  program.notes_boundaries =>
    /\ \A w \in DOMAIN windows \ {0} :
         (windows[w].episodes > 0 \/ (pc # "done" /\ Current.window = w)) =>
           windows[w].start = windows[w - 1].end
    /\ pc = "plan" /\ next > 1 => windows[Stream[next - 1].window].end = Known(planner)

(* STAGED_RESULTS.md: moving the growth behind the execution, and scoring   *)
(* only the users of a candidate, preserved the decisions and the           *)
(* vocabulary: from every planner a run reaches, to plan and consolidate is *)
(* to learn inside plan with the whole corpus rescored.                     *)
DeferralIsInvisible ==
  (program.kind = "deferred" /\ pc = "plan" /\ next <= Len(Stream)) =>
    Consolidated(DeferredPlan(planner, Current)) = InlinePlan(planner, Current)
=============================================================================
