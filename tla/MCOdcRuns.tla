----------------------------- MODULE MCOdcRuns -----------------------------
(***************************************************************************)
(* The archived programs with the constants and the workloads they have,   *)
(* the results published beside them, and small programs with arbitrary    *)
(* workloads.                                                              *)
(***************************************************************************)
EXTENDS OdcRuns

Base   == NewPlanner(8, 3, 0, 0)
Tiered == NewPlanner(8, 3, 20, 12)

Measured(name, kind, start, episodes, count) ==
  [name |-> name, kind |-> kind, planner |-> start, warmup |-> <<>>, episodes |-> episodes,
   windows |-> count, executes |-> TRUE, max_failures |-> 0, notes_boundaries |-> FALSE]

Learning(program_) == [program_ EXCEPT !.executes = FALSE]
Noting(program_)   == [program_ EXCEPT !.notes_boundaries = TRUE]

PublishedPrograms ==
  {Measured("reference", "base", Base, ReferenceWorkload, 1),
   Learning(Measured("learning_base", "base", Base, ReferenceWorkload, 1)),
   Learning(Measured("learning_hybrid", "inline", Tiered, ReferenceWorkload, 1)),
   Noting(Measured("staged", "deferred", Tiered, StagedWorkload, 6)),
   Noting(Measured("week", "deferred", Tiered, WeeklyWorkload, 7)),
   [Measured("mature", "deferred", Tiered, MatureWorkload, 7) EXCEPT !.warmup = WeeklyWorkload]}

----------------------------------------------------------------------------
(* Small programs: a working set of one task, a tier of one word that      *)
(* lives for two changes, a threshold a saving of one token reaches.       *)

Small == NewPlanner(1, 1, 1, 2)

SmallOps == {<<fs_read, transform_extract, transform_summarize, fs_write>>,
             <<fs_read, transform_extract, transform_summarize, fs_write, notify_send>>,
             <<state_read, fs_read, transform_extract, state_write>>}

SmallEpisodes ==
  {Ep(0, Task(t), ops) : t \in {"one", "two"}, ops \in SmallOps}
    \cup {Ancestral(Ep(0, Task("one"), ops)) : ops \in SmallOps}

InWindows(s) == [i \in DOMAIN s |-> [s[i] EXCEPT !.window = i \div 3]]

SmallPrograms ==
  {Noting(Measured("small", "deferred", Small, InWindows(s), 2)) : s \in [1..4 -> SmallEpisodes]}
    \cup {Measured("small", "cascade", NewPlanner(1, 1, 0, 0), s, 1) : s \in [1..3 -> SmallEpisodes]}

FailingPrograms ==
  {[Measured("failing", "deferred", Small, s, 1) EXCEPT !.max_failures = 1, !.warmup = <<w>>] :
     s \in [1..2 -> SmallEpisodes], w \in SmallEpisodes}

AllPrograms == PublishedPrograms \cup SmallPrograms \cup FailingPrograms

----------------------------------------------------------------------------
(* What the documents beside the programs report of a run.                 *)

ByWindow(field) == [i \in 1..program.windows |-> windows[i - 1][field]]
Roots == <<executor.OBSERVE, executor.DERIVE, executor.COMMIT>>

Tier == <<Known(planner).provisional, planner.admitted_total, planner.expired_total>>
Caching == <<baselines.stateless, baselines.template_cache, baselines.checkpoint_replay>>

(* PEER_PROTOCOL.md of the reference engine and of the staged deployment,  *)
(* STAGED_RESULTS.md, and the summaries the programs write: the run of the *)
(* model ends with the numbers of the documents and returns 0, and the     *)
(* self tests pass.                                                        *)
PublishedOutcome ==
  pc = "done" /\ program.name \notin {"small", "failing"} =>
    /\ Succeeds /\ SelfTest /\ HybridSelfTest
    /\ CASE program.name \in {"reference", "learning_base"} ->
              /\ Total("semantic") = 214
              /\ <<Total("recoveries"), Total("repairs")>> = <<4, 4>>
              /\ Known(planner).permanent = 11
              /\ CorpusTokens = <<273, 70, 37>>
              /\ program.executes => Roots = <<141, 390, 230>>
         [] program.name = "learning_hybrid" ->
              /\ Total("semantic") = 166
              /\ Known(planner).permanent = 11
              /\ Tier = <<20, 29, 1>>
         [] program.name = "staged" ->
              /\ ByWindow("episodes") = <<24, 84, 72, 144, 60, 324>>
              /\ ByWindow("success") = ByWindow("episodes")
              /\ ByWindow("semantic") = <<33, 103, 132, 172, 67, 324>>
              /\ ByWindow("first_seen") = <<3, 7, 48, 96, 48, 12>>
              /\ ByWindow("first_one") = <<0, 0, 18, 76, 46, 12>>
              /\ [i \in 1..6 |-> windows[i - 1].end.permanent] = <<0, 1, 14, 21, 22, 22>>
              /\ Tier = <<20, 57, 26>>
              /\ <<Total("recoveries"), executor.commits, FusedBytes>> = <<4, 1225, 538>>
              /\ Roots = <<940, 2635, 1633>>
         [] program.name = "week" ->
              /\ <<Total("episodes"), Total("success"), Total("semantic")>> = <<81, 81, 161>>
              /\ Known(planner).permanent = 9 /\ Tier = <<20, 34, 9>>
              /\ Caching = <<404, 264, 254>>
              /\ <<Total("half_minutes"), Total("attention")>> = <<2 * 508, 1768>>
         [] program.name = "mature" ->
              /\ <<Total("episodes"), Total("success"), Total("semantic")>> = <<60, 60, 68>>
              /\ <<windows[0].start.permanent, Known(planner).permanent>> = <<9, 13>>
              /\ Caching = <<308, 117, 117>>
              /\ <<Total("half_minutes"), Total("attention")>> = <<2 * 355, 914>>
=============================================================================
