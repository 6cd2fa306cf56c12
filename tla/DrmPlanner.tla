----------------------------- MODULE DrmPlanner -----------------------------
(***************************************************************************)
(* DrmPlanner (planner.rs): the base planner, which prices an episode with *)
(* the greedy compressor and grows the vocabulary inside plan by rescoring *)
(* the whole corpus.                                                       *)
(***************************************************************************)
EXTENDS PlannerMemory

VARIABLE metrics   \* what the last plan returned

vars == <<derived, memoryVars, metrics>>

NoMetrics == [semantic |-> 0, recovery |-> 0, local_repair |-> 0, structural_change |-> 0,
              derived |-> 0, active |-> 0, uniform |-> TRUE, max_depth |-> 0]

Init == MemoryInit /\ metrics = NoMetrics

(* maybe_grow: baseline - new_cost over the whole history.                 *)
MaybeGrow(hist, used, cands) ==
  Grown(used, [c \in cands |-> Gain(hist, c, DOMAIN hist)])

(* maybe_grow runs after the history and the users hold this episode.      *)
Plan(ep) ==
  /\ Remember(ep)
  /\ derived' \in IF NewEvidence(ep)
                  THEN MaybeGrow(history', subseq_users', Candidates(ep.ops))
                  ELSE {derived}
  /\ LET decision == Decision(ep, Len(Compress(derived, Replanned(ep))))
     IN  metrics' = [semantic |-> decision.semantic,
                     recovery |-> decision.recovery,
                     local_repair |-> decision.local_repair,
                     structural_change |-> decision.structural_change
                                             + (Len(derived') - Len(derived)),
                     derived |-> Len(derived'),
                     active |-> Cardinality(DOMAIN active'),
                     uniform |-> Audit(derived'),
                     max_depth |-> MaxDepth(derived')]

Next == \E ep \in Episode : Plan(ep)

Spec == Init /\ [][Next]_vars

----------------------------------------------------------------------------
(* The encoded size of a corpus: what its tasks compress to, and what each *)
(* definition costs (its symbols and its name).                            *)
CorpusCost(dict, hist) == SumFunction([t \in DOMAIN hist |-> Len(Compress(dict, hist[t]))])
DictionaryCost(dict) == SumFunction([w \in DOMAIN dict |-> Len(dict[w]) + 1])
DescriptionLength(dict, hist) == CorpusCost(dict, hist) + DictionaryCost(dict)

(* A new word makes the history with the vocabulary at least MdlThreshold  *)
(* tokens shorter, measured with the word really in the vocabulary and not *)
(* with the trial word that scored it (planner.rs:79-83).                  *)
GrowthShrinksCorpus ==
  [][derived' # derived =>
       DescriptionLength(derived', history') + MdlThreshold
         <= DescriptionLength(derived, history')]_vars

(* Recovery is one-shot: a task a plan recovered is back in the working    *)
(* set, and is not recovered again unless ActiveCap other tasks were used  *)
(* in between (test ancestral_recovery_is_one_shot, planner.rs:235-245).   *)
RecoveryOnlyWhenEvicted ==
  [][metrics'.recovery = 1 =>
       \E t \in DOMAIN history :
         /\ history_version'[t] = version'
         /\ Cardinality({u \in DOMAIN history : history_version[u] > history_version[t]})
              >= ActiveCap]_vars
=============================================================================
