--------------------------- MODULE HybridPlanner ---------------------------
(***************************************************************************)
(* HybridPlanner (hybrid.rs): the planner `drmd serve` runs.  It adds a    *)
(* capped tier of provisional words to the permanent vocabulary, prices an *)
(* episode with the shortest tiling over both tiers, and defers every      *)
(* change of the vocabulary to consolidate_pending, which a thread of the  *)
(* daemon calls between any two plans.                                     *)
(*                                                                         *)
(* The words of the provisional tier are keyed by the number in their name *)
(* (p001, p002, ...).  Two fields that are written and never read are left *)
(* out: PStat.hits and PWord.transfer_hits.                                *)
(***************************************************************************)
EXTENDS PlannerMemory

CONSTANTS ProvisionalCap,   \* capacity of the provisional tier (provisional_cap)
          Grace             \* structural steps a word lives without transfer (grace)

ASSUME TierAssumption == ProvisionalCap \in Nat /\ Grace \in Nat

VARIABLES pstats,                 \* <<candidate, task>>: the tasks of each PStat
          provisional,            \* number -> [raw, birth_tasks, last_transfer_step]
          struct_step,            \* episodes that brought structural evidence
          pcounter,
          admitted_total,
          expired_total,
          pending_touched,        \* candidates queued for permanent growth
          pending_touched_p,      \* candidates queued for admission
          pending_consolidation,
          metrics                 \* what the last plan returned

tierVars    == <<provisional, struct_step, pcounter, admitted_total, expired_total>>
pendingVars == <<pending_touched, pending_touched_p, pending_consolidation>>
vars == <<derived, memoryVars, pstats, tierVars, pendingVars, metrics>>

Raws(tier) == {tier[n].raw : n \in DOMAIN tier}

Init ==
  /\ MemoryInit
  /\ pstats = {}
  /\ provisional = <<>>
  /\ struct_step = 0
  /\ pcounter = 0
  /\ admitted_total = 0
  /\ expired_total = 0
  /\ pending_touched = {}
  /\ pending_touched_p = {}
  /\ pending_consolidation = FALSE
  /\ metrics = [semantic |-> 0, recovery |-> 0, local_repair |-> 0, structural_change |-> 0,
                derived |-> 0, active |-> 0, uniform |-> TRUE, max_depth |-> 0]

----------------------------------------------------------------------------
(* A provisional word is refreshed by an episode that contains it and      *)
(* belongs to none of the tasks it was born from.                          *)
UpdateTransfer(ep, step) ==
  [n \in DOMAIN provisional |->
     IF Occurs(provisional[n].raw, ep.ops) /\ ep.task \notin provisional[n].birth_tasks
     THEN [provisional[n] EXCEPT !.last_transfer_step = step]
     ELSE provisional[n]]

Plan(ep) ==
  /\ Remember(ep)
  /\ IF NewEvidence(ep)
     THEN /\ struct_step' = struct_step + 1
          /\ provisional' = UpdateTransfer(ep, struct_step + 1)
          /\ pstats' = pstats \cup (Candidates(ep.ops) \X {ep.task})
          /\ pending_touched_p' = Candidates(ep.ops)
          /\ pending_touched' = Candidates(ep.ops)
          /\ pending_consolidation' = TRUE
     ELSE UNCHANGED <<struct_step, provisional, pstats, pendingVars>>
  /\ LET words == Expansions(derived) \cup Raws(provisional)
         decision == Decision(ep, SemanticCost(Replanned(ep), words))
     IN  metrics' = [semantic |-> decision.semantic,
                     recovery |-> decision.recovery,
                     local_repair |-> decision.local_repair,
                     structural_change |-> decision.structural_change,
                     derived |-> Len(derived),
                     active |-> Cardinality(DOMAIN active'),
                     uniform |-> Audit(derived),
                     max_depth |-> MaxDepth(derived)]
  /\ UNCHANGED <<derived, pcounter, admitted_total, expired_total>>

----------------------------------------------------------------------------
(* The steps of consolidate_pending, over the dictionary and the tier they *)
(* find.                                                                   *)

(* maybe_grow_localized: only the users of a candidate are rescored.       *)
LocalizedGain(cand) == Gain(history, cand, Users(subseq_users, cand) \cap DOMAIN history)

MaybeGrowLocalized ==
  Grown(subseq_users, [cand \in pending_touched |-> LocalizedGain(cand)])

RemoveCommittedEquivalents(tier, dict) ==
  RestrictDomain(tier, LAMBDA n : tier[n].raw \notin Expansions(dict))

(* pscore is Some exactly for the admissible candidates.                   *)
ProvisionalSaving(dict, cand) ==
  Cardinality(Users(pstats, cand)) * (Len(cand) - 1) - (Len(Compress(dict, cand)) + 1)

Admissible(tier, dict, cand) ==
  /\ cand \notin Expansions(dict) \cup Raws(tier)
  /\ CompressedLen(dict, cand, Raws(tier)) > 1
  /\ Cardinality(Users(pstats, cand)) >= IF Len(cand) = 2 THEN 3 ELSE 2
  /\ Len(Compress(dict, cand)) > 1
  /\ ProvisionalSaving(dict, cand) >= 0

Score(dict, cand) ==
  ProvisionalSaving(dict, cand) * 32 + Cardinality(Users(pstats, cand)) * 8 + Len(cand) * 4

(* (Mutant: the capacity test is off by one.)                              *)
AdmittableOverCap(tier, dict) ==
  LET admissible == {c \in pending_touched_p : Admissible(tier, dict, c)}
  IN  IF Cardinality(DOMAIN tier) > ProvisionalCap THEN {}
      ELSE {c \in admissible : \A d \in admissible : Score(dict, d) <= Score(dict, c)}

(* The candidates admit may take: those of the best score, none when the   *)
(* tier is full.                                                           *)
Admittable(tier, dict) ==
  LET admissible == {c \in pending_touched_p : Admissible(tier, dict, c)}
  IN  IF Cardinality(DOMAIN tier) >= ProvisionalCap THEN {}
      ELSE {c \in admissible : \A d \in admissible : Score(dict, d) <= Score(dict, c)}

Born(cand) ==
  [raw |-> cand, birth_tasks |-> Users(pstats, cand), last_transfer_step |-> struct_step]

Fresh(word) == struct_step < word.last_transfer_step + Grace

(* (Mutant: a word lives one step beyond its grace.)                       *)
ExpireLate(tier) ==
  LET kept == RestrictDomain(tier, LAMBDA n : struct_step <= tier[n].last_transfer_step + Grace)
  IN  /\ provisional' = kept
      /\ expired_total' = expired_total + Cardinality(DOMAIN tier \ DOMAIN kept)

(* expire runs last, on the tier admission leaves.                         *)
Expire(tier) ==
  LET kept == RestrictDomain(tier, LAMBDA n : Fresh(tier[n]))
  IN  /\ provisional' = kept
      /\ expired_total' = expired_total + Cardinality(DOMAIN tier \ DOMAIN kept)

(* (Mutant: the flag stays up.)                                            *)
ConsolidateKeepsFlag ==
  /\ pending_consolidation
  /\ derived' \in MaybeGrowLocalized
  /\ Expire(RemoveCommittedEquivalents(provisional, derived'))
  /\ UNCHANGED <<memoryVars, pstats, struct_step, metrics, pcounter, admitted_total,
                 pending_touched, pending_touched_p, pending_consolidation>>

ConsolidatePending ==
  /\ pending_consolidation
  /\ derived' \in MaybeGrowLocalized
  /\ LET tier == RemoveCommittedEquivalents(provisional, derived')
         best == Admittable(tier, derived')
     IN  \/ /\ best = {}
            /\ Expire(tier)
            /\ UNCHANGED <<pcounter, admitted_total>>
         \/ \E cand \in best :
              /\ Expire(Put(tier, pcounter + 1, Born(cand)))
              /\ pcounter' = pcounter + 1
              /\ admitted_total' = admitted_total + 1
  /\ pending_touched' = {}
  /\ pending_touched_p' = {}
  /\ pending_consolidation' = FALSE
  /\ UNCHANGED <<memoryVars, pstats, struct_step, metrics>>

Next == ConsolidatePending \/ \E ep \in Episode : Plan(ep)

(* The maintenance thread wakes up for ever and the daemon's mutex lets it *)
(* in; that one consolidation is a single step is what the mutex is for.   *)
Spec == Init /\ [][Next]_vars
FairSpec == Spec /\ WF_vars(ConsolidatePending)

----------------------------------------------------------------------------
(* Scoring only the users of a queued candidate gives the gain over the    *)
(* whole corpus, although tasks may have been planned again, with other    *)
(* sequences, since the candidate was queued (hybrid.rs:225-227).          *)
LocalizedIsExact ==
  \A c \in pending_touched :
    Eligible(subseq_users, c) => LocalizedGain(c) = Gain(history, c, DOMAIN history)

(* The provisional tier holds no more words than its capacity, no two      *)
(* words for one sequence, and no word for a sequence that already has a   *)
(* permanent one.  Code: three operations add to and drop from the tier    *)
(* in one consolidation, each on what the last one left                    *)
(* (hybrid.rs:165-223, 284-296).                                           *)
TierSound ==
  /\ Cardinality(DOMAIN provisional) <= ProvisionalCap
  /\ \A m, n \in DOMAIN provisional : provisional[m].raw = provisional[n].raw => m = n
  /\ Raws(provisional) \cap Expansions(derived) = {}

(* With nothing queued, every provisional word is within its grace period: *)
(* the step that ages the words is the step that queues the consolidation  *)
(* that expires them (hybrid.rs:204-212, 331-337).                         *)
QuietTierIsFresh ==
  ~pending_consolidation => \A n \in DOMAIN provisional : Fresh(provisional[n])

(* The tokens of the history and of the vocabulary that encodes it.        *)
DescriptionLength(dict) ==
  SumFunction([t \in DOMAIN history |-> Len(Compress(dict, history[t]))])
    + SumFunction([w \in DOMAIN dict |-> Len(dict[w]) + 1])

(* No queued candidate has the name of a word in it, and no definition the *)
(* name of a word that is still to come: no caller wrote "d001" in `ops`.  *)
WordNamesFree ==
  /\ \A c \in pending_touched : Range(c) \cap Nat = {}
  /\ \A w \in DOMAIN derived : Range(derived[w]) \cap Nat \subseteq DOMAIN derived

(* A permanent word learned by a deferred consolidation, which scores a    *)
(* candidate on its users alone, shortens the whole corpus, as it is then, *)
(* by MdlThreshold tokens net of its definition, if it reduces to          *)
(* capabilities.  Nothing keeps callers from using foreign names: a word   *)
(* with one in it never reduces and never pays, and one for a sequence     *)
(* that has the name of a word in it stands for something else             *)
(* (planner.rs:79-83 for the rule, hybrid.rs:225-278).                     *)
DeferredGrowthPays ==
  [][/\ derived' # derived /\ WordNamesFree
     /\ Expand(derived', Len(derived')) # NoExpansion
     => DescriptionLength(derived') + MdlThreshold <= DescriptionLength(derived)]_vars

(* Only a consolidation takes candidates off the queue: "Apply any         *)
(* vocabulary maintenance queued up by episodes planned since the last     *)
(* call" (hybrid.rs:280-281).                                              *)
EvidenceKept ==
  [][pending_consolidation' => pending_touched \subseteq pending_touched']_vars
=============================================================================
