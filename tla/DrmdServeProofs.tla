-------------------------- MODULE DrmdServeProofs --------------------------
(***************************************************************************)
(* Theorems about `drmd serve` and the planner it holds.                   *)
(*                                                                         *)
(* HybridPlanner's memory is DrmPlanner's, so its theorems come from       *)
(* PlannerMemoryProofs; the provisional tier has an inductive invariant of *)
(* its own, for every capacity, grace and stream, whose proof never looks  *)
(* inside Compress, Expand or the scores.  That rescoring the users of a   *)
(* candidate is rescoring the corpus, and that deferred growth is growth,  *)
(* rest on VocabularyProofs as well.                                       *)
(*                                                                         *)
(* Then mutual exclusion in the daemon, for any number of connections, and *)
(* what the handlers may rely on because of it.                            *)
(***************************************************************************)
EXTENDS DrmdServe, PlannerMemoryProofs

----------------------------------------------------------------------------
(* The provisional tier.                                                   *)

(* The tier is numbered by its counter, and no word is younger than the    *)
(* clock of structural steps.                                              *)
TierNumbered ==
  /\ IsFiniteSet(DOMAIN provisional)
  /\ DOMAIN provisional \subseteq 1..pcounter
  /\ {pcounter, struct_step} \subseteq Nat

TierInv == TierNumbered /\ TierSound /\ QuietTierIsFresh

----------------------------------------------------------------------------
(* The tier that removing committed equivalents leaves: a part of the old  *)
(* one, apart from the permanent words.                                    *)
LEMMA RemovalLeaves ==
  ASSUME NEW tier, NEW dict
  PROVE  LET left == RemoveCommittedEquivalents(tier, dict)
         IN  /\ DOMAIN left \subseteq DOMAIN tier
             /\ \A n \in DOMAIN left : left[n] = tier[n]
             /\ Raws(left) \cap Expansions(dict) = {}
BY DEF RemoveCommittedEquivalents, RestrictDomain, Restrict, Raws

(* The tier that expiry leaves: the fresh part of what it found.           *)
LEMMA ExpiryLeaves ==
  ASSUME NEW tier, Expire(tier)
  PROVE  /\ DOMAIN provisional' = {n \in DOMAIN tier : Fresh(tier[n])}
         /\ \A n \in DOMAIN provisional' : provisional'[n] = tier[n]
BY DEF Expire, RestrictDomain, Restrict

(* An admissible candidate is no word of either tier yet.                  *)
LEMMA AdmittedIsNew ==
  ASSUME NEW tier, NEW dict, NEW cand \in Admittable(tier, dict)
  PROVE  /\ cand \notin Expansions(dict) \cup Raws(tier)
         /\ ~(Cardinality(DOMAIN tier) >= ProvisionalCap)
<1>1. ~(Cardinality(DOMAIN tier) >= ProvisionalCap)
  BY DEF Admittable
<1>2. Admissible(tier, dict, cand)
  BY DEF Admittable
<1>3. cand \notin Expansions(dict) \cup Raws(tier)
  BY <1>2 DEF Admissible
<1>4. QED
  BY <1>1, <1>3

----------------------------------------------------------------------------
(* The three operations of a consolidation, one after the other.           *)

(* A tier as the consolidation holds it between two of its operations.     *)
Sound(tier, dict, counter) ==
  /\ IsFiniteSet(DOMAIN tier)
  /\ DOMAIN tier \subseteq 1..counter
  /\ Cardinality(DOMAIN tier) <= ProvisionalCap
  /\ \A m, n \in DOMAIN tier : tier[m].raw = tier[n].raw => m = n
  /\ Raws(tier) \cap Expansions(dict) = {}

LEMMA RemovalIsSound ==
  ASSUME TierInv, NEW dict
  PROVE  Sound(RemoveCommittedEquivalents(provisional, dict), dict, pcounter)
<1> DEFINE left == RemoveCommittedEquivalents(provisional, dict)
<1>1. /\ DOMAIN left \subseteq DOMAIN provisional
      /\ \A n \in DOMAIN left : left[n] = provisional[n]
      /\ Raws(left) \cap Expansions(dict) = {}
  BY RemovalLeaves
<1> HIDE DEF left
<1>2. IsFiniteSet(DOMAIN left) /\ Cardinality(DOMAIN left) <= Cardinality(DOMAIN provisional)
  BY <1>1, FS_Subset DEF TierInv, TierNumbered
<1>3. Cardinality(DOMAIN left) \in Nat /\ Cardinality(DOMAIN provisional) \in Nat
  BY <1>2, FS_CardinalityType DEF TierInv, TierNumbered
<1>4. Sound(left, dict, pcounter)
  BY <1>1, <1>2, <1>3, TierAssumption DEF Sound, TierInv, TierNumbered, TierSound
<1>5. QED
  BY <1>4 DEF left

LEMMA AdmissionIsSound ==
  ASSUME NEW tier, NEW dict, pcounter \in Nat, Sound(tier, dict, pcounter),
         NEW cand \in Admittable(tier, dict)
  PROVE  Sound(Put(tier, pcounter + 1, Born(cand)), dict, pcounter + 1)
<1> DEFINE n == pcounter + 1
           more == Put(tier, n, Born(cand))
<1>1. cand \notin Expansions(dict) \cup Raws(tier) /\ ~(Cardinality(DOMAIN tier) >= ProvisionalCap)
  BY AdmittedIsNew
<1>2. /\ DOMAIN more = DOMAIN tier \cup {n}
      /\ n \notin DOMAIN tier
      /\ more[n].raw = cand
      /\ \A m \in DOMAIN tier : more[m] = tier[m]
  BY DEF Put, Born, Sound
<1> HIDE DEF more
<1>3. IsFiniteSet(DOMAIN more) /\ Cardinality(DOMAIN more) = Cardinality(DOMAIN tier) + 1
  BY <1>2, FS_AddElement DEF Sound
<1>4. Cardinality(DOMAIN more) <= ProvisionalCap
  <2>1. Cardinality(DOMAIN tier) \in Nat
    BY FS_CardinalityType DEF Sound
  <2>2. QED
    BY <1>1, <1>3, <2>1, TierAssumption
<1>5. \A l, m \in DOMAIN more : more[l].raw = more[m].raw => l = m
  <2>1. \A m \in DOMAIN tier : more[m].raw # cand
    BY <1>1, <1>2 DEF Raws
  <2>2. QED
    BY <1>2, <2>1 DEF Sound
<1>6. Raws(more) \cap Expansions(dict) = {}
  BY <1>1, <1>2 DEF Raws, Sound
<1>7. DOMAIN more \subseteq 1..(pcounter + 1)
  BY <1>2 DEF Sound
<1>8. Sound(more, dict, pcounter + 1)
  BY <1>3, <1>4, <1>5, <1>6, <1>7 DEF Sound
<1>9. QED
  BY <1>8 DEF more

LEMMA ExpiryIsSound ==
  ASSUME NEW tier, Expire(tier), Sound(tier, derived', pcounter'),
         pcounter' \in Nat, struct_step \in Nat, struct_step' = struct_step
  PROVE  TierInv'
<1>1. /\ DOMAIN provisional' = {n \in DOMAIN tier : Fresh(tier[n])}
      /\ \A n \in DOMAIN provisional' : provisional'[n] = tier[n]
  BY ExpiryLeaves
<1>2. IsFiniteSet(DOMAIN provisional') /\ Cardinality(DOMAIN provisional') <= Cardinality(DOMAIN tier)
  BY <1>1, FS_Subset DEF Sound
<1>3. Cardinality(DOMAIN provisional') \in Nat /\ Cardinality(DOMAIN tier) \in Nat
  BY <1>2, FS_CardinalityType DEF Sound
<1>4. TierNumbered'
  BY <1>1, <1>2 DEF TierNumbered, Sound
<1>5. TierSound'
  <2>1. Cardinality(DOMAIN provisional') <= ProvisionalCap
    BY <1>2, <1>3, TierAssumption DEF Sound
  <2>2. \A m, n \in DOMAIN provisional' : provisional'[m].raw = provisional'[n].raw => m = n
    BY <1>1 DEF Sound
  <2>3. Raws(provisional') \cap Expansions(derived') = {}
    BY <1>1 DEF Sound, Raws
  <2>4. QED
    BY <2>1, <2>2, <2>3 DEF TierSound
<1>6. QuietTierIsFresh'
  BY <1>1 DEF QuietTierIsFresh, Fresh
<1>7. QED
  BY <1>4, <1>5, <1>6 DEF TierInv

----------------------------------------------------------------------------
(* The actions.                                                            *)

LEMMA PlanKeepsTier ==
  ASSUME TierInv, NEW ep \in Episode, Plan(ep)
  PROVE  TierInv'
<1>1. CASE NewEvidence(ep)
  <2>1. /\ DOMAIN provisional' = DOMAIN provisional
        /\ \A n \in DOMAIN provisional : provisional'[n].raw = provisional[n].raw
    <3>1. provisional' = UpdateTransfer(ep, struct_step + 1)
      BY <1>1 DEF Plan
    <3>2. QED
      BY <3>1 DEF UpdateTransfer
  <2>2. derived' = derived /\ pcounter' = pcounter /\ struct_step' = struct_step + 1
    BY <1>1 DEF Plan
  <2>3. TierNumbered'
    BY <2>1, <2>2 DEF TierInv, TierNumbered
  <2>4. TierSound'
    BY <2>1, <2>2 DEF TierInv, TierSound, Raws
  <2>5. pending_consolidation'
    BY <1>1 DEF Plan
  <2>6. QED
    BY <2>3, <2>4, <2>5 DEF TierInv, QuietTierIsFresh
<1>2. CASE ~NewEvidence(ep)
  <2>1. UNCHANGED <<struct_step, provisional, pending_consolidation, derived, pcounter>>
    BY <1>2 DEF Plan, pendingVars
  <2>2. QED
    BY <2>1 DEF TierInv, TierNumbered, TierSound, QuietTierIsFresh, Fresh, Raws
<1>3. QED
  BY <1>1, <1>2

LEMMA ConsolidationKeepsTier ==
  ASSUME TierInv, ConsolidatePending
  PROVE  TierInv'
<1> DEFINE tier == RemoveCommittedEquivalents(provisional, derived')
           best == Admittable(tier, derived')
<1>1. Sound(tier, derived', pcounter)
  BY RemovalIsSound
<1>2. pcounter \in Nat /\ struct_step \in Nat /\ struct_step' = struct_step
  BY DEF TierInv, TierNumbered, ConsolidatePending
<1>3. \/ Expire(tier) /\ pcounter' = pcounter
      \/ \E cand \in best :
           Expire(Put(tier, pcounter + 1, Born(cand))) /\ pcounter' = pcounter + 1
  BY DEF ConsolidatePending
<1> HIDE DEF tier
<1>4. CASE Expire(tier) /\ pcounter' = pcounter
  BY <1>1, <1>2, <1>4, ExpiryIsSound
<1>5. CASE \E cand \in best :
             Expire(Put(tier, pcounter + 1, Born(cand))) /\ pcounter' = pcounter + 1
  <2>1. PICK cand \in best :
          Expire(Put(tier, pcounter + 1, Born(cand))) /\ pcounter' = pcounter + 1
    BY <1>5
  <2>2. Sound(Put(tier, pcounter + 1, Born(cand)), derived', pcounter')
    BY <1>1, <1>2, <2>1, AdmissionIsSound
  <2>3. QED
    BY <1>2, <2>1, <2>2, ExpiryIsSound
<1>6. QED
  BY <1>3, <1>4, <1>5

LEMMA StepKeepsBoth ==
  ASSUME MemoryInv, TierInv, [Next]_vars
  PROVE  MemoryInv' /\ TierInv'
<1>1. ASSUME NEW ep \in Episode, Plan(ep)
      PROVE  MemoryInv' /\ TierInv'
  <2>1. Remember(ep)
    BY <1>1 DEF Plan
  <2>2. QED
    BY <1>1, <2>1, RememberKeeps, PlanKeepsTier
<1>2. CASE ConsolidatePending
  <2>1. UNCHANGED memoryVars
    BY <1>2 DEF ConsolidatePending
  <2>2. QED
    BY <1>2, <2>1, MemoryUntouched, ConsolidationKeepsTier
<1>3. CASE UNCHANGED vars
  <2>1. UNCHANGED memoryVars
        /\ UNCHANGED <<struct_step, provisional, pending_consolidation, derived, pcounter>>
    BY <1>3 DEF vars, tierVars, pendingVars
  <2>2. QED
    BY <2>1, MemoryUntouched
    DEF TierInv, TierNumbered, TierSound, QuietTierIsFresh, Fresh, Raws
<1>4. QED
  BY <1>1, <1>2, <1>3 DEF Next

LEMMA BothAlways == Spec => [](MemoryInv /\ TierInv)
<1>1. Init => MemoryInv /\ TierInv
  <2>1. Init => MemoryInv
    BY MemoryInitially DEF Init
  <2>2. Init => TierInv
    <3>1. IsFiniteSet({}) /\ Cardinality({}) = 0
      BY FS_EmptySet
    <3>2. QED
      BY <3>1, TierAssumption
      DEF Init, TierInv, TierNumbered, TierSound, QuietTierIsFresh, Raws
  <2>3. QED
    BY <2>1, <2>2
<1>2. MemoryInv /\ TierInv /\ [Next]_vars => (MemoryInv /\ TierInv)'
  BY StepKeepsBoth
<1>3. QED
  BY <1>1, <1>2, PTL DEF Spec

----------------------------------------------------------------------------
(* The provisional tier is within its capacity, holds no sequence twice    *)
(* and none that has a permanent word, whenever the lock is free: the      *)
(* three operations of a consolidation leave each other what they need     *)
(* (hybrid.rs:165-223, 284-296).                                           *)
THEOREM TierStaysSound == Spec => []TierSound
<1>1. TierInv => TierSound
  BY DEF TierInv
<1>2. QED
  BY <1>1, BothAlways, PTL

(* A word past its grace is in the tier only while the consolidation that  *)
(* will expire it is queued (hybrid.rs:204-212, 331-337).                  *)
THEOREM StaleWordsAreQueued == Spec => []QuietTierIsFresh
<1>1. TierInv => QuietTierIsFresh
  BY DEF TierInv
<1>2. QED
  BY <1>1, BothAlways, PTL

(* What the history holds of a task is among the evidence, also when its   *)
(* consolidation never came: the premise of scoring a candidate over its   *)
(* users alone (hybrid.rs:225-227, 322-338).                               *)
THEOREM EvidenceIsComplete == Spec => []EvidenceComplete
<1>1. MemoryInv => EvidenceComplete
  BY DEF MemoryInv
<1>2. QED
  BY <1>1, BothAlways, PTL

(* Consolidations, whenever they come, never disturb the working set: the  *)
(* planner the daemon runs implements the abstract one too                 *)
(* (hybrid.rs:284-296, 350-356).                                           *)
THEOREM HybridKeepsTheWorkingSet == Spec => ImplementsWorkingSet
<1>1. Init => Recency!Init
  BY DEF Init, MemoryInit, Recency!Init
<1>2. MemoryInv /\ [Next]_vars => [Recency!Next]_Recency!vars
  <2> SUFFICES ASSUME MemoryInv, [Next]_vars
               PROVE  Recency!Next \/ UNCHANGED Recency!vars
    OBVIOUS
  <2>1. ASSUME NEW ep \in Episode, Plan(ep)
        PROVE  Recency!Next
    <3>1. Remember(ep)
      BY <2>1 DEF Plan
    <3>2. QED
      BY <3>1, RememberStores
  <2>2. CASE ConsolidatePending
    BY <2>2 DEF ConsolidatePending, memoryVars, Recency!vars
  <2>3. CASE UNCHANGED vars
    BY <2>3 DEF vars, memoryVars, Recency!vars
  <2>4. QED
    BY <2>1, <2>2, <2>3 DEF Next
<1>3. QED
  BY <1>1, <1>2, BothAlways, PTL DEF Spec, ImplementsWorkingSet, Recency!Spec
----------------------------------------------------------------------------
(* Localized scoring.                                                      *)

(* A task that is not among the users of a candidate holds no occurrence   *)
(* of it, so that the candidate saves it nothing.                          *)
LEMMA OthersSaveNothing ==
  ASSUME MemoryInv, NEW c, Len(c) \in 2..5,
         NEW t \in DOMAIN history \ Users(subseq_users, c)
  PROVE  CompressedLen(derived, history[t], {c}) = CompressedLen(derived, history[t], {})
<1>1. history[t] \in Seq(Symbol) /\ t \in Task
  BY ConstantsAssumption DEF MemoryInv, MemoryTypeOK
<1>2. c \notin Candidates(history[t])
  <2>1. <<c, t>> \notin subseq_users
    BY <1>1 DEF Users
  <2>2. QED
    BY <2>1 DEF MemoryInv, EvidenceComplete
<1>3. \A i \in 1..Len(history[t]) : ~OccursAt(c, history[t], i)
  BY <1>1, <1>2, CandidateIfOccurs
<1>4. Pieces(history[t], Expansions(derived) \cup {c}) = Pieces(history[t], Expansions(derived))
  BY <1>3, AbsentPattern
<1>5. Expansions(derived) \cup {} = Expansions(derived)
  OBVIOUS
<1>6. QED
  BY Zenon, <1>4, <1>5 DEF CompressedLen

LEMMA CompressedLenType ==
  ASSUME IsDictionary(derived), NEW s \in Seq(Symbol), NEW extra, extra \subseteq Seq(Symbol)
  PROVE  CompressedLen(derived, s, extra) \in Nat
<1>1. Expansions(derived) \cup extra \subseteq Seq(Symbol)
  BY AllExpansionsType, CapabilityIsSymbol
<1>2. Pieces(s, Expansions(derived) \cup extra) \in Seq(Seq(Symbol))
  BY <1>1, PiecesProperties
<1>3. PICK pieces : pieces = Pieces(s, Expansions(derived) \cup extra)
  OBVIOUS
<1>4. Len(pieces) \in Nat
  BY <1>2, <1>3
<1>5. QED
  BY Zenon, <1>3, <1>4 DEF CompressedLen

(* The gain over the users of a candidate is the gain over the corpus.     *)
LEMMA UsersSuffice ==
  ASSUME MemoryInv, IsDictionary(derived), NEW c \in Seq(Symbol), Len(c) \in 2..5
  PROVE  LocalizedGain(c) = Gain(history, c, DOMAIN history)
<1>1. PICK D, U : D = DOMAIN history /\ U = Users(subseq_users, c) \cap DOMAIN history
  OBVIOUS
<1>2. PICK f, g :
        /\ f = [t \in D |-> CompressedLen(derived, history[t], {})
                              - CompressedLen(derived, history[t], {c})]
        /\ g = [t \in U |-> CompressedLen(derived, history[t], {})
                              - CompressedLen(derived, history[t], {c})]
  OBVIOUS
<1>3. IsFiniteSet(D) /\ U \in SUBSET D /\ IsFiniteSet(U)
  BY <1>1, FS_Subset DEF MemoryInv
<1>4. \A t \in D : f[t] \in Int
  <2>1. SUFFICES ASSUME NEW t \in D PROVE f[t] \in Int
    OBVIOUS
  <2>2. history[t] \in Seq(Symbol)
    BY <1>1, ConstantsAssumption DEF MemoryInv, MemoryTypeOK
  <2>3. {} \subseteq Seq(Symbol) /\ {c} \subseteq Seq(Symbol)
    OBVIOUS
  <2>4. CompressedLen(derived, history[t], {}) \in Nat
    BY <2>2, <2>3, CompressedLenType
  <2>5. CompressedLen(derived, history[t], {c}) \in Nat
    BY <2>2, <2>3, CompressedLenType
  <2>6. f[t] = CompressedLen(derived, history[t], {}) - CompressedLen(derived, history[t], {c})
    BY <1>2
  <2>7. QED
    BY <2>4, <2>5, <2>6
<1>5. \A t \in D \ U : f[t] = 0
  <2>1. SUFFICES ASSUME NEW t \in D \ U PROVE f[t] = 0
    OBVIOUS
  <2>2. t \in DOMAIN history \ Users(subseq_users, c)
    BY <1>1
  <2>3. CompressedLen(derived, history[t], {c}) = CompressedLen(derived, history[t], {})
    BY <2>2, OthersSaveNothing
  <2>4. history[t] \in Seq(Symbol) /\ {} \subseteq Seq(Symbol)
    BY <1>1, ConstantsAssumption DEF MemoryInv, MemoryTypeOK
  <2>5. CompressedLen(derived, history[t], {}) \in Nat
    BY <2>4, CompressedLenType
  <2>6. f[t] = CompressedLen(derived, history[t], {}) - CompressedLen(derived, history[t], {c})
    BY <1>2
  <2>7. QED
    BY <2>3, <2>5, <2>6
<1>6. SumFunctionOnSet(f, D) = SumFunctionOnSet(f, U)
  BY <1>3, <1>4, <1>5, SumOfZeros
<1>7. SumFunctionOnSet(f, U) = SumFunctionOnSet(g, U)
  <2>1. \A t \in U : f[t] \in Int /\ g[t] = f[t]
    BY <1>2, <1>3, <1>4
  <2>2. QED
    BY <1>3, <2>1, SumOfSame
<1>8. Saving(history, c, D) = SumFunctionOnSet(f, D) /\ Saving(history, c, U) = SumFunctionOnSet(g, U)
  <2>1. DOMAIN f = D /\ DOMAIN g = U
    BY <1>2
  <2>2. QED
    BY Zenon, <1>2, <2>1 DEF Saving, SumFunction
<1>9. QED
  BY Zenon, <1>1, <1>6, <1>7, <1>8 DEF LocalizedGain, Gain

----------------------------------------------------------------------------
(* The permanent vocabulary.                                               *)

(* What is queued comes from sequences that were planned, and definitions  *)
(* are sequences of symbols.                                               *)
QueueInv ==
  /\ IsDictionary(derived)
  /\ \A c \in pending_touched : \E text \in Ops : c \in Candidates(text)

LEMMA QueuedType ==
  ASSUME QueueInv, NEW c \in pending_touched
  PROVE  c \in Seq(Symbol) /\ Len(c) \in 2..5 /\ c # <<>>
<1>1. PICK text \in Ops : c \in Candidates(text)
  BY DEF QueueInv
<1>2. text \in Seq(Symbol)
  BY ConstantsAssumption
<1>3. QED
  BY <1>1, <1>2, CandidateProperties

(* A consolidation learns at most one of the queued candidates, one that   *)
(* is worth it on the whole corpus.                                        *)
LEMMA ConsolidationGrows ==
  ASSUME MemoryInv, QueueInv, ConsolidatePending
  PROVE  \/ derived' = derived
         \/ \E c \in pending_touched :
              /\ c \notin Expansions(derived)
              /\ Gain(history, c, DOMAIN history) >= MdlThreshold
              /\ derived' = Append(derived, Compress(derived, c))
<1> DEFINE gain == [c \in pending_touched |-> LocalizedGain(c)]
<1>1. derived' \in Grown(subseq_users, gain)
  BY DEF ConsolidatePending, MaybeGrowLocalized
<1>2. \A c \in pending_touched : LocalizedGain(c) = Gain(history, c, DOMAIN history)
  <2>1. SUFFICES ASSUME NEW c \in pending_touched
                 PROVE  LocalizedGain(c) = Gain(history, c, DOMAIN history)
    OBVIOUS
  <2>2. c \in Seq(Symbol) /\ Len(c) \in 2..5
    BY QueuedType
  <2>3. IsDictionary(derived)
    BY DEF QueueInv
  <2>4. QED
    BY <2>2, <2>3, UsersSuffice
<1>3. /\ DOMAIN gain = pending_touched
      /\ \A c \in pending_touched : gain[c] = Gain(history, c, DOMAIN history)
  BY <1>2
<1> HIDE DEF gain
<1>4. \/ derived' = derived
      \/ \E c \in DOMAIN gain : /\ Eligible(subseq_users, c)
                                /\ gain[c] >= MdlThreshold
                                /\ derived' = Append(derived, Compress(derived, c))
  BY <1>1, GrownIs
<1>5. \A c : Eligible(subseq_users, c) => c \notin Expansions(derived)
  BY DEF Eligible
<1>6. QED
  BY Zenon, <1>3, <1>4, <1>5

LEMMA StepKeepsQueue ==
  ASSUME MemoryInv, QueueInv, [Next]_vars
  PROVE  QueueInv'
<1>1. ASSUME NEW ep \in Episode, Plan(ep)
      PROVE  QueueInv'
  <2>1. derived' = derived /\ ep.ops \in Ops
        /\ (pending_touched' = Candidates(ep.ops) \/ pending_touched' = pending_touched)
    BY <1>1 DEF Plan, pendingVars, Episode
  <2>2. QED
    BY <2>1 DEF QueueInv
<1>2. CASE ConsolidatePending
  <2>1. pending_touched' = {}
    BY <1>2 DEF ConsolidatePending
  <2>2. IsDictionary(derived')
    <3>1. CASE derived' = derived
      BY <3>1 DEF QueueInv
    <3>2. CASE \E c \in pending_touched : derived' = Append(derived, Compress(derived, c))
      <4>1. PICK c \in pending_touched : derived' = Append(derived, Compress(derived, c))
        BY <3>2
      <4>2. Compress(derived, c) \in Seq(Symbol) /\ derived \in Seq(Seq(Symbol))
        <5>1. c \in Seq(Symbol) /\ IsDictionary(derived)
          BY QueuedType DEF QueueInv
        <5>2. QED
          BY <5>1, CompressType DEF IsDictionary
      <4>3. QED
        BY <4>1, <4>2 DEF IsDictionary
    <3>3. QED
      BY <1>2, <3>1, <3>2, ConsolidationGrows
  <2>3. QED
    BY <2>1, <2>2 DEF QueueInv
<1>3. CASE UNCHANGED vars
  BY <1>3 DEF vars, pendingVars, QueueInv
<1>4. QED
  BY <1>1, <1>2, <1>3 DEF Next

LEMMA QueueAlways == Spec => [](MemoryInv /\ QueueInv)
<1>1. Init => QueueInv
  BY DEF Init, MemoryInit, QueueInv, IsDictionary
<1>2. MemoryInv /\ QueueInv /\ [Next]_vars => QueueInv'
  BY StepKeepsQueue
<1>3. QED
  BY <1>1, <1>2, BothAlways, PTL DEF Spec

(* Scoring a queued candidate over its users alone is scoring it over the  *)
(* corpus, whatever was planned since it was queued: a task that is not    *)
(* among the users holds no occurrence of it (hybrid.rs:225-227).          *)
THEOREM LocalizedScoringIsExact == Spec => []LocalizedIsExact
<1>1. MemoryInv /\ QueueInv => LocalizedIsExact
  <2>1. SUFFICES ASSUME MemoryInv, QueueInv, NEW c \in pending_touched
                 PROVE  LocalizedGain(c) = Gain(history, c, DOMAIN history)
    BY DEF LocalizedIsExact
  <2>2. c \in Seq(Symbol) /\ Len(c) \in 2..5
    BY <2>1, QueuedType
  <2>3. IsDictionary(derived)
    BY <2>1 DEF QueueInv
  <2>4. QED
    BY <2>1, <2>2, <2>3, UsersSuffice
<1>2. QED
  BY <1>1, QueueAlways, PTL

(* Plans never touch the permanent vocabulary, and a deferred              *)
(* consolidation grows it as the abstract one grows                        *)
(* (hybrid.rs:225-278, 284-296).                                           *)
THEOREM HybridGrowsTheVocabulary == Spec => ImplementsVocabularyGrowth
<1>1. Init => Growth!GrowthInit
  BY DEF Init, MemoryInit, Growth!GrowthInit
<1>2. MemoryInv /\ QueueInv /\ [Next]_vars => [Growth!GrowthNext]_derived
  <2> SUFFICES ASSUME MemoryInv, QueueInv, [Next]_vars
               PROVE  Growth!GrowthNext \/ UNCHANGED derived
    OBVIOUS
  <2>1. CASE ConsolidatePending
    <3>1. CASE derived' = derived
      BY <3>1
    <3>2. CASE \E c \in pending_touched :
                  c \notin Expansions(derived) /\ derived' = Append(derived, Compress(derived, c))
      <4>1. PICK c \in pending_touched :
              c \notin Expansions(derived) /\ derived' = Append(derived, Compress(derived, c))
        BY <3>2
      <4>2. PICK text \in Ops : c \in Candidates(text)
        BY DEF QueueInv
      <4>3. Growth!Learn(c)
        BY <4>1, SameVocabulary DEF Growth!Learn
      <4>4. QED
        BY <4>2, <4>3, SameVocabulary DEF Growth!GrowthNext
    <3>3. QED
      BY <2>1, <3>1, <3>2, ConsolidationGrows
  <2>2. ASSUME NEW ep \in Episode, Plan(ep)
        PROVE  UNCHANGED derived
    BY <2>2 DEF Plan
  <2>3. CASE UNCHANGED vars
    BY <2>3 DEF vars
  <2>4. QED
    BY <2>1, <2>2, <2>3 DEF Next
<1>3. QED
  BY <1>1, <1>2, QueueAlways, PTL DEF Spec, ImplementsVocabularyGrowth, Growth!GrowthSpec

(* What a consolidation learns when no name of a word is in the way: a     *)
(* word that stands for its candidate, if it stands for anything.          *)
LEMMA LearnedStandsForIt ==
  ASSUME QueueInv, WordNamesFree, NEW c \in pending_touched,
         NEW grown, grown = Append(derived, Compress(derived, c)),
         Expand(grown, Len(grown)) # NoExpansion
  PROVE  Expansions(grown) = Expansions(derived) \cup {c}
<1>1. c \in Seq(Symbol) /\ c # <<>> /\ Range(c) \cap Nat = {}
  <2>1. c \in Seq(Symbol) /\ c # <<>>
    BY QueuedType
  <2>2. Range(c) \cap Nat = {}
    BY Zenon DEF WordNamesFree
  <2>3. QED
    BY <2>1, <2>2
<1>2. IsDictionary(derived)
  BY DEF QueueInv
<1>3. \A w \in DOMAIN derived : Len(derived) + 1 \notin Range(derived[w])
  <2>1. Len(derived) + 1 \in Nat /\ Len(derived) + 1 \notin DOMAIN derived
    BY <1>2 DEF IsDictionary
  <2>2. QED
    BY <2>1 DEF WordNamesFree
<1>4. /\ Expand(grown, Len(grown)) \in {NoExpansion, c}
      /\ Expand(grown, Len(grown)) = c => Expansions(grown) = Expansions(derived) \cup {c}
  BY <1>1, <1>2, <1>3, LearningPlain
<1>5. QED
  BY <1>4

(* A permanent word learned by a deferred consolidation that scored some   *)
(* of the tasks shortens the whole corpus with its dictionary, as they are *)
(* when it comes, by MdlThreshold tokens at least, whatever names callers  *)
(* use: the word has to reduce to capabilities, and the name of no word    *)
(* may stand in what is queued or ahead of its time in a definition        *)
(* (hybrid.rs:225-278).                                                    *)
THEOREM DeferredGrowthPaysOff == Spec => DeferredGrowthPays
<1> DEFINE Learns == /\ derived' # derived /\ WordNamesFree
                     /\ Expand(derived', Len(derived')) # NoExpansion
           Pays == DescriptionLength(derived') + MdlThreshold <= DescriptionLength(derived)
           DL(dict, hist) ==
             SumFunction([t \in DOMAIN hist |-> Len(Compress(dict, hist[t]))])
               + SumFunction([w \in DOMAIN dict |-> Len(dict[w]) + 1])
<1>1. ASSUME MemoryInv, QueueInv, ConsolidatePending, Learns
      PROVE  Pays
  <2>1. PICK c \in pending_touched :
          /\ Gain(history, c, DOMAIN history) >= MdlThreshold
          /\ derived' = Append(derived, Compress(derived, c))
    BY <1>1, ConsolidationGrows
  <2>2. c \in Seq(Symbol) /\ IsDictionary(derived)
    BY <1>1, QueuedType DEF QueueInv
  <2>3. IsFiniteSet(DOMAIN history) /\ \A t \in DOMAIN history : history[t] \in Seq(Symbol)
    BY <1>1, ConstantsAssumption DEF MemoryInv, MemoryTypeOK
  <2>4. PICK grown : grown = derived'
    OBVIOUS
  <2>5. grown = Append(derived, Compress(derived, c)) /\ Expand(grown, Len(grown)) # NoExpansion
    BY Zenon, <1>1, <2>1, <2>4
  <2>6. Expansions(grown) = Expansions(derived) \cup {c}
    BY <1>1, <2>5, LearnedStandsForIt
  <2>7. DL(grown, history) + MdlThreshold <= DL(derived, history)
    BY <2>1, <2>2, <2>3, <2>5, <2>6, GrowthPays
  <2>8. DescriptionLength(grown) + MdlThreshold <= DescriptionLength(derived)
    BY Zenon, <2>7 DEF DescriptionLength
  <2>9. QED
    BY Zenon, <2>4, <2>8
<1>2. MemoryInv /\ QueueInv /\ [Next]_vars => [Learns => Pays]_vars
  <2>1. ASSUME NEW ep \in Episode, Plan(ep)
        PROVE  derived' = derived
    BY <2>1 DEF Plan
  <2> HIDE DEF Pays
  <2>2. QED
    BY <1>1, <2>1 DEF Next
<1>3. QED
  BY <1>2, QueueAlways, PTL DEF Spec, DeferredGrowthPays

----------------------------------------------------------------------------
(* The daemon: the mutex.                                                  *)

(* The domains the steps update.                                           *)
Shape ==
  /\ DOMAIN conn = Client /\ DOMAIN request = Client /\ DOMAIN reply = Client
  /\ maintenance \in {"asleep", "waiting", "locked"}

MutexInv == Shape /\ MutexHeld

LEMMA NamesDiffer == Nobody # Maintainer /\ Nobody \notin Client /\ Maintainer \notin Client
BY ClientAssumption DEF Nobody, Maintainer

LEMMA MutexInit == ServeInit => MutexInv
BY NamesDiffer DEF ServeInit, MutexInv, Shape, MutexHeld

LEMMA MutexStep == MutexInv /\ [ServeNext]_allVars => MutexInv'
<1> SUFFICES ASSUME MutexInv, [ServeNext]_allVars
             PROVE  MutexInv'
  OBVIOUS
<1> USE NamesDiffer DEF MutexInv, Shape, MutexHeld
<1>1. ASSUME NEW c \in Client, Connect(c) \/ HangUp(c)
      PROVE  MutexInv'
  BY <1>1 DEF Connect, HangUp
<1>2. ASSUME NEW c \in Client, NEW r \in Requests, ReadLine(c, r)
      PROVE  MutexInv'
  BY <1>2 DEF ReadLine
<1>3. ASSUME NEW c \in Client, Lock(c)
      PROVE  MutexInv'
  BY <1>3 DEF Lock
<1>4. ASSUME NEW c \in Client, Status(c)
      PROVE  MutexInv'
  BY <1>4 DEF Status, Respond
<1>5. ASSUME NEW c \in Client, Malformed(c)
      PROVE  MutexInv'
  BY <1>5 DEF Malformed, Respond
<1>6. ASSUME NEW c \in Client, PlanEpisode(c)
      PROVE  MutexInv'
  BY <1>6 DEF PlanEpisode
<1>7. ASSUME NEW c \in Client, ExecuteEpisode(c)
      PROVE  MutexInv'
  BY <1>7 DEF ExecuteEpisode, Respond
<1>8. ASSUME NEW c \in Client, Answer(c)
      PROVE  MutexInv'
  BY <1>8 DEF Answer
<1>9. CASE Wake
  BY <1>9 DEF Wake
<1>10. CASE MaintenanceLock
  BY <1>10 DEF MaintenanceLock
<1>11. CASE Consolidate
  BY <1>11 DEF Consolidate
<1>12. CASE UNCHANGED allVars
  BY <1>12 DEF allVars, serveVars
<1>13. QED
  BY <1>1, <1>2, <1>3, <1>4, <1>5, <1>6, <1>7, <1>8, <1>9, <1>10, <1>11, <1>12
  DEF ServeNext, Work

(* At most one thread is between lock and unlock, whatever the number of   *)
(* connections and however their steps interleave with maintenance         *)
(* (serve.rs:6-14, 67-72, 109-123).                                        *)
THEOREM Mutex == ServeSpec => []MutexHeld
<1>1. MutexInv => MutexHeld
  BY DEF MutexInv
<1>2. QED
  BY <1>1, MutexInit, MutexStep, PTL DEF ServeSpec

----------------------------------------------------------------------------
(* What the critical section protects.                                     *)

(* Between planning and executing an episode a handler owns the planner.   *)
LEMMA PlannedOwns ==
  ASSUME MutexInv, NEW c \in Client, conn[c] = "planned"
  PROVE  /\ holder = c /\ maintenance # "locked"
         /\ \A d \in Client : conn[d] \in {"locked", "planned"} => d = c
BY NamesDiffer DEF MutexInv, MutexHeld

LEMMA LockedOwns ==
  ASSUME MutexInv, NEW c \in Client, conn[c] = "locked"
  PROVE  \A d \in Client : conn[d] # "planned"
BY NamesDiffer DEF MutexInv, MutexHeld

(* The steps that leave the planner, the count and who has planned alone.  *)
Aside ==
  /\ UNCHANGED <<planner, episodes_planned>>
  /\ \A c \in Client : conn'[c] = "planned" <=> conn[c] = "planned"

LEMMA Steps ==
  ASSUME MutexInv, [ServeNext]_allVars
  PROVE  \/ \E c \in Client : PlanEpisode(c) \/ ExecuteEpisode(c) \/ Status(c)
         \/ Consolidate
         \/ Aside /\ \A c \in Client : reply'[c] = reply[c] \/ reply'[c].kind = "error"
<1> DEFINE Quiet == Aside /\ \A c \in Client : reply'[c] = reply[c] \/ reply'[c].kind = "error"
<1> USE DEF MutexInv, Shape, Aside
<1>1. ASSUME NEW c \in Client, Connect(c) \/ HangUp(c) \/ Lock(c) \/ Answer(c)
      PROVE  Quiet
  BY <1>1 DEF Connect, HangUp, Lock, Answer
<1>2. ASSUME NEW c \in Client, NEW r \in Requests, ReadLine(c, r)
      PROVE  Quiet
  BY <1>2 DEF ReadLine
<1>3. ASSUME NEW c \in Client, Malformed(c)
      PROVE  Quiet
  BY <1>3 DEF Malformed, Respond
<1>4. CASE Wake \/ MaintenanceLock
  BY <1>4 DEF Wake, MaintenanceLock
<1>5. CASE UNCHANGED allVars
  BY <1>5 DEF allVars, serveVars
<1>6. QED
  BY <1>1, <1>2, <1>3, <1>4, <1>5 DEF ServeNext, Work

LEMMA MetricsStep ==
  ASSUME MutexInv, MetricsAreCurrent, [ServeNext]_allVars
  PROVE  MetricsAreCurrent'
<1>1. ASSUME NEW c \in Client, PlanEpisode(c)
      PROVE  MetricsAreCurrent'
  BY <1>1 DEF PlanEpisode, Plan, MetricsAreCurrent
<1>2. ASSUME NEW c \in Client, ExecuteEpisode(c) \/ Status(c)
      PROVE  MetricsAreCurrent'
  <2>1. UNCHANGED planner /\ \A d \in Client : conn'[d] = "planned" => conn[d] = "planned"
    BY <1>2 DEF ExecuteEpisode, Status, Respond, MutexInv, Shape
  <2>2. QED
    BY <2>1 DEF MetricsAreCurrent, planner, vars, memoryVars
<1>3. CASE Consolidate
  <2>1. \A c \in Client : conn'[c] # "planned"
    BY <1>3, PlannedOwns DEF Consolidate
  <2>2. QED
    BY <2>1 DEF MetricsAreCurrent
<1>4. CASE Aside
  BY <1>4 DEF Aside, MetricsAreCurrent, planner, vars, memoryVars
<1>5. QED
  BY <1>1, <1>2, <1>3, <1>4, Steps

(* The counts a response will report are still those of the planner when   *)
(* the execution ends, however long it takes (serve.rs:116-119).           *)
THEOREM MetricsStayCurrent == ServeSpec => []MetricsAreCurrent
<1>1. ServeInit => MetricsAreCurrent
  BY DEF ServeInit, MetricsAreCurrent
<1>2. MutexInv /\ MetricsAreCurrent /\ [ServeNext]_allVars => MetricsAreCurrent'
  BY MetricsStep
<1>3. QED
  BY <1>1, <1>2, MutexInit, MutexStep, PTL DEF ServeSpec

----------------------------------------------------------------------------
(* Every plan is counted: the versions are the episodes counted and the    *)
(* one that executes.  The tasks remembered are no more than the versions. *)
Counted ==
  /\ MemoryInv
  /\ \A c \in Client : request[c].line \in Submissions => request[c].ep \in Episode
  /\ Cardinality(DOMAIN history) <= version
  /\ episodes_planned \in Nat
  /\ version = episodes_planned + (IF \E c \in Client : conn[c] = "planned" THEN 1 ELSE 0)

LEMMA CountedInit == ServeInit => Counted
<1> SUFFICES ASSUME ServeInit PROVE Counted
  OBVIOUS
<1>1. MemoryInv
  BY MemoryInitially DEF ServeInit, Init
<1>2. Cardinality(DOMAIN history) = 0
  BY FS_EmptySet DEF ServeInit, Init, MemoryInit
<1>3. QED
  BY <1>1, <1>2 DEF ServeInit, Init, MemoryInit, Counted, Submissions

LEMMA RequestsStay ==
  ASSUME MutexInv, Counted, [ServeNext]_allVars
  PROVE  \A c \in Client : request'[c].line \in Submissions => request'[c].ep \in Episode
<1>1. ASSUME NEW c \in Client, NEW r \in Requests, ReadLine(c, r)
      PROVE  \A d \in Client : request'[d].line \in Submissions => request'[d].ep \in Episode
  BY <1>1 DEF ReadLine, Requests, Counted, MutexInv, Shape
<1>2. (\E c \in Client, r \in Requests : ReadLine(c, r)) \/ UNCHANGED request
  BY DEF ServeNext, Work, Connect, HangUp, Lock, Status, Malformed, PlanEpisode, ExecuteEpisode,
         Answer, Wake, MaintenanceLock, Consolidate, allVars, serveVars
<1>3. QED
  BY <1>1, <1>2 DEF Counted

LEMMA CountedStep ==
  ASSUME MutexInv, Counted, [ServeNext]_allVars
  PROVE  Counted'
<1> USE RequestsStay
<1>1. ASSUME NEW c \in Client, PlanEpisode(c)
      PROVE  Counted'
  <2>1. request[c].ep \in Episode /\ Remember(request[c].ep)
    BY <1>1 DEF PlanEpisode, Plan, Counted
  <2>2. MemoryInv'
    BY <2>1, RememberKeeps DEF Counted
  <2>3. version \in Nat /\ version' = version + 1
    BY <2>1 DEF Remember, Counted, MemoryInv, MemoryTypeOK
  <2>4. Cardinality(DOMAIN history') <= version'
    <3>1. DOMAIN history' = DOMAIN history \cup {request[c].ep.task}
      BY <2>1 DEF Remember, Put
    <3>2. IsFiniteSet(DOMAIN history)
      BY DEF Counted, MemoryInv
    <3>3. Cardinality(DOMAIN history) \in Nat
      BY <3>2, FS_CardinalityType
    <3>4. Cardinality(DOMAIN history') <= Cardinality(DOMAIN history) + 1
      <4> DEFINE tasks == DOMAIN history
      <4>1. Cardinality(tasks \cup {request[c].ep.task})
              = IF request[c].ep.task \in tasks THEN Cardinality(tasks) ELSE Cardinality(tasks) + 1
        BY <3>2, FS_AddElement
      <4> HIDE DEF tasks
      <4>2. Cardinality(tasks) \in Nat
        BY <3>3 DEF tasks
      <4>3. Cardinality(tasks \cup {request[c].ep.task}) <= Cardinality(tasks) + 1
        BY <4>1, <4>2
      <4>4. QED
        BY <3>1, <4>3 DEF tasks
    <3>5. Cardinality(DOMAIN history') \in Nat
      BY <2>2, FS_CardinalityType DEF MemoryInv
    <3>6. QED
      BY <2>3, <3>3, <3>4, <3>5 DEF Counted
  <2>5. version = episodes_planned
    BY <1>1, LockedOwns DEF PlanEpisode, Counted
  <2>6. conn'[c] = "planned" /\ episodes_planned' = episodes_planned
    BY <1>1 DEF PlanEpisode, MutexInv, Shape
  <2>7. QED
    BY <2>2, <2>3, <2>4, <2>5, <2>6 DEF Counted
<1>2. ASSUME NEW c \in Client, ExecuteEpisode(c)
      PROVE  Counted'
  <2>1. /\ UNCHANGED memoryVars
        /\ episodes_planned' = episodes_planned + 1
        /\ conn[c] = "planned"
        /\ conn' = [conn EXCEPT ![c] = "replying"]
    BY <1>2 DEF ExecuteEpisode, Respond, planner, vars
  <2>2. \A d \in Client : conn'[d] # "planned"
    BY <2>1, PlannedOwns DEF MutexInv, Shape
  <2>3. MemoryInv' /\ version' = version /\ history' = history
    BY <2>1, MemoryUntouched DEF Counted, memoryVars
  <2>4. version = episodes_planned + 1
    BY <2>1 DEF Counted
  <2>5. QED
    BY <2>1, <2>2, <2>3, <2>4 DEF Counted
<1>3. ASSUME UNCHANGED <<memoryVars, episodes_planned>>,
             \A c \in Client : conn'[c] = "planned" <=> conn[c] = "planned"
      PROVE  Counted'
  <2>1. MemoryInv' /\ version' = version /\ history' = history
    BY <1>3, MemoryUntouched DEF Counted, memoryVars
  <2>2. QED
    BY <1>3, <2>1 DEF Counted
<1>4. ASSUME NEW c \in Client, Status(c)
      PROVE  Counted'
  <2>1. /\ UNCHANGED <<memoryVars, episodes_planned>>
        /\ \A d \in Client : conn'[d] = "planned" <=> conn[d] = "planned"
    BY <1>4 DEF Status, Respond, MutexInv, Shape, planner, vars
  <2>2. QED
    BY <1>3, <2>1
<1>5. CASE Consolidate
  <2>1. UNCHANGED <<memoryVars, episodes_planned, conn>>
    BY <1>5 DEF Consolidate, ConsolidatePending, planner, vars
  <2>2. QED
    BY <1>3, <2>1
<1>6. CASE Aside
  <2>1. UNCHANGED memoryVars
    BY <1>6 DEF Aside, planner, vars
  <2>2. QED
    BY <1>3, <1>6, <2>1 DEF Aside
<1>7. QED
  BY <1>1, <1>2, <1>4, <1>5, <1>6, Steps

LEMMA StatusStep ==
  ASSUME MutexInv, Counted, StatusIsConsistent, [ServeNext]_allVars
  PROVE  StatusIsConsistent'
<1>1. ASSUME NEW c \in Client, Status(c)
      PROVE  StatusIsConsistent'
  <2>1. version = episodes_planned
    BY <1>1, LockedOwns DEF Status, Counted
  <2>2. IsFiniteSet(DOMAIN history) /\ DOMAIN active \subseteq DOMAIN history
    BY DEF Counted, MemoryInv, ActiveIsHistory
  <2>3. Cardinality(DOMAIN active) <= Cardinality(DOMAIN history)
    BY <2>2, FS_Subset
  <2>4. reply' = [reply EXCEPT ![c] = StatusResponse] /\ DOMAIN reply = Client
    BY <1>1 DEF Status, Respond, MutexInv, Shape
  <2>5. /\ StatusResponse.episodes_planned = StatusResponse.plans
        /\ StatusResponse.history_tasks <= StatusResponse.episodes_planned
        /\ StatusResponse.active_tasks <= StatusResponse.history_tasks
    BY <2>1, <2>3 DEF StatusResponse, Counted
  <2>6. QED
    BY <2>4, <2>5 DEF StatusIsConsistent
<1>2. ASSUME NEW c \in Client, PlanEpisode(c) \/ ExecuteEpisode(c)
      PROVE  StatusIsConsistent'
  <2>1. \A d \in Client : reply'[d] = reply[d] \/ reply'[d].kind = "submit"
    BY <1>2 DEF PlanEpisode, ExecuteEpisode, Respond, MutexInv, Shape
  <2>2. QED
    BY <2>1 DEF StatusIsConsistent
<1>3. CASE Consolidate
  BY <1>3 DEF Consolidate, StatusIsConsistent
<1>4. CASE \A c \in Client : reply'[c] = reply[c] \/ reply'[c].kind = "error"
  BY <1>4 DEF StatusIsConsistent
<1>5. QED
  BY <1>1, <1>2, <1>3, <1>4, Steps

(* Every status that was ever composed counts exactly the plans the        *)
(* planner had made, and no more tasks than those (serve.rs:113-120).      *)
THEOREM StatusesConsistent == ServeSpec => []StatusIsConsistent
<1>1. ServeInit => StatusIsConsistent
  BY DEF ServeInit, StatusIsConsistent, NoReply
<1>2. MutexInv /\ Counted /\ [ServeNext]_allVars => Counted'
  BY CountedStep
<1>3. MutexInv /\ Counted /\ StatusIsConsistent /\ [ServeNext]_allVars => StatusIsConsistent'
  BY StatusStep
<1>4. QED
  BY <1>1, <1>2, <1>3, CountedInit, MutexInit, MutexStep, PTL DEF ServeSpec

----------------------------------------------------------------------------
(* Submissions and their numbers.                                          *)

Done == {c \in Client : reply[c].kind = "submit"}
Planned == {c \in Client : conn[c] = "planned"}

(* A handler has no response before it has one, and the number a handler   *)
(* in the critical section will answer with is nobody else's.              *)
Numbered ==
  /\ \A c \in Client : conn[c] \notin {"replying", "answered", "lost", "closed"} => reply[c].kind = "none"
  /\ next_idx \in Nat
  /\ IsFiniteSet(Done) /\ episodes_planned = Cardinality(Done)
  /\ \A d \in Done : reply[d].episode \in Nat /\ reply[d].episode <= next_idx
  /\ \A c \in Client, d \in Done : conn[c] \in {"locked", "planned"} => reply[d].episode < next_idx
  /\ \A c, d \in Done : reply[c].episode = reply[d].episode => c = d

LEMMA NumberedInit == ServeInit => Numbered
<1> SUFFICES ASSUME ServeInit PROVE Numbered
  OBVIOUS
<1>1. Done = {}
  BY DEF ServeInit, Done, NoReply
<1>2. IsFiniteSet({}) /\ Cardinality({}) = 0
  BY FS_EmptySet
<1>3. QED
  BY <1>1, <1>2 DEF ServeInit, Numbered, NoReply

(* Steps that compose no submit response and take no number.               *)
Unnumbered ==
  /\ UNCHANGED <<next_idx, episodes_planned>>
  /\ \A c \in Client :
       /\ \/ reply'[c] = reply[c]
          \/ /\ reply[c].kind = "none" /\ reply'[c].kind \in {"status", "error"}
             /\ conn'[c] = "replying"
       /\ conn'[c] \notin {"replying", "answered", "lost", "closed"} =>
            conn[c] \notin {"replying", "answered", "lost", "closed"}
       /\ conn'[c] \in {"locked", "planned"} => conn[c] \in {"locked", "planned"}

LEMMA NumberedAside ==
  ASSUME Numbered, Unnumbered
  PROVE  Numbered'
<1>1. Done' = Done /\ \A d \in Done : reply'[d] = reply[d]
  BY DEF Done, Numbered, Unnumbered
<1>2. QED
  BY <1>1 DEF Numbered, Unnumbered

LEMMA NumberedStep ==
  ASSUME MutexInv, Numbered, [ServeNext]_allVars
  PROVE  Numbered'
<1> USE DEF MutexInv, Shape
<1>1. ASSUME NEW c \in Client, Connect(c) \/ HangUp(c) \/ PlanEpisode(c) \/ Answer(c)
      PROVE  Unnumbered
  <2>1. CASE Connect(c) \/ HangUp(c) \/ PlanEpisode(c)
    BY <2>1 DEF Connect, HangUp, PlanEpisode, Unnumbered
  <2>2. CASE Answer(c)
    <3>1. PICK outcome \in {"answered", "lost"} :
               conn[c] = "replying" /\ conn' = [conn EXCEPT ![c] = outcome]
      BY <2>2 DEF Answer
    <3>2. UNCHANGED <<next_idx, episodes_planned, reply>>
      BY <2>2 DEF Answer
    <3>3. \A d \in Client : d = c \/ conn'[d] = conn[d]
      BY <3>1
    <3>4. QED
      BY <3>1, <3>2, <3>3 DEF Unnumbered
  <2>3. QED
    BY <1>1, <2>1, <2>2
<1>2. ASSUME NEW c \in Client, NEW r \in Requests, ReadLine(c, r)
      PROVE  Unnumbered
  BY <1>2 DEF ReadLine, Unnumbered
<1>3. ASSUME NEW c \in Client, Status(c) \/ Malformed(c)
      PROVE  Unnumbered
  <2>1. reply[c].kind = "none" /\ UNCHANGED <<next_idx, episodes_planned>>
    BY <1>3 DEF Status, Malformed, Numbered
  <2>2. PICK response : /\ reply' = [reply EXCEPT ![c] = response]
                        /\ response.kind \in {"status", "error"}
    BY <1>3 DEF Status, Malformed, Respond, StatusResponse
  <2>3. conn' = [conn EXCEPT ![c] = "replying"]
    BY <1>3 DEF Status, Malformed, Respond
  <2>4. QED
    BY <2>1, <2>2, <2>3 DEF Unnumbered
<1>4. CASE Wake \/ MaintenanceLock \/ Consolidate
  <2>1. Unnumbered
    BY <1>4 DEF Wake, MaintenanceLock, Consolidate, Unnumbered
  <2>2. QED
    BY <2>1, NumberedAside
<1>5. CASE UNCHANGED allVars
  <2>1. Unnumbered
    BY <1>5 DEF allVars, serveVars, Unnumbered
  <2>2. QED
    BY <2>1, NumberedAside
<1>6. ASSUME NEW c \in Client, Lock(c)
      PROVE  Numbered'
  <2>1. /\ next_idx' = next_idx + 1 /\ UNCHANGED <<reply, episodes_planned>>
        /\ \A d \in Client : conn'[d] \notin {"replying", "answered", "lost", "closed"}
             => conn[d] \notin {"replying", "answered", "lost", "closed"}
    BY <1>6 DEF Lock
  <2>2. Done' = Done
    BY <2>1 DEF Done
  <2>3. QED
    BY <2>1, <2>2 DEF Numbered
<1>7. ASSUME NEW c \in Client, ExecuteEpisode(c)
      PROVE  Numbered'
  <2>1. /\ conn[c] = "planned" /\ conn' = [conn EXCEPT ![c] = "replying"]
        /\ episodes_planned' = episodes_planned + 1 /\ next_idx' = next_idx
        /\ \A d \in Client \ {c} : reply'[d] = reply[d]
        /\ reply'[c].kind = "submit" /\ reply'[c].episode = next_idx
    BY <1>7 DEF ExecuteEpisode, Respond
  <2>2. c \notin Done /\ Done' = Done \cup {c}
    BY <2>1 DEF Done, Numbered
  <2>3. IsFiniteSet(Done') /\ Cardinality(Done') = episodes_planned'
    BY <2>1, <2>2, FS_AddElement DEF Numbered
  <2>4. \A d \in Client : conn'[d] \notin {"locked", "planned"}
    BY <2>1, PlannedOwns
  <2>5. \A d \in Done : reply'[d] = reply[d] /\ reply[d].episode \in Nat /\ reply[d].episode < next_idx
    BY <2>1, <2>2 DEF Numbered, Done
  <2>6. \A d \in Done' : reply'[d].episode \in Nat /\ reply'[d].episode <= next_idx'
    BY <2>1, <2>2, <2>5 DEF Numbered
  <2>7. \A d, e \in Done' : reply'[d].episode = reply'[e].episode => d = e
    BY <2>1, <2>2, <2>5 DEF Numbered
  <2>8. \A d \in Client : conn'[d] \notin {"replying", "answered", "lost", "closed"} => reply'[d].kind = "none"
    BY <2>1 DEF Numbered
  <2>9. QED
    BY <2>1, <2>3, <2>4, <2>6, <2>7, <2>8 DEF Numbered
<1>8. QED
  BY <1>1, <1>2, <1>3, <1>4, <1>5, <1>6, <1>7, NumberedAside DEF ServeNext, Work

LEMMA CountsAgree == MutexInv /\ Counted /\ Numbered => PlannedOnce
<1> SUFFICES ASSUME MutexInv, Counted, Numbered
             PROVE  PlannedOnce
  OBVIOUS
<1>1. version = Cardinality(Done \cup Planned)
  <2>1. CASE Planned = {}
    <3>1. \A c \in Client : conn[c] # "planned"
      BY <2>1 DEF Planned
    <3>2. version = episodes_planned
      BY <3>1 DEF Counted
    <3>3. Done \cup Planned = Done
      BY <2>1
    <3>4. QED
      BY <3>2, <3>3 DEF Numbered
  <2>2. ASSUME NEW c \in Planned
        PROVE  version = Cardinality(Done \cup Planned)
    <3>1. c \in Client /\ conn[c] = "planned"
      BY DEF Planned
    <3>2. Planned = {c} /\ c \notin Done
      BY <3>1, PlannedOwns DEF Planned, Done, Numbered
    <3>3. version = episodes_planned + 1
      BY <3>1 DEF Counted
    <3>4. QED
      BY <3>2, <3>3, FS_AddElement DEF Numbered
  <2>3. QED
    BY <2>1, <2>2
<1>2. QED
  BY <1>1 DEF PlannedOnce, Numbered, Done, Planned

(* Every submission that was answered was planned exactly once and carries *)
(* a number of its own, for any number of connections (serve.rs:110-120).  *)
THEOREM SubmissionsPlannedOnce == ServeSpec => []PlannedOnce
<1>1. MutexInv /\ Counted /\ [ServeNext]_allVars => Counted'
  BY CountedStep
<1>2. MutexInv /\ Numbered /\ [ServeNext]_allVars => Numbered'
  BY NumberedStep
<1>3. QED
  BY <1>1, <1>2, CountsAgree, CountedInit, NumberedInit, MutexInit, MutexStep, PTL DEF ServeSpec
=============================================================================
