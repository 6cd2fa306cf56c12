-------------------------- MODULE DrmPlannerProofs --------------------------
(***************************************************************************)
(* Theorems about DrmPlanner, and about VocabularyGrowth, the abstract     *)
(* specification of its vocabulary.  A plan is Remember and, besides it, a *)
(* step of the vocabulary that the memory never reads, so the inductive    *)
(* invariant is the memory's own, MemoryInv: PlannerMemoryProofs shows     *)
(* that Remember keeps it and stores what the abstract working set stores. *)
(***************************************************************************)
EXTENDS DrmPlanner, VocabularyGrowth, PlannerMemoryProofs

LEMMA PlanRemembers ==
  ASSUME Next
  PROVE  \E ep \in Episode : Remember(ep)
BY DEF Next, Plan

LEMMA StepKeepsMemory ==
  ASSUME MemoryInv, [Next]_vars
  PROVE  MemoryInv'
<1>1. CASE Next
  BY <1>1, PlanRemembers, RememberKeeps
<1>2. CASE UNCHANGED vars
  BY <1>2, MemoryUntouched DEF vars
<1>3. QED
  BY <1>1, <1>2

LEMMA MemoryAlways == Spec => []MemoryInv
<1>1. Init => MemoryInv
  BY MemoryInitially DEF Init
<1>2. MemoryInv /\ [Next]_vars => MemoryInv'
  BY StepKeepsMemory
<1>3. QED
  BY <1>1, <1>2, PTL DEF Spec

(* Whatever is planned, the memory holds tasks, sequences callers sent and *)
(* versions already reached (planner.rs:20-35).                            *)
THEOREM MemoryTyped == Spec => []MemoryTypeOK
<1>1. MemoryInv => MemoryTypeOK
  BY DEF MemoryInv
<1>2. QED
  BY <1>1, MemoryAlways, PTL

(* The recency order lists the working set, each task once, within the     *)
(* capacity, for every capacity and every stream (planner.rs:46-55).       *)
THEOREM OrderAgrees == Spec => []LruCoherent
<1>1. MemoryInv => LruCoherent
  BY DEF MemoryInv
<1>2. QED
  BY <1>1, MemoryAlways, PTL

(* The working set never says anything of a task that the history does not *)
(* say (planner.rs:164-194).                                               *)
THEOREM CacheAgrees == Spec => []ActiveIsHistory
<1>1. MemoryInv => ActiveIsHistory
  BY DEF MemoryInv
<1>2. QED
  BY <1>1, MemoryAlways, PTL

(* Eviction is least recently used (planner.rs:46-55).                     *)
THEOREM EvictionIsLru == Spec => []LruIsMostRecent
<1>1. MemoryInv => LruIsMostRecent
  BY DEF MemoryInv
<1>2. QED
  BY <1>1, MemoryAlways, PTL

(* No subsequence of what the history holds is without its task among the  *)
(* users (planner.rs:72-77, 196-201).                                      *)
THEOREM EvidenceNeverMissed == Spec => []EvidenceComplete
<1>1. MemoryInv => EvidenceComplete
  BY DEF MemoryInv
<1>2. QED
  BY <1>1, MemoryAlways, PTL

(* Each plan stores its sequence in the abstract working set, which keeps  *)
(* no order and finds the most recent tasks by their stamps: the bounded   *)
(* containers of planner.rs:46-55 implement it, for every capacity.        *)
THEOREM KeepsTheWorkingSet == Spec => ImplementsWorkingSet
<1>1. Init => Recency!Init
  BY DEF Init, MemoryInit, Recency!Init
<1>2. MemoryInv /\ [Next]_vars => [Recency!Next]_Recency!vars
  <2> SUFFICES ASSUME MemoryInv, [Next]_vars
               PROVE  Recency!Next \/ UNCHANGED Recency!vars
    OBVIOUS
  <2>1. CASE Next
    BY <2>1, PlanRemembers, RememberStores
  <2>2. CASE UNCHANGED vars
    BY <2>2 DEF vars, memoryVars, Recency!vars
  <2>3. QED
    BY <2>1, <2>2
<1>3. QED
  BY <1>1, <1>2, MemoryAlways, PTL DEF Spec, ImplementsWorkingSet, Recency!Spec

(* A plan charges a recovery only for a task that ActiveCap others have    *)
(* pushed out since it was stored, and leaves it stored anew               *)
(* (planner.rs:174-186, test ancestral_recovery_is_one_shot).              *)
THEOREM RecoveryNeedsEviction == Spec => RecoveryOnlyWhenEvicted
<1> DEFINE Allowed ==
      metrics'.recovery = 1 =>
        \E t \in DOMAIN history :
          /\ history_version'[t] = version'
          /\ Cardinality({u \in DOMAIN history : history_version[u] > history_version[t]})
               >= ActiveCap
<1>1. ASSUME MemoryInv, NEW ep \in Episode, Plan(ep), metrics'.recovery = 1
      PROVE  /\ ep.task \in DOMAIN history \ DOMAIN active
             /\ history_version'[ep.task] = version'
  <2>1. Decision(ep, Len(Compress(derived, Replanned(ep)))).recovery = 1
    BY <1>1 DEF Plan
  <2>2. ep.task \in DOMAIN history \ DOMAIN active
    BY <2>1 DEF Decision, Count, Recovers
  <2>3. history_version'[ep.task] = version'
    BY <1>1 DEF Plan, Remember, Put
  <2>4. QED
    BY <2>2, <2>3
<1>2. ASSUME MemoryInv, NEW t \in DOMAIN history \ DOMAIN active
      PROVE  Cardinality({u \in DOMAIN history : history_version[u] > history_version[t]})
               >= ActiveCap
  <2> DEFINE newer == {u \in DOMAIN history : history_version[u] > history_version[t]}
  <2>1. /\ DOMAIN history_version = DOMAIN history
        /\ IsFiniteSet(DOMAIN history) /\ ActiveCap \in Nat
    BY <1>2, ConstantsAssumption DEF MemoryInv, MemoryTypeOK
  <2>2. Recency!MostRecent(history_version) = DOMAIN active
    BY <1>2, AtHandIsMostRecent DEF AtHand
  <2>3. ~(Cardinality(newer) < ActiveCap)
    BY <2>1, <2>2, SameCount DEF Recency!MostRecent, Recency!Newer
  <2>4. Cardinality(newer) \in Nat
    BY <2>1, FS_Subset, FS_CardinalityType
  <2>5. QED
    BY <2>1, <2>3, <2>4
<1>3. MemoryInv /\ [Next]_vars => [Allowed]_vars
  BY <1>1, <1>2 DEF Next
<1>4. QED
  BY <1>3, MemoryAlways, PTL DEF Spec, RecoveryOnlyWhenEvicted
----------------------------------------------------------------------------
(* The vocabulary.                                                         *)

(* A plan learns at most one word, for a candidate of the episode.         *)
LEMMA PlanGrows ==
  ASSUME NEW ep \in Episode, Plan(ep)
  PROVE  \/ derived' = derived
         \/ \E c \in Candidates(ep.ops) :
              /\ c \notin Expansions(derived)
              /\ Gain(history', c, DOMAIN history') >= MdlThreshold
              /\ derived' = Append(derived, Compress(derived, c))
<1>1. CASE ~NewEvidence(ep)
  BY <1>1 DEF Plan
<1>2. CASE NewEvidence(ep)
  <2> DEFINE gain == [c \in Candidates(ep.ops) |-> Gain(history', c, DOMAIN history')]
  <2>1. derived' \in Grown(subseq_users', gain)
    BY <1>2 DEF Plan, MaybeGrow
  <2>2. /\ DOMAIN gain = Candidates(ep.ops)
        /\ \A c \in Candidates(ep.ops) : gain[c] = Gain(history', c, DOMAIN history')
    OBVIOUS
  <2> HIDE DEF gain
  <2>3. \/ derived' = derived
        \/ \E c \in DOMAIN gain : /\ Eligible(subseq_users', c)
                                  /\ gain[c] >= MdlThreshold
                                  /\ derived' = Append(derived, Compress(derived, c))
    BY <2>1, GrownIs
  <2>4. \A c : Eligible(subseq_users', c) => c \notin Expansions(derived)
    BY DEF Eligible
  <2>5. QED
    BY Zenon, <2>2, <2>3, <2>4
<1>3. QED
  BY <1>1, <1>2

(* Whatever sequence comes next for a remembered task, the repair replans  *)
(* the least middle that a kept beginning and a kept end leave             *)
(* (planner.rs:119-132).                                                   *)
THEOREM RepairsAreLeast == Spec => []RepairIsLeast
<1>1. MemoryInv => RepairIsLeast
  BY RepairAlwaysLeast DEF MemoryInv
<1>2. QED
  BY <1>1, MemoryAlways, PTL

(* The vocabulary of the base planner grows as the abstract one: by one    *)
(* word at a time, for a candidate no word stands for, and no word ever    *)
(* changes (planner.rs:86-117, 196-204).                                   *)
THEOREM GrowsTheVocabulary == Spec => ImplementsVocabularyGrowth
<1>1. Init => Growth!GrowthInit
  BY DEF Init, MemoryInit, Growth!GrowthInit
<1>2. [Next]_vars => [Growth!GrowthNext]_derived
  <2> SUFFICES ASSUME [Next]_vars
               PROVE  Growth!GrowthNext \/ UNCHANGED derived
    OBVIOUS
  <2>1. ASSUME NEW ep \in Episode, Plan(ep)
        PROVE  Growth!GrowthNext \/ UNCHANGED derived
    <3>1. CASE derived' = derived
      BY <3>1
    <3>2. CASE \E c \in Candidates(ep.ops) :
                  c \notin Expansions(derived) /\ derived' = Append(derived, Compress(derived, c))
      <4>1. PICK c \in Candidates(ep.ops) :
              c \notin Expansions(derived) /\ derived' = Append(derived, Compress(derived, c))
        BY <3>2
      <4>2. ep.ops \in Ops
        BY DEF Episode
      <4>3. Growth!Learn(c)
        BY <4>1, SameVocabulary DEF Growth!Learn
      <4>4. QED
        BY <4>2, <4>3, SameVocabulary DEF Growth!GrowthNext
    <3>3. QED
      BY <2>1, <3>1, <3>2, PlanGrows
  <2>2. CASE UNCHANGED vars
    BY <2>2 DEF vars
  <2>3. QED
    BY <2>1, <2>2 DEF Next
<1>3. QED
  BY <1>1, <1>2, PTL DEF Spec, ImplementsVocabularyGrowth, Growth!GrowthSpec

(* With sequences of known capabilities every word is made of capabilities *)
(* and older words.                                                        *)
LEMMA PlanKeepsGrounded ==
  ASSUME Ops \subseteq Seq(Capability), Grounded(derived), [Next]_vars
  PROVE  Grounded(derived')
<1>1. ASSUME NEW ep \in Episode, Plan(ep)
      PROVE  Grounded(derived')
  <2>1. CASE derived' = derived
    BY <2>1
  <2>2. CASE \E c \in Candidates(ep.ops) : derived' = Append(derived, Compress(derived, c))
    <3>1. PICK c \in Candidates(ep.ops) : derived' = Append(derived, Compress(derived, c))
      BY <2>2
    <3>2. ep.ops \in Seq(Capability)
      BY DEF Episode
    <3>3. c \in Seq(Capability) /\ c # <<>>
      BY <3>2, CandidateProperties
    <3>4. Grounded(Append(derived, Compress(derived, c)))
      BY <3>3, LearningExact
    <3>5. QED
      BY <3>1, <3>4
  <2>3. QED
    BY <1>1, <2>1, <2>2, PlanGrows
<1>2. CASE UNCHANGED vars
  BY <1>2 DEF vars
<1>3. QED
  BY <1>1, <1>2 DEF Next

(* A new word makes the corpus and its dictionary shorter by MdlThreshold  *)
(* tokens at least, measured with the word in the dictionary, where the    *)
(* program scored a trial word that was not (planner.rs:79-117).           *)
THEOREM GrowthPaysOff ==
  ASSUME Ops \subseteq Seq(Capability)
  PROVE  Spec => GrowthShrinksCorpus
<1> DEFINE Pays == derived' # derived =>
                     DescriptionLength(derived', history') + MdlThreshold
                       <= DescriptionLength(derived, history')
           Inv == MemoryInv /\ Grounded(derived)
<1>1. ASSUME Inv, NEW ep \in Episode, Plan(ep), derived' # derived
      PROVE  DescriptionLength(derived', history') + MdlThreshold
               <= DescriptionLength(derived, history')
  <2>1. PICK c \in Candidates(ep.ops) :
          /\ Gain(history', c, DOMAIN history') >= MdlThreshold
          /\ derived' = Append(derived, Compress(derived, c))
    BY <1>1, PlanGrows
  <2>2. c \in Seq(Capability) /\ c # <<>>
    <3>1. ep.ops \in Seq(Capability)
      BY DEF Episode
    <3>2. QED
      BY <3>1, CandidateProperties
  <2>3. IsFiniteSet(DOMAIN history') /\ \A t \in DOMAIN history' : history'[t] \in Seq(Capability)
    <3>1. MemoryInv'
      <4>1. Remember(ep)
        BY <1>1 DEF Plan
      <4>2. QED
        BY <1>1, <4>1, RememberKeeps
    <3>2. QED
      BY <3>1 DEF MemoryInv, MemoryTypeOK
  <2>4. PICK hist, grown : hist = history' /\ grown = derived'
    OBVIOUS
  <2>5. SumFunction([t \in DOMAIN hist |-> Len(Compress(grown, hist[t]))])
           + SumFunction([w \in DOMAIN grown |-> Len(grown[w]) + 1]) + MdlThreshold
         <= SumFunction([t \in DOMAIN hist |-> Len(Compress(derived, hist[t]))])
              + SumFunction([w \in DOMAIN derived |-> Len(derived[w]) + 1])
    <3>1. Gain(hist, c, DOMAIN hist) >= MdlThreshold /\ grown = Append(derived, Compress(derived, c))
          /\ IsFiniteSet(DOMAIN hist) /\ (\A t \in DOMAIN hist : hist[t] \in Seq(Capability))
          /\ Grounded(derived)
      BY Zenon, <1>1, <2>1, <2>3, <2>4
    <3>2. /\ \A t \in DOMAIN hist : hist[t] \in Seq(Symbol)
          /\ c \in Seq(Symbol) /\ IsDictionary(derived)
      BY <2>2, <3>1, CapabilityIsSymbol DEF Grounded, IsDictionary
    <3>3. Expansions(grown) = Expansions(derived) \cup {c}
      BY <2>2, <3>1, LearningExact
    <3>4. QED
      BY <3>1, <3>2, <3>3, GrowthPays
  <2>6. QED
    BY Zenon, <2>4, <2>5 DEF DescriptionLength, CorpusCost, DictionaryCost
<1>2. Inv /\ [Next]_vars => [Pays]_vars
  <2> HIDE DEF Inv
  <2>1. QED
    BY <1>1 DEF Next
<1>3. Init => Inv
  <2>1. Init => Grounded(derived)
    BY DEF Init, MemoryInit, Grounded
  <2>2. Init => MemoryInv
    BY MemoryInitially DEF Init
  <2>3. QED
    BY <2>1, <2>2
<1>4. Inv /\ [Next]_vars => Inv'
  BY StepKeepsMemory, PlanKeepsGrounded
<1>5. QED
  BY <1>2, <1>3, <1>4, PTL DEF Spec, GrowthShrinksCorpus

----------------------------------------------------------------------------
(* The laws of the growing vocabulary, for texts and vocabularies of every *)
(* size.  Two of them are about texts of capabilities alone: a foreign     *)
(* name has no expansion, so neither has a word that uses one.             *)

(* A word is defined by capabilities and older words.                      *)
LEMMA LearnKeepsGrounded ==
  ASSUME Text \subseteq Seq(Capability), Grounded(dict), [GrowthNext]_dict
  PROVE  Grounded(dict')
<1>1. CASE UNCHANGED dict
  BY <1>1
<1>2. CASE GrowthNext
  <2>1. PICK text \in Text : \E cand \in Candidates(text) : Learn(cand)
    BY <1>2 DEF GrowthNext
  <2>2. PICK cand \in Candidates(text) : Learn(cand)
    BY <2>1
  <2>3. cand \in Seq(Capability) /\ cand # <<>>
    BY CandidateProperties
  <2>4. Grounded(Append(dict, Compress(dict, cand)))
    BY <2>3, LearningExact
  <2>5. QED
    BY <2>2, <2>4 DEF Learn
<1>3. QED
  BY <1>1, <1>2

LEMMA AlwaysGrounded ==
  ASSUME Text \subseteq Seq(Capability)
  PROVE  GrowthSpec => []Grounded(dict)
<1>1. GrowthInit => Grounded(dict)
  BY DEF GrowthInit, Grounded
<1>2. Grounded(dict) /\ [GrowthNext]_dict => Grounded(dict)'
  BY LearnKeepsGrounded
<1>3. QED
  BY <1>1, <1>2, PTL DEF GrowthSpec

(* Compression loses nothing, whichever words nest in which: what the      *)
(* compressor makes of a text of capabilities expands back to the text     *)
(* (vocabulary.rs:122-147).                                                *)
THEOREM CompressionIsLossless ==
  ASSUME Text \subseteq Seq(Capability)
  PROVE  GrowthSpec => []CompressionLossless
<1>1. Grounded(dict) => CompressionLossless
  BY CompressLossless DEF CompressionLossless
<1>2. QED
  BY <1>1, AlwaysGrounded, PTL

(* A new word stands for exactly the candidate it was learned from, and    *)
(* the older words stand for what they stood for (planner.rs:96-112).      *)
THEOREM WordsMeanWhatTheyWereLearnedFor ==
  ASSUME Text \subseteq Seq(Capability)
  PROVE  GrowthSpec => []LearningIsExact
<1>1. Grounded(dict) => LearningIsExact
  <2>1. SUFFICES ASSUME Grounded(dict), NEW text \in Text, NEW cand \in Candidates(text)
                 PROVE  Expansions(Append(dict, Compress(dict, cand))) = Expansions(dict) \cup {cand}
    BY DEF LearningIsExact
  <2>2. cand \in Seq(Capability) /\ cand # <<>>
    BY CandidateProperties
  <2>3. QED
    BY <2>1, <2>2, LearningExact
<1>2. QED
  BY <1>1, AlwaysGrounded, PTL

----------------------------------------------------------------------------
(* The tokenizer against all the ways to cut a text.                       *)

(* A greatest element is the only one.                                     *)
LEMMA MaxIs ==
  ASSUME NEW n \in Nat, NEW T, T \subseteq 0..n, NEW m \in T, \A k \in T : m >= k
  PROVE  Max(T) = m
<1>1. Max(T) \in T /\ \A k \in T : Max(T) >= k
  BY MaxProperties
<1>2. PICK x : x = Max(T)
  OBVIOUS
<1>3. x \in T /\ x >= m /\ m >= x
  BY <1>1, <1>2
<1>4. x \in 0..n /\ m \in 0..n
  BY <1>3
<1>5. QED
  BY <1>2, <1>3, <1>4

(* Where the piece that ends at j starts, less one, when cutting starts    *)
(* after place `start`.                                                    *)
Previous(C, j, start) == Max({k \in C : k < j} \cup {start})

(* The ways to cut the part of s from place i on.                          *)
Tilings(s, patterns, i) ==
  {C \in SUBSET (i..Len(s)) :
     /\ Len(s) \in C \/ i = Len(s) + 1
     /\ \A j \in C : LET start == Previous(C, j, i - 1)
                     IN  j = start + 1 \/ SubSeq(s, start + 1, j) \in patterns}

(* To cut from place i on is to take a first piece, up to m, and to cut    *)
(* from place m + 1 on.                                                    *)
LEMMA TilingHead ==
  ASSUME NEW X, NEW s \in Seq(X), NEW patterns, NEW i \in 1..Len(s), NEW m \in i..Len(s),
         NEW C \in SUBSET (m..Len(s)), m \in C
  PROVE  C \in Tilings(s, patterns, i)
           <=> /\ m = i \/ SubSeq(s, i, m) \in patterns
               /\ C \ {m} \in Tilings(s, patterns, m + 1)
<1> DEFINE n == Len(s)
           R == C \ {m}
           Fits(start, j) == j = start + 1 \/ SubSeq(s, start + 1, j) \in patterns
<1>1. n \in Nat /\ n = Len(s)
  OBVIOUS
<1> HIDE DEF n
<1>2. /\ i \in 1..n /\ m \in i..n /\ C \subseteq m..n /\ C \subseteq i..n /\ R \subseteq (m + 1)..n
      /\ C = R \cup {m} /\ i - 1 \in 0..n /\ m \in 0..n /\ C \subseteq 0..n /\ (m + 1) - 1 = m
      /\ m + 1 \in 1..(n + 1) /\ i # n + 1
  BY <1>1
<1>3. Previous(C, m, i - 1) = i - 1
  <2>1. {k \in C : k < m} = {}
    <3>1. \A k \in m..n : ~(k < m)
      BY <1>1, <1>2
    <3>2. QED
      BY <1>2, <3>1
  <2>2. {i - 1} \subseteq 0..n /\ \A k \in {i - 1} : i - 1 >= k
    BY <1>2
  <2>3. Max({i - 1}) = i - 1
    BY <1>1, <2>2, MaxIs
  <2>4. {k \in C : k < m} \cup {i - 1} = {i - 1}
    BY <2>1
  <2>5. QED
    BY <2>3, <2>4 DEF Previous
<1>4. \A j \in R : Previous(C, j, i - 1) = Previous(R, j, m)
  <2>1. TAKE j \in R
  <2> DEFINE Ones == {k \in R : k < j} \cup {m}
             All  == {k \in C : k < j} \cup {i - 1}
  <2>2. m < j /\ i - 1 < m
    BY <1>1, <1>2
  <2>3. All = Ones \cup {i - 1} /\ Ones \subseteq 0..n /\ Ones # {} /\ All \subseteq 0..n /\ m \in Ones
    BY <1>1, <1>2, <2>2
  <2> HIDE DEF Ones, All
  <2>4. Max(Ones) \in Ones /\ \A k \in Ones : Max(Ones) >= k
    BY <1>1, <2>3, MaxProperties
  <2>5. Max(Ones) >= m /\ Max(Ones) \in 0..n
    BY <2>3, <2>4
  <2>6. Max(Ones) >= i - 1
    BY <1>1, <1>2, <2>2, <2>5
  <2>7. Max(Ones) \in All /\ \A k \in All : Max(Ones) >= k
    BY <2>3, <2>4, <2>6
  <2>8. Max(All) = Max(Ones)
    BY <1>1, <2>3, <2>7, MaxIs
  <2>9. QED
    BY <2>8 DEF Previous, Ones, All
<1>5. (i - 1) + 1 = i
  BY <1>1
<1>6. (\A j \in C : Fits(Previous(C, j, i - 1), j))
        <=> (m = i \/ SubSeq(s, i, m) \in patterns) /\ (\A j \in R : Fits(Previous(R, j, m), j))
  <2>1. Fits(Previous(C, m, i - 1), m) <=> (m = i \/ SubSeq(s, i, m) \in patterns)
    BY <1>3, <1>5
  <2> HIDE DEF Fits
  <2>2. \A j \in R : Fits(Previous(C, j, i - 1), j) <=> Fits(Previous(R, j, m), j)
    BY <1>4
  <2>3. QED
    BY <1>2, <2>1, <2>2
<1>7. n \in C \/ i = n + 1 <=> n \in R \/ m + 1 = n + 1
  BY <1>1, <1>2
<1>8. C \in Tilings(s, patterns, i)
        <=> (n \in C \/ i = n + 1) /\ (\A j \in C : Fits(Previous(C, j, i - 1), j))
  BY <1>1, <1>2 DEF Tilings
<1>9. R \in Tilings(s, patterns, m + 1)
        <=> (n \in R \/ m + 1 = n + 1) /\ (\A j \in R : Fits(Previous(R, j, m), j))
  BY <1>1, <1>2 DEF Tilings
<1> HIDE DEF Fits, R
<1>10. QED
  BY <1>6, <1>7, <1>8, <1>9 DEF R

(* From every place on, the cost of the recursion is the size of some      *)
(* tiling and of none less.                                                *)
LEMMA CostIsLeast ==
  ASSUME NEW X, NEW s \in Seq(X), NEW Y, NEW patterns, patterns \subseteq Seq(Y)
  PROVE  /\ \E C \in Tilings(s, patterns, 1) : Cardinality(C) = SemanticCost(s, patterns)
         /\ \A C \in Tilings(s, patterns, 1) :
              Cardinality(C) \in Nat /\ SemanticCost(s, patterns) <= Cardinality(C)
<1> DEFINE n == Len(s)
           Ways(i) == Tilings(s, patterns, i)
<1>1. n \in Nat /\ n = Len(s)
  OBVIOUS
<1> HIDE DEF n
<1>2. PICK cost :
        /\ SemanticCost(s, patterns) = cost[1]
        /\ cost[n + 1] = 0
        /\ \A i \in 1..(n + 1) : cost[i] \in 0..(n + 1 - i)
        /\ \A i \in 1..n :
             /\ cost[i] <= 1 + cost[i + 1]
             /\ \A p \in Matching(s, i, patterns) : cost[i] <= 1 + cost[i + Len(p)]
             /\ \/ cost[i] = 1 + cost[i + 1]
                \/ \E p \in Matching(s, i, patterns) : cost[i] = 1 + cost[i + Len(p)]
  <2>1. PICK cost : LeastCosts(cost, s, patterns)
    BY CostIs
  <2>2. QED
    BY Zenon, <1>1, <2>1 DEF LeastCosts
<1>3. \A i \in 1..(n + 1) : \A C \in Ways(i) :
        C \in SUBSET (i..n) /\ IsFiniteSet(C) /\ Cardinality(C) \in Nat
  <2>1. SUFFICES ASSUME NEW i \in 1..(n + 1), NEW C \in Ways(i)
                 PROVE  C \in SUBSET (i..n) /\ IsFiniteSet(C) /\ Cardinality(C) \in Nat
    OBVIOUS
  <2>2. C \in SUBSET (i..n)
    BY <1>1 DEF Tilings
  <2>3. IsFiniteSet(i..n)
    BY <1>1, FS_Interval
  <2>4. QED
    BY <2>2, <2>3, FS_Subset, FS_CardinalityType
<1>4. \A i \in 1..(n + 1) : cost[i] \in Nat
  BY <1>1, <1>2
<1> DEFINE Least(i) == /\ \E C \in Ways(i) : Cardinality(C) = cost[i]
                       /\ \A C \in Ways(i) : cost[i] <= Cardinality(C)
           T == {i \in 1..(n + 1) : Least(i)}
<1>5. Least(n + 1)
  <2>1. \A C \in Ways(n + 1) : C = {}
    <3>1. (n + 1)..n = {}
      BY <1>1
    <3>2. n + 1 \in 1..(n + 1)
      BY <1>1
    <3>3. QED
      BY <1>3, <3>1, <3>2
  <2>2. {} \in Ways(n + 1)
    BY <1>1 DEF Tilings
  <2>3. Cardinality({}) = 0
    BY FS_EmptySet
  <2> HIDE DEF Ways
  <2>4. Cardinality({}) = cost[n + 1] /\ cost[n + 1] <= Cardinality({})
    BY <1>2, <2>3
  <2>5. \A C \in Ways(n + 1) : cost[n + 1] <= Cardinality(C)
    BY Zenon, <2>1, <2>4
  <2>6. \E C \in Ways(n + 1) : Cardinality(C) = cost[n + 1]
    BY Zenon, <2>2, <2>4
  <2>7. QED
    BY <2>5, <2>6
(* The first piece of a tiling is a choice of the recursion.               *)
<1>6. ASSUME NEW i \in 1..n, NEW m \in i..n, m = i \/ SubSeq(s, i, m) \in patterns
      PROVE  cost[i] <= 1 + cost[m + 1]
  <2>1. CASE m = i
    BY <1>2, <2>1
  <2>2. CASE m > i /\ SubSeq(s, i, m) \in patterns
    <3> DEFINE p == SubSeq(s, i, m)
    <3>1. Len(p) = m - i + 1
      <4>1. \A k \in i..m : s[k] \in X
        BY <1>1
      <4>2. i \in Int /\ m \in Int /\ i <= m
        BY <1>1
      <4>3. QED
        BY <4>1, <4>2, SubSeqProperties
    <3> HIDE DEF p
    <3>2. Len(p) >= 2 /\ i + Len(p) - 1 = m /\ i + Len(p) = m + 1 /\ m <= n
      BY <1>1, <2>2, <3>1
    <3>3. p \in Matching(s, i, patterns)
      BY <1>1, <2>2, <3>2 DEF Matching, OccursAt, p
    <3>4. cost[i] <= 1 + cost[i + Len(p)]
      BY <1>2, <3>3
    <3>5. QED
      BY <3>2, <3>4
  <2>3. QED
    BY <1>1, <1>6, <2>1, <2>2
(* A choice of the recursion is the first piece of a tiling.               *)
<1>7. ASSUME NEW i \in 1..n
      PROVE  \E m \in i..n : /\ m = i \/ SubSeq(s, i, m) \in patterns
                             /\ cost[i] = 1 + cost[m + 1]
  <2>1. CASE cost[i] = 1 + cost[i + 1]
    <3>1. i \in i..n
      BY <1>1
    <3>2. QED
      BY <2>1, <3>1
  <2>2. CASE \E p \in Matching(s, i, patterns) : cost[i] = 1 + cost[i + Len(p)]
    <3>1. PICK p \in Matching(s, i, patterns) : cost[i] = 1 + cost[i + Len(p)]
      BY <2>2
    <3>2. Len(p) \in Nat /\ Len(p) >= 2 /\ i + Len(p) \in (i + 2)..(n + 1)
          /\ p = SubSeq(s, i, i + Len(p) - 1)
      BY ZenonT(60), <1>1, MatchingType
    <3>3. p \in patterns
      BY DEF Matching
    <3>4. i + Len(p) - 1 \in i..n /\ (i + Len(p) - 1) + 1 = i + Len(p)
      BY <1>1, <3>2
    <3>5. SubSeq(s, i, i + Len(p) - 1) \in patterns
      BY <3>2, <3>3
    <3>6. QED
      BY <3>1, <3>4, <3>5
  <2>3. QED
    BY <1>2, <2>1, <2>2
<1>8. ASSUME NEW i \in 1..n, \A j \in (i + 1)..(n + 1) : j \in T
      PROVE  i \in T
  <2>1. \A m \in i..n : m + 1 \in (i + 1)..(n + 1) /\ m + 1 \in 1..(n + 1) /\ Least(m + 1)
    BY <1>1, <1>8
  <2>2. i \in 1..(n + 1) /\ cost[i] \in Nat
    BY <1>1, <1>4
  <2>3. ASSUME NEW C \in Ways(i)
        PROVE  cost[i] <= Cardinality(C)
    <3>1. C \in SUBSET (i..n) /\ IsFiniteSet(C) /\ C # {}
      <4>1. n \in C
        BY <1>1 DEF Tilings
      <4>2. QED
        BY <1>3, <2>2, <4>1
    <3>2. PICK m \in C : \A k \in C : m <= k
      <4>1. C \subseteq Nat
        BY <1>1, <3>1
      <4>2. QED
        BY <3>1, <4>1, LeastNat
    <3>3. m \in i..n /\ C \in SUBSET (m..n)
      BY <1>1, <3>1, <3>2
    <3>4. (m = i \/ SubSeq(s, i, m) \in patterns) /\ C \ {m} \in Ways(m + 1)
      BY <1>1, <3>3, TilingHead
    <3>5. Cardinality(C \ {m}) = Cardinality(C) - 1
      BY <3>1, FS_RemoveElement
    <3>6. cost[m + 1] <= Cardinality(C \ {m})
      <4> HIDE DEF Ways
      <4> QED
        BY <2>1, <3>3, <3>4
    <3>7. cost[i] <= 1 + cost[m + 1]
      BY <1>6, <3>3, <3>4
    <3>8. cost[m + 1] \in Nat /\ Cardinality(C) \in Nat
      BY <1>3, <1>4, <2>1, <2>2, <3>3
    <3>9. QED
      BY <2>2, <3>5, <3>6, <3>7, <3>8
  <2>4. \E C \in Ways(i) : Cardinality(C) = cost[i]
    <3>1. PICK m \in i..n : (m = i \/ SubSeq(s, i, m) \in patterns) /\ cost[i] = 1 + cost[m + 1]
      BY <1>7
    <3>2. PICK R \in Ways(m + 1) : Cardinality(R) = cost[m + 1]
      BY <2>1
    <3>3. R \in SUBSET ((m + 1)..n) /\ IsFiniteSet(R)
      BY <1>3, <2>1, <3>2
    <3>4. m \notin R /\ R \cup {m} \in SUBSET (m..n) /\ (R \cup {m}) \ {m} = R
      BY <1>1, <3>3
    <3>5. R \cup {m} \in Ways(i)
      <4>1. m \in R \cup {m} /\ (R \cup {m}) \ {m} \in Tilings(s, patterns, m + 1)
        BY <3>2, <3>4
      <4>2. QED
        BY <1>1, <3>1, <3>4, <4>1, TilingHead
    <3>6. Cardinality(R \cup {m}) = Cardinality(R) + 1
      BY <3>3, <3>4, FS_AddElement
    <3>7. cost[m + 1] \in Nat
      BY <1>4, <2>1
    <3> HIDE DEF Ways
    <3>8. QED
      BY <3>1, <3>2, <3>5, <3>6, <3>7
  <2> HIDE DEF Ways
  <2>5. QED
    BY <2>2, <2>3, <2>4
<1>9. 1 \in T
  <2>1. n + 1 \in T
    BY <1>1, <1>5
  <2> HIDE DEF T
  <2>2. \A i \in 1..(n + 1) : i \in T
    BY <1>1, <1>8, <2>1, InductionDown
  <2>3. QED
    BY <1>1, <2>2
<1>10. Least(1)
  BY <1>9
<1>11. QED
  BY <1>1, <1>2, <1>3, <1>10

LEMMA LeastTilingIsCost ==
  ASSUME NEW X, NEW s \in Seq(X), NEW Y, NEW patterns, patterns \subseteq Seq(Y)
  PROVE  SemanticCost(s, patterns) = LeastTiling(s, patterns)
<1> DEFINE Cuts == {C \in SUBSET (1..Len(s)) : Len(s) \in C \/ s = <<>>}
           Legal(C) == \A i \in C : LET start == Max({j \in C : j < i} \cup {0})
                                   IN  i = start + 1 \/ SubSeq(s, start + 1, i) \in patterns
           All == {D \in Cuts : Legal(D)}
           Sizes == {Cardinality(C) : C \in All}
<1>1. LeastTiling(s, patterns) = Min(Sizes)
  BY DEF LeastTiling
<1>2. All = Tilings(s, patterns, 1)
  <2>1. s = <<>> <=> 1 = Len(s) + 1
    OBVIOUS
  <2>2. \A C : Legal(C) <=> \A j \in C : LET start == Previous(C, j, 1 - 1)
                                       IN  j = start + 1 \/ SubSeq(s, start + 1, j) \in patterns
    <3>1. 1 - 1 = 0
      OBVIOUS
    <3>2. QED
      BY <3>1 DEF Previous
  <2> HIDE DEF Legal
  <2>3. QED
    BY <2>1, <2>2 DEF Tilings
<1> HIDE DEF All
<1>3. SemanticCost(s, patterns) \in Sizes /\ \A k \in Sizes : SemanticCost(s, patterns) <= k
  BY <1>2, CostIsLeast
<1>4. Sizes \subseteq Nat
  BY <1>2, CostIsLeast
<1> HIDE DEF Sizes
<1>5. QED
  BY <1>1, <1>3, <1>4, MinIs

LEMMA LearnKeepsDictionary ==
  ASSUME Text \subseteq Seq(Symbol), IsDictionary(dict), [GrowthNext]_dict
  PROVE  IsDictionary(dict')
<1>1. CASE UNCHANGED dict
  BY <1>1
<1>2. CASE GrowthNext
  <2>1. PICK text \in Text : \E cand \in Candidates(text) : Learn(cand)
    BY <1>2 DEF GrowthNext
  <2>2. PICK cand \in Candidates(text) : Learn(cand)
    BY <2>1
  <2>3. cand \in Seq(Symbol)
    BY CandidateProperties
  <2>4. Compress(dict, cand) \in Seq(Symbol)
    BY <2>3, CompressType
  <2>5. QED
    BY <2>2, <2>4 DEF Learn, IsDictionary
<1>3. QED
  BY <1>1, <1>2

(* The tokenizer of the hybrid planner costs a text the least number of    *)
(* pieces it can be cut into, foreign names or not (hybrid.rs:89-118).     *)
THEOREM TokenizerIsLeast ==
  ASSUME Text \subseteq Seq(Symbol)
  PROVE  GrowthSpec => []TilingIsLeast
<1>1. GrowthInit => IsDictionary(dict)
  BY DEF GrowthInit, IsDictionary
<1>2. IsDictionary(dict) /\ [GrowthNext]_dict => IsDictionary(dict)'
  BY LearnKeepsDictionary
<1>3. IsDictionary(dict) => TilingIsLeast
  <2>1. SUFFICES ASSUME IsDictionary(dict), NEW s \in Text
                 PROVE  SemanticCost(s, Expansions(dict)) = LeastTiling(s, Expansions(dict))
    BY DEF TilingIsLeast
  <2>2. Expansions(dict) \subseteq Seq(Capability) /\ s \in Seq(Symbol)
    BY <2>1, AllExpansionsType
  <2>3. QED
    BY <2>2, LeastTilingIsCost
<1>4. QED
  BY <1>1, <1>2, <1>3, PTL DEF GrowthSpec

=============================================================================
