-------------------------- MODULE VocabularyGrowth --------------------------
(***************************************************************************)
(* What both planners do to the vocabulary, without the rule that chooses  *)
(* the word: one word at a time, defined by compressing, with the words    *)
(* already there, a sequence no word stands for yet.  The laws below say   *)
(* what the pure algorithms of drm-core compute on every such vocabulary;  *)
(* DrmPlanner and HybridPlanner are shown to implement this specification. *)
(***************************************************************************)
EXTENDS Vocabulary

CONSTANT Text     \* the sequences the vocabulary is used on

VARIABLE dict

GrowthInit == dict = <<>>

Learn(cand) ==
  /\ cand \notin Expansions(dict)
  /\ dict' = Append(dict, Compress(dict, cand))

GrowthNext == \E text \in Text : \E cand \in Candidates(text) : Learn(cand)

GrowthSpec == GrowthInit /\ [][GrowthNext]_dict
----------------------------------------------------------------------------
(* Compression loses nothing: what the compressor makes of a text expands  *)
(* back to the text, whichever words nest in which (vocabulary.rs:122-147).*)
CompressionLossless ==
  \A s \in Text : LET code == Compress(dict, s)
                  IN  Flatten([i \in DOMAIN code |-> Expand(dict, code[i])]) = s

(* A new word stands for exactly the candidate it was learned from, and    *)
(* learning it changes what no older word stands for; the growth rules     *)
(* score the candidate and store its definition (planner.rs:96-112).       *)
LearningIsExact ==
  \A text \in Text : \A cand \in Candidates(text) :
    cand \notin Expansions(dict) =>
      Expansions(Append(dict, Compress(dict, cand))) = Expansions(dict) \cup {cand}

(* The reference cost of a text: over every set of places to cut it at,    *)
(* such that each piece is a symbol or a pattern, the fewest pieces.       *)
LeastTiling(s, patterns) ==
  LET Cuts == {C \in SUBSET (1..Len(s)) : Len(s) \in C \/ s = <<>>}
      Legal(C) == \A i \in C : LET start == Max({j \in C : j < i} \cup {0})
                              IN  i = start + 1 \/ SubSeq(s, start + 1, i) \in patterns
  IN  Min({Cardinality(C) : C \in {D \in Cuts : Legal(D)}})

(* The tokenizer of the hybrid planner computes that least cost: no way to *)
(* cut the text by the words costs less (hybrid.rs:89-118).                *)
TilingIsLeast ==
  \A s \in Text : SemanticCost(s, Expansions(dict)) = LeastTiling(s, Expansions(dict))

=============================================================================
