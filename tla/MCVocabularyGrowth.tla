------------------------- MODULE MCVocabularyGrowth -------------------------
(* Every text over two capabilities up to MaxLength, and every vocabulary  *)
(* of up to MaxWords words learned from them, in every order.              *)
EXTENDS VocabularyGrowth, SequencesExt

CONSTANTS a, b, MaxLength, MaxWords

TextValue == BoundedSeq({a, b}, MaxLength)

MCNext == Len(dict) < MaxWords /\ GrowthNext
MCSpec == GrowthInit /\ [][MCNext]_dict

CapabilitySymmetry == Permutations(Capability)
=============================================================================
