--------------------------- MODULE MCHybridPlanner ---------------------------
(* Bounded instances of HybridPlanner.                                     *)
EXTENDS HybridPlanner, TLC

CONSTANTS a, b, c, MaxVersion

SharedMotifs == {<<a, b, c>>, <<c, a, b, c, a, b>>, <<b, c, a>>}

(* Two names that are not capabilities: x, which the runtime knows no      *)
(* meaning of, and the name of the first word, written by a caller.        *)
CONSTANT x

MixedMotifs == {<<a, b, c>>, <<c, a, b, c, a, b>>, <<a, b, x>>, <<1, c, a>>}

MCNext ==
  \/ ConsolidatePending
  \/ version < MaxVersion /\ \E ep \in Episode : Plan(ep)
MCSpec == Init /\ [][MCNext]_vars

TaskSymmetry == Permutations(Task)
=============================================================================
