---------------------------- MODULE MCDrmPlanner ----------------------------
(* Bounded instances of DrmPlanner.                                        *)
EXTENDS DrmPlanner, TLC

CONSTANTS a, b, c, MaxVersion

(* Two tasks that share <<a, b, a, b>> make it a word; the longer sequence *)
(* then makes a word that holds the first one.                             *)
OpsValue == {<<a, b, a, b>>, <<c, a, b, a, b, c>>, <<a, b>>}

MCNext == version < MaxVersion /\ Next
MCSpec == Init /\ [][MCNext]_vars

TaskSymmetry == Permutations(Task)
=============================================================================
