-------------------------- MODULE MCRuntimeDescent --------------------------
(***************************************************************************)
(* The families of the programs on landscapes put together from shapes for *)
(* each coordinate.  A family has 35 episodes, as the shortest have in the *)
(* paired program, or as many as tuning takes: online tuning may take more *)
(* than 35, so the episodes also end before it has converged.              *)
(***************************************************************************)
EXTENDS RuntimeDescent

Unlimited == -1
MCBudgets == {35, Unlimited}

(* Costs by index: falling, with a valley on the odd places, with a ridge  *)
(* that a step of two jumps and a step of one does not, best at the lower  *)
(* end, and with gains around the least one.                               *)
ChunkShapes ==
  {<<900, 700, 550, 400, 250, 100, 0>>, <<800, 600, 400, 60, 300, 500, 700>>,
   <<700, 600, 900, 300, 200, 900, 0>>, <<70, 100, 151, 50, 0, 51, 101>>}
TimerShapes == {<<700, 500, 350, 200, 100, 0>>, <<300, 500, 0, 240, 180, 100>>}
ImplShapes  == {<<400, 0>>, <<0, 60>>}

Shapes(d) ==
  CASE d \in Chunks -> ChunkShapes [] d \in Impls -> ImplShapes [] OTHER -> TimerShapes

Zero(d) == [i \in 1..7 |-> 0]

Plain(family, base, shape) ==
  [dims |-> family, base |-> base, wall |-> shape, cpu |-> [d \in Range(family) |-> Zero(d)],
   twist |-> [settings |-> {}, wall |-> 0], failing |-> {}, changing |-> {},
   noise |-> {0}, breaks |-> 0]

(* The last coordinate of a family gets a trait: its second setting fails, *)
(* or changes the output; it pays only with a setting of the first; it     *)
(* saves processor time and no wall time to speak of; or it makes another  *)
(* setting of the first pay when that has been found stable (the last one  *)
(* is then a timer's quantum).                                             *)
Traits(l) ==
  LET d == l.dims[1]
      e == l.dims[Len(l.dims)]
  IN  {l, [l EXCEPT !.failing = {<<e, 1>>}], [l EXCEPT !.changing = {<<d, 3>>}],
       [l EXCEPT !.twist = [settings |-> {<<d, 3>>, <<e, 1>>}, wall |-> 900]],
       [l EXCEPT !.wall[e] = [i \in 1..7 |-> IF i = 2 THEN 0 ELSE 20],
                 !.cpu[e] = [i \in 1..7 |-> IF i = 2 THEN 0 ELSE 900]]}
      \cup {[l EXCEPT !.twist = [settings |-> {<<d, 5>>, <<e, 5>>}, wall |-> -800]] :
             x \in {e} \cap {"TimerQuantum"}}

Families == {ActiveDims(ops) : ops \in FamilyOps}

FamilyShapes ==
  UNION {{<<f, s>> : s \in {t \in [Range(f) -> UNION {Shapes(d) : d \in Range(f)}] :
                             \A d \in Range(f) : t[d] \in Shapes(d)}} : f \in Families}

(* Where executions take long the gains in percent are above the least.    *)
QuietLandscapes ==
  UNION {Traits(Plain(family, 1000, shape)) \cup {Plain(family, 9000, shape)} :
           <<family, shape>> \in FamilyShapes}

(* A small family whose measurements differ by up to 60 microseconds.      *)
NoisyLandscapes ==
  {[Plain(<<"SummaryImpl">>, 1000, [d \in {"SummaryImpl"} |-> shape]) EXCEPT !.noise = {0, 60}] :
     shape \in {<<100, 0>>, <<0, 20>>}}

(* A streak that breaks anywhere. *)
BrokenLandscapes ==
  {[l EXCEPT !.breaks = 1] : l \in {l \in QuietLandscapes : l.dims[1] = "WriteChunk" /\ l.base = 1000
     /\ l.wall["WriteChunk"][1] = 700 /\ l.twist.settings = {}}}

AllLandscapes == QuietLandscapes \cup NoisyLandscapes \cup BrokenLandscapes
=============================================================================
