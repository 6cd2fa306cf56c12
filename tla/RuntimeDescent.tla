--------------------------- MODULE RuntimeDescent ---------------------------
(***************************************************************************)
(* The tuner of the runtime-descent prototype: it moves the execution      *)
(* parameters of a task family (sizes of chunks, choices of an             *)
(* implementation, a timer quantum) one coordinate at a time.  The paired  *)
(* program compares candidates in runs of their own (run_optimizer); the   *)
(* online program tries them on production episodes and examines the       *)
(* result when it is idle (run_optimizer_online).                          *)
(*                                                                         *)
(* One family is modelled: the families of a program share nothing but the *)
(* planner, of which only the answer `this episode was a plain repeat' is  *)
(* read.  What an execution under some parameters takes and yields is a    *)
(* landscape, fixed for a run, and each measurement may add a noise.       *)
(* Times are in microseconds; what the log files and the summary alone     *)
(* read (counts of probes and commits, regret, medians of episodes) is     *)
(* left out.                                                               *)
(***************************************************************************)
EXTENDS OdcWorkloads

CONSTANTS Landscapes,   \* what executions take: see Wall, Cpu and Output
          Budgets,      \* how many episodes the family gets; may hold Endless
          Endless       \* as many episodes as it takes to converge

(* A family comes into being with its first episode.                       *)
ASSUME BudgetsAreSome == 0 \notin Budgets

----------------------------------------------------------------------------
(* Theta: the coordinates and where each starts; a family tunes the first  *)
(* three that its capabilities call for.                                   *)

Chunks   == {"ReadChunk", "WriteChunk", "SocketChunk"}
Impls    == {"SummaryImpl", "ExtractImpl", "ProcessImpl"}
Dims     == Chunks \cup Impls \cup {"TimerQuantum"}

MaxIndex(d) == CASE d \in Chunks -> 6 [] d \in Impls -> 1 [] OTHER -> 5

Default == [d \in Dims |-> IF d \in Chunks THEN 1 ELSE 0]

ActiveDims(ops) ==
  LET has(caps) == Range(ops) \cap caps # {}
      rule == <<<<"ReadChunk", has({fs_read, proc_observe})>>, <<"WriteChunk", has({fs_write})>>,
                <<"SocketChunk", has({http_request})>>, <<"SummaryImpl", has({transform_summarize})>>,
                <<"ExtractImpl", has({transform_extract})>>, <<"ProcessImpl", has({process_run})>>,
                <<"TimerQuantum", has({timer_observe})>>>>
      active == SelectSeq(rule, LAMBDA r : r[2])
  IN  [i \in 1..Min({3, Len(active)}) |-> active[i][1]]

(* The workflows of opt_workload and online_workload.                      *)
FamilyOps ==
  {<<fs_read, transform_extract, transform_summarize, fs_write>>,
   <<http_request, transform_extract, transform_summarize, fs_write>>,
   <<process_run, transform_summarize, fs_write>>,
   <<proc_observe, transform_extract, transform_summarize, fs_write>>,
   <<timer_observe, transform_summarize, fs_write>>}

(* The moves of one coordinate by some step, down and then up.             *)
Moves(theta, d, step) ==
  LET To(n) == IF n \in 0..MaxIndex(d) THEN <<[theta |-> [theta EXCEPT ![d] = n], dim |-> d]>> ELSE <<>>
  IN  To(theta[d] - step) \o To(theta[d] + step)

(* What executions take depends on the landscape: the time of one with no  *)
(* coordinate counted, the wall and processor time of each setting of each *)
(* coordinate, the twist of a pair of settings, and what measuring adds.   *)
(* No duration is negative.                                                *)
IsLandscape(l) ==
  /\ l.dims \in Seq(Dims) /\ l.dims # <<>>
  /\ \A i, j \in DOMAIN l.dims : l.dims[i] = l.dims[j] => i = j
  /\ l.base \in Nat /\ l.twist.wall \in Int /\ l.base + l.twist.wall \in Nat
  /\ \A d \in Range(l.dims) : \A i \in 1..(MaxIndex(d) + 1) :
       l.wall[d][i] \in Nat /\ l.cpu[d][i] \in Nat
  /\ l.noise # {} /\ l.noise \subseteq Nat /\ IsFiniteSet(l.noise)

ASSUME LandscapesAssumption == \A l \in Landscapes : IsLandscape(l)

----------------------------------------------------------------------------
VARIABLES program,    \* "paired" or "online"
          dims,       \* the coordinates of the family
          landscape,
          phase,      \* "episodes", "search", "anchor", "final", "done" or "reported"
          left,       \* the episodes to come
          streak,     \* stable_streak, up to 3
          breaks,     \* bound: up to landscape.breaks episodes are no repeat
          opt,        \* RuntimeDescent or OnlineDescent
          search,     \* neighbours to compare, and the best so far
          pass,       \* of the eight of a certification
          certified,
          landed,     \* history: opt when the episodes ended
          all_ok,     \* okcount is the number of episodes
          report      \* what the last validation found

vars == <<program, dims, landscape, phase, left, streak, breaks, opt, search, pass,
          certified, landed, all_ok, report>>

(* An execution: wall and processor time add up over the coordinates, one  *)
(* pair of settings may take a twist of its own; some settings fail, some  *)
(* yield another output.                                                   *)
Holds(theta, setting) == theta[setting[1]] = setting[2]

Wall(theta) ==
  landscape.base + SumFunction([d \in Range(dims) |-> landscape.wall[d][theta[d] + 1]])
    + IF \A s \in landscape.twist.settings : Holds(theta, s) THEN landscape.twist.wall ELSE 0

Cpu(theta) == SumFunction([d \in Range(dims) |-> landscape.cpu[d][theta[d] + 1]])

Output(theta) ==
  CASE \E s \in landscape.failing : Holds(theta, s) -> "failed"
    [] \E s \in landscape.changing : Holds(theta, s) -> "other"
    [] OTHER -> "value"

Cost(theta)   == Wall(theta) + Cpu(theta) \div 10
Walls(theta)  == {Wall(theta) + n : n \in landscape.noise}
Costs(theta)  == {Cost(theta) + n : n \in landscape.noise}

(* The k-th of s when it is sorted.                                        *)
Sorted(s, k) == Min({x \in Range(s) : Cardinality({i \in DOMAIN s : s[i] <= x}) >= k})

Median(s) ==
  LET half == Len(s) \div 2
  IN  IF Len(s) % 2 = 1 THEN Sorted(s, half + 1) ELSE (Sorted(s, half) + Sorted(s, half + 1)) \div 2

(* (Mutant: the difference is taken the other way round.)                  *)
MateriallyAbove(d, least, percent, c) == d > least /\ 100 * d > percent * c

(* d < -max(least, percent of c)                                           *)
MateriallyBelow(d, least, percent, c) == d < -least /\ 100 * d < -(percent * c)

----------------------------------------------------------------------------
(* compare: pairs of executions of theta and of a candidate.  A pair that  *)
(* fails or differs in its output ends it and it is not valid.             *)

(* The costs of some executions, and their median.                         *)
Samples(theta, pairs) ==
  {[costs |-> s, median |-> Median(s)] : s \in [1..pairs -> Costs(theta)]}

Verdict(valid, a, b) ==
  [valid |-> valid, current |-> a.median, candidate |-> b.median,
   wins |-> Cardinality({i \in DOMAIN a.costs : b.costs[i] < a.costs[i]})]

(* (Mutant: the two outputs are not compared.)                             *)
ComparedOk(theta, cand, pairs) ==
  {Verdict(Output(theta) # "failed" /\ Output(cand) # "failed", a, b) :
     a \in Samples(theta, pairs), b \in Samples(cand, pairs)}

Compared(theta, cand, pairs) ==
  {Verdict(Output(theta) # "failed" /\ Output(cand) = Output(theta), a, b) :
     a \in Samples(theta, pairs), b \in Samples(cand, pairs)}

Pairs(kind) == IF kind = "optimize" THEN 3 ELSE 5

(* (Mutant: the idle search asks what the others ask.)                     *)
BetterAlike(kind, r) ==
  /\ r.valid /\ r.wins >= (Pairs(kind) + 1) \div 2
  /\ MateriallyBelow(r.candidate - r.current, 10, 2, r.current)

(* materially_better, and the rule of the idle search.                     *)

Better(kind, r) ==
  /\ r.valid
  /\ LET delta == r.candidate - r.current
     IN  IF kind = "idle"
         THEN r.wins >= 4 /\ MateriallyBelow(delta, 50, 3, r.current)
         ELSE r.wins >= (Pairs(kind) + 1) \div 2 /\ MateriallyBelow(delta, 10, 2, r.current)

NoSearch == [kind |-> "none", todo |-> <<>>, found |-> FALSE, best |-> Default, cost |-> 0]

(* (Mutant: the search ends with its first candidate.)                     *)
SearchForOne(kind, todo) == [NoSearch EXCEPT !.kind = kind, !.todo = SubSeq(todo, 1, 1)]

SearchFor(kind, todo) == [NoSearch EXCEPT !.kind = kind, !.todo = todo]

(* The neighbours of all coordinates at one step.                          *)
Neighbours(theta) == Flatten([i \in DOMAIN dims |-> Moves(theta, dims[i], 1)])

----------------------------------------------------------------------------
NewOpt ==
  [theta |-> Default, step |-> [d \in Range(dims) |-> IF MaxIndex(d) <= 1 THEN 1 ELSE 2],
   stable |-> [d \in Range(dims) |-> 0],   \* a bool in the paired program
   cursor |-> 1, converged |-> FALSE, baseline |-> <<>>, pending |-> <<>>, observed |-> <<>>]

Unseen == -1   \* the streak before the first episode

NoReport == [eq |-> FALSE, faster |-> FALSE]

Init ==
  /\ program \in {"paired", "online"}
  /\ landscape \in Landscapes
  /\ dims = landscape.dims
  /\ phase = "episodes" /\ left \in Budgets /\ streak = Unseen /\ breaks = 0
  /\ opt = NewOpt
  /\ search = NoSearch /\ pass = 0 /\ certified = FALSE /\ landed = NewOpt /\ all_ok = TRUE
  /\ report = NoReport

Dimension(o) == dims[o.cursor]

(* (Mutant: the last coordinate is left out.)                              *)
AdvancedShort(o) == [o EXCEPT !.cursor = (@ % Max({1, Len(dims) - 1})) + 1]

Advanced(o) == [o EXCEPT !.cursor = (@ % Len(dims)) + 1]

(* (Mutant: a commit keeps what was found stable before it.)               *)
MovedKeepsStable(o, theta) == [o EXCEPT !.theta = theta]

(* A commit: nothing found stable before it counts.                        *)
Moved(o, theta) == [o EXCEPT !.theta = theta, !.stable = [d \in Range(dims) |-> 0]]

(* (Mutant: the baseline of the parameters before the commit is kept.)     *)
RestartedFull(o, cost) == [o EXCEPT !.baseline = Append(@, cost)]

(* The baseline starts again, from the cost of the probe that won.         *)
Restarted(o, cost) == [o EXCEPT !.baseline = <<cost>>]

(* No candidate was better: halve the step, or count a stable pass.        *)
Shrunk(o, d) ==
  IF o.step[d] > 1 THEN [o EXCEPT !.step[d] = Max({1, @ \div 2}), !.stable[d] = 0]
  ELSE [o EXCEPT !.stable[d] = IF program = "paired" THEN 1 ELSE @ + 1]

Judged(o) ==
  LET enough == IF program = "paired" THEN 1 ELSE 2
  IN  [o EXCEPT !.converged = @ \/ \A d \in Range(dims) : o.stable[d] >= enough]

----------------------------------------------------------------------------
(* OnlineDescent: choose the parameters of an episode, observe its cost.   *)

Choose(o) ==
  IF o.converged \/ Len(o.baseline) < 3 THEN [opt |-> o, theta |-> o.theta, candidate |-> FALSE]
  ELSE LET d     == Dimension(o)
           moves == IF o.pending = <<>> THEN Moves(o.theta, d, o.step[d]) ELSE o.pending
       IN  IF moves = <<>>
           THEN [opt |-> Advanced([o EXCEPT !.stable[d] = @ + 1]), theta |-> o.theta, candidate |-> FALSE]
           ELSE [opt |-> [o EXCEPT !.pending = moves], theta |-> Head(moves).theta, candidate |-> TRUE]

(* A sweep of one coordinate is over: commit the best that is better than  *)
(* the baseline, or go on to the next coordinate.  What failed or yielded  *)
(* another output is not told apart.                                       *)
Swept(o, d, observed) ==
  LET base  == Median(o.baseline)
      worth == {i \in DOMAIN observed :
                  /\ observed[i].dim = d
                  /\ MateriallyBelow(observed[i].cost - base, 50, IF o.step[d] > 1 THEN 3 ELSE 2, base)}
      best  == CHOOSE i \in worth : \A j \in worth :
                 \/ observed[i].cost < observed[j].cost
                 \/ observed[i].cost = observed[j].cost /\ i <= j
      next  == IF worth # {}
               THEN Restarted(Moved(o, observed[best].theta), observed[best].cost)
               ELSE Advanced(Shrunk(o, d))
  IN  Judged([next EXCEPT !.pending = <<>>, !.observed = <<>>])

Observe(o, used, candidate, cost) ==
  IF ~candidate
  THEN LET all == Append(o.baseline, cost)
       IN  [o EXCEPT !.baseline = SubSeq(all, Max({0, Len(all) - 5}) + 1, Len(all))]
  ELSE LET probe    == Head(o.pending)
           observed == Append(o.observed, [theta |-> used, dim |-> probe.dim, cost |-> cost])
       IN  IF Len(o.pending) > 1 THEN [o EXCEPT !.pending = Tail(@), !.observed = observed]
           ELSE Swept(o, probe.dim, observed)

----------------------------------------------------------------------------
(* The episodes.  One that is no plain repeat, as the first of a family is *)
(* not, ends the streak.                                                   *)

Streaks ==
  IF streak = Unseen THEN {0}
  ELSE {Min({3, streak + 1})} \cup IF breaks < landscape.breaks THEN {0} ELSE {}

NextEpisode ==
  /\ phase = "episodes" /\ left # 0
  /\ streak' \in Streaks
  /\ breaks' = breaks + Count(streak # Unseen /\ streak' = 0)
  /\ left' = IF left = Endless THEN left ELSE left - 1
  /\ UNCHANGED <<program, dims, landscape, pass, certified, landed, report>>

(* The online program tunes with the execution of the episode itself.      *)
OnlineEpisode ==
  /\ program = "online" /\ NextEpisode
  /\ LET choice == IF streak' >= 3 THEN Choose(opt)
                   ELSE [opt |-> opt, theta |-> opt.theta, candidate |-> FALSE]
     IN  /\ all_ok' = (all_ok /\ Output(choice.theta) # "failed")
         /\ IF streak' >= 3
            THEN \E cost \in Costs(choice.theta) :
                   opt' = Observe(choice.opt, choice.theta, choice.candidate, cost)
            ELSE UNCHANGED opt
  /\ UNCHANGED <<phase, search>>

(* The paired program executes the episode and then compares the moves of  *)
(* one coordinate (optimize_once).                                         *)
PairedEpisode ==
  /\ program = "paired" /\ NextEpisode
  /\ all_ok' = (all_ok /\ Output(opt.theta) # "failed")
  /\ IF streak' >= 3 /\ ~opt.converged
     THEN LET d == Dimension(opt)
          IN  /\ search' = SearchFor("optimize", Moves(opt.theta, d, opt.step[d]))
              /\ opt' = Advanced(opt)
              /\ phase' = "search"
     ELSE UNCHANGED <<search, opt, phase>>

(* One candidate of a search: kept if it is better, and than the best too. *)
CompareNeighbour ==
  /\ phase = "search" /\ search.todo # <<>>
  /\ LET cand == Head(search.todo).theta
         rest == [search EXCEPT !.todo = Tail(@)]
     IN  \E r \in Compared(opt.theta, cand, Pairs(search.kind)) :
           search' = IF Better(search.kind, r) /\ (search.found => r.candidate < search.cost)
                     THEN [rest EXCEPT !.found = TRUE, !.best = cand, !.cost = r.candidate]
                     ELSE rest
  /\ UNCHANGED <<program, dims, landscape, phase, left, streak, breaks, opt, pass,
                 certified, landed, all_ok, report>>

Searched(kind) == phase = "search" /\ search.kind = kind /\ search.todo = <<>>

(* The end of optimize_once, for the coordinate before the cursor.         *)
Optimized ==
  /\ Searched("optimize")
  /\ LET d == dims[IF opt.cursor = 1 THEN Len(dims) ELSE opt.cursor - 1]
     IN  opt' = IF search.found THEN Moved(opt, search.best) ELSE Judged(Shrunk(opt, d))
  /\ search' = NoSearch /\ phase' = "episodes"
  /\ UNCHANGED <<program, dims, landscape, left, streak, breaks, pass, certified, landed, all_ok, report>>

(* The episodes are over: certification begins.                            *)
EndEpisodes ==
  /\ phase = "episodes" /\ (left = 0 \/ (left = Endless /\ opt.converged))
  /\ landed' = opt
  /\ IF program = "paired"
     THEN search' = SearchFor("certify", Neighbours(opt.theta)) /\ phase' = "search"
     ELSE phase' = "anchor" /\ UNCHANGED search
  /\ UNCHANGED <<program, dims, landscape, left, streak, breaks, opt, pass, certified, all_ok,
                 report>>

----------------------------------------------------------------------------
(* Certification, in at most eight passes.                                 *)

MaxPass == 8

(* certify: no neighbour is better, or the best one is committed.          *)
Certified ==
  /\ Searched("certify")
  /\ certified' = ~search.found
  /\ opt' = IF search.found THEN [Moved(opt, search.best) EXCEPT !.converged = FALSE]
            ELSE [opt EXCEPT !.converged = TRUE]
  /\ pass' = pass + Count(search.found)
  /\ IF search.found /\ pass' < MaxPass
     THEN search' = SearchFor("certify", Neighbours(search.best)) /\ UNCHANGED phase
     ELSE search' = NoSearch /\ phase' = "done"
  /\ UNCHANGED <<program, dims, landscape, left, streak, breaks, landed, all_ok, report>>

(* The anchor: the parameters yield what the default ones yield, and are   *)
(* the default ones or faster by 0.05 ms and 2%.  A time of 0 counts as no *)
(* speed at all.                                                           *)
Anchored(theta, dm, cm) ==
  /\ Output(theta) = Output(Default) /\ Output(Default) # "failed"
  /\ theta = Default \/ (cm > 0 /\ dm - cm >= 50 /\ 100 * dm >= 102 * cm)

Anchor ==
  /\ phase = "anchor"
  /\ \E dm \in Walls(Default), cm \in Walls(opt.theta) :
       opt' = IF Anchored(opt.theta, dm, cm) THEN opt ELSE [opt EXCEPT !.theta = Default]
  /\ search' = SearchFor("idle", Neighbours(opt'.theta)) /\ phase' = "search"
  /\ UNCHANGED <<program, dims, landscape, left, streak, breaks, pass, certified, landed, all_ok, report>>

NextPass == pass' = pass + 1 /\ phase' = IF pass' < MaxPass THEN "anchor" ELSE "done"

(* The end of the idle search: commit and begin another pass, or go on to  *)
(* the final anchor.                                                       *)
IdleSearched ==
  /\ Searched("idle")
  /\ search' = NoSearch
  /\ IF search.found THEN opt' = [opt EXCEPT !.theta = search.best] /\ NextPass
     ELSE phase' = "final" /\ UNCHANGED <<opt, pass>>
  /\ UNCHANGED <<program, dims, landscape, left, streak, breaks, certified, landed, all_ok, report>>

FinalAnchor ==
  /\ phase = "final"
  /\ \E dm \in Walls(Default), cm \in Walls(opt.theta) :
       IF Anchored(opt.theta, dm, cm)
       THEN /\ certified' = TRUE /\ opt' = [opt EXCEPT !.converged = TRUE]
            /\ phase' = "done" /\ UNCHANGED pass
       ELSE /\ opt' = [opt EXCEPT !.theta = Default] /\ UNCHANGED certified
            /\ NextPass
  /\ UNCHANGED <<program, dims, landscape, left, streak, breaks, search, landed, all_ok, report>>

(* The last validation, of the parameters a family ended with against the  *)
(* default ones: whether every pair succeeded and yielded the same, and    *)
(* whether the parameters are faster.  It changes neither the parameters   *)
(* nor what the program returns.                                           *)
MeaningfullyFaster(dm, om) ==
  IF program = "paired" THEN om < dm ELSE om > 0 /\ dm - om >= 50 /\ 100 * dm >= 102 * om

Validate ==
  /\ phase = "done" /\ phase' = "reported"
  /\ \E dm \in Walls(Default), om \in Walls(opt.theta) :
       /\ program = "online" /\ opt.theta = Default => om = dm
       /\ report' = [eq |-> Output(Default) # "failed" /\ Output(opt.theta) = Output(Default),
                     faster |-> MeaningfullyFaster(dm, om)]
  /\ UNCHANGED <<program, dims, landscape, left, streak, breaks, opt, search, pass, certified,
                 landed, all_ok>>

(* What the program returns: 0 when every episode succeeded and every      *)
(* family is certified, and for the online program has converged.  It also *)
(* asks for a uniform vocabulary, which is the planner's (OdcRuns).        *)
Succeeds == all_ok /\ certified /\ (program = "online" => opt.converged)

Next ==
  \/ OnlineEpisode \/ PairedEpisode \/ CompareNeighbour \/ Optimized \/ EndEpisodes
  \/ Certified \/ Anchor \/ IdleSearched \/ FinalAnchor \/ Validate

Spec == Init /\ [][Next]_vars /\ WF_vars(Next)

----------------------------------------------------------------------------
Quiet == landscape.noise = {0}
Spread == CHOOSE n \in landscape.noise : \A m \in landscape.noise : m <= n

(* The costs candidates are judged by are costs of the present parameters, *)
(* and what is still to be tried or to be judged differs from them in the  *)
(* coordinate being swept and in no other, whatever breaks the streak.     *)
BaselineIsCurrent ==
  program = "online" /\ phase = "episodes" =>
    /\ \A i \in DOMAIN opt.baseline : opt.baseline[i] \in Costs(opt.theta)
    /\ \A probe \in Range(opt.pending) \cup Range(opt.observed) :
         /\ probe.dim = Dimension(opt)
         /\ probe.theta # opt.theta
         /\ [probe.theta EXCEPT ![probe.dim] = opt.theta[probe.dim]] = opt.theta

(* What converged is a local optimum at the finest step in every           *)
(* coordinate at once, though the coordinates were tried at different      *)
(* times: no neighbour would be committed now.                             *)
WouldCommit(cand) ==
  IF program = "paired" THEN \E r \in Compared(opt.theta, cand, 3) : Better("optimize", r)
  ELSE MateriallyBelow(Cost(cand) - Cost(opt.theta), 50, 2, Cost(opt.theta))

ConvergedIsLocal ==
  (Quiet /\ phase = "episodes" /\ opt.converged) =>
    \A i \in DOMAIN Neighbours(opt.theta) : ~WouldCommit(Neighbours(opt.theta)[i].theta)

(* What is certified is settled by the code's own rule, whatever the       *)
(* anchors and the passes before have moved: no neighbour is cheaper by    *)
(* more than the larger of 3% and 0.05 ms and in four of five pairs        *)
(* (runtime_descent.cpp:289-290), in the paired program by more than the   *)
(* larger of 2% and 0.01 ms and in three of five (line 102); and what      *)
(* online tuning kept is faster than the default as the anchors ask, so    *)
(* the last validation says so too.  RUNTIME_DESCENT_RESULTS.md:14         *)
(* promises more: no neighbour 3% or 0.05 ms faster.                       *)
CertifiedIsSettled ==
  (Quiet /\ certified) =>
    /\ opt.converged
    /\ \A i \in DOMAIN Neighbours(opt.theta) :
         \A r \in Compared(opt.theta, Neighbours(opt.theta)[i].theta, 5) :
           ~Better(IF program = "paired" THEN "certify" ELSE "idle", r)
    /\ program = "online" => Anchored(opt.theta, Wall(Default), Wall(opt.theta))
    /\ program = "online" /\ phase = "reported" => report.faster = (opt.theta # Default)

(* The paired program never leaves the output of the default parameters,   *)
(* the online program has come back to it once it is certified, and a      *)
(* program that returns 0 wrote that the outputs are equivalent, which it  *)
(* does not look at.                                                       *)
OutputKept ==
  /\ program = "paired" \/ certified => Output(opt.theta) = Output(Default)
  /\ phase = "reported" /\ Succeeds => report.eq

(* What online tuning converged to, if the anchor accepts it, is certified *)
(* as it is: the idle search asks no less of a move than tuning did.       *)
ConvergedIsCertified ==
  (Quiet /\ program = "online" /\ phase = "done" /\ landed.converged
     /\ Anchored(landed.theta, Wall(Default), Wall(landed.theta))) =>
    certified /\ opt.theta = landed.theta

(* Parameters change to cheaper ones, by more than the least gain and up   *)
(* to the noise of two measurements, or back to the default ones.          *)
CommitsDescend ==
  [][opt'.theta # opt.theta =>
       \/ opt'.theta = Default /\ phase \in {"anchor", "final"}
       \/ Cost(opt'.theta) + 10 < Cost(opt.theta) + Spread]_vars

(* Without noise tuning converges, given episodes enough.                  *)
Converges == (Quiet /\ left = Endless) ~> opt.converged
=============================================================================
