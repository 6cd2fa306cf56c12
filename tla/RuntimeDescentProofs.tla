------------------------ MODULE RuntimeDescentProofs ------------------------
(***************************************************************************)
(* What holds of the tuners for every landscape, noise and budget: the     *)
(* paired program never leaves the output of the default parameters, and   *)
(* the online program, which may leave it, keeps what its phases promise:  *)
(* a baseline measured at the current point, a verdict of convergence only *)
(* at a local optimum, a certificate only when the search has settled.     *)
(* TunerInv, inductive, is what the two optimizers know between episodes.  *)
(***************************************************************************)
EXTENDS RuntimeDescent, VocabularyProofs

----------------------------------------------------------------------------
(* The parameters a helper leaves alone.                                   *)

LEMMA AdvancedKeeps ==
  ASSUME NEW o, "theta" \in DOMAIN o
  PROVE  "theta" \in DOMAIN Advanced(o) /\ Advanced(o).theta = o.theta
BY DEF Advanced

LEMMA MovedMoves ==
  ASSUME NEW o, NEW theta, "theta" \in DOMAIN o
  PROVE  "theta" \in DOMAIN Moved(o, theta) /\ Moved(o, theta).theta = theta
BY DEF Moved

LEMMA RestartedKeeps ==
  ASSUME NEW o, NEW cost, "theta" \in DOMAIN o
  PROVE  "theta" \in DOMAIN Restarted(o, cost)
BY DEF Restarted

LEMMA ShrunkKeeps ==
  ASSUME NEW o, NEW d, "theta" \in DOMAIN o
  PROVE  "theta" \in DOMAIN Shrunk(o, d) /\ Shrunk(o, d).theta = o.theta
BY DEF Shrunk

LEMMA JudgedKeeps ==
  ASSUME NEW o, "theta" \in DOMAIN o
  PROVE  "theta" \in DOMAIN Judged(o) /\ Judged(o).theta = o.theta
BY DEF Judged

LEMMA ChosenIsRecord ==
  ASSUME NEW o, "theta" \in DOMAIN o
  PROVE  "theta" \in DOMAIN Choose(o).opt
BY AdvancedKeeps DEF Choose

LEMMA SweptIsRecord ==
  ASSUME NEW o, NEW d, NEW observed, "theta" \in DOMAIN o
  PROVE  "theta" \in DOMAIN Swept(o, d, observed)
BY AdvancedKeeps, MovedMoves, RestartedKeeps, ShrunkKeeps, JudgedKeeps DEF Swept

LEMMA ObservedIsRecord ==
  ASSUME NEW o, NEW used, NEW candidate, NEW cost, "theta" \in DOMAIN o
  PROVE  "theta" \in DOMAIN Observe(o, used, candidate, cost)
BY SweptIsRecord DEF Observe

----------------------------------------------------------------------------
(* The inductive invariant.  A search only finds what yields the output of *)
(* the parameters it began with, so a commit cannot change the output; an  *)
(* online commit can, but certification comes after an anchor and nothing  *)
(* is committed behind it.                                                 *)
Same(theta) == Output(theta) = Output(Default)

Records ==
  /\ "theta" \in DOMAIN opt
  /\ {"kind", "todo", "found", "best", "cost"} \subseteq DOMAIN search

FoundIsSame == search.found => Output(search.best) = Output(opt.theta)

Ordered ==
  /\ program \in {"paired", "online"}
  /\ search.kind = "certify" => program = "paired"
  /\ phase # "search" => ~search.found
  /\ certified => phase \in {"done", "reported"}

(* What the exit code rests on: a family has executed an episode before    *)
(* its episodes are over.                                                  *)
HasExecuted ==
  /\ streak \in Nat \cup {Unseen}
  /\ streak = Unseen => phase = "episodes" /\ left # 0 /\ ~opt.converged
  /\ program = "paired" /\ streak # Unseen /\ all_ok => Output(Default) # "failed"
  /\ program = "online" /\ certified => Output(Default) # "failed"
  /\ phase = "reported" =>
       report.eq = (Output(Default) # "failed" /\ Output(opt.theta) = Output(Default))

OutputInv ==
  /\ Records /\ FoundIsSame /\ Ordered /\ HasExecuted
  /\ program = "paired" \/ certified => Same(opt.theta)

LEMMA SearchIsRecord ==
  ASSUME NEW kind, NEW todo
  PROVE  /\ {"kind", "todo", "found", "best", "cost"} \subseteq DOMAIN SearchFor(kind, todo)
         /\ SearchFor(kind, todo).kind = kind /\ ~SearchFor(kind, todo).found
         /\ {"kind", "todo", "found", "best", "cost"} \subseteq DOMAIN NoSearch
         /\ NoSearch.kind = "none" /\ ~NoSearch.found
BY DEF SearchFor, NoSearch

LEMMA OutputInit == Init => OutputInv
<1> SUFFICES ASSUME Init PROVE OutputInv
  OBVIOUS
<1>1. opt.theta = Default /\ ~opt.converged /\ "theta" \in DOMAIN opt
  BY DEF Init, NewOpt
<1>2. search.kind = "none" /\ ~search.found
      /\ {"kind", "todo", "found", "best", "cost"} \subseteq DOMAIN search
  BY DEF Init, NoSearch
<1>3. left # 0
  BY BudgetsAreSome DEF Init
<1>4. QED
  BY <1>1, <1>2, <1>3 DEF Init, OutputInv, Records, FoundIsSame, Ordered, HasExecuted, Same, Unseen

LEMMA SmallerOfTwo ==
  ASSUME NEW m \in Int, NEW n \in Int
  PROVE  Min({m, n}) \in {m, n}
<1>1. \E x \in {m, n} : \A y \in {m, n} : x <= y
  BY m <= n \/ n <= m
<1>2. QED
  BY <1>1 DEF Min

(* An episode that was executed has been seen.                             *)
LEMMA StreakSeen ==
  ASSUME HasExecuted, NextEpisode
  PROVE  streak' \in Nat /\ streak' # Unseen
<1>1. streak' \in Streaks
  BY DEF NextEpisode
<1>2. CASE streak = Unseen
  BY <1>1, <1>2 DEF Streaks, Unseen
<1>3. CASE streak # Unseen
  <2>1. streak \in Nat
    BY <1>3 DEF HasExecuted
  <2>2. Min({3, streak + 1}) \in {3, streak + 1}
    BY <2>1, SmallerOfTwo
  <2>3. streak' \in {3, streak + 1, 0}
    BY SMTT(30), <1>1, <1>3, <2>2 DEF Streaks
  <2>4. QED
    BY <2>1, <2>3 DEF Unseen
<1>4. QED
  BY <1>2, <1>3

LEMMA LandscapeStays ==
  ASSUME [Next]_vars
  PROVE  program' = program /\ landscape' = landscape
BY DEF Next, vars, OnlineEpisode, PairedEpisode, NextEpisode, CompareNeighbour, Optimized,
       EndEpisodes, Certified, Anchor, IdleSearched, FinalAnchor, Validate

LEMMA OutputStays ==
  ASSUME landscape' = landscape
  PROVE  \A theta : Output(theta)' = Output(theta)
BY DEF Output, Holds

(* One lemma for each step.                                                *)
LEMMA OnlineEpisodeKeeps == OutputInv /\ OnlineEpisode => OutputInv'
<1> SUFFICES ASSUME OutputInv, OnlineEpisode
             PROVE  OutputInv'
  OBVIOUS
<1>1. /\ program = "online" /\ program' = program /\ phase = "episodes" /\ phase' = phase
      /\ search' = search /\ certified' = certified /\ NextEpisode
  BY DEF OnlineEpisode, NextEpisode
<1>2. streak' \in Nat /\ streak' # Unseen
  BY <1>1, StreakSeen DEF OutputInv
<1>3. ~certified /\ ~search.found
  BY <1>1 DEF OutputInv, Ordered
<1>4. "theta" \in DOMAIN opt'
  <2>1. CASE ~(streak' >= 3)
    BY <2>1 DEF OnlineEpisode, OutputInv, Records
  <2>2. CASE streak' >= 3
    <3>1. PICK cost : opt' = Observe(Choose(opt).opt, Choose(opt).theta, Choose(opt).candidate, cost)
      BY <2>2 DEF OnlineEpisode
    <3>2. QED
      BY <3>1, ChosenIsRecord, ObservedIsRecord DEF OutputInv, Records
  <2>3. QED
    BY <2>1, <2>2
<1>5. QED
  BY <1>1, <1>2, <1>3, <1>4 DEF OutputInv, Records, FoundIsSame, Ordered, HasExecuted

LEMMA PairedEpisodeKeeps == OutputInv /\ PairedEpisode => OutputInv'
<1> SUFFICES ASSUME OutputInv, PairedEpisode
             PROVE  OutputInv'
  OBVIOUS
<1>1. /\ program = "paired" /\ program' = program /\ phase = "episodes"
      /\ landscape' = landscape /\ certified' = certified /\ NextEpisode
      /\ all_ok' = (all_ok /\ Output(opt.theta) # "failed")
  BY DEF PairedEpisode, NextEpisode
<1>2. streak' \in Nat /\ streak' # Unseen
  BY <1>1, StreakSeen DEF OutputInv
<1>3. \A theta : Output(theta)' = Output(theta)
  BY <1>1, OutputStays
<1>4. "theta" \in DOMAIN opt' /\ opt'.theta = opt.theta
  BY AdvancedKeeps DEF PairedEpisode, OutputInv, Records
<1>5. /\ {"kind", "todo", "found", "best", "cost"} \subseteq DOMAIN search'
      /\ ~search'.found /\ phase' \in {"episodes", "search"}
  BY <1>1, SearchIsRecord DEF PairedEpisode, OutputInv, Records, Ordered
<1>6. all_ok' => Output(Default) # "failed"
  BY <1>1 DEF OutputInv, Same
<1>7. QED
  BY <1>1, <1>2, <1>3, <1>4, <1>5, <1>6
     DEF OutputInv, Records, FoundIsSame, Ordered, HasExecuted, Same

(* What is found was valid: it yields what the present parameters yield.   *)
LEMMA BetterIsSame ==
  ASSUME NEW theta, NEW cand, NEW pairs, NEW kind,
         NEW r \in Compared(theta, cand, pairs), Better(kind, r)
  PROVE  Output(cand) = Output(theta)
<1>1. r.valid
  BY DEF Better
<1>2. PICK a \in Samples(theta, pairs), b \in Samples(cand, pairs) :
        r = Verdict(Output(theta) # "failed" /\ Output(cand) = Output(theta), a, b)
  BY DEF Compared
<1>3. r.valid = (Output(theta) # "failed" /\ Output(cand) = Output(theta))
  BY <1>2 DEF Verdict
<1>4. QED
  BY <1>1, <1>3

LEMMA CompareNeighbourKeeps == OutputInv /\ CompareNeighbour => OutputInv'
<1> SUFFICES ASSUME OutputInv, CompareNeighbour
             PROVE  OutputInv'
  OBVIOUS
<1> DEFINE cand == Head(search.todo).theta
           rest == [search EXCEPT !.todo = Tail(@)]
<1>1. /\ phase = "search" /\ UNCHANGED <<program, landscape, phase, left, streak, opt, certified, all_ok, report>>
  BY DEF CompareNeighbour
<1>2. \A theta : Output(theta)' = Output(theta)
  BY <1>1, OutputStays
<1>3. PICK r \in Compared(opt.theta, cand, Pairs(search.kind)) :
        search' = IF Better(search.kind, r) /\ (search.found => r.candidate < search.cost)
                  THEN [rest EXCEPT !.found = TRUE, !.best = cand, !.cost = r.candidate]
                  ELSE rest
  BY DEF CompareNeighbour
<1>4. /\ DOMAIN rest = DOMAIN search /\ rest.kind = search.kind
      /\ rest.found = search.found /\ rest.best = search.best
  BY DEF OutputInv, Records
<1>5. /\ {"kind", "todo", "found", "best", "cost"} \subseteq DOMAIN search'
      /\ search'.kind = search.kind
      /\ search'.found => Output(search'.best) = Output(opt.theta)
  <2>1. CASE search' = rest
    BY <1>4, <2>1 DEF OutputInv, Records, FoundIsSame
  <2>2. CASE search' = [rest EXCEPT !.found = TRUE, !.best = cand, !.cost = r.candidate]
             /\ Better(search.kind, r)
    <3>1. DOMAIN search' = DOMAIN search /\ search'.kind = search.kind /\ search'.best = cand
      BY <1>4, <2>2 DEF OutputInv, Records
    <3>2. Output(cand) = Output(opt.theta)
      BY <2>2, BetterIsSame
    <3>3. QED
      BY <3>1, <3>2 DEF OutputInv, Records
  <2>3. QED
    BY <1>3, <2>1, <2>2
<1>6. QED
  BY <1>1, <1>2, <1>5 DEF OutputInv, Records, FoundIsSame, Ordered, HasExecuted, Same

LEMMA OptimizedKeeps == OutputInv /\ Optimized => OutputInv'
<1> SUFFICES ASSUME OutputInv, Optimized
             PROVE  OutputInv'
  OBVIOUS
<1>1. /\ phase = "search" /\ phase' = "episodes" /\ search' = NoSearch
      /\ UNCHANGED <<program, landscape, left, streak, certified, all_ok, report>>
  BY DEF Optimized, Searched
<1>2. \A theta : Output(theta)' = Output(theta)
  BY <1>1, OutputStays
<1>3. /\ "theta" \in DOMAIN opt'
      /\ \/ opt'.theta = opt.theta
         \/ search.found /\ opt'.theta = search.best
  <2> DEFINE d == dims[IF opt.cursor = 1 THEN Len(dims) ELSE opt.cursor - 1]
  <2>1. "theta" \in DOMAIN opt
    BY DEF OutputInv, Records
  <2>2. CASE search.found /\ opt' = Moved(opt, search.best)
    BY <2>1, <2>2, MovedMoves
  <2>3. CASE opt' = Judged(Shrunk(opt, d))
    BY <2>1, <2>3, ShrunkKeeps, JudgedKeeps
  <2>4. QED
    BY <2>2, <2>3 DEF Optimized
<1>4. ~certified /\ streak # Unseen
  BY <1>1 DEF OutputInv, Ordered, HasExecuted
<1>5. QED
  BY <1>1, <1>2, <1>3, <1>4, SearchIsRecord
     DEF OutputInv, Records, FoundIsSame, Ordered, HasExecuted, Same

LEMMA EndEpisodesKeeps == OutputInv /\ EndEpisodes => OutputInv'
<1> SUFFICES ASSUME OutputInv, EndEpisodes
             PROVE  OutputInv'
  OBVIOUS
<1>1. /\ phase = "episodes" /\ phase' \in {"search", "anchor"}
      /\ left = 0 \/ opt.converged
      /\ UNCHANGED <<program, landscape, left, streak, opt, certified, all_ok, report>>
  BY DEF EndEpisodes
<1>2. \A theta : Output(theta)' = Output(theta)
  BY <1>1, OutputStays
<1>3. /\ {"kind", "todo", "found", "best", "cost"} \subseteq DOMAIN search' /\ ~search'.found
      /\ search'.kind = "certify" => program = "paired"
  <2>1. CASE program = "paired"
    BY <2>1, SearchIsRecord DEF EndEpisodes
  <2>2. CASE program # "paired"
    BY <1>1, <2>2 DEF EndEpisodes, OutputInv, Records, Ordered
  <2>3. QED
    BY <2>1, <2>2
<1>4. streak # Unseen /\ ~certified
  BY <1>1 DEF OutputInv, HasExecuted, Ordered
<1>5. QED
  BY <1>1, <1>2, <1>3, <1>4 DEF OutputInv, Records, FoundIsSame, Ordered, HasExecuted, Same

(* A pass of certify that finds nothing certifies what it began with.      *)
LEMMA CertifiedKeeps == OutputInv /\ Certified => OutputInv'
<1> SUFFICES ASSUME OutputInv, Certified
             PROVE  OutputInv'
  OBVIOUS
<1>1. /\ phase = "search" /\ program = "paired" /\ certified' = ~search.found
      /\ UNCHANGED <<program, landscape, left, streak, all_ok, report>>
  BY DEF Certified, Searched, OutputInv, Ordered
<1>2. \A theta : Output(theta)' = Output(theta)
  BY <1>1, OutputStays
<1>3. "theta" \in DOMAIN opt' /\ Output(opt'.theta) = Output(opt.theta)
  <2>1. "theta" \in DOMAIN opt
    BY DEF OutputInv, Records
  <2>2. CASE search.found /\ opt' = [Moved(opt, search.best) EXCEPT !.converged = FALSE]
    <3>1. "theta" \in DOMAIN Moved(opt, search.best) /\ Moved(opt, search.best).theta = search.best
      BY <2>1, MovedMoves
    <3>2. "theta" \in DOMAIN opt' /\ opt'.theta = search.best
      BY <2>2, <3>1
    <3>3. QED
      BY <2>2, <3>2 DEF OutputInv, FoundIsSame
  <2>3. CASE opt' = [opt EXCEPT !.converged = TRUE]
    BY <2>1, <2>3
  <2>4. QED
    BY <2>2, <2>3 DEF Certified
<1>4. /\ {"kind", "todo", "found", "best", "cost"} \subseteq DOMAIN search' /\ ~search'.found
      /\ phase' \in {"search", "done"} /\ (certified' => phase' = "done")
  <2>1. CASE phase' = "search" /\ search.found /\ search' = SearchFor("certify", Neighbours(search.best))
    BY <1>1, <2>1, SearchIsRecord
  <2>2. CASE phase' = "done" /\ search' = NoSearch
    BY <2>2, SearchIsRecord
  <2>3. QED
    BY <1>1, <2>1, <2>2 DEF Certified
<1>5. streak # Unseen
  BY <1>1 DEF OutputInv, HasExecuted
<1>6. QED
  BY <1>1, <1>2, <1>3, <1>4, <1>5 DEF OutputInv, Records, FoundIsSame, Ordered, HasExecuted, Same

LEMMA AnchorKeeps == OutputInv /\ Anchor => OutputInv'
<1> SUFFICES ASSUME OutputInv, Anchor
             PROVE  OutputInv'
  OBVIOUS
<1>1. /\ phase = "anchor" /\ phase' = "search" /\ search' = SearchFor("idle", Neighbours(opt'.theta))
      /\ UNCHANGED <<program, landscape, left, streak, certified, all_ok, report>>
  BY DEF Anchor
<1>2. \A theta : Output(theta)' = Output(theta)
  BY <1>1, OutputStays
<1>3. "theta" \in DOMAIN opt' /\ (opt'.theta = opt.theta \/ opt'.theta = Default)
  BY DEF Anchor, OutputInv, Records
<1>4. ~certified /\ streak # Unseen
  BY <1>1 DEF OutputInv, Ordered, HasExecuted
<1>5. /\ {"kind", "todo", "found", "best", "cost"} \subseteq DOMAIN search'
      /\ ~search'.found /\ search'.kind # "certify"
  BY <1>1, SearchIsRecord
<1>6. QED
  BY <1>1, <1>2, <1>3, <1>4, <1>5 DEF OutputInv, Records, FoundIsSame, Ordered, HasExecuted, Same

LEMMA IdleSearchedKeeps == OutputInv /\ IdleSearched => OutputInv'
<1> SUFFICES ASSUME OutputInv, IdleSearched
             PROVE  OutputInv'
  OBVIOUS
<1>1. /\ phase = "search" /\ phase' \in {"anchor", "done", "final"} /\ search' = NoSearch
      /\ UNCHANGED <<program, landscape, left, streak, certified, all_ok, report>>
  BY DEF IdleSearched, Searched, NextPass
<1>2. \A theta : Output(theta)' = Output(theta)
  BY <1>1, OutputStays
<1>3. "theta" \in DOMAIN opt' /\ Output(opt'.theta) = Output(opt.theta)
  BY DEF IdleSearched, OutputInv, Records, FoundIsSame
<1>4. ~certified /\ streak # Unseen
  BY <1>1 DEF OutputInv, Ordered, HasExecuted
<1>5. QED
  BY <1>1, <1>2, <1>3, <1>4, SearchIsRecord
     DEF OutputInv, Records, FoundIsSame, Ordered, HasExecuted, Same

(* The last anchor compares outputs before it certifies.                   *)
LEMMA FinalAnchorKeeps == OutputInv /\ FinalAnchor => OutputInv'
<1> SUFFICES ASSUME OutputInv, FinalAnchor
             PROVE  OutputInv'
  OBVIOUS
<1>1. /\ phase = "final" /\ phase' \in {"anchor", "done"} /\ ~search.found
      /\ UNCHANGED <<program, landscape, left, streak, search, all_ok, report>>
  BY DEF FinalAnchor, NextPass, OutputInv, Ordered
<1>2. \A theta : Output(theta)' = Output(theta)
  BY <1>1, OutputStays
<1>3. PICK dm, cm :
        IF Anchored(opt.theta, dm, cm)
        THEN /\ certified' = TRUE /\ opt' = [opt EXCEPT !.converged = TRUE]
             /\ phase' = "done"
        ELSE opt' = [opt EXCEPT !.theta = Default] /\ certified' = certified
  BY DEF FinalAnchor
<1>4. ~certified /\ streak # Unseen /\ "theta" \in DOMAIN opt
  BY <1>1 DEF OutputInv, Ordered, HasExecuted, Records
<1>5. CASE Anchored(opt.theta, dm, cm)
  <2>1. /\ "theta" \in DOMAIN opt' /\ opt'.theta = opt.theta /\ phase' = "done"
        /\ Output(opt.theta) = Output(Default) /\ Output(Default) # "failed"
    BY <1>3, <1>4, <1>5 DEF Anchored
  <2>2. QED
    BY <1>1, <1>2, <1>4, <2>1 DEF OutputInv, Records, FoundIsSame, Ordered, HasExecuted, Same
<1>6. CASE ~Anchored(opt.theta, dm, cm)
  <2>1. "theta" \in DOMAIN opt' /\ opt'.theta = Default /\ ~certified'
    BY <1>3, <1>4, <1>6
  <2>2. QED
    BY <1>1, <1>2, <1>4, <2>1 DEF OutputInv, Records, FoundIsSame, Ordered, HasExecuted, Same
<1>7. QED
  BY <1>5, <1>6

LEMMA ValidateKeeps == OutputInv /\ Validate => OutputInv'
<1> SUFFICES ASSUME OutputInv, Validate
             PROVE  OutputInv'
  OBVIOUS
<1>1. /\ phase = "done" /\ phase' = "reported"
      /\ report'.eq = (Output(Default) # "failed" /\ Output(opt.theta) = Output(Default))
      /\ UNCHANGED <<program, landscape, left, streak, opt, search, certified, all_ok>>
  BY DEF Validate
<1>2. \A theta : Output(theta)' = Output(theta)
  BY <1>1, OutputStays
<1>3. streak # Unseen
  BY <1>1 DEF OutputInv, HasExecuted
<1>4. QED
  BY <1>1, <1>2, <1>3 DEF OutputInv, Records, FoundIsSame, Ordered, HasExecuted, Same

LEMMA StutterKeeps == OutputInv /\ UNCHANGED vars => OutputInv'
<1> SUFFICES ASSUME OutputInv, UNCHANGED vars
             PROVE  OutputInv'
  OBVIOUS
<1>1. UNCHANGED <<program, landscape, phase, left, streak, opt, search, certified, all_ok, report>>
  BY DEF vars
<1>2. \A theta : Output(theta)' = Output(theta)
  BY <1>1, OutputStays
<1>3. QED
  BY <1>1, <1>2 DEF OutputInv, Records, FoundIsSame, Ordered, HasExecuted, Same

LEMMA OutputNext == OutputInv /\ [Next]_vars => OutputInv'
BY OnlineEpisodeKeeps, PairedEpisodeKeeps, CompareNeighbourKeeps, OptimizedKeeps, EndEpisodesKeeps,
   CertifiedKeeps, AnchorKeeps, IdleSearchedKeeps, FinalAnchorKeeps, ValidateKeeps, StutterKeeps
   DEF Next

LEMMA OutputFollows == OutputInv => OutputKept
<1> SUFFICES ASSUME OutputInv
             PROVE  OutputKept
  OBVIOUS
<1>1. program = "paired" \/ certified => Output(opt.theta) = Output(Default)
  BY DEF OutputInv, Same
<1>2. ASSUME phase = "reported", Succeeds
      PROVE  report.eq
  <2>1. /\ all_ok /\ certified /\ streak # Unseen
        /\ program \in {"paired", "online"}
    BY <1>2 DEF Succeeds, OutputInv, HasExecuted, Ordered
  <2>2. Output(Default) # "failed"
    BY <1>2, <2>1 DEF OutputInv, HasExecuted
  <2>3. QED
    BY <1>1, <1>2, <2>1, <2>2 DEF OutputInv, HasExecuted
<1>3. QED
  BY <1>1, <1>2 DEF OutputKept

(* Whatever executions take and yield, and however much they are disturbed *)
(* by noise: the paired program ends with parameters whose output is that  *)
(* of the default ones, a certified online family too, and the return      *)
(* value 0 is never returned over a validation that found them different.  *)
THEOREM OutputIsKept == Spec => []OutputKept
<1>1. Spec => []OutputInv
  BY OutputInit, OutputNext, PTL DEF Spec
<1>2. QED
  BY <1>1, OutputFollows, PTL
----------------------------------------------------------------------------
(* Measurements: an execution takes its cost and a noise, and the median   *)
(* of some executions lies where they lie.                                 *)

Thetas == {t \in [Dims -> 0..6] : \A d \in Dims : t[d] <= MaxIndex(d)}

LEMMA Indices == \A d \in Dims : MaxIndex(d) \in {1, 5, 6}
BY DEF MaxIndex

LEMMA DefaultType == Default \in Thetas
BY DEF Default, Thetas, MaxIndex, Dims, Chunks, Impls

LEMMA GreatestOfFinite ==
  ASSUME NEW S, IsFiniteSet(S), S # {}, S \subseteq Nat
  PROVE  \E m \in S : \A n \in S : n <= m
<1> DEFINE T == {U \in SUBSET S : U # {} => \E m \in U : \A n \in U : n <= m}
<1>1. ASSUME NEW U \in SUBSET S, \A V \in SUBSET U : V # U => V \in T
      PROVE  U \in T
  <2>1. SUFFICES ASSUME U # {}
                 PROVE  \E m \in U : \A n \in U : n <= m
    OBVIOUS
  <2>2. PICK x \in U : TRUE
    BY <2>1
  <2>3. U \ {x} \in T /\ U \subseteq Nat
    BY <1>1, <2>2
  <2>4. CASE U \ {x} = {}
    BY <2>2, <2>3, <2>4
  <2>5. CASE U \ {x} # {}
    <3>1. PICK m \in U \ {x} : \A n \in U \ {x} : n <= m
      BY <2>3, <2>5
    <3>2. CASE x <= m
      BY <3>1, <3>2
    <3>3. CASE m <= x
      <4>1. \A n \in U : n <= x
        BY <2>2, <2>3, <3>1, <3>3
      <4>2. QED
        BY <2>2, <4>1
    <3>4. QED
      BY <2>2, <2>3, <3>2, <3>3
  <2>6. QED
    BY <2>4, <2>5
<1>2. S \in T
  <2> HIDE DEF T
  <2> QED
    BY <1>1, PartInduction
<1>3. QED
  BY <1>2

LEMMA SortedIsMember ==
  ASSUME NEW hi \in Nat, NEW s \in Seq(0..hi), NEW k \in 1..Len(s)
  PROVE  Sorted(s, k) \in Range(s)
<1> DEFINE T == {x \in Range(s) : Cardinality({i \in DOMAIN s : s[i] <= x}) >= k}
<1>1. Range(s) \subseteq 0..hi /\ Range(s) # {} /\ Len(s) \in Nat /\ DOMAIN s = 1..Len(s)
  <2>1. DOMAIN s = 1..Len(s) /\ 1 \in DOMAIN s /\ \A i \in DOMAIN s : s[i] \in 0..hi
    OBVIOUS
  <2>2. QED
    BY <2>1 DEF Range
<1>2. PICK m \in Range(s) : \A n \in Range(s) : n <= m
  <2>1. Max(Range(s)) \in Range(s) /\ \A n \in Range(s) : Max(Range(s)) >= n
    BY <1>1, MaxProperties
  <2>2. Max(Range(s)) \in Int /\ \A n \in Range(s) : n \in Int
    BY <1>1, <2>1
  <2> HIDE DEF Max
  <2>3. QED
    BY <2>1, <2>2
<1>3. {i \in DOMAIN s : s[i] <= m} = 1..Len(s)
  BY <1>1, <1>2 DEF Range
<1>4. Cardinality(1..Len(s)) = Len(s)
  <2>1. PICK n \in Nat : n = Len(s) /\ n >= 1
    <3>1. Len(s) \in Nat /\ Len(s) >= 1
      BY <1>1
    <3>2. QED
      BY Zenon, <3>1
  <2>2. Cardinality(1..n) = IF 1 > n THEN 0 ELSE n - 1 + 1
    <3>1. 1 \in Int /\ n \in Int
      OBVIOUS
    <3>2. QED
      BY Zenon, <3>1, FS_Interval
  <2>3. QED
    BY <2>1, <2>2
<1>5. m \in T
  <2>1. Cardinality({i \in DOMAIN s : s[i] <= m}) >= k
    <3>1. Len(s) >= k
      BY <1>1
    <3>2. Cardinality({i \in DOMAIN s : s[i] <= m}) = Len(s)
      BY Zenon, <1>3, <1>4
    <3>3. QED
      BY Zenon, <3>1, <3>2
  <2>2. QED
    BY Zenon, <2>1
<1>6. T \subseteq Nat
  BY <1>1
<1>7. Min(T) \in T
  <2> HIDE DEF T
  <2> QED
    BY <1>5, <1>6, MinProperties
<1>8. QED
  BY <1>7 DEF Sorted

LEMMA MedianBetween ==
  ASSUME NEW lo \in Nat, NEW hi \in Nat, NEW s \in Seq(lo..hi), s # <<>>
  PROVE  Median(s) \in lo..hi
<1>1. s \in Seq(0..hi) /\ Len(s) \in Nat \ {0}
  OBVIOUS
<1>2. Range(s) \subseteq lo..hi
  BY DEF Range
<1>3. \A k \in 1..Len(s) : Sorted(s, k) \in lo..hi
  BY <1>1, <1>2, SortedIsMember
<1> DEFINE half == Len(s) \div 2
<1>4. half \in Nat /\ half + 1 \in Nat /\ half <= Len(s)
  BY <1>1
<1>5. CASE Len(s) % 2 = 1
  <2>1. half + 1 \in 1..Len(s)
    BY <1>1, <1>5
  <2>2. Median(s) = Sorted(s, half + 1)
    BY <1>5 DEF Median
  <2>3. QED
    BY <1>3, <2>1, <2>2
<1>6. CASE Len(s) % 2 # 1
  <2>1. half \in 1..Len(s) /\ half + 1 \in 1..Len(s)
    BY <1>1, <1>6
  <2>2. PICK a, b : a = Sorted(s, half) /\ b = Sorted(s, half + 1)
    OBVIOUS
  <2>3. a \in lo..hi /\ b \in lo..hi
    BY <1>3, <2>1, <2>2
  <2>4. Median(s) = (a + b) \div 2
    BY <1>6, <2>2 DEF Median
  <2>5. QED
    BY <2>3, <2>4
<1>7. QED
  BY <1>5, <1>6

(* A landscape of the model, with the coordinates of its family.           *)
OnLandscape == landscape \in Landscapes /\ dims = landscape.dims

LEMMA FamilyType ==
  ASSUME OnLandscape
  PROVE  /\ IsLandscape(landscape) /\ dims \in Seq(Dims) /\ Len(dims) \in Nat \ {0}
         /\ Range(dims) \subseteq Dims /\ IsFiniteSet(Range(dims)) /\ Range(dims) # {}
         /\ \A i \in 1..Len(dims) : dims[i] \in Range(dims)
<1>1. IsLandscape(landscape)
  BY LandscapesAssumption DEF OnLandscape
<1>2. dims \in Seq(Dims) /\ dims # <<>>
  BY <1>1 DEF IsLandscape, OnLandscape
<1>3. /\ Len(dims) \in Nat \ {0} /\ DOMAIN dims = 1..Len(dims)
      /\ \A i \in 1..Len(dims) : dims[i] \in Dims
  BY <1>2
<1>4. \A i \in 1..Len(dims) : dims[i] \in Range(dims)
  BY <1>3 DEF Range
<1>5. Range(dims) \subseteq Dims /\ 1 \in 1..Len(dims)
  BY <1>3 DEF Range
<1>6. IsFiniteSet(Range(dims))
  <2>1. IsFiniteSet(1..Len(dims))
    BY <1>3, FS_Interval
  <2>2. dims \in Surjection(1..Len(dims), Range(dims))
    BY <1>2, <1>3 DEF Surjection, Range
  <2>3. QED
    BY <2>1, <2>2, FS_Surjection
<1>7. QED
  BY <1>1, <1>2, <1>3, <1>4, <1>5, <1>6

(* A sum of naturals is one.                                               *)
LEMMA SumOfNaturals ==
  ASSUME NEW f, NEW S, S = DOMAIN f, IsFiniteSet(S), \A x \in S : f[x] \in Nat
  PROVE  SumFunction(f) \in Nat
<1> DEFINE T == {U \in SUBSET S : SumFunctionOnSet(f, U) \in Nat}
<1>1. ASSUME NEW U \in SUBSET S, \A V \in SUBSET U : V # U => V \in T
      PROVE  U \in T
  <2>1. CASE U = {}
    BY <2>1, SumOfNothing
  <2>2. CASE U # {}
    <3>1. IsFiniteSet(U)
      BY FS_Subset
    <3>2. PICK x \in U : SumFunctionOnSet(f, U) = f[x] + SumFunctionOnSet(f, U \ {x})
      BY <2>2, <3>1, SumOfSome
    <3>3. U \ {x} \in T /\ f[x] \in Nat
      BY <1>1
    <3>4. QED
      BY <3>2, <3>3
  <2>3. QED
    BY <2>1, <2>2
<1>2. \A U \in SUBSET S : U \in T
  <2> HIDE DEF T
  <2> QED
    BY <1>1, PartInduction
<1>3. QED
  BY <1>2 DEF SumFunction

LEMMA CostType ==
  ASSUME OnLandscape, NEW theta \in Thetas
  PROVE  Wall(theta) \in Nat /\ Cpu(theta) \in Nat /\ Cost(theta) \in Nat
<1>1. /\ IsLandscape(landscape) /\ Range(dims) \subseteq Dims /\ IsFiniteSet(Range(dims))
  BY FamilyType
<1>2. \A d \in Range(dims) : theta[d] + 1 \in 1..(MaxIndex(d) + 1)
  BY <1>1, Indices DEF Thetas
<1>3. \A d \in Range(dims) :
        landscape.wall[d][theta[d] + 1] \in Nat /\ landscape.cpu[d][theta[d] + 1] \in Nat
  BY <1>1, <1>2 DEF IsLandscape, OnLandscape
<1>4. PICK wall : wall = [d \in Range(dims) |-> landscape.wall[d][theta[d] + 1]]
  OBVIOUS
<1>5. PICK cpu : cpu = [d \in Range(dims) |-> landscape.cpu[d][theta[d] + 1]]
  OBVIOUS
<1>6. SumFunction(wall) \in Nat
  <2>1. DOMAIN wall = Range(dims) /\ \A x \in DOMAIN wall : wall[x] \in Nat
    BY <1>3, <1>4
  <2>2. QED
    BY <1>1, <2>1, SumOfNaturals
<1>7. SumFunction(cpu) \in Nat
  <2>1. DOMAIN cpu = Range(dims) /\ \A x \in DOMAIN cpu : cpu[x] \in Nat
    BY <1>3, <1>5
  <2>2. QED
    BY <1>1, <2>1, SumOfNaturals
<1>8. Cpu(theta) \in Nat
  BY <1>5, <1>7 DEF Cpu
<1>9. Wall(theta) \in Nat
  <2>1. /\ landscape.base \in Nat /\ landscape.twist.wall \in Int
        /\ landscape.base + landscape.twist.wall \in Nat
    BY <1>1 DEF IsLandscape
  <2>2. Wall(theta) = landscape.base + SumFunction(wall)
          + IF \A s \in landscape.twist.settings : Holds(theta, s) THEN landscape.twist.wall ELSE 0
    BY Zenon, <1>4 DEF Wall
  <2>3. QED
    BY <1>6, <2>1, <2>2
<1>10. QED
  BY <1>8, <1>9 DEF Cost

LEMMA NoiseType ==
  ASSUME OnLandscape
  PROVE  /\ Spread \in Nat /\ landscape.noise \subseteq Nat /\ landscape.noise # {}
         /\ \A n \in landscape.noise : n <= Spread
         /\ Quiet => Spread = 0
<1>1. landscape.noise # {} /\ landscape.noise \subseteq Nat /\ IsFiniteSet(landscape.noise)
  BY FamilyType DEF IsLandscape
<1>2. \E m \in landscape.noise : \A n \in landscape.noise : n <= m
  BY <1>1, GreatestOfFinite
<1>3. Spread \in landscape.noise /\ \A n \in landscape.noise : n <= Spread
  BY <1>2 DEF Spread
<1>4. QED
  BY <1>1, <1>3 DEF Quiet

LEMMA CostsBetween ==
  ASSUME OnLandscape, NEW theta \in Thetas
  PROVE  /\ Costs(theta) \subseteq Cost(theta)..(Cost(theta) + Spread)
         /\ Walls(theta) \subseteq Nat
         /\ Quiet => Costs(theta) = {Cost(theta)} /\ Walls(theta) = {Wall(theta)}
<1>1. Cost(theta) \in Nat /\ Wall(theta) \in Nat
  BY CostType
<1>2. /\ Spread \in Nat /\ landscape.noise \subseteq Nat
      /\ \A n \in landscape.noise : n <= Spread
  BY NoiseType
<1>3. PICK c \in Nat, w \in Nat, sp \in Nat : c = Cost(theta) /\ w = Wall(theta) /\ sp = Spread
  BY <1>1, <1>2
<1>4. \A n \in landscape.noise : c + n \in c..(c + sp) /\ w + n \in Nat
  BY <1>2, <1>3
<1>5. Costs(theta) = {c + n : n \in landscape.noise} /\ Walls(theta) = {w + n : n \in landscape.noise}
  BY <1>3 DEF Costs, Walls
<1>6. ASSUME Quiet
      PROVE  Costs(theta) = {Cost(theta)} /\ Walls(theta) = {Wall(theta)}
  BY <1>3, <1>5, <1>6 DEF Quiet
<1>7. QED
  BY <1>3, <1>4, <1>5, <1>6

----------------------------------------------------------------------------
(* Moves and neighbours.                                                   *)

Move == [theta : Thetas, dim : Range(dims)]

(* Where a step in one coordinate leads.                                   *)
Places(theta, d, step) ==
  {[theta EXCEPT ![d] = n] : n \in {theta[d] - step, theta[d] + step} \cap (0..MaxIndex(d))}

Targets(moves) == {moves[i].theta : i \in DOMAIN moves}

LEMMA PlacesDiffer ==
  ASSUME NEW theta \in Thetas, NEW d \in Dims, NEW step \in {1, 2}, NEW t \in Places(theta, d, step)
  PROVE  /\ t \in Thetas /\ t # theta
         /\ [t EXCEPT ![d] = theta[d]] = theta
<1>1. PICK n \in {theta[d] - step, theta[d] + step} \cap (0..MaxIndex(d)) : t = [theta EXCEPT ![d] = n]
  BY DEF Places
<1>2. theta \in [Dims -> 0..6] /\ theta[d] \in 0..6 /\ \A e \in Dims : theta[e] <= MaxIndex(e)
  BY DEF Thetas
<1>3. MaxIndex(d) \in {1, 5, 6}
  BY Indices
<1>4. n \in 0..6 /\ n <= MaxIndex(d) /\ n # theta[d]
  BY <1>1, <1>2, <1>3
<1>5. t \in [Dims -> 0..6] /\ t[d] = n
  BY <1>1, <1>2, <1>4
<1>6. \A e \in Dims : t[e] <= MaxIndex(e)
  BY <1>1, <1>2, <1>4
<1>7. [t EXCEPT ![d] = theta[d]] = theta
  <2>1. \A e \in Dims : [t EXCEPT ![d] = theta[d]][e] = theta[e]
    BY <1>1, <1>2
  <2>2. QED
    BY <1>2, <1>5, <2>1
<1>8. QED
  BY <1>4, <1>5, <1>6, <1>7 DEF Thetas

LEMMA OneAndOne ==
  ASSUME NEW a, NEW b
  PROVE  <<a>> \o <<b>> = <<a, b>>
<1>1. <<a>> \in Seq({a, b}) /\ <<b>> \in Seq({a, b})
  OBVIOUS
<1>2. PICK u : u = <<a>> \o <<b>>
  OBVIOUS
<1>3. u \in Seq({a, b}) /\ Len(u) = 2 /\ u[1] = a /\ u[2] = b
  BY <1>1, <1>2
<1>4. u = [i \in 1..2 |-> u[i]]
  BY <1>3
<1>5. u = <<a, b>>
  BY <1>3, <1>4
<1>6. QED
  BY <1>2, <1>5

LEMMA MovesAre ==
  ASSUME OnLandscape, NEW theta \in Thetas, NEW d \in Range(dims), NEW step \in {1, 2}
  PROVE  /\ Moves(theta, d, step) \in Seq(Move)
         /\ \A i \in DOMAIN Moves(theta, d, step) : Moves(theta, d, step)[i].dim = d
         /\ Targets(Moves(theta, d, step)) = Places(theta, d, step)
         /\ step = 1 \/ MaxIndex(d) > 1 => Moves(theta, d, step) # <<>>
<1>1. d \in Dims
  BY FamilyType
<1>2. theta \in [Dims -> 0..6] /\ theta[d] \in 0..6 /\ theta[d] <= MaxIndex(d) /\ MaxIndex(d) \in {1, 5, 6}
  BY <1>1, Indices DEF Thetas
<1> DEFINE inside(n) == n \in 0..MaxIndex(d)
           at(n)     == [theta |-> [theta EXCEPT ![d] = n], dim |-> d]
           To(n)     == IF inside(n) THEN <<at(n)>> ELSE <<>>
           low       == theta[d] - step
           high      == theta[d] + step
<1>3. Moves(theta, d, step) = To(low) \o To(high)
  BY DEF Moves
<1>4. low \in Int /\ high \in Int
  BY <1>2
<1>5. ASSUME NEW n \in {low, high}, inside(n)
      PROVE  at(n) \in Move /\ at(n).theta \in Places(theta, d, step) /\ at(n).dim = d
  <2>1. at(n).theta \in Places(theta, d, step)
    BY <1>5 DEF Places
  <2>2. QED
    BY <1>1, <2>1, PlacesDiffer DEF Move
<1>6. Places(theta, d, step) = {at(n).theta : n \in {m \in {low, high} : inside(m)}}
  BY DEF Places
<1>7. step = 1 \/ MaxIndex(d) > 1 => inside(low) \/ inside(high)
  BY <1>2
<1>8. PICK m : m = Moves(theta, d, step)
  OBVIOUS
<1> HIDE DEF inside, at, low, high
<1>9. CASE inside(low) /\ inside(high)
  <2>1. m = <<at(low), at(high)>>
    <3>1. PICK a, b : a = at(low) /\ b = at(high)
      OBVIOUS
    <3>2. m = <<a>> \o <<b>>
      BY <1>3, <1>8, <1>9, <3>1
    <3>3. <<a>> \o <<b>> = <<a, b>>
      BY OneAndOne
    <3>4. QED
      BY Zenon, <3>1, <3>2, <3>3
  <2>2. m \in Seq(Move) /\ \A i \in DOMAIN m : m[i].dim = d
    BY <1>5, <1>9, <2>1
  <2>3. Targets(m) = {at(low).theta, at(high).theta}
    <3>1. DOMAIN m = 1..2 /\ m[1] = at(low) /\ m[2] = at(high)
      BY <2>1
    <3>2. QED
      BY <3>1 DEF Targets
  <2>4. Places(theta, d, step) = {at(low).theta, at(high).theta}
    BY <1>6, <1>9
  <2>5. m # <<>>
    BY <2>1
  <2>6. QED
    BY <1>8, <2>2, <2>3, <2>4, <2>5
<1>10. CASE inside(low) /\ ~inside(high)
  <2>1. m = <<at(low)>>
    BY <1>3, <1>8, <1>10
  <2>2. m \in Seq(Move) /\ \A i \in DOMAIN m : m[i].dim = d
    BY <1>5, <1>10, <2>1
  <2>3. Targets(m) = {at(low).theta}
    <3>1. DOMAIN m = 1..1 /\ m[1] = at(low)
      BY <2>1
    <3>2. QED
      BY <3>1 DEF Targets
  <2>4. Places(theta, d, step) = {at(low).theta}
    BY <1>6, <1>10
  <2>5. m # <<>>
    BY <2>1
  <2>6. QED
    BY <1>8, <2>2, <2>3, <2>4, <2>5
<1>11. CASE ~inside(low) /\ inside(high)
  <2>1. m = <<at(high)>>
    BY <1>3, <1>8, <1>11
  <2>2. m \in Seq(Move) /\ \A i \in DOMAIN m : m[i].dim = d
    BY <1>5, <1>11, <2>1
  <2>3. Targets(m) = {at(high).theta}
    <3>1. DOMAIN m = 1..1 /\ m[1] = at(high)
      BY <2>1
    <3>2. QED
      BY <3>1 DEF Targets
  <2>4. Places(theta, d, step) = {at(high).theta}
    BY <1>6, <1>11
  <2>5. m # <<>>
    BY <2>1
  <2>6. QED
    BY <1>8, <2>2, <2>3, <2>4, <2>5
<1>12. CASE ~inside(low) /\ ~inside(high)
  <2>1. m = <<>>
    BY <1>3, <1>8, <1>12
  <2>2. Targets(m) = {} /\ Places(theta, d, step) = {}
    BY <1>6, <1>12, <2>1 DEF Targets
  <2>3. ~(step = 1 \/ MaxIndex(d) > 1)
    BY <1>7, <1>12
  <2>4. m \in Seq(Move) /\ \A i \in DOMAIN m : m[i].dim = d
    BY <2>1
  <2>5. QED
    BY <1>8, <2>2, <2>3, <2>4
<1>13. QED
  BY <1>9, <1>10, <1>11, <1>12

(* A neighbour is one step away in its coordinate.                         *)
Neighbour(theta, m) == m \in Move /\ m.theta \in Places(theta, m.dim, 1)

LEMMA NeighboursAre ==
  ASSUME OnLandscape, NEW theta \in Thetas
  PROVE  /\ Neighbours(theta) \in Seq(Move)
         /\ \A m \in Range(Neighbours(theta)) : Neighbour(theta, m)
<1> DEFINE X == {m \in Move : Neighbour(theta, m)}
           parts == [i \in DOMAIN dims |-> Moves(theta, dims[i], 1)]
<1>1. dims \in Seq(Dims) /\ DOMAIN dims = 1..Len(dims) /\ Len(dims) \in Nat
  BY FamilyType
<1>2. ASSUME NEW i \in DOMAIN dims
      PROVE  Moves(theta, dims[i], 1) \in Seq(X)
  <2>1. dims[i] \in Range(dims)
    BY DEF Range
  <2>2. PICK s : s = Moves(theta, dims[i], 1)
    OBVIOUS
  <2>3. s \in Seq(Move) /\ (\A j \in DOMAIN s : s[j].dim = dims[i]) /\ Targets(s) = Places(theta, dims[i], 1)
    BY <2>1, <2>2, MovesAre
  <2>4. \A j \in DOMAIN s : s[j] \in X
    <3>1. SUFFICES ASSUME NEW j \in DOMAIN s
                   PROVE  s[j] \in X
      OBVIOUS
    <3>2. s[j] \in Move /\ s[j].dim = dims[i] /\ s[j].theta \in Targets(s)
      BY <2>3 DEF Targets
    <3>3. QED
      BY <2>3, <3>2 DEF Neighbour
  <2> HIDE DEF X
  <2>5. s \in Seq(X)
    BY <2>3, <2>4
  <2>6. QED
    BY <2>2, <2>5
<1>3. parts \in Seq(Seq(X))
  <2> HIDE DEF X
  <2>1. \A i \in 1..Len(dims) : parts[i] \in Seq(X)
    BY <1>1, <1>2
  <2>2. QED
    BY <1>1, <2>1
<1>4. Neighbours(theta) \in Seq(X)
  <2>1. Neighbours(theta) = Flatten(parts)
    BY DEF Neighbours
  <2> HIDE DEF X, parts
  <2>2. QED
    BY <1>3, <2>1, FlattenType
<1>5. PICK s \in Seq(X) : s = Neighbours(theta)
  BY <1>4
<1>6. \A i \in DOMAIN s : s[i] \in X
  <2> HIDE DEF X
  <2> QED
    OBVIOUS
<1>7. s \in Seq(Move) /\ \A m \in Range(s) : Neighbour(theta, m)
  BY <1>6 DEF Range
<1>8. QED
  BY <1>5, <1>7

(* The front of a sequence and the rest of it.                             *)
LEMMA HeadAndTail ==
  ASSUME NEW X, NEW s \in Seq(X), s # <<>>
  PROVE  /\ Head(s) \in X /\ Tail(s) \in Seq(X)
         /\ Range(s) = {Head(s)} \cup Range(Tail(s))
<1>1. Len(s) \in Nat \ {0} /\ DOMAIN s = 1..Len(s) /\ Head(s) = s[1] /\ Tail(s) \in Seq(X)
  OBVIOUS
<1>2. DOMAIN Tail(s) = 1..(Len(s) - 1) /\ \A i \in 1..(Len(s) - 1) : Tail(s)[i] = s[i + 1]
  OBVIOUS
<1>3. \A i \in 1..Len(s) : i = 1 \/ (i - 1 \in 1..(Len(s) - 1) /\ Tail(s)[i - 1] = s[i])
  BY <1>1, <1>2
<1>4. Range(s) \subseteq {Head(s)} \cup Range(Tail(s))
  <2>1. SUFFICES ASSUME NEW i \in 1..Len(s)
                 PROVE  s[i] \in {Head(s)} \cup Range(Tail(s))
    BY <1>1 DEF Range
  <2>2. CASE i = 1
    BY <1>1, <2>2
  <2>3. CASE i # 1
    <3>1. i - 1 \in DOMAIN Tail(s) /\ Tail(s)[i - 1] = s[i]
      BY <1>2, <1>3, <2>3
    <3>2. QED
      BY Zenon, <3>1 DEF Range
  <2>4. QED
    BY <2>2, <2>3
<1>5. {Head(s)} \cup Range(Tail(s)) \subseteq Range(s)
  <2>1. \A i \in 1..(Len(s) - 1) : i + 1 \in 1..Len(s)
    BY <1>1
  <2>2. QED
    BY <1>1, <1>2, <2>1 DEF Range
<1>6. QED
  BY <1>1, <1>4, <1>5

LEMMA RangeOfNothing == Range(<<>>) = {}
BY DEF Range

LEMMA RangeOfAppended ==
  ASSUME NEW X, NEW s \in Seq(X), NEW x \in X
  PROVE  Range(Append(s, x)) = Range(s) \cup {x} /\ Append(s, x) \in Seq(X)
<1>1. PICK n \in Nat : n = Len(s)
  OBVIOUS
<1>2. PICK u : u = Append(s, x)
  OBVIOUS
<1>3. /\ DOMAIN s = 1..n /\ DOMAIN u = 1..(n + 1) /\ u[n + 1] = x /\ u \in Seq(X)
      /\ \A i \in 1..n : u[i] = s[i]
  BY <1>1, <1>2
<1>4. Range(u) = Range(s) \cup {x}
  BY <1>3 DEF Range
<1>5. QED
  BY <1>2, <1>3, <1>4

----------------------------------------------------------------------------
(* What a comparison finds.                                                *)

LEMMA MedianOfCosts ==
  ASSUME OnLandscape, NEW theta \in Thetas, NEW s \in Seq(Costs(theta)), s # <<>>
  PROVE  Median(s) \in Cost(theta)..(Cost(theta) + Spread)
<1>1. PICK lo \in Nat, hi \in Nat : lo = Cost(theta) /\ hi = Cost(theta) + Spread
  BY CostType, NoiseType
<1>2. Costs(theta) \subseteq lo..hi
  BY <1>1, CostsBetween
<1>3. s \in Seq(lo..hi)
  BY <1>2
<1>4. Median(s) \in lo..hi
  BY <1>3, MedianBetween
<1>5. QED
  BY <1>1, <1>4

LEMMA PairsType == ASSUME NEW kind PROVE Pairs(kind) \in {3, 5}
BY DEF Pairs

LEMMA SampleIs ==
  ASSUME OnLandscape, NEW theta \in Thetas, NEW pairs \in {3, 5}, NEW a \in Samples(theta, pairs)
  PROVE  a.median \in Cost(theta)..(Cost(theta) + Spread)
<1>1. PICK s \in [1..pairs -> Costs(theta)] : a = [costs |-> s, median |-> Median(s)]
  BY DEF Samples
<1>2. s \in Seq(Costs(theta)) /\ s # <<>>
  <2>1. pairs \in Nat \ {0} /\ 1 \in 1..pairs
    OBVIOUS
  <2>2. DOMAIN s # {}
    BY <2>1
  <2>3. QED
    BY <2>1, <2>2
<1>3. QED
  BY <1>1, <1>2, MedianOfCosts

LEMMA ComparedIs ==
  ASSUME OnLandscape, NEW theta \in Thetas, NEW cand \in Thetas, NEW pairs \in {3, 5},
         NEW r \in Compared(theta, cand, pairs)
  PROVE  /\ r.current \in Cost(theta)..(Cost(theta) + Spread)
         /\ r.candidate \in Cost(cand)..(Cost(cand) + Spread)
         /\ r.current \in Nat /\ r.candidate \in Nat
<1>1. PICK a \in Samples(theta, pairs), b \in Samples(cand, pairs) :
        r = Verdict(Output(theta) # "failed" /\ Output(cand) = Output(theta), a, b)
  BY DEF Compared
<1>2. r.current = a.median /\ r.candidate = b.median
  BY <1>1 DEF Verdict
<1>3. /\ a.median \in Cost(theta)..(Cost(theta) + Spread)
      /\ b.median \in Cost(cand)..(Cost(cand) + Spread)
  BY SampleIs
<1>4. Cost(theta) \in Nat /\ Cost(cand) \in Nat /\ Spread \in Nat
  BY CostType, NoiseType
<1>5. QED
  BY <1>2, <1>3, <1>4

(* Without noise every comparison of the same two finds the same.          *)
LEMMA ComparedAlike ==
  ASSUME OnLandscape, Quiet, NEW theta \in Thetas, NEW cand \in Thetas, NEW pairs \in {3, 5},
         NEW r \in Compared(theta, cand, pairs), NEW q \in Compared(theta, cand, pairs)
  PROVE  r = q
<1>1. PICK a \in Samples(theta, pairs), b \in Samples(cand, pairs) :
        r = Verdict(Output(theta) # "failed" /\ Output(cand) = Output(theta), a, b)
  BY DEF Compared
<1>2. PICK c \in Samples(theta, pairs), e \in Samples(cand, pairs) :
        q = Verdict(Output(theta) # "failed" /\ Output(cand) = Output(theta), c, e)
  BY DEF Compared
<1>3. Costs(theta) = {Cost(theta)} /\ Costs(cand) = {Cost(cand)}
  BY CostsBetween
<1>4. a = c
  <2>1. PICK s \in [1..pairs -> Costs(theta)] : a = [costs |-> s, median |-> Median(s)]
    BY DEF Samples
  <2>2. PICK u \in [1..pairs -> Costs(theta)] : c = [costs |-> u, median |-> Median(u)]
    BY DEF Samples
  <2>3. s = u
    BY <1>3
  <2>4. QED
    BY <2>1, <2>2, <2>3
<1>5. b = e
  <2>1. PICK s \in [1..pairs -> Costs(cand)] : b = [costs |-> s, median |-> Median(s)]
    BY DEF Samples
  <2>2. PICK u \in [1..pairs -> Costs(cand)] : e = [costs |-> u, median |-> Median(u)]
    BY DEF Samples
  <2>3. s = u
    BY <1>3
  <2>4. QED
    BY <2>1, <2>2, <2>3
<1>6. QED
  BY <1>1, <1>2, <1>4, <1>5

(* Better is cheaper, but for the noise.                                   *)
LEMMA BetterIsCheaper ==
  ASSUME OnLandscape, NEW theta \in Thetas, NEW cand \in Thetas, NEW kind,
         NEW r \in Compared(theta, cand, Pairs(kind)), Better(kind, r)
  PROVE  Cost(cand) + 10 < Cost(theta) + Spread
<1>1. /\ r.current \in Cost(theta)..(Cost(theta) + Spread)
      /\ r.candidate \in Cost(cand)..(Cost(cand) + Spread)
      /\ r.current \in Nat /\ r.candidate \in Nat
  BY PairsType, ComparedIs
<1>2. r.candidate - r.current < -10
  BY <1>1 DEF Better, MateriallyBelow
<1>3. Cost(theta) \in Nat /\ Cost(cand) \in Nat /\ Spread \in Nat
  BY CostType, NoiseType
<1>4. QED
  BY <1>1, <1>2, <1>3

(* What the idle search commits, tuning would have committed.              *)
LEMMA IdleAsksMore ==
  ASSUME OnLandscape, Quiet, NEW theta \in Thetas, NEW cand \in Thetas,
         NEW r \in Compared(theta, cand, 5), Better("idle", r)
  PROVE  MateriallyBelow(Cost(cand) - Cost(theta), 50, 2, Cost(theta))
<1>1. Cost(theta) \in Nat /\ Cost(cand) \in Nat /\ Spread = 0
  BY CostType, NoiseType
<1>2. r.current = Cost(theta) /\ r.candidate = Cost(cand)
  <2>1. /\ r.current \in Cost(theta)..(Cost(theta) + Spread)
        /\ r.candidate \in Cost(cand)..(Cost(cand) + Spread)
    BY ComparedIs
  <2>2. QED
    BY <1>1, <2>1
<1>3. MateriallyBelow(r.candidate - r.current, 50, 3, r.current)
  BY SMTT(30) DEF Better
<1>4. QED
  BY <1>1, <1>2, <1>3 DEF MateriallyBelow

----------------------------------------------------------------------------
(* The invariants behind the tuners' promises.                             *)

Steps == {s \in [Range(dims) -> {1, 2}] : \A d \in Range(dims) : s[d] = 1 \/ MaxIndex(d) > 1}

Opts ==
  [theta : Thetas, step : Steps, stable : [Range(dims) -> Nat], cursor : 1..Len(dims),
   converged : BOOLEAN, baseline : Seq(Nat), pending : Seq(Move),
   observed : Seq([theta : Thetas, dim : Range(dims), cost : Nat])]

Searches ==
  [kind : {"none", "optimize", "certify", "idle"}, todo : Seq(Move), found : BOOLEAN,
   best : Thetas, cost : Nat]

TypeInv ==
  /\ OnLandscape /\ program \in {"paired", "online"}
  /\ opt \in Opts /\ landed \in Opts /\ search \in Searches
  /\ phase \in {"episodes", "search", "anchor", "final", "done", "reported"}
  /\ phase = "search" <=> search.kind # "none"
  /\ search.kind \in {"optimize", "certify"} => program = "paired"
  /\ search.kind = "idle" \/ phase \in {"anchor", "final"} => program = "online"
  /\ search.found => phase = "search"

(* Online: what was measured was measured of the present parameters and of *)
(* moves from them in the coordinate being swept, and a sweep that has     *)
(* begun has tried or will try all of these.                               *)
SweepOK(o) ==
  /\ \A i \in DOMAIN o.baseline : o.baseline[i] \in Costs(o.theta)
  /\ \A i \in DOMAIN o.pending : o.pending[i].dim = Dimension(o)
  /\ \A i \in DOMAIN o.observed :
       o.observed[i].dim = Dimension(o) /\ o.observed[i].cost \in Costs(o.observed[i].theta)
  /\ o.pending = <<>> => o.observed = <<>>
  /\ o.pending # <<>> =>
       Targets(o.pending) \cup Targets(o.observed) = Places(o.theta, Dimension(o), o.step[Dimension(o)])

SweepInv == program = "online" /\ phase = "episodes" => SweepOK(opt)

(* A coordinate that counts as stable would not be changed at the finest   *)
(* step, and none is left out when tuning has converged.                   *)
Gain(theta, t) ==
  IF program = "paired" THEN \E r \in Compared(theta, t, 3) : Better("optimize", r)
  ELSE MateriallyBelow(Cost(t) - Cost(theta), 50, 2, Cost(theta))

Settled(theta, d) == \A t \in Places(theta, d, 1) : ~Gain(theta, t)

StableOK(o) ==
  /\ \A d \in Range(dims) : o.stable[d] >= 1 => o.step[d] = 1 /\ (Quiet => Settled(o.theta, d))
  /\ o.converged => \A d \in Range(dims) : o.stable[d] >= 1

Tuning    == phase = "episodes" \/ search.kind = "optimize"
StableInv == Tuning => StableOK(opt)

(* Paired: the coordinate a search is about was the one at the cursor.     *)
SweptDim(o) == dims[IF o.cursor = 1 THEN Len(dims) ELSE o.cursor - 1]

OptimizeInv ==
  search.kind = "optimize" =>
    /\ ~opt.converged
    /\ Quiet /\ ~search.found =>
         \A t \in Places(opt.theta, SweptDim(opt), opt.step[SweptDim(opt)]) :
           t \in Targets(search.todo) \/ ~Gain(opt.theta, t)

(* What a search has found is cheaper, but for the noise.                  *)
FoundInv == search.found => Cost(search.best) + 10 < Cost(opt.theta) + Spread

(* A certifying search goes through the neighbours of the parameters, and  *)
(* those it has passed without finding one are not better.                 *)
Worse(kind, theta, t) == \A r \in Compared(theta, t, 5) : ~Better(kind, r)

CertifyInv ==
  /\ search.kind \in {"certify", "idle"} =>
       /\ Range(search.todo) \subseteq Range(Neighbours(opt.theta))
       /\ Quiet /\ ~search.found =>
            \A m \in Range(Neighbours(opt.theta)) :
              m \in Range(search.todo) \/ Worse(search.kind, opt.theta, m.theta)
  /\ phase = "final" /\ Quiet =>
       \A m \in Range(Neighbours(opt.theta)) : Worse("idle", opt.theta, m.theta)

SettledInv ==
  certified =>
    /\ opt.converged /\ phase \in {"done", "reported"}
    /\ Quiet =>
         /\ \A m \in Range(Neighbours(opt.theta)) :
              Worse(IF program = "paired" THEN "certify" ELSE "idle", opt.theta, m.theta)
         /\ program = "online" =>
              /\ Anchored(opt.theta, Wall(Default), Wall(opt.theta))
              /\ phase = "reported" => report.faster = (opt.theta # Default)

(* What tuning converged to and the anchor accepts is left as it is.       *)
LandedIsLocal == Quiet /\ ~Tuning /\ landed.converged => \A d \in Range(dims) : Settled(landed.theta, d)

KeptInv ==
  (Quiet /\ program = "online" /\ ~Tuning /\ landed.converged
     /\ Anchored(landed.theta, Wall(Default), Wall(landed.theta))) =>
    /\ opt.theta = landed.theta /\ ~search.found
    /\ phase \in {"done", "reported"} => certified

----------------------------------------------------------------------------
(* Nothing these predicates read of the family and its landscape changes.  *)

LEMMA FamilyStays ==
  ASSUME [Next]_vars
  PROVE  program' = program /\ landscape' = landscape /\ dims' = dims
BY DEF Next, vars, OnlineEpisode, PairedEpisode, NextEpisode, CompareNeighbour, Optimized,
       EndEpisodes, Certified, Anchor, IdleSearched, FinalAnchor, Validate

LEMMA CostsStay ==
  ASSUME landscape' = landscape, dims' = dims
  PROVE  /\ \A theta : Cost(theta)' = Cost(theta) /\ Wall(theta)' = Wall(theta)
         /\ \A theta : Costs(theta)' = Costs(theta) /\ Walls(theta)' = Walls(theta)
         /\ \A theta : Output(theta)' = Output(theta)
         /\ Spread' = Spread /\ Quiet' = Quiet
<1>1. \A theta : Wall(theta)' = Wall(theta)
  BY DEF Wall, Holds
<1>2. \A theta : Cpu(theta)' = Cpu(theta)
  BY DEF Cpu
<1>3. \A theta : Cost(theta)' = Cost(theta)
  BY <1>1, <1>2 DEF Cost
<1>4. \A theta : Costs(theta)' = Costs(theta) /\ Walls(theta)' = Walls(theta)
  BY <1>1, <1>3 DEF Costs, Walls
<1>5. Spread' = Spread /\ Quiet' = Quiet
  BY DEF Spread, Quiet
<1>6. QED
  BY <1>1, <1>3, <1>4, <1>5, OutputStays

LEMMA ComparedStays ==
  ASSUME landscape' = landscape, dims' = dims
  PROVE  \A theta, cand, pairs : Compared(theta, cand, pairs)' = Compared(theta, cand, pairs)
<1>1. \A theta : Costs(theta)' = Costs(theta) /\ Output(theta)' = Output(theta)
  BY CostsStay
<1>2. \A theta, pairs : Samples(theta, pairs)' = Samples(theta, pairs)
  BY <1>1 DEF Samples
<1>3. QED
  BY <1>1, <1>2 DEF Compared

LEMMA NeighboursStay ==
  ASSUME dims' = dims
  PROVE  \A theta : Neighbours(theta)' = Neighbours(theta)
BY DEF Neighbours

LEMMA TypesStay ==
  ASSUME dims' = dims
  PROVE  Move' = Move /\ Steps' = Steps /\ Opts' = Opts /\ Searches' = Searches
<1>1. Move' = Move /\ Steps' = Steps
  BY DEF Move, Steps
<1>2. QED
  BY <1>1 DEF Opts, Searches

LEMMA SettledStays ==
  ASSUME landscape' = landscape, dims' = dims, program' = program
  PROVE  /\ \A theta, t : Gain(theta, t)' = Gain(theta, t)
         /\ \A theta, d : Settled(theta, d)' = Settled(theta, d)
         /\ \A kind, theta, t : Worse(kind, theta, t)' = Worse(kind, theta, t)
         /\ \A theta, dm, cm : Anchored(theta, dm, cm)' = Anchored(theta, dm, cm)
<1>1. \A theta, cand, pairs : Compared(theta, cand, pairs)' = Compared(theta, cand, pairs)
  BY ComparedStays
<1>2. \A theta : Cost(theta)' = Cost(theta) /\ Output(theta)' = Output(theta)
  BY CostsStay
<1>3. \A theta, t : Gain(theta, t)' = Gain(theta, t)
  BY <1>1, <1>2 DEF Gain
<1>4. \A theta, d : Settled(theta, d)' = Settled(theta, d)
  BY <1>3 DEF Settled
<1>5. \A kind, theta, t : Worse(kind, theta, t)' = Worse(kind, theta, t)
  BY <1>1 DEF Worse
<1>6. \A theta, dm, cm : Anchored(theta, dm, cm)' = Anchored(theta, dm, cm)
  BY <1>2 DEF Anchored
<1>7. QED
  BY <1>3, <1>4, <1>5, <1>6

LEMMA SweepStays ==
  ASSUME landscape' = landscape, dims' = dims, program' = program
  PROVE  /\ \A o : SweepOK(o)' = SweepOK(o)
         /\ \A o : StableOK(o)' = StableOK(o)
         /\ \A o : SweptDim(o)' = SweptDim(o)
<1>1. \A o : Dimension(o)' = Dimension(o) /\ SweptDim(o)' = SweptDim(o)
  BY DEF Dimension, SweptDim
<1>2. \A theta : Costs(theta)' = Costs(theta)
  BY CostsStay
<1>3. Quiet' = Quiet /\ \A theta, d : Settled(theta, d)' = Settled(theta, d)
  BY CostsStay, SettledStays
<1>4. \A o : SweepOK(o)' = SweepOK(o)
  BY <1>1, <1>2 DEF SweepOK
<1>5. \A o : StableOK(o)' = StableOK(o)
  BY <1>3 DEF StableOK
<1>6. QED
  BY <1>1, <1>4, <1>5

----------------------------------------------------------------------------
(* What the helpers make of a tuner.                                       *)

LEMMA FieldTypes ==
  ASSUME NEW o \in Opts
  PROVE  /\ o.theta \in Thetas /\ o.step \in Steps /\ o.stable \in [Range(dims) -> Nat]
         /\ o.cursor \in 1..Len(dims) /\ o.converged \in BOOLEAN /\ o.baseline \in Seq(Nat)
         /\ o.pending \in Seq(Move)
         /\ o.observed \in Seq([theta : Thetas, dim : Range(dims), cost : Nat])
BY DEF Opts

LEMMA CursorIsFine ==
  ASSUME OnLandscape, NEW o \in Opts
  PROVE  Dimension(o) \in Range(dims) /\ SweptDim(o) \in Range(dims)
<1>1. o.cursor \in 1..Len(dims) /\ Len(dims) \in Nat \ {0} /\ \A i \in 1..Len(dims) : dims[i] \in Range(dims)
  BY FieldTypes, FamilyType
<1>2. Len(dims) \in 1..Len(dims) /\ (o.cursor # 1 => o.cursor - 1 \in 1..Len(dims))
  BY <1>1
<1>3. QED
  BY <1>1, <1>2 DEF Dimension, SweptDim

LEMMA WrapAround ==
  ASSUME NEW n \in Nat \ {0}, NEW c \in 1..n
  PROVE  c % n = IF c = n THEN 0 ELSE c
<1>1. CASE c = n
  <2>1. n % n = 0
    OBVIOUS
  <2>2. QED
    BY <1>1, <2>1
<1>2. CASE c # n
  <2>1. c \in 0..(n - 1)
    BY <1>2
  <2>2. c % n = c
    BY <2>1
  <2>3. QED
    BY <1>2, <2>2
<1>3. QED
  BY <1>1, <1>2

LEMMA AdvancedIs ==
  ASSUME OnLandscape, NEW o \in Opts
  PROVE  /\ Advanced(o) \in Opts /\ SweptDim(Advanced(o)) = Dimension(o)
         /\ Advanced(o).theta = o.theta /\ Advanced(o).step = o.step
         /\ Advanced(o).stable = o.stable /\ Advanced(o).converged = o.converged
         /\ Advanced(o).baseline = o.baseline /\ Advanced(o).pending = o.pending
         /\ Advanced(o).observed = o.observed
<1>1. PICK n \in Nat \ {0}, c \in Nat : n = Len(dims) /\ c = o.cursor /\ c \in 1..n
  BY FieldTypes, FamilyType
<1>2. PICK m : m = c % n /\ m = IF c = n THEN 0 ELSE c
  BY <1>1, WrapAround
<1>3. PICK k : k = m + 1
  OBVIOUS
<1>4. k \in 1..n /\ c = IF k = 1 THEN n ELSE k - 1
  <2>1. m = IF c = n THEN 0 ELSE c
    BY <1>2
  <2>2. QED
    BY <1>1, <1>3, <2>1
<1>5. Advanced(o) = [o EXCEPT !.cursor = k]
  BY Zenon, <1>1, <1>2, <1>3 DEF Advanced
<1>6. k \in 1..Len(dims)
  BY <1>1, <1>4
<1>7. Advanced(o) \in Opts /\ Advanced(o).cursor = k
  BY <1>5, <1>6 DEF Opts
<1>8. SweptDim(Advanced(o)) = Dimension(o)
  BY <1>1, <1>4, <1>7 DEF SweptDim, Dimension
<1>9. QED
  BY <1>5, <1>7, <1>8 DEF Opts

LEMMA MovedIs ==
  ASSUME NEW o \in Opts, NEW theta \in Thetas
  PROVE  /\ Moved(o, theta) \in Opts /\ Moved(o, theta).theta = theta
         /\ \A d \in Range(dims) : Moved(o, theta).stable[d] = 0
         /\ Moved(o, theta).step = o.step /\ Moved(o, theta).cursor = o.cursor
         /\ Moved(o, theta).converged = o.converged
         /\ Moved(o, theta).baseline = o.baseline
         /\ Moved(o, theta).pending = o.pending /\ Moved(o, theta).observed = o.observed
BY DEF Moved, Opts

LEMMA RestartedIs ==
  ASSUME NEW o \in Opts, NEW cost \in Nat
  PROVE  /\ Restarted(o, cost) \in Opts /\ Restarted(o, cost).baseline = <<cost>>
         /\ Restarted(o, cost).theta = o.theta /\ Restarted(o, cost).stable = o.stable
         /\ Restarted(o, cost).step = o.step /\ Restarted(o, cost).cursor = o.cursor
         /\ Restarted(o, cost).converged = o.converged
         /\ Restarted(o, cost).pending = o.pending /\ Restarted(o, cost).observed = o.observed
<1>1. <<cost>> \in Seq(Nat)
  OBVIOUS
<1>2. QED
  BY <1>1 DEF Restarted, Opts

LEMMA HalfOfTwo == Max({1, 2 \div 2}) = 1
<1>1. 2 \div 2 = 1 /\ {1, 1} \subseteq 0..1 /\ {1, 1} # {}
  OBVIOUS
<1>2. Max({1, 1}) \in {1, 1}
  BY <1>1, MaxProperties
<1>3. QED
  BY <1>1, <1>2

LEMMA ShrunkIs ==
  ASSUME NEW o \in Opts, NEW d \in Range(dims)
  PROVE  /\ Shrunk(o, d) \in Opts
         /\ Shrunk(o, d).theta = o.theta /\ Shrunk(o, d).cursor = o.cursor
         /\ Shrunk(o, d).converged = o.converged /\ Shrunk(o, d).baseline = o.baseline
         /\ Shrunk(o, d).pending = o.pending /\ Shrunk(o, d).observed = o.observed
         /\ \A e \in Range(dims) \ {d} :
              Shrunk(o, d).step[e] = o.step[e] /\ Shrunk(o, d).stable[e] = o.stable[e]
         /\ o.step[d] = 1 => Shrunk(o, d).step[d] = 1 /\ Shrunk(o, d).stable[d] >= 1
         /\ o.step[d] # 1 => Shrunk(o, d).stable[d] = 0
<1>1. o.step \in [Range(dims) -> {1, 2}] /\ o.stable \in [Range(dims) -> Nat]
      /\ \A e \in Range(dims) : o.step[e] = 1 \/ MaxIndex(e) > 1
  BY DEF Opts, Steps
<1>2. CASE o.step[d] > 1
  <2>1. o.step[d] = 2
    BY <1>1, <1>2
  <2>2. PICK s : s = [o.step EXCEPT ![d] = 1]
    OBVIOUS
  <2>3. PICK st : st = [o.stable EXCEPT ![d] = 0]
    OBVIOUS
  <2>4. Shrunk(o, d) = [o EXCEPT !.step = s, !.stable = st]
    <3>1. Shrunk(o, d) = [o EXCEPT !.step[d] = Max({1, @ \div 2}), !.stable[d] = 0]
      BY <1>2 DEF Shrunk
    <3>2. Max({1, o.step[d] \div 2}) = 1
      BY <2>1, HalfOfTwo
    <3>3. QED
      BY <2>2, <2>3, <3>1, <3>2 DEF Opts
  <2>5. s \in Steps /\ st \in [Range(dims) -> Nat]
    BY <1>1, <2>2, <2>3 DEF Steps
  <2>6. /\ st[d] = 0 /\ \A e \in Range(dims) \ {d} : s[e] = o.step[e] /\ st[e] = o.stable[e]
    BY <1>1, <2>2, <2>3
  <2>7. /\ Shrunk(o, d) \in Opts /\ Shrunk(o, d).step = s /\ Shrunk(o, d).stable = st
        /\ Shrunk(o, d).theta = o.theta /\ Shrunk(o, d).cursor = o.cursor
        /\ Shrunk(o, d).converged = o.converged /\ Shrunk(o, d).baseline = o.baseline
        /\ Shrunk(o, d).pending = o.pending /\ Shrunk(o, d).observed = o.observed
    BY <2>4, <2>5 DEF Opts
  <2>8. QED
    BY <2>1, <2>6, <2>7
<1>3. CASE ~(o.step[d] > 1)
  <2>1. o.step[d] = 1
    BY <1>1, <1>3
  <2>2. PICK n \in Nat : n = (IF program = "paired" THEN 1 ELSE o.stable[d] + 1) /\ n >= 1
    <3>1. o.stable[d] \in Nat
      BY <1>1
    <3>2. QED
      BY <3>1
  <2>3. PICK st : st = [o.stable EXCEPT ![d] = n]
    OBVIOUS
  <2>4. Shrunk(o, d) = [o EXCEPT !.stable = st]
    <3>1. Shrunk(o, d) = [o EXCEPT !.stable[d] = IF program = "paired" THEN 1 ELSE @ + 1]
      BY <1>3 DEF Shrunk
    <3>2. QED
      BY <2>2, <2>3, <3>1 DEF Opts
  <2>5. st \in [Range(dims) -> Nat]
    BY <1>1, <2>3
  <2>6. QED
    BY <1>1, <2>1, <2>2, <2>3, <2>4, <2>5 DEF Opts
<1>4. QED
  BY <1>2, <1>3

LEMMA JudgedIs ==
  ASSUME NEW o \in Opts
  PROVE  /\ Judged(o) \in Opts
         /\ Judged(o).theta = o.theta /\ Judged(o).step = o.step /\ Judged(o).stable = o.stable
         /\ Judged(o).cursor = o.cursor /\ Judged(o).baseline = o.baseline
         /\ Judged(o).pending = o.pending /\ Judged(o).observed = o.observed
         /\ Judged(o).converged => o.converged \/ \A d \in Range(dims) : o.stable[d] >= 1
<1>1. PICK b \in BOOLEAN :
        /\ b = (o.converged \/ \A d \in Range(dims) : o.stable[d] >= IF program = "paired" THEN 1 ELSE 2)
        /\ Judged(o) = [o EXCEPT !.converged = b]
  BY DEF Judged, Opts
<1>2. b => o.converged \/ \A d \in Range(dims) : o.stable[d] >= 1
  BY <1>1 DEF Opts
<1>3. QED
  BY <1>1, <1>2 DEF Opts

----------------------------------------------------------------------------
(* An online episode: what is chosen and what is made of what it costs.    *)

ChosenOf(p) == [opt |-> p, theta |-> Head(p.pending).theta, candidate |-> TRUE]

LEMMA ChooseIs ==
  ASSUME OnLandscape, NEW o \in Opts, SweepOK(o)
  PROVE  \/ Choose(o) = [opt |-> o, theta |-> o.theta, candidate |-> FALSE]
         \/ /\ ~o.converged /\ o.baseline # <<>>
            /\ \E p \in Opts :
                 /\ Choose(o) = ChosenOf(p) /\ p.pending # <<>> /\ SweepOK(p)
                 /\ p.theta = o.theta /\ p.step = o.step /\ p.stable = o.stable
                 /\ p.converged = o.converged /\ p.baseline = o.baseline
<1>1. CASE o.converged \/ Len(o.baseline) < 3
  BY <1>1 DEF Choose
<1>2. CASE ~(o.converged \/ Len(o.baseline) < 3)
  <2> DEFINE d == Dimension(o)
  <2>1. PICK moves : moves = IF o.pending = <<>> THEN Moves(o.theta, d, o.step[d]) ELSE o.pending
    OBVIOUS
  <2>2. d \in Range(dims) /\ o.theta \in Thetas /\ o.step[d] \in {1, 2}
        /\ (o.step[d] = 1 \/ MaxIndex(d) > 1)
    BY CursorIsFine, FieldTypes DEF Steps
  <2>3. /\ Moves(o.theta, d, o.step[d]) \in Seq(Move)
        /\ \A i \in DOMAIN Moves(o.theta, d, o.step[d]) : Moves(o.theta, d, o.step[d])[i].dim = d
        /\ Targets(Moves(o.theta, d, o.step[d])) = Places(o.theta, d, o.step[d])
        /\ Moves(o.theta, d, o.step[d]) # <<>>
    BY <2>2, MovesAre
  <2>4. /\ moves \in Seq(Move) /\ moves # <<>>
        /\ \A i \in DOMAIN moves : moves[i].dim = d
        /\ Targets(moves) \cup Targets(o.observed) = Places(o.theta, d, o.step[d])
    <3>1. CASE o.pending = <<>>
      <4>1. moves = Moves(o.theta, d, o.step[d]) /\ o.observed = <<>>
        BY <2>1, <3>1 DEF SweepOK
      <4>2. Targets(o.observed) = {}
        BY <4>1 DEF Targets
      <4>3. QED
        BY <2>3, <4>1, <4>2
    <3>2. CASE o.pending # <<>>
      BY <2>1, <3>2, FieldTypes DEF SweepOK
    <3>3. QED
      BY <3>1, <3>2
  <2>5. PICK p : p = [o EXCEPT !.pending = moves]
    OBVIOUS
  <2>6. /\ p \in Opts /\ p.pending = moves /\ p.observed = o.observed /\ p.cursor = o.cursor
        /\ p.theta = o.theta /\ p.step = o.step /\ p.stable = o.stable
        /\ p.converged = o.converged /\ p.baseline = o.baseline
    BY <2>4, <2>5 DEF Opts
  <2>7. Dimension(p) = d
    BY <2>6 DEF Dimension
  <2>8. SweepOK(p)
    BY <2>4, <2>6, <2>7 DEF SweepOK
  <2>9. Choose(o) = ChosenOf(p)
    BY <1>2, <2>1, <2>4, <2>5, <2>6 DEF Choose, ChosenOf
  <2>10. o.baseline # <<>>
    BY <1>2
  <2>11. QED
    BY <1>2, <2>4, <2>6, <2>8, <2>9, <2>10
<1>3. QED
  BY <1>1, <1>2

LEMMA GreaterOfTwo ==
  ASSUME NEW m \in Int, NEW n \in Int
  PROVE  Max({m, n}) \in {m, n} /\ Max({m, n}) >= m /\ Max({m, n}) >= n
<1>1. \E x \in {m, n} : \A y \in {m, n} : x >= y
  BY m <= n \/ n <= m
<1>2. Max({m, n}) \in {m, n} /\ \A y \in {m, n} : Max({m, n}) >= y
  BY <1>1 DEF Max
<1>3. QED
  BY <1>2

(* The last five costs of the present parameters are costs of theirs.      *)
LEMMA LastOnes ==
  ASSUME NEW X, NEW s \in Seq(X)
  PROVE  SubSeq(s, Max({0, Len(s) - 5}) + 1, Len(s)) \in Seq(X)
<1>1. PICK n \in Nat : n = Len(s)
  OBVIOUS
<1>2. PICK m \in Nat : m = Max({0, n - 5})
  <2>1. PICK k \in Int : k = n - 5
    OBVIOUS
  <2>2. 0 \in Int
    OBVIOUS
  <2>3. Max({0, k}) \in {0, k} /\ Max({0, k}) >= 0
    BY Zenon, <2>2, GreaterOfTwo
  <2> HIDE DEF Max
  <2>4. Max({0, k}) \in Nat
    BY <2>3
  <2>5. QED
    BY Zenon, <2>1, <2>4
<1>3. SubSeq(s, m + 1, n) \in Seq(X)
  BY <1>1
<1>4. QED
  BY <1>1, <1>2, <1>3

WithCost(o, cost) == Observe(o, o.theta, FALSE, cost)

LEMMA BaselineObserved ==
  ASSUME OnLandscape, NEW o \in Opts, SweepOK(o), StableOK(o), NEW cost \in Costs(o.theta),
         NEW q, q = WithCost(o, cost)
  PROVE  q \in Opts /\ SweepOK(q) /\ StableOK(q) /\ q.theta = o.theta
<1>1. o.theta \in Thetas /\ o.baseline \in Seq(Nat)
  BY FieldTypes
<1>2. Costs(o.theta) \subseteq Nat
  <2>1. Costs(o.theta) \subseteq Cost(o.theta)..(Cost(o.theta) + Spread)
    BY <1>1, CostsBetween
  <2>2. Cost(o.theta) \in Nat /\ Spread \in Nat
    BY <1>1, CostType, NoiseType
  <2>3. QED
    BY <2>1, <2>2
<1>3. o.baseline \in Seq(Costs(o.theta))
  BY <1>1 DEF SweepOK
<1>4. PICK all : all = Append(o.baseline, cost)
  OBVIOUS
<1>5. all \in Seq(Costs(o.theta))
  BY <1>3, <1>4
<1>6. PICK b : b = SubSeq(all, Max({0, Len(all) - 5}) + 1, Len(all))
  OBVIOUS
<1>7. b \in Seq(Costs(o.theta))
  BY <1>5, <1>6, LastOnes
<1>8. b \in Seq(Nat) /\ \A i \in DOMAIN b : b[i] \in Costs(o.theta)
  BY <1>2, <1>7
<1>9. q = [o EXCEPT !.baseline = b]
  BY <1>4, <1>6 DEF Observe, WithCost
<1>10. /\ q \in Opts /\ q.baseline = b /\ q.observed = o.observed /\ q.cursor = o.cursor
       /\ q.theta = o.theta /\ q.step = o.step /\ q.stable = o.stable
       /\ q.converged = o.converged /\ q.pending = o.pending
  BY <1>8, <1>9 DEF Opts
<1>11. Dimension(q) = Dimension(o)
  BY <1>10 DEF Dimension
<1>12. SweepOK(q)
  BY <1>8, <1>10, <1>11 DEF SweepOK
<1>13. StableOK(q)
  BY <1>10 DEF StableOK
<1>14. QED
  BY <1>10, <1>12, <1>13

(* The candidate to commit: the cheapest of those that are worth it, and   *)
(* of equal ones the first.                                                *)
LEMMA BestExists ==
  ASSUME NEW W, W # {}, W \subseteq Nat, NEW cost, \A i \in W : cost[i] \in Nat
  PROVE  \E i \in W : \A j \in W : cost[i] < cost[j] \/ (cost[i] = cost[j] /\ i <= j)
<1> DEFINE C == {cost[i] : i \in W}
<1>1. C # {} /\ C \subseteq Nat
  OBVIOUS
<1>2. PICK c \in C : \A e \in C : c <= e
  <2> HIDE DEF C
  <2> QED
    BY <1>1, LeastNat
<1> DEFINE L == {i \in W : cost[i] = c}
<1>3. L # {} /\ L \subseteq Nat
  BY <1>2
<1>4. PICK i \in L : \A j \in L : i <= j
  <2> HIDE DEF L
  <2> QED
    BY <1>3, LeastNat
<1>5. ASSUME NEW j \in W
      PROVE  cost[i] < cost[j] \/ (cost[i] = cost[j] /\ i <= j)
  <2>1. c \in Nat /\ cost[j] \in Nat /\ cost[i] = c /\ c <= cost[j]
    BY <1>2, <1>4
  <2>2. CASE cost[j] = c
    BY <1>4, <2>1, <2>2
  <2>3. CASE cost[j] # c
    BY <2>1, <2>3
  <2>4. QED
    BY <2>2, <2>3
<1>6. QED
  BY <1>4, <1>5

(* What is observed in a sweep that is over.                               *)
Seen == [theta : Thetas, dim : Range(dims), cost : Nat]

SweptAll(o, d, observed) ==
  /\ observed \in Seq(Seen) /\ d = Dimension(o)
  /\ \A i \in DOMAIN observed :
       observed[i].dim = d /\ observed[i].cost \in Costs(observed[i].theta)
  /\ Targets(observed) = Places(o.theta, d, o.step[d])

LEMMA BaselineOfCosts ==
  ASSUME NEW o \in Opts, SweepOK(o)
  PROVE  o.baseline \in Seq(Costs(o.theta))
<1>1. PICK b, costs : b = o.baseline /\ costs = Costs(o.theta)
  OBVIOUS
<1>2. b \in Seq(Nat) /\ \A i \in DOMAIN b : b[i] \in costs
  BY <1>1, FieldTypes DEF SweepOK
<1>3. b \in Seq(costs)
  BY <1>2
<1>4. QED
  BY <1>1, <1>3

(* A coordinate that is not changed: its step is halved, or the sweep at   *)
(* the finest step has shown that nothing would be committed.              *)
LEMMA SweptInVain ==
  ASSUME OnLandscape, program = "online", NEW o \in Opts, SweepOK(o), StableOK(o), ~o.converged,
         NEW base, base = Median(o.baseline), o.baseline # <<>>,
         NEW d, NEW observed, SweptAll(o, d, observed),
         \A i \in DOMAIN observed :
           ~MateriallyBelow(observed[i].cost - base, 50, IF o.step[d] > 1 THEN 3 ELSE 2, base)
  PROVE  StableOK(Shrunk(o, d))
<1>1. d \in Range(dims) /\ o.theta \in Thetas /\ o.step[d] \in {1, 2}
  BY CursorIsFine, FieldTypes DEF SweptAll, Steps
<1>2. PICK s : s = Shrunk(o, d)
  OBVIOUS
<1>3. /\ s \in Opts /\ s.theta = o.theta /\ s.converged = o.converged
      /\ \A e \in Range(dims) \ {d} : s.step[e] = o.step[e] /\ s.stable[e] = o.stable[e]
      /\ o.step[d] = 1 => s.step[d] = 1 /\ s.stable[d] >= 1
      /\ o.step[d] # 1 => s.stable[d] = 0
  BY <1>1, <1>2, ShrunkIs
<1>4. ASSUME o.step[d] = 1, Quiet
      PROVE  Settled(o.theta, d)
  <2>1. SUFFICES ASSUME NEW t \in Places(o.theta, d, 1)
                 PROVE  ~Gain(o.theta, t)
    BY DEF Settled
  <2>2. PICK i \in DOMAIN observed : observed[i].theta = t
    BY <1>4 DEF SweptAll, Targets
  <2>3. observed[i].cost \in Costs(t) /\ t \in Thetas
    <3>1. observed[i] \in Seen /\ observed[i].cost \in Costs(observed[i].theta)
      BY DEF SweptAll
    <3>2. observed[i].theta \in Thetas
      BY <3>1 DEF Seen
    <3>3. QED
      BY <2>2, <3>1, <3>2
  <2>4. observed[i].cost = Cost(t)
    BY <1>4, <2>3, CostsBetween
  <2>5. base = Cost(o.theta)
    <3>1. o.baseline \in Seq(Costs(o.theta))
      BY BaselineOfCosts
    <3>2. base \in Cost(o.theta)..(Cost(o.theta) + Spread)
      BY <1>1, <3>1, MedianOfCosts
    <3>3. Cost(o.theta) \in Nat /\ Spread = 0
      BY <1>1, <1>4, CostType, NoiseType
    <3>4. QED
      BY <3>2, <3>3
  <2>6. ~MateriallyBelow(Cost(t) - Cost(o.theta), 50, 2, Cost(o.theta))
    BY <1>4, <2>2, <2>4, <2>5
  <2>7. QED
    BY <2>6 DEF Gain
<1>5. ASSUME NEW e \in Range(dims), s.stable[e] >= 1
      PROVE  s.step[e] = 1 /\ (Quiet => Settled(s.theta, e))
  <2>1. CASE e = d
    BY <1>1, <1>3, <1>4, <1>5, <2>1
  <2>2. CASE e # d
    BY <1>3, <1>5, <2>2 DEF StableOK
  <2>3. QED
    BY <2>1, <2>2
<1>6. QED
  BY <1>2, <1>3, <1>5 DEF StableOK

(* What is left of a sweep once it is over.                                *)
LEMMA EmptiedIs ==
  ASSUME NEW n \in Opts, NEW m, m = [n EXCEPT !.pending = <<>>, !.observed = <<>>]
  PROVE  /\ m \in Opts /\ m.pending = <<>> /\ m.observed = <<>> /\ m.theta = n.theta
         /\ m.step = n.step /\ m.stable = n.stable /\ m.converged = n.converged
         /\ m.baseline = n.baseline
<1>1. <<>> \in Seq(Move) /\ <<>> \in Seq([theta : Thetas, dim : Range(dims), cost : Nat])
  OBVIOUS
<1>2. PICK e : e = <<>>
  OBVIOUS
<1>3. e \in Seq(Move) /\ e \in Seq([theta : Thetas, dim : Range(dims), cost : Nat])
      /\ m = [n EXCEPT !.pending = e, !.observed = e]
  BY Zenon, <1>1, <1>2
<1>4. /\ m \in Opts /\ m.pending = e /\ m.observed = e /\ m.theta = n.theta
      /\ m.step = n.step /\ m.stable = n.stable /\ m.converged = n.converged
      /\ m.baseline = n.baseline
  BY <1>3 DEF Opts
<1>5. QED
  BY Zenon, <1>2, <1>4

(* What a sweep comes to, in the parts of its definition.                  *)
Worth(o, d, observed) ==
  {i \in DOMAIN observed :
     /\ observed[i].dim = d
     /\ MateriallyBelow(observed[i].cost - Median(o.baseline), 50,
                        IF o.step[d] > 1 THEN 3 ELSE 2, Median(o.baseline))}

Best(o, d, observed) ==
  CHOOSE i \in Worth(o, d, observed) : \A j \in Worth(o, d, observed) :
    \/ observed[i].cost < observed[j].cost
    \/ observed[i].cost = observed[j].cost /\ i <= j

LEMMA SweptByParts ==
  ASSUME NEW o, NEW d, NEW observed
  PROVE  \E n :
           /\ Swept(o, d, observed) = Judged([n EXCEPT !.pending = <<>>, !.observed = <<>>])
           /\ Worth(o, d, observed) = {} => n = Advanced(Shrunk(o, d))
           /\ Worth(o, d, observed) # {} =>
                n = Restarted(Moved(o, observed[Best(o, d, observed)].theta),
                              observed[Best(o, d, observed)].cost)
<1> DEFINE next == IF Worth(o, d, observed) # {}
                   THEN Restarted(Moved(o, observed[Best(o, d, observed)].theta),
                                  observed[Best(o, d, observed)].cost)
                   ELSE Advanced(Shrunk(o, d))
<1>1. Swept(o, d, observed) = Judged([next EXCEPT !.pending = <<>>, !.observed = <<>>])
  BY DEF Swept, Worth, Best
<1>2. QED
  BY Zenon, <1>1

LEMMA BestIsWorth ==
  ASSUME NEW o, NEW d, NEW observed \in Seq(Seen), Worth(o, d, observed) # {}
  PROVE  Best(o, d, observed) \in Worth(o, d, observed)
<1>1. PICK worth : worth = Worth(o, d, observed)
  OBVIOUS
<1>2. worth \subseteq Nat /\ worth \subseteq DOMAIN observed /\ worth # {}
  BY <1>1 DEF Worth
<1>3. \A i \in DOMAIN observed : observed[i] \in Seen
  OBVIOUS
<1>4. \A i \in worth : observed[i].cost \in Nat
  BY <1>2, <1>3 DEF Seen
<1>5. PICK cost : cost = [i \in worth |-> observed[i].cost]
  OBVIOUS
<1>6. \A i \in worth : cost[i] = observed[i].cost /\ cost[i] \in Nat
  BY <1>4, <1>5
<1>7. \E i \in worth : \A j \in worth : cost[i] < cost[j] \/ (cost[i] = cost[j] /\ i <= j)
  BY <1>2, <1>6, BestExists
<1>8. \E i \in worth : \A j \in worth :
        \/ observed[i].cost < observed[j].cost
        \/ observed[i].cost = observed[j].cost /\ i <= j
  BY <1>6, <1>7
<1>9. QED
  BY Zenon, <1>1, <1>8 DEF Best

LEMMA SweptIs ==
  ASSUME OnLandscape, program = "online", NEW o \in Opts, SweepOK(o), StableOK(o), ~o.converged,
         o.baseline # <<>>, NEW d, NEW observed, SweptAll(o, d, observed),
         NEW q, q = Swept(o, d, observed)
  PROVE  /\ q \in Opts /\ SweepOK(q) /\ StableOK(q)
         /\ q.theta # o.theta => Cost(q.theta) + 10 < Cost(o.theta) + Spread
<1>1. PICK n :
        /\ q = Judged([n EXCEPT !.pending = <<>>, !.observed = <<>>])
        /\ Worth(o, d, observed) = {} => n = Advanced(Shrunk(o, d))
        /\ Worth(o, d, observed) # {} =>
             n = Restarted(Moved(o, observed[Best(o, d, observed)].theta),
                           observed[Best(o, d, observed)].cost)
  BY Zenon, SweptByParts
<1>2. observed \in Seq(Seen) /\ \A i \in DOMAIN observed : observed[i] \in Seen
  BY DEF SweptAll
<1>3. d \in Range(dims) /\ o.theta \in Thetas /\ o.step[d] \in {1, 2} /\ o.baseline \in Seq(Nat)
  BY CursorIsFine, FieldTypes DEF SweptAll, Steps
<1>4. PICK base \in Nat :
        base = Median(o.baseline) /\ base <= Cost(o.theta) + Spread
  <2>1. o.baseline \in Seq(Costs(o.theta))
    BY BaselineOfCosts
  <2>2. Median(o.baseline) \in Cost(o.theta)..(Cost(o.theta) + Spread)
    BY <1>3, <2>1, MedianOfCosts
  <2>3. Cost(o.theta) \in Nat /\ Spread \in Nat
    BY <1>3, CostType, NoiseType
  <2>4. QED
    BY <2>2, <2>3
<1>5. /\ n \in Opts /\ StableOK(n)
      /\ \A i \in DOMAIN n.baseline : n.baseline[i] \in Costs(n.theta)
      /\ n.theta # o.theta => Cost(n.theta) + 10 < Cost(o.theta) + Spread
  <2>1. CASE Worth(o, d, observed) # {}
    <3>1. PICK b \in DOMAIN observed : b = Best(o, d, observed)
            /\ MateriallyBelow(observed[b].cost - Median(o.baseline), 50,
                               IF o.step[d] > 1 THEN 3 ELSE 2, Median(o.baseline))
      BY <1>2, <2>1, BestIsWorth DEF Worth
    <3>2. observed[b] \in Seen /\ observed[b].cost \in Costs(observed[b].theta)
      BY <1>2 DEF SweptAll
    <3>3. PICK t \in Thetas, c \in Nat : t = observed[b].theta /\ c = observed[b].cost /\ c \in Costs(t)
      BY <3>2 DEF Seen
    <3>4. n = Restarted(Moved(o, t), c)
      BY <1>1, <2>1, <3>1, <3>3
    <3>5. Moved(o, t) \in Opts /\ Moved(o, t).theta = t /\ Moved(o, t).converged = o.converged
          /\ \A e \in Range(dims) : Moved(o, t).stable[e] = 0
      BY MovedIs
    <3>6. n \in Opts /\ n.baseline = <<c>> /\ n.theta = t /\ n.converged = o.converged
          /\ \A e \in Range(dims) : n.stable[e] = 0
      <4>1. PICK m \in Opts : m = Moved(o, t)
        BY Zenon, <3>5
      <4>2. m.theta = t /\ m.converged = o.converged /\ \A e \in Range(dims) : m.stable[e] = 0
        BY Zenon, <3>5, <4>1
      <4>3. /\ Restarted(m, c) \in Opts /\ Restarted(m, c).baseline = <<c>>
            /\ Restarted(m, c).theta = m.theta /\ Restarted(m, c).stable = m.stable
            /\ Restarted(m, c).converged = m.converged
        BY Zenon, RestartedIs
      <4>4. n = Restarted(m, c)
        BY Zenon, <3>4, <4>1
      <4>5. QED
        BY Zenon, <4>2, <4>3, <4>4
    <3>7. StableOK(n)
      BY <3>6 DEF StableOK
    <3>8. \A i \in DOMAIN n.baseline : n.baseline[i] \in Costs(n.theta)
      BY <3>3, <3>6
    <3>9. c < base - 50
      <4>1. MateriallyBelow(c - base, 50, IF o.step[d] > 1 THEN 3 ELSE 2, base)
        BY <1>4, <3>1, <3>3
      <4>2. QED
        BY <1>4, <4>1 DEF MateriallyBelow
    <3>10. Cost(t) <= c
      <4>1. c \in Cost(t)..(Cost(t) + Spread) /\ Cost(t) \in Nat
        BY <3>3, CostsBetween, CostType
      <4>2. QED
        BY <4>1
    <3>11. Cost(t) + 10 < Cost(o.theta) + Spread
      <4>1. Cost(t) \in Nat /\ Cost(o.theta) \in Nat /\ Spread \in Nat
        BY <1>3, CostType, NoiseType
      <4>2. QED
        BY <1>4, <3>9, <3>10, <4>1
    <3>12. QED
      BY <3>6, <3>7, <3>8, <3>11
  <2>2. CASE Worth(o, d, observed) = {}
    <3>1. \A i \in DOMAIN observed :
            ~MateriallyBelow(observed[i].cost - base, 50, IF o.step[d] > 1 THEN 3 ELSE 2, base)
      BY <1>4, <2>2 DEF SweptAll, Worth
    <3>2. PICK s : s = Shrunk(o, d)
      OBVIOUS
    <3>3. s \in Opts /\ StableOK(s) /\ s.theta = o.theta /\ s.baseline = o.baseline
      BY <1>3, <1>4, <3>1, <3>2, ShrunkIs, SweptInVain
    <3>4. n = Advanced(s)
      BY <1>1, <2>2, <3>2
    <3>5. /\ n \in Opts /\ n.theta = s.theta /\ n.step = s.step /\ n.stable = s.stable
          /\ n.converged = s.converged /\ n.baseline = s.baseline
      BY <3>3, <3>4, AdvancedIs
    <3>6. QED
      BY <3>3, <3>5 DEF StableOK, SweepOK
  <2>3. QED
    BY <2>1, <2>2
<1>6. PICK m : m = [n EXCEPT !.pending = <<>>, !.observed = <<>>]
  OBVIOUS
<1>7. /\ m \in Opts /\ m.pending = <<>> /\ m.observed = <<>> /\ m.theta = n.theta
      /\ m.step = n.step /\ m.stable = n.stable /\ m.converged = n.converged /\ m.baseline = n.baseline
  BY <1>5, <1>6, EmptiedIs
<1>8. /\ q \in Opts /\ q.pending = <<>> /\ q.observed = <<>> /\ q.theta = n.theta
      /\ q.step = n.step /\ q.stable = n.stable /\ q.baseline = n.baseline
      /\ q.converged => n.converged \/ \A e \in Range(dims) : n.stable[e] >= 1
  BY ZenonT(60), <1>1, <1>6, <1>7, JudgedIs
<1>9. SweepOK(q)
  BY <1>5, <1>8 DEF SweepOK
<1>10. StableOK(q)
  BY <1>5, <1>8 DEF StableOK
<1>11. QED
  BY <1>5, <1>8, <1>9, <1>10

(* A candidate is observed: the sweep goes on, or comes to its end.        *)
LEMMA TargetsOfRange ==
  ASSUME NEW s
  PROVE  Targets(s) = {m.theta : m \in Range(s)}
BY DEF Targets, Range

LEMMA CandidateSeen ==
  ASSUME OnLandscape, NEW o \in Opts, SweepOK(o), o.pending # <<>>,
         NEW cost \in Costs(Head(o.pending).theta), NEW seen,
         seen = Append(o.observed, [theta |-> Head(o.pending).theta, dim |-> Head(o.pending).dim,
                                    cost |-> cost])
  PROVE  /\ seen \in Seq(Seen)
         /\ \A i \in DOMAIN seen :
              seen[i].dim = Dimension(o) /\ seen[i].cost \in Costs(seen[i].theta)
         /\ Targets(Tail(o.pending)) \cup Targets(seen) =
              Places(o.theta, Dimension(o), o.step[Dimension(o)])
         /\ Head(o.pending).dim = Dimension(o)
         /\ Tail(o.pending) \in Seq(Move)
         /\ \A i \in DOMAIN Tail(o.pending) : Tail(o.pending)[i].dim = Dimension(o)
<1>1. o.pending \in Seq(Move) /\ o.observed \in Seq(Seen)
  BY FieldTypes DEF Seen
<1>2. PICK p, s, d : p = Head(o.pending) /\ s = Tail(o.pending) /\ d = Dimension(o)
  OBVIOUS
<1>3. p \in Move /\ s \in Seq(Move) /\ Range(o.pending) = {p} \cup Range(s)
  BY <1>1, <1>2, HeadAndTail
<1>4. PICK x : x = [theta |-> p.theta, dim |-> p.dim, cost |-> cost]
  OBVIOUS
<1>5. p.theta \in Thetas /\ p.dim \in Range(dims)
  BY <1>3 DEF Move
<1>6. cost \in Nat
  <2>1. cost \in Cost(p.theta)..(Cost(p.theta) + Spread)
    BY <1>2, <1>5, CostsBetween
  <2>2. Cost(p.theta) \in Nat /\ Spread \in Nat
    BY <1>5, CostType, NoiseType
  <2>3. QED
    BY <2>1, <2>2
<1>7. x \in Seen /\ x.theta = p.theta /\ x.dim = p.dim /\ x.cost = cost
  BY <1>4, <1>5, <1>6 DEF Seen
<1>8. seen = Append(o.observed, x)
  BY <1>2, <1>4
<1>9. seen \in Seq(Seen) /\ Range(seen) = Range(o.observed) \cup {x}
  BY <1>1, <1>7, <1>8, RangeOfAppended
<1>10. \A m \in Range(o.pending) : m.dim = d
  BY <1>2 DEF SweepOK, Range
<1>11. p.dim = d /\ \A m \in Range(s) : m.dim = d
  BY <1>3, <1>10
<1>12. \A m \in Range(o.observed) : m.dim = d /\ m.cost \in Costs(m.theta)
  BY <1>2 DEF SweepOK, Range
<1>13. \A m \in Range(seen) : m.dim = d /\ m.cost \in Costs(m.theta)
  BY <1>2, <1>7, <1>9, <1>11, <1>12
<1>14. Targets(s) \cup Targets(seen) = Targets(o.pending) \cup Targets(o.observed)
  BY <1>3, <1>7, <1>9, TargetsOfRange
<1>15. Targets(o.pending) \cup Targets(o.observed) = Places(o.theta, d, o.step[d])
  BY <1>2 DEF SweepOK
<1>16. /\ \A i \in DOMAIN seen : seen[i] \in Range(seen)
       /\ \A i \in DOMAIN s : s[i] \in Range(s)
  BY DEF Range
<1>17. QED
  BY <1>2, <1>3, <1>9, <1>11, <1>13, <1>14, <1>15, <1>16

LEMMA CandidateObserved ==
  ASSUME OnLandscape, program = "online", NEW o \in Opts, SweepOK(o), StableOK(o), ~o.converged,
         o.baseline # <<>>, o.pending # <<>>, NEW cost \in Costs(Head(o.pending).theta),
         NEW q, q = Observe(o, Head(o.pending).theta, TRUE, cost)
  PROVE  /\ q \in Opts /\ SweepOK(q) /\ StableOK(q)
         /\ q.theta # o.theta => Cost(q.theta) + 10 < Cost(o.theta) + Spread
<1>1. PICK seen, d, s : 
        /\ seen = Append(o.observed, [theta |-> Head(o.pending).theta, dim |-> Head(o.pending).dim,
                                      cost |-> cost])
        /\ d = Head(o.pending).dim /\ s = Tail(o.pending)
  OBVIOUS
<1>2. /\ seen \in Seq(Seen)
      /\ \A i \in DOMAIN seen : seen[i].dim = d /\ seen[i].cost \in Costs(seen[i].theta)
      /\ Targets(s) \cup Targets(seen) = Places(o.theta, d, o.step[d])
      /\ d = Dimension(o) /\ s \in Seq(Move)
      /\ \A i \in DOMAIN s : s[i].dim = d
  BY <1>1, CandidateSeen
<1>3. o.pending \in Seq(Move)
  BY FieldTypes
<1>4. CASE Len(o.pending) > 1
  <2>1. s # <<>>
    BY SMTT(30), <1>1, <1>3, <1>4
  <2>2. q = [o EXCEPT !.pending = s, !.observed = seen]
    BY <1>1, <1>4 DEF Observe
  <2>3. /\ q \in Opts /\ q.pending = s /\ q.observed = seen /\ q.theta = o.theta /\ q.step = o.step
        /\ q.stable = o.stable /\ q.converged = o.converged /\ q.baseline = o.baseline
        /\ q.cursor = o.cursor
    BY <1>2, <2>2 DEF Opts, Seen
  <2>4. Dimension(q) = d
    BY <1>2, <2>3 DEF Dimension
  <2>5. SweepOK(q)
    BY <1>2, <2>1, <2>3, <2>4 DEF SweepOK
  <2>6. StableOK(q)
    BY <2>3 DEF StableOK
  <2>7. QED
    BY <2>3, <2>5, <2>6
<1>5. CASE ~(Len(o.pending) > 1)
  <2>1. s = <<>>
    BY <1>1, <1>3, <1>5
  <2>2. Targets(s) = {}
    BY <2>1 DEF Targets
  <2>3. SweptAll(o, d, seen)
    BY <1>2, <2>2 DEF SweptAll
  <2>4. q = Swept(o, d, seen)
    BY <1>1, <1>5 DEF Observe
  <2>5. QED
    BY <2>3, <2>4, SweptIs
<1>6. QED
  BY <1>4, <1>5

----------------------------------------------------------------------------
(* The inductive invariant of the tuner, and one lemma for each step.      *)

TunerInv ==
  /\ TypeInv /\ SweepInv /\ StableInv /\ OptimizeInv /\ FoundInv /\ CertifyInv
  /\ SettledInv /\ LandedIsLocal /\ KeptInv

(* Up to the noise, a step may only make the parameters cheaper.           *)
Descends == opt'.theta # opt.theta => Cost(opt'.theta) + 10 < Cost(opt.theta) + Spread

LEMMA NothingElseChanges ==
  ASSUME [Next]_vars
  PROVE  /\ \A theta : Cost(theta)' = Cost(theta) /\ Wall(theta)' = Wall(theta)
         /\ \A theta : Neighbours(theta)' = Neighbours(theta)
         /\ \A theta, t : Gain(theta, t)' = Gain(theta, t)
         /\ \A theta, d : Settled(theta, d)' = Settled(theta, d)
         /\ \A kind, theta, t : Worse(kind, theta, t)' = Worse(kind, theta, t)
         /\ \A theta, dm, cm : Anchored(theta, dm, cm)' = Anchored(theta, dm, cm)
         /\ \A o : SweepOK(o)' = SweepOK(o) /\ StableOK(o)' = StableOK(o)
         /\ \A o : SweptDim(o)' = SweptDim(o)
         /\ Spread' = Spread /\ Quiet' = Quiet
         /\ program' = program /\ dims' = dims
<1>1. program' = program /\ landscape' = landscape /\ dims' = dims
  BY FamilyStays
<1>2. /\ \A theta : Cost(theta)' = Cost(theta) /\ Wall(theta)' = Wall(theta)
      /\ Spread' = Spread /\ Quiet' = Quiet
  BY <1>1, CostsStay
<1>3. \A theta : Neighbours(theta)' = Neighbours(theta)
  BY <1>1, NeighboursStay
<1>4. /\ \A theta, t : Gain(theta, t)' = Gain(theta, t)
      /\ \A theta, d : Settled(theta, d)' = Settled(theta, d)
      /\ \A kind, theta, t : Worse(kind, theta, t)' = Worse(kind, theta, t)
      /\ \A theta, dm, cm : Anchored(theta, dm, cm)' = Anchored(theta, dm, cm)
  BY <1>1, SettledStays
<1>5. /\ \A o : SweepOK(o)' = SweepOK(o) /\ StableOK(o)' = StableOK(o)
      /\ \A o : SweptDim(o)' = SweptDim(o)
  BY <1>1, SweepStays
<1>6. QED
  BY <1>1, <1>2, <1>3, <1>4, <1>5

LEMMA TypesKept ==
  ASSUME [Next]_vars, TypeInv, opt' \in Opts, landed' \in Opts, search' \in Searches,
         phase' \in {"episodes", "search", "anchor", "final", "done", "reported"},
         phase' = "search" <=> search'.kind # "none",
         search'.kind \in {"optimize", "certify"} => program = "paired",
         search'.kind = "idle" \/ phase' \in {"anchor", "final"} => program = "online",
         search'.found => phase' = "search"
  PROVE  TypeInv'
<1>1. program' = program /\ landscape' = landscape /\ dims' = dims
  BY FamilyStays
<1>2. Opts' = Opts /\ Searches' = Searches
  BY <1>1, TypesStay
<1>3. OnLandscape'
  BY <1>1 DEF TypeInv, OnLandscape
<1>4. QED
  BY <1>1, <1>2, <1>3 DEF TypeInv

LEMMA OnlineTunes ==
  ASSUME TunerInv, OnlineEpisode, [Next]_vars
  PROVE  TunerInv' /\ Descends
<1>1. /\ program = "online" /\ phase = "episodes" /\ phase' = phase /\ search' = search
      /\ landed' = landed /\ certified' = certified
  BY DEF OnlineEpisode, NextEpisode
<1>2. /\ OnLandscape /\ opt \in Opts /\ search.kind = "none" /\ ~search.found /\ ~certified
      /\ SweepOK(opt) /\ StableOK(opt)
  BY <1>1 DEF TunerInv, TypeInv, SweepInv, StableInv, Tuning, SettledInv
<1>3. /\ opt' \in Opts /\ SweepOK(opt') /\ StableOK(opt')
      /\ opt'.theta # opt.theta => Cost(opt'.theta) + 10 < Cost(opt.theta) + Spread
  <2>1. CASE ~(streak' >= 3)
    <3>1. opt' = opt
      BY <2>1 DEF OnlineEpisode
    <3>2. QED
      BY <1>2, <3>1
  <2>2. CASE streak' >= 3
    <3>1. PICK cost \in Costs(Choose(opt).theta) :
            opt' = Observe(Choose(opt).opt, Choose(opt).theta, Choose(opt).candidate, cost)
      BY <2>2 DEF OnlineEpisode
    <3>2. CASE Choose(opt) = [opt |-> opt, theta |-> opt.theta, candidate |-> FALSE]
      <4>1. cost \in Costs(opt.theta) /\ opt' = Observe(opt, opt.theta, FALSE, cost)
        BY <3>1, <3>2
      <4>2. opt' = WithCost(opt, cost)
        BY <4>1 DEF WithCost
      <4>3. /\ opt' \in Opts /\ SweepOK(opt') /\ StableOK(opt')
            /\ opt'.theta = opt.theta
        BY <1>2, <4>1, <4>2, BaselineObserved
      <4>4. QED
        BY <4>3
    <3>3. CASE /\ ~opt.converged /\ opt.baseline # <<>>
               /\ \E p \in Opts :
                    /\ Choose(opt) = ChosenOf(p) /\ p.pending # <<>> /\ SweepOK(p)
                    /\ p.theta = opt.theta /\ p.step = opt.step /\ p.stable = opt.stable
                    /\ p.converged = opt.converged /\ p.baseline = opt.baseline
      <4>1. PICK p \in Opts :
                    /\ Choose(opt) = ChosenOf(p) /\ p.pending # <<>> /\ SweepOK(p)
                    /\ p.theta = opt.theta /\ p.step = opt.step /\ p.stable = opt.stable
                    /\ p.converged = opt.converged /\ p.baseline = opt.baseline
        BY <3>3
      <4>2. StableOK(p) /\ ~p.converged /\ p.baseline # <<>>
        BY <1>2, <3>3, <4>1 DEF StableOK
      <4>3. /\ cost \in Costs(Head(p.pending).theta)
            /\ opt' = Observe(p, Head(p.pending).theta, TRUE, cost)
        BY <3>1, <4>1 DEF ChosenOf
      <4>4. /\ opt' \in Opts /\ SweepOK(opt') /\ StableOK(opt')
            /\ opt'.theta # p.theta => Cost(opt'.theta) + 10 < Cost(p.theta) + Spread
        BY <1>1, <1>2, <4>1, <4>2, <4>3, CandidateObserved
      <4>5. QED
        BY <4>1, <4>4
    <3>4. QED
      BY <1>2, <3>2, <3>3, ChooseIs
  <2>3. QED
    BY <2>1, <2>2
<1>4. TypeInv'
  BY <1>1, <1>2, <1>3, TypesKept DEF TunerInv, TypeInv
<1>5. SweepInv' /\ StableInv'
  BY <1>3, NothingElseChanges DEF SweepInv, StableInv
<1>6. OptimizeInv' /\ FoundInv' /\ CertifyInv' /\ SettledInv'
  BY <1>1, <1>2 DEF OptimizeInv, FoundInv, CertifyInv, SettledInv
<1>7. LandedIsLocal' /\ KeptInv'
  BY <1>1 DEF LandedIsLocal, KeptInv, Tuning
<1>8. QED
  BY <1>3, <1>4, <1>5, <1>6, <1>7 DEF TunerInv, Descends

LEMMA SearchType ==
  ASSUME NEW kind \in {"none", "optimize", "certify", "idle"}, NEW todo \in Seq(Move)
  PROVE  /\ SearchFor(kind, todo) \in Searches /\ SearchFor(kind, todo).kind = kind
         /\ SearchFor(kind, todo).todo = todo /\ ~SearchFor(kind, todo).found
         /\ NoSearch \in Searches /\ NoSearch.kind = "none" /\ ~NoSearch.found
<1>1. PICK e \in Seq(Move) : e = <<>>
  <2>1. <<>> \in Seq(Move)
    OBVIOUS
  <2>2. QED
    BY Zenon, <2>1
<1>2. PICK s : s = [kind |-> "none", todo |-> e, found |-> FALSE, best |-> Default, cost |-> 0]
  OBVIOUS
<1>3. NoSearch = s
  BY Zenon, <1>1, <1>2 DEF NoSearch
<1>4. s \in Searches /\ s.kind = "none" /\ ~s.found
  BY <1>1, <1>2, DefaultType DEF Searches
<1>5. PICK q : q = [s EXCEPT !.kind = kind, !.todo = todo]
  OBVIOUS
<1>6. q \in Searches /\ q.kind = kind /\ q.todo = todo /\ ~q.found
  BY <1>4, <1>5 DEF Searches
<1>7. SearchFor(kind, todo) = q
  BY Zenon, <1>3, <1>5 DEF SearchFor
<1>8. QED
  BY <1>3, <1>4, <1>6, <1>7

LEMMA PairedTunes ==
  ASSUME TunerInv, PairedEpisode, [Next]_vars
  PROVE  TunerInv' /\ Descends
<1>1. /\ program = "paired" /\ phase = "episodes" /\ landed' = landed /\ certified' = certified
  BY DEF PairedEpisode, NextEpisode
<1>2. /\ OnLandscape /\ opt \in Opts /\ search.kind = "none" /\ ~search.found /\ ~certified
      /\ StableOK(opt) /\ program' = program
  BY <1>1, NothingElseChanges
     DEF TunerInv, TypeInv, StableInv, Tuning, SettledInv
<1>3. CASE opt' = opt /\ search' = search /\ phase' = phase
  <2>1. TypeInv'
    BY <1>1, <1>2, <1>3, TypesKept DEF TunerInv, TypeInv
  <2>2. SweepInv' /\ StableInv'
    BY <1>1, <1>2, <1>3, NothingElseChanges DEF SweepInv, StableInv
  <2>3. OptimizeInv' /\ FoundInv' /\ CertifyInv' /\ SettledInv'
    BY <1>1, <1>2, <1>3 DEF OptimizeInv, FoundInv, CertifyInv, SettledInv
  <2>4. LandedIsLocal' /\ KeptInv'
    BY <1>1, <1>3 DEF LandedIsLocal, KeptInv, Tuning
  <2>5. QED
    BY <1>3, <2>1, <2>2, <2>3, <2>4 DEF TunerInv, Descends
<1>4. CASE ~(opt' = opt /\ search' = search /\ phase' = phase)
  <2>1. PICK d, moves :
          /\ d = Dimension(opt) /\ moves = Moves(opt.theta, d, opt.step[d])
          /\ search' = SearchFor("optimize", moves) /\ opt' = Advanced(opt) /\ phase' = "search"
          /\ ~opt.converged
    BY <1>4 DEF PairedEpisode
  <2>2. d \in Range(dims) /\ opt.theta \in Thetas /\ opt.step[d] \in {1, 2}
    BY <1>2, <2>1, CursorIsFine, FieldTypes DEF Steps
  <2>3. moves \in Seq(Move) /\ Targets(moves) = Places(opt.theta, d, opt.step[d])
    BY <1>2, <2>1, <2>2, MovesAre
  <2>4. /\ search' \in Searches /\ search'.kind = "optimize" /\ search'.todo = moves /\ ~search'.found
    BY <2>1, <2>3, SearchType
  <2>5. /\ opt' \in Opts /\ SweptDim(opt') = d /\ opt'.theta = opt.theta /\ opt'.step = opt.step
        /\ opt'.stable = opt.stable /\ opt'.converged = opt.converged
    BY <1>2, <2>1, AdvancedIs
  <2>6. TypeInv'
    BY <1>1, <1>2, <2>1, <2>4, <2>5, TypesKept DEF TunerInv, TypeInv
  <2>7. StableOK(opt')
    BY <1>2, <2>5 DEF StableOK
  <2>8. SweepInv' /\ StableInv'
    BY <1>1, <1>2, <2>7, NothingElseChanges DEF SweepInv, StableInv
  <2>9. OptimizeInv'
    <3>1. \A o : SweptDim(o)' = SweptDim(o)
      BY NothingElseChanges
    <3>2. SweptDim(opt)' = d
      BY <2>5, <3>1
    <3>3. \A t \in Places(opt'.theta, d, opt'.step[d]) : t \in Targets(search'.todo)
      BY <2>3, <2>4, <2>5
    <3>4. ~opt'.converged
      BY <2>1, <2>5
    <3>5. QED
      BY <3>2, <3>3, <3>4 DEF OptimizeInv
  <2>10. FoundInv' /\ CertifyInv' /\ SettledInv'
    BY <1>1, <1>2, <2>1, <2>4 DEF FoundInv, CertifyInv, SettledInv
  <2>11. LandedIsLocal' /\ KeptInv'
    BY <1>1, <1>2, <2>4 DEF LandedIsLocal, KeptInv, Tuning
  <2>12. QED
    BY <2>5, <2>6, <2>8, <2>9, <2>10, <2>11 DEF TunerInv, Descends
<1>5. QED
  BY <1>3, <1>4

(* A comparison: what it makes of the search.                              *)
LEMMA SearchGoesOn ==
  ASSUME TypeInv, CompareNeighbour
  PROVE  \E r, m :
           /\ m \in Move /\ Range(search.todo) = {m} \cup Range(search'.todo)
           /\ r \in Compared(opt.theta, m.theta, Pairs(search.kind))
           /\ search' \in Searches /\ search'.kind = search.kind
           /\ search'.found => \/ search.found /\ search'.best = search.best
                               \/ search'.best = m.theta /\ Better(search.kind, r)
           /\ ~search'.found => ~search.found /\ ~Better(search.kind, r)
<1> DEFINE cand == Head(search.todo).theta
           rest == [search EXCEPT !.todo = Tail(@)]
<1>1. /\ search.todo \in Seq(Move) /\ search.todo # <<>> /\ search.kind \in {"none", "optimize", "certify", "idle"}
      /\ search.found \in BOOLEAN /\ search.best \in Thetas /\ search.cost \in Nat
  BY DEF TypeInv, Searches, CompareNeighbour
<1>2. PICK m, todo : m = Head(search.todo) /\ todo = Tail(search.todo)
  OBVIOUS
<1>3. m \in Move /\ todo \in Seq(Move) /\ Range(search.todo) = {m} \cup Range(todo)
  BY <1>1, <1>2, HeadAndTail
<1>4. m.theta \in Thetas
  BY <1>3 DEF Move
<1>5. PICK r \in Compared(opt.theta, cand, Pairs(search.kind)) :
        search' = IF Better(search.kind, r) /\ (search.found => r.candidate < search.cost)
                  THEN [rest EXCEPT !.found = TRUE, !.best = cand, !.cost = r.candidate]
                  ELSE rest
  BY DEF CompareNeighbour
<1>6. r \in Compared(opt.theta, m.theta, Pairs(search.kind)) /\ cand = m.theta
  BY <1>2, <1>5
<1>7. r.candidate \in Nat
  <2>1. Pairs(search.kind) \in {3, 5}
    BY PairsType
  <2>2. OnLandscape /\ opt.theta \in Thetas
    BY FieldTypes DEF TypeInv
  <2>3. QED
    BY <1>4, <1>6, <2>1, <2>2, ComparedIs
<1>8. PICK s : s = rest
  OBVIOUS
<1>9. /\ s \in Searches /\ s.todo = todo /\ s.kind = search.kind /\ s.found = search.found
      /\ s.best = search.best
  BY <1>2, <1>3, <1>8 DEF TypeInv, Searches
<1>10. CASE Better(search.kind, r) /\ (search.found => r.candidate < search.cost)
  <2>1. search' = [s EXCEPT !.found = TRUE, !.best = m.theta, !.cost = r.candidate]
    BY <1>5, <1>6, <1>8, <1>10
  <2>2. /\ search' \in Searches /\ search'.todo = todo /\ search'.kind = search.kind
        /\ search'.found /\ search'.best = m.theta
    BY <1>4, <1>7, <1>9, <2>1 DEF Searches
  <2>3. QED
    BY <1>3, <1>6, <1>10, <2>2
<1>11. CASE ~(Better(search.kind, r) /\ (search.found => r.candidate < search.cost))
  <2>1. search' = s
    BY <1>5, <1>8, <1>11
  <2>2. search'.found => search.found /\ search'.best = search.best
    BY <1>9, <2>1
  <2>3. ~search'.found => ~search.found /\ ~Better(search.kind, r)
    BY <1>9, <1>11, <2>1
  <2>4. search' \in Searches /\ search'.kind = search.kind /\ search'.todo = todo
    BY <1>9, <2>1
  <2>5. QED
    BY <1>3, <1>6, <2>2, <2>3, <2>4
<1>12. QED
  BY <1>10, <1>11

(* Without noise what one comparison says they all say.                    *)
LEMMA OneSpeaksForAll ==
  ASSUME OnLandscape, Quiet, NEW kind, NEW theta \in Thetas, NEW cand \in Thetas,
         NEW r \in Compared(theta, cand, Pairs(kind)), ~Better(kind, r)
  PROVE  \A q \in Compared(theta, cand, Pairs(kind)) : ~Better(kind, q)
<1>1. Pairs(kind) \in {3, 5}
  BY PairsType
<1>2. \A q \in Compared(theta, cand, Pairs(kind)) : q = r
  BY <1>1, ComparedAlike
<1>3. QED
  BY <1>2

LEMMA CompareTunes ==
  ASSUME TunerInv, CompareNeighbour, [Next]_vars
  PROVE  TunerInv' /\ Descends
<1>1. /\ phase = "search" /\ phase' = phase /\ opt' = opt /\ landed' = landed
      /\ certified' = certified
  BY DEF CompareNeighbour
<1>2. /\ OnLandscape /\ opt \in Opts /\ landed \in Opts /\ search \in Searches /\ search.kind # "none"
      /\ ~certified /\ opt.theta \in Thetas
  BY <1>1, FieldTypes DEF TunerInv, TypeInv, SettledInv
<1>3. PICK r, m :
        /\ m \in Move /\ Range(search.todo) = {m} \cup Range(search'.todo)
        /\ r \in Compared(opt.theta, m.theta, Pairs(search.kind))
        /\ search' \in Searches /\ search'.kind = search.kind
        /\ search'.found => \/ search.found /\ search'.best = search.best
                            \/ search'.best = m.theta /\ Better(search.kind, r)
        /\ ~search'.found => ~search.found /\ ~Better(search.kind, r)
  BY SearchGoesOn DEF TunerInv
<1>4. m.theta \in Thetas /\ m.dim \in Range(dims)
  BY <1>3 DEF Move
<1>5. Quiet /\ ~search'.found =>
        \A q \in Compared(opt.theta, m.theta, Pairs(search.kind)) : ~Better(search.kind, q)
  BY <1>2, <1>3, <1>4, OneSpeaksForAll
<1>6. TypeInv'
  BY <1>1, <1>2, <1>3, TypesKept DEF TunerInv, TypeInv
<1>7. SweepInv' /\ StableInv'
  <2>1. phase' # "episodes"
    BY <1>1
  <2>2. Tuning' => Tuning
    BY <1>1, <1>3 DEF Tuning
  <2>3. QED
    BY <1>1, <2>1, <2>2, NothingElseChanges DEF SweepInv, StableInv, TunerInv
<1>8. FoundInv'
  <2>1. CASE search'.found /\ Better(search.kind, r) /\ search'.best = m.theta
    <3>1. Cost(m.theta) + 10 < Cost(opt.theta) + Spread
      BY <1>2, <1>3, <1>4, <2>1, BetterIsCheaper
    <3>2. Cost(search'.best) + 10 < Cost(opt'.theta) + Spread
      BY <1>1, <2>1, <3>1
    <3>3. QED
      BY <3>2, NothingElseChanges DEF FoundInv
  <2>2. CASE search'.found /\ search.found /\ search'.best = search.best
    <3>1. Cost(search'.best) + 10 < Cost(opt'.theta) + Spread
      BY <1>1, <2>2 DEF TunerInv, FoundInv
    <3>2. QED
      BY <3>1, NothingElseChanges DEF FoundInv
  <2>3. QED
    BY <1>3, <2>1, <2>2 DEF FoundInv
<1>9. OptimizeInv'
  <2>1. SUFFICES ASSUME search.kind = "optimize"
                 PROVE  /\ ~opt.converged
                        /\ Quiet /\ ~search'.found =>
                             \A t \in Places(opt.theta, SweptDim(opt), opt.step[SweptDim(opt)]) :
                               t \in Targets(search'.todo) \/ ~Gain(opt.theta, t)
    BY <1>1, <1>3, NothingElseChanges DEF OptimizeInv
  <2>2. /\ ~opt.converged
        /\ Quiet /\ ~search.found =>
             \A t \in Places(opt.theta, SweptDim(opt), opt.step[SweptDim(opt)]) :
               t \in Targets(search.todo) \/ ~Gain(opt.theta, t)
    BY <2>1 DEF TunerInv, OptimizeInv
  <2>3. Targets(search.todo) = {m.theta} \cup Targets(search'.todo)
    BY <1>3, TargetsOfRange
  <2>4. Quiet /\ ~search'.found => ~Gain(opt.theta, m.theta)
    <3>1. program = "paired" /\ Pairs(search.kind) = 3
      BY <2>1 DEF TunerInv, TypeInv, Pairs
    <3>2. QED
      BY <1>5, <2>1, <3>1 DEF Gain
  <2>5. QED
    BY <1>3, <2>2, <2>3, <2>4
<1>10. CertifyInv'
  <2>1. SUFFICES ASSUME search.kind \in {"certify", "idle"}
                 PROVE  /\ Range(search'.todo) \subseteq Range(Neighbours(opt.theta))
                        /\ Quiet /\ ~search'.found =>
                             \A n \in Range(Neighbours(opt.theta)) :
                               n \in Range(search'.todo) \/ Worse(search.kind, opt.theta, n.theta)
    <3>1. phase' # "final"
      BY <1>1
    <3>2. QED
      BY <1>1, <1>3, <3>1, NothingElseChanges DEF CertifyInv
  <2>2. /\ Range(search.todo) \subseteq Range(Neighbours(opt.theta))
        /\ Quiet /\ ~search.found =>
             \A n \in Range(Neighbours(opt.theta)) :
               n \in Range(search.todo) \/ Worse(search.kind, opt.theta, n.theta)
    BY <2>1 DEF TunerInv, CertifyInv
  <2>3. Quiet /\ ~search'.found => Worse(search.kind, opt.theta, m.theta)
    <3>1. Pairs(search.kind) = 5
      BY <2>1 DEF Pairs
    <3>2. QED
      BY <1>5, <3>1 DEF Worse
  <2>4. QED
    BY <1>3, <2>2, <2>3
<1>11. SettledInv'
  BY <1>1, <1>2 DEF SettledInv
<1>12. LandedIsLocal'
  <2>1. Tuning' = Tuning
    BY <1>1, <1>3 DEF Tuning
  <2>2. QED
    BY <1>1, <2>1, NothingElseChanges DEF TunerInv, LandedIsLocal
<1>13. KeptInv'
  <2>1. SUFFICES ASSUME Quiet, program = "online", ~Tuning, landed.converged,
                        Anchored(landed.theta, Wall(Default), Wall(landed.theta))
                 PROVE  opt.theta = landed.theta /\ ~search'.found
    <3>1. Tuning' = Tuning
      BY <1>1, <1>3 DEF Tuning
    <3>2. phase' \notin {"done", "reported"}
      BY <1>1
    <3>3. QED
      BY <1>1, <3>1, <3>2, NothingElseChanges DEF KeptInv
  <2>2. opt.theta = landed.theta /\ ~search.found
    BY <2>1 DEF TunerInv, KeptInv
  <2>3. search.kind = "idle"
    BY <1>2, <2>1 DEF TunerInv, TypeInv, Searches
  <2>4. m \in Range(Neighbours(opt.theta))
    BY <1>3, <2>3 DEF TunerInv, CertifyInv
  <2>5. m.theta \in Places(opt.theta, m.dim, 1)
    BY <1>2, <2>4, NeighboursAre DEF Neighbour
  <2>6. ~Gain(opt.theta, m.theta)
    BY <1>4, <2>1, <2>2, <2>5 DEF TunerInv, LandedIsLocal, Settled
  <2>7. ~MateriallyBelow(Cost(m.theta) - Cost(opt.theta), 50, 2, Cost(opt.theta))
    BY <2>1, <2>6 DEF Gain
  <2>8. ~Better(search.kind, r)
    <3>1. Pairs(search.kind) = 5
      BY <2>3 DEF Pairs
    <3>2. QED
      BY <1>2, <1>3, <1>4, <2>1, <2>3, <2>7, <3>1, IdleAsksMore
  <2>9. QED
    BY <1>3, <2>2, <2>8
<1>14. QED
  BY <1>1, <1>6, <1>7, <1>8, <1>9, <1>10, <1>11, <1>12, <1>13 DEF TunerInv, Descends

LEMMA OptimizedTunes ==
  ASSUME TunerInv, Optimized, [Next]_vars
  PROVE  TunerInv' /\ Descends
<1>1. /\ phase = "search" /\ search.kind = "optimize" /\ search.todo = <<>>
      /\ search' = NoSearch /\ phase' = "episodes"
      /\ landed' = landed /\ certified' = certified
      /\ opt' = IF search.found THEN Moved(opt, search.best) ELSE Judged(Shrunk(opt, SweptDim(opt)))
  BY DEF Optimized, Searched, SweptDim
<1>2. /\ OnLandscape /\ opt \in Opts /\ landed \in Opts /\ program = "paired" /\ program' = program
      /\ ~certified /\ StableOK(opt) /\ ~opt.converged /\ search.best \in Thetas
  BY <1>1, NothingElseChanges
     DEF TunerInv, TypeInv, Searches, StableInv, Tuning, SettledInv, OptimizeInv
<1>3. <<>> \in Seq(Move)
  OBVIOUS
<1>4. search' \in Searches /\ search'.kind = "none" /\ ~search'.found
  BY <1>1, <1>3, SearchType
<1>5. opt' \in Opts /\ StableOK(opt') /\ Descends
  <2>1. CASE search.found
    <3>1. opt' = Moved(opt, search.best)
      BY <1>1, <2>1
    <3>2. /\ opt' \in Opts /\ opt'.theta = search.best /\ opt'.converged = opt.converged
          /\ \A d \in Range(dims) : opt'.stable[d] = 0
      BY <1>2, <3>1, MovedIs
    <3>3. StableOK(opt')
      BY <1>2, <3>2 DEF StableOK
    <3>4. Cost(search.best) + 10 < Cost(opt.theta) + Spread
      BY <2>1 DEF TunerInv, FoundInv
    <3>5. QED
      BY <3>2, <3>3, <3>4 DEF Descends
  <2>2. CASE ~search.found
    <3>1. PICK d, s : d = SweptDim(opt) /\ s = Shrunk(opt, d)
      OBVIOUS
    <3>2. d \in Range(dims) /\ opt.step[d] \in {1, 2}
      BY <1>2, <3>1, CursorIsFine, FieldTypes DEF Steps
    <3>3. /\ s \in Opts /\ s.theta = opt.theta /\ s.converged = opt.converged
          /\ \A e \in Range(dims) \ {d} : s.step[e] = opt.step[e] /\ s.stable[e] = opt.stable[e]
          /\ opt.step[d] = 1 => s.step[d] = 1 /\ s.stable[d] >= 1
          /\ opt.step[d] # 1 => s.stable[d] = 0
      BY <1>2, <3>1, <3>2, ShrunkIs
    <3>4. opt' = Judged(s)
      BY <1>1, <2>2, <3>1
    <3>5. /\ opt' \in Opts /\ opt'.theta = s.theta /\ opt'.step = s.step /\ opt'.stable = s.stable
          /\ opt'.converged => s.converged \/ \A e \in Range(dims) : s.stable[e] >= 1
      BY <3>3, <3>4, JudgedIs
    <3>6. opt.step[d] = 1 /\ Quiet => Settled(opt.theta, d)
      <4>1. SUFFICES ASSUME opt.step[d] = 1, Quiet, NEW t \in Places(opt.theta, d, 1)
                     PROVE  ~Gain(opt.theta, t)
        BY DEF Settled
      <4>2. t \in Targets(search.todo) \/ ~Gain(opt.theta, t)
        BY <1>1, <2>2, <3>1, <4>1 DEF TunerInv, OptimizeInv
      <4>3. Targets(search.todo) = {}
        BY <1>1 DEF Targets
      <4>4. QED
        BY <4>2, <4>3
    <3>7. ASSUME NEW e \in Range(dims), s.stable[e] >= 1
          PROVE  s.step[e] = 1 /\ (Quiet => Settled(s.theta, e))
      <4>1. CASE e = d
        <5>1. opt.step[d] = 1
          BY <3>3, <3>7, <4>1
        <5>2. QED
          BY <3>3, <3>6, <4>1, <5>1
      <4>2. CASE e # d
        BY <1>2, <3>3, <3>7, <4>2 DEF StableOK
      <4>3. QED
        BY <4>1, <4>2
    <3>8. StableOK(opt')
      BY <1>2, <3>3, <3>5, <3>7 DEF StableOK
    <3>9. QED
      BY <3>3, <3>5, <3>8 DEF Descends
  <2>3. QED
    BY <2>1, <2>2
<1>6. TypeInv'
  BY <1>1, <1>2, <1>4, <1>5, TypesKept DEF TunerInv
<1>7. SweepInv' /\ StableInv'
  BY <1>2, <1>5, NothingElseChanges DEF SweepInv, StableInv
<1>8. OptimizeInv' /\ FoundInv' /\ CertifyInv' /\ SettledInv'
  BY <1>1, <1>2, <1>4 DEF OptimizeInv, FoundInv, CertifyInv, SettledInv
<1>9. LandedIsLocal' /\ KeptInv'
  BY <1>1 DEF LandedIsLocal, KeptInv, Tuning
<1>10. QED
  BY <1>5, <1>6, <1>7, <1>8, <1>9 DEF TunerInv

LEMMA EndTunes ==
  ASSUME TunerInv, EndEpisodes, [Next]_vars
  PROVE  TunerInv' /\ Descends
<1>1. /\ phase = "episodes" /\ landed' = opt /\ opt' = opt /\ certified' = certified
      /\ \/ /\ program = "paired" /\ phase' = "search"
            /\ search' = SearchFor("certify", Neighbours(opt.theta))
         \/ program # "paired" /\ phase' = "anchor" /\ search' = search
  BY DEF EndEpisodes
<1>2. /\ OnLandscape /\ opt \in Opts /\ opt.theta \in Thetas /\ search \in Searches
      /\ search.kind = "none" /\ ~search.found /\ ~certified /\ StableOK(opt)
      /\ program \in {"paired", "online"} /\ program' = program
  BY <1>1, FieldTypes, NothingElseChanges
     DEF TunerInv, TypeInv, StableInv, Tuning, SettledInv
<1>3. Neighbours(opt.theta) \in Seq(Move)
  BY <1>2, NeighboursAre
<1>4. \/ /\ program = "paired" /\ phase' = "search" /\ search'.kind = "certify" /\ search' \in Searches
         /\ search'.todo = Neighbours(opt.theta) /\ ~search'.found
      \/ program = "online" /\ phase' = "anchor" /\ search' = search
  BY <1>1, <1>2, <1>3, SearchType
<1>5. phase' # "episodes" /\ search'.kind # "optimize" /\ ~search'.found /\ phase' # "final"
      /\ search' \in Searches /\ phase' \notin {"done", "reported"}
  BY <1>2, <1>4
<1>6. TypeInv'
  BY <1>1, <1>2, <1>4, <1>5, TypesKept DEF TunerInv
<1>7. ~Tuning'
  BY <1>5 DEF Tuning
<1>8. SweepInv' /\ StableInv' /\ OptimizeInv' /\ FoundInv' /\ SettledInv'
  BY <1>1, <1>2, <1>5, <1>7 DEF SweepInv, StableInv, OptimizeInv, FoundInv, SettledInv
<1>9. CertifyInv'
  <2>1. search'.kind \in {"certify", "idle"} => search'.todo = Neighbours(opt.theta)
    BY <1>2, <1>4
  <2>2. QED
    BY <1>1, <1>5, <2>1, NothingElseChanges DEF CertifyInv
<1>10. LandedIsLocal'
  <2>1. Quiet /\ opt.converged => \A d \in Range(dims) : Settled(opt.theta, d)
    BY <1>2 DEF StableOK
  <2>2. QED
    BY <1>1, <2>1, NothingElseChanges DEF LandedIsLocal
<1>11. KeptInv'
  BY <1>1, <1>5 DEF KeptInv
<1>12. QED
  BY <1>1, <1>6, <1>8, <1>9, <1>10, <1>11 DEF TunerInv, Descends

LEMMA CertifiedTunes ==
  ASSUME TunerInv, Certified, [Next]_vars
  PROVE  TunerInv' /\ Descends
<1>1. /\ phase = "search" /\ search.kind = "certify" /\ search.todo = <<>> /\ landed' = landed
      /\ certified' = ~search.found
      /\ opt' = IF search.found THEN [Moved(opt, search.best) EXCEPT !.converged = FALSE]
                ELSE [opt EXCEPT !.converged = TRUE]
      /\ \/ /\ search.found /\ phase' = phase
            /\ search' = SearchFor("certify", Neighbours(search.best))
         \/ search' = NoSearch /\ phase' = "done"
      /\ ~search.found => search' = NoSearch /\ phase' = "done"
  BY DEF Certified, Searched
<1>2. /\ OnLandscape /\ opt \in Opts /\ landed \in Opts /\ program = "paired" /\ program' = program
      /\ search.best \in Thetas
  BY <1>1, NothingElseChanges DEF TunerInv, TypeInv, Searches
<1>3. /\ opt' \in Opts
      /\ search.found => opt'.theta = search.best
      /\ ~search.found => opt'.theta = opt.theta /\ opt'.converged
  <2>1. CASE search.found
    <3>1. PICK o \in Opts : o = Moved(opt, search.best) /\ o.theta = search.best
      BY <1>2, MovedIs
    <3>2. opt' = [o EXCEPT !.converged = FALSE]
      BY <1>1, <2>1, <3>1
    <3>3. opt' \in Opts /\ opt'.theta = search.best
      BY <3>1, <3>2 DEF Opts
    <3>4. QED
      BY <2>1, <3>3
  <2>2. CASE ~search.found
    <3>1. opt' = [opt EXCEPT !.converged = TRUE]
      BY <1>1, <2>2
    <3>2. opt' \in Opts /\ opt'.theta = opt.theta /\ opt'.converged
      BY <1>2, <3>1 DEF Opts
    <3>3. QED
      BY <2>2, <3>2
  <2>3. QED
    BY <2>1, <2>2
<1>4. Neighbours(search.best) \in Seq(Move) /\ <<>> \in Seq(Move)
  BY <1>2, NeighboursAre
<1>5. \/ /\ search.found /\ phase' = "search" /\ search'.kind = "certify" /\ search' \in Searches
         /\ search'.todo = Neighbours(search.best) /\ ~search'.found
      \/ search' \in Searches /\ search'.kind = "none" /\ ~search'.found /\ phase' = "done"
  BY <1>1, <1>4, SearchType
<1>6. /\ phase' # "episodes" /\ search'.kind \notin {"optimize", "idle"} /\ ~search'.found
      /\ phase' \notin {"final", "reported", "anchor"} /\ search' \in Searches
  BY <1>5
<1>7. TypeInv'
  BY <1>2, <1>3, <1>5, <1>6, <1>1, TypesKept DEF TunerInv
<1>8. ~Tuning /\ ~Tuning'
  BY <1>1, <1>6 DEF Tuning
<1>9. SweepInv' /\ StableInv' /\ OptimizeInv' /\ FoundInv'
  BY <1>6, <1>8 DEF SweepInv, StableInv, OptimizeInv, FoundInv
<1>10. CertifyInv'
  <2>1. search'.kind \in {"certify", "idle"} => search'.todo = Neighbours(opt'.theta)
    BY <1>3, <1>5
  <2>2. QED
    BY <1>6, <2>1, NothingElseChanges DEF CertifyInv
<1>11. SettledInv'
  <2>1. CASE search.found
    BY <1>1, <2>1 DEF SettledInv
  <2>2. CASE ~search.found
    <3>1. Range(search.todo) = {}
      BY <1>1, RangeOfNothing
    <3>2. Quiet => \A m \in Range(Neighbours(opt.theta)) : Worse("certify", opt.theta, m.theta)
      BY <1>1, <2>2, <3>1 DEF TunerInv, CertifyInv
    <3>3. opt'.theta = opt.theta /\ opt'.converged /\ phase' = "done"
      BY <1>1, <1>3, <2>2
    <3>4. QED
      BY <1>2, <3>2, <3>3, NothingElseChanges DEF SettledInv
  <2>3. QED
    BY <2>1, <2>2
<1>12. LandedIsLocal' /\ KeptInv'
  BY <1>1, <1>2, <1>8, NothingElseChanges DEF TunerInv, LandedIsLocal, KeptInv
<1>13. Descends
  BY <1>3 DEF TunerInv, FoundInv, Descends
<1>14. QED
  BY <1>7, <1>9, <1>10, <1>11, <1>12, <1>13 DEF TunerInv

(* Without noise a measurement is what it measures.                        *)
LEMMA WallsAreWall ==
  ASSUME OnLandscape, Quiet, NEW theta \in Thetas, NEW w \in Walls(theta)
  PROVE  w = Wall(theta)
BY CostsBetween

BackToDefault == opt'.theta = Default /\ phase \in {"anchor", "final"}

LEMMA AnchorTunes ==
  ASSUME TunerInv, Anchor, [Next]_vars
  PROVE  TunerInv' /\ (Descends \/ BackToDefault)
<1>1. /\ phase = "anchor" /\ landed' = landed /\ certified' = certified /\ phase' = "search"
      /\ search' = SearchFor("idle", Neighbours(opt'.theta))
  BY DEF Anchor
<1>2. /\ OnLandscape /\ opt \in Opts /\ landed \in Opts /\ program = "online" /\ program' = program
      /\ ~certified /\ opt.theta \in Thetas /\ search.kind = "none"
  BY <1>1, FieldTypes, NothingElseChanges DEF TunerInv, TypeInv, SettledInv
<1>3. PICK dm \in Walls(Default), cm \in Walls(opt.theta) :
        opt' = IF Anchored(opt.theta, dm, cm) THEN opt ELSE [opt EXCEPT !.theta = Default]
  BY <1>1 DEF Anchor
<1>4. /\ opt' \in Opts /\ opt'.theta \in Thetas
      /\ opt'.theta # opt.theta => opt'.theta = Default /\ ~Anchored(opt.theta, dm, cm)
  <2>1. CASE opt' = opt
    BY <1>2, <2>1
  <2>2. CASE opt' = [opt EXCEPT !.theta = Default] /\ ~Anchored(opt.theta, dm, cm)
    <3>1. opt' \in Opts /\ opt'.theta = Default
      BY <1>2, <2>2, DefaultType DEF Opts
    <3>2. QED
      BY <2>2, <3>1, DefaultType
  <2>3. QED
    BY <1>3, <2>1, <2>2
<1>5. PICK n : n = Neighbours(opt'.theta)
  OBVIOUS
<1>6. n \in Seq(Move)
  BY <1>2, <1>4, <1>5, NeighboursAre
<1>7. /\ search' \in Searches /\ search'.kind = "idle" /\ search'.todo = n /\ ~search'.found
  BY <1>1, <1>5, <1>6, SearchType
<1>8. TypeInv'
  BY <1>1, <1>2, <1>4, <1>7, TypesKept DEF TunerInv
<1>9. ~Tuning /\ ~Tuning'
  BY <1>1, <1>2, <1>7 DEF Tuning
<1>10. SweepInv' /\ StableInv' /\ OptimizeInv' /\ FoundInv' /\ SettledInv'
  BY <1>1, <1>2, <1>7, <1>9 DEF SweepInv, StableInv, OptimizeInv, FoundInv, SettledInv
<1>11. CertifyInv'
  BY <1>1, <1>5, <1>7, NothingElseChanges DEF CertifyInv
<1>12. LandedIsLocal'
  BY <1>1, <1>9, NothingElseChanges DEF TunerInv, LandedIsLocal
<1>13. KeptInv'
  <2>1. SUFFICES ASSUME Quiet, landed.converged,
                        Anchored(landed.theta, Wall(Default), Wall(landed.theta))
                 PROVE  opt'.theta = landed.theta
    BY <1>1, <1>7, NothingElseChanges DEF KeptInv
  <2>2. opt.theta = landed.theta
    BY <1>2, <1>9, <2>1 DEF TunerInv, KeptInv
  <2>3. dm = Wall(Default) /\ cm = Wall(landed.theta)
    BY <1>2, <2>1, <2>2, DefaultType, WallsAreWall
  <2>4. QED
    BY <1>4, <2>1, <2>2, <2>3
<1>14. Descends \/ BackToDefault
  BY <1>1, <1>4 DEF Descends, BackToDefault
<1>15. QED
  BY <1>8, <1>10, <1>11, <1>12, <1>13, <1>14 DEF TunerInv

LEMMA IdleTunes ==
  ASSUME TunerInv, IdleSearched, [Next]_vars
  PROVE  TunerInv' /\ Descends
<1>1. /\ phase = "search" /\ search.kind = "idle" /\ search.todo = <<>> /\ landed' = landed
      /\ certified' = certified /\ search' = NoSearch
      /\ \/ /\ search.found /\ opt' = [opt EXCEPT !.theta = search.best]
            /\ phase' \in {"anchor", "done"}
         \/ ~search.found /\ phase' = "final" /\ opt' = opt
  BY DEF IdleSearched, Searched, NextPass
<1>2. /\ OnLandscape /\ opt \in Opts /\ landed \in Opts /\ program = "online" /\ program' = program
      /\ ~certified /\ search.best \in Thetas
  BY <1>1, NothingElseChanges DEF TunerInv, TypeInv, Searches, SettledInv
<1>3. <<>> \in Seq(Move)
  OBVIOUS
<1>4. search' \in Searches /\ search'.kind = "none" /\ ~search'.found
  BY <1>1, <1>3, SearchType
<1>5. /\ opt' \in Opts
      /\ search.found => opt'.theta = search.best
  BY <1>1, <1>2 DEF Opts
<1>6. TypeInv'
  BY <1>1, <1>2, <1>4, <1>5, TypesKept DEF TunerInv
<1>7. ~Tuning /\ ~Tuning'
  BY <1>1, <1>4 DEF Tuning
<1>8. SweepInv' /\ StableInv' /\ OptimizeInv' /\ FoundInv' /\ SettledInv'
  BY <1>1, <1>2, <1>4, <1>7 DEF SweepInv, StableInv, OptimizeInv, FoundInv, SettledInv
<1>9. CertifyInv'
  <2>1. ASSUME Quiet, ~search.found
        PROVE  \A m \in Range(Neighbours(opt.theta)) : Worse("idle", opt.theta, m.theta)
    <3>1. Range(search.todo) = {}
      BY <1>1, RangeOfNothing
    <3>2. QED
      BY <1>1, <2>1, <3>1 DEF TunerInv, CertifyInv
  <2>2. phase' = "final" => opt' = opt /\ ~search.found
    BY <1>1
  <2>3. SUFFICES ASSUME phase' = "final", Quiet
                 PROVE  \A m \in Range(Neighbours(opt'.theta)) : Worse("idle", opt'.theta, m.theta)
    BY <1>4, NothingElseChanges DEF CertifyInv
  <2>4. QED
    BY <2>1, <2>2, <2>3
<1>10. LandedIsLocal'
  BY <1>1, <1>7, NothingElseChanges DEF TunerInv, LandedIsLocal
<1>11. KeptInv'
  <2>1. SUFFICES ASSUME Quiet, landed.converged,
                        Anchored(landed.theta, Wall(Default), Wall(landed.theta))
                 PROVE  opt'.theta = landed.theta /\ phase' = "final"
    <3>1. /\ Quiet' = Quiet /\ Anchored(landed.theta, Wall(Default), Wall(landed.theta))' =
               Anchored(landed.theta, Wall(Default), Wall(landed.theta))
          /\ landed' = landed /\ ~search'.found
      BY <1>1, <1>4, NothingElseChanges
    <3>2. QED
      BY <3>1 DEF KeptInv
  <2>2. opt.theta = landed.theta /\ ~search.found
    BY <1>2, <1>7, <2>1 DEF TunerInv, KeptInv
  <2>3. QED
    BY <1>1, <2>2
<1>12. Descends
  BY <1>1, <1>5 DEF TunerInv, FoundInv, Descends
<1>13. QED
  BY <1>6, <1>8, <1>9, <1>10, <1>11, <1>12 DEF TunerInv

LEMMA FinalTunes ==
  ASSUME TunerInv, FinalAnchor, [Next]_vars
  PROVE  TunerInv' /\ (Descends \/ BackToDefault)
<1>1. /\ phase = "final" /\ landed' = landed /\ search' = search
  BY DEF FinalAnchor
<1>2. /\ OnLandscape /\ opt \in Opts /\ landed \in Opts /\ program = "online" /\ program' = program
      /\ ~certified /\ opt.theta \in Thetas /\ search.kind = "none" /\ ~search.found
      /\ search \in Searches
  BY <1>1, FieldTypes, NothingElseChanges DEF TunerInv, TypeInv, SettledInv
<1>3. PICK dm \in Walls(Default), cm \in Walls(opt.theta) :
        \/ /\ Anchored(opt.theta, dm, cm) /\ certified' = TRUE /\ phase' = "done"
           /\ opt' = [opt EXCEPT !.converged = TRUE]
        \/ /\ ~Anchored(opt.theta, dm, cm) /\ certified' = certified /\ phase' \in {"anchor", "done"}
           /\ opt' = [opt EXCEPT !.theta = Default]
  BY DEF FinalAnchor, NextPass
<1>4. opt' \in Opts
  BY <1>2, <1>3, DefaultType DEF Opts
<1>5. \/ /\ Anchored(opt.theta, dm, cm) /\ certified' /\ phase' = "done"
         /\ opt'.theta = opt.theta /\ opt'.converged
      \/ /\ ~Anchored(opt.theta, dm, cm) /\ ~certified' /\ phase' \in {"anchor", "done"}
         /\ opt'.theta = Default
  BY <1>2, <1>3 DEF Opts
<1>6. phase' \in {"anchor", "done"}
  BY <1>5
<1>7. TypeInv'
  BY <1>1, <1>2, <1>4, <1>6, TypesKept DEF TunerInv
<1>8. ~Tuning /\ ~Tuning'
  BY <1>1, <1>2, <1>6 DEF Tuning
<1>9. SweepInv' /\ StableInv' /\ OptimizeInv' /\ FoundInv' /\ CertifyInv'
  BY <1>1, <1>2, <1>6, <1>8 DEF SweepInv, StableInv, OptimizeInv, FoundInv, CertifyInv
<1>10. Quiet => dm = Wall(Default) /\ cm = Wall(opt.theta)
  BY <1>2, DefaultType, WallsAreWall
<1>11. SettledInv'
  <2>1. SUFFICES ASSUME certified'
                 PROVE  /\ opt'.converged /\ phase' = "done"
                        /\ Quiet => /\ \A m \in Range(Neighbours(opt'.theta)) :
                                         Worse("idle", opt'.theta, m.theta)
                                    /\ Anchored(opt'.theta, Wall(Default), Wall(opt'.theta))
    BY <1>2, NothingElseChanges DEF SettledInv
  <2>2. /\ Anchored(opt.theta, dm, cm) /\ phase' = "done" /\ opt'.theta = opt.theta /\ opt'.converged
    BY <1>5, <2>1
  <2>3. Quiet => \A m \in Range(Neighbours(opt.theta)) : Worse("idle", opt.theta, m.theta)
    BY <1>1 DEF TunerInv, CertifyInv
  <2>4. Quiet => Anchored(opt.theta, Wall(Default), Wall(opt.theta))
    BY <1>10, <2>2
  <2>5. QED
    BY <2>2, <2>3, <2>4
<1>12. LandedIsLocal'
  BY <1>1, <1>8, NothingElseChanges DEF TunerInv, LandedIsLocal
<1>13. KeptInv'
  <2>1. SUFFICES ASSUME Quiet, landed.converged,
                        Anchored(landed.theta, Wall(Default), Wall(landed.theta))
                 PROVE  opt'.theta = landed.theta /\ certified'
    BY <1>1, <1>2, NothingElseChanges DEF KeptInv
  <2>2. opt.theta = landed.theta
    BY <1>2, <1>8, <2>1 DEF TunerInv, KeptInv
  <2>3. QED
    BY <1>5, <1>10, <2>1, <2>2
<1>14. Descends \/ BackToDefault
  BY <1>1, <1>5 DEF Descends, BackToDefault
<1>15. QED
  BY <1>7, <1>9, <1>11, <1>12, <1>13, <1>14 DEF TunerInv

(* The last validation finds what the anchor found.                        *)
LEMMA ReportAgrees ==
  ASSUME OnLandscape, program = "online", NEW theta \in Thetas, NEW dm \in Nat, NEW om \in Nat,
         Anchored(theta, dm, om), theta = Default => om = dm
  PROVE  MeaningfullyFaster(dm, om) = (theta # Default)
BY DEF Anchored, MeaningfullyFaster

LEMMA ValidateTunes ==
  ASSUME TunerInv, Validate, [Next]_vars
  PROVE  TunerInv' /\ Descends
<1>1. /\ phase = "done" /\ phase' = "reported" /\ landed' = landed /\ search' = search
      /\ opt' = opt /\ certified' = certified
  BY DEF Validate
<1>2. /\ OnLandscape /\ opt \in Opts /\ landed \in Opts /\ search \in Searches
      /\ search.kind = "none" /\ ~search.found /\ opt.theta \in Thetas /\ program' = program
  BY <1>1, FieldTypes, NothingElseChanges DEF TunerInv, TypeInv
<1>3. TypeInv'
  BY <1>1, <1>2, TypesKept DEF TunerInv
<1>4. ~Tuning /\ ~Tuning'
  BY <1>1, <1>2 DEF Tuning
<1>5. SweepInv' /\ StableInv' /\ OptimizeInv' /\ FoundInv' /\ CertifyInv'
  BY <1>1, <1>2, <1>4 DEF SweepInv, StableInv, OptimizeInv, FoundInv, CertifyInv
<1>6. ASSUME Quiet, certified, program = "online"
      PROVE  report'.faster = (opt.theta # Default)
  <2>1. PICK dm \in Walls(Default), om \in Walls(opt.theta) :
          /\ opt.theta = Default => om = dm
          /\ report' = [eq |-> Output(Default) # "failed" /\ Output(opt.theta) = Output(Default),
                        faster |-> MeaningfullyFaster(dm, om)]
    BY <1>6 DEF Validate
  <2>2. dm = Wall(Default) /\ om = Wall(opt.theta)
    BY <1>2, <1>6, DefaultType, WallsAreWall
  <2>3. dm \in Nat /\ om \in Nat
    BY <1>2, <2>2, DefaultType, CostType
  <2>4. Anchored(opt.theta, dm, om)
    BY <1>6, <2>2 DEF TunerInv, SettledInv
  <2>5. MeaningfullyFaster(dm, om) = (opt.theta # Default)
    BY <1>2, <1>6, <2>1, <2>3, <2>4, ReportAgrees
  <2>6. QED
    BY <2>1, <2>5
<1>7. SettledInv'
  BY <1>1, <1>6, NothingElseChanges DEF TunerInv, SettledInv
<1>8. LandedIsLocal' /\ KeptInv'
  BY <1>1, <1>4, NothingElseChanges DEF TunerInv, LandedIsLocal, KeptInv
<1>9. QED
  BY <1>1, <1>3, <1>5, <1>7, <1>8 DEF TunerInv, Descends

LEMMA StutterTunes ==
  ASSUME TunerInv, UNCHANGED vars, [Next]_vars
  PROVE  TunerInv' /\ Descends
<1>1. /\ UNCHANGED <<phase, landed, search, opt, certified, report>>
  BY DEF vars
<1>2. TypeInv'
  BY <1>1, TypesKept DEF TunerInv, TypeInv
<1>3. Tuning' = Tuning /\ program' = program
  BY <1>1, NothingElseChanges DEF Tuning
<1>4. SweepInv' /\ StableInv' /\ OptimizeInv' /\ FoundInv' /\ CertifyInv'
  BY <1>1, <1>3, NothingElseChanges
     DEF TunerInv, SweepInv, StableInv, OptimizeInv, FoundInv, CertifyInv
<1>5. SettledInv' /\ LandedIsLocal' /\ KeptInv'
  BY <1>1, <1>3, NothingElseChanges DEF TunerInv, SettledInv, LandedIsLocal, KeptInv
<1>6. QED
  BY <1>1, <1>2, <1>4, <1>5 DEF TunerInv, Descends

LEMMA TunerInit == Init => TunerInv
<1> SUFFICES ASSUME Init PROVE TunerInv
  OBVIOUS
<1>1. /\ OnLandscape /\ program \in {"paired", "online"} /\ phase = "episodes"
      /\ opt = NewOpt /\ landed = NewOpt /\ search = NoSearch /\ ~certified
  BY DEF Init, OnLandscape
<1>2. PICK e : e = <<>>
  OBVIOUS
<1>3. e \in Seq(Move) /\ e \in Seq(Nat) /\ DOMAIN e = {}
      /\ e \in Seq([theta : Thetas, dim : Range(dims), cost : Nat])
  <2>1. /\ <<>> \in Seq(Move) /\ <<>> \in Seq(Nat) /\ DOMAIN <<>> = {}
        /\ <<>> \in Seq([theta : Thetas, dim : Range(dims), cost : Nat])
    OBVIOUS
  <2>2. QED
    BY Zenon, <1>2, <2>1
<1>4. PICK step, stable :
        /\ step = [d \in Range(dims) |-> IF MaxIndex(d) <= 1 THEN 1 ELSE 2]
        /\ stable = [d \in Range(dims) |-> 0]
  OBVIOUS
<1>5. step \in Steps /\ stable \in [Range(dims) -> Nat] /\ \A d \in Range(dims) : stable[d] = 0
  <2>1. Range(dims) \subseteq Dims
    BY <1>1, FamilyType
  <2>2. \A d \in Range(dims) : MaxIndex(d) \in {1, 5, 6}
    BY <2>1, Indices
  <2>3. QED
    BY <1>4, <2>2 DEF Steps
<1>6. 1 \in 1..Len(dims)
  BY <1>1, FamilyType
<1>7. PICK o : o = [theta |-> Default, step |-> step, stable |-> stable, cursor |-> 1,
                    converged |-> FALSE, baseline |-> e, pending |-> e, observed |-> e]
  OBVIOUS
<1>8. NewOpt = o
  BY Zenon, <1>2, <1>4, <1>7 DEF NewOpt
<1>9. /\ o \in Opts /\ o.baseline = e /\ o.pending = e /\ o.observed = e /\ ~o.converged
      /\ o.stable = stable
  BY <1>3, <1>5, <1>6, <1>7, DefaultType DEF Opts
<1>10. <<>> \in Seq(Move)
  OBVIOUS
<1>11. search \in Searches /\ search.kind = "none" /\ ~search.found
  BY <1>1, <1>10, SearchType
<1>12. TypeInv
  BY <1>1, <1>8, <1>9, <1>11 DEF TypeInv
<1>13. SweepOK(o)
  <2>1. \A i \in DOMAIN e : FALSE
    BY <1>3
  <2>2. o.pending = <<>> /\ o.observed = <<>>
    BY Zenon, <1>2, <1>9
  <2>3. QED
    BY <1>9, <2>1, <2>2 DEF SweepOK
<1>14. StableOK(o)
  BY <1>5, <1>9 DEF StableOK
<1>15. SweepInv /\ StableInv
  BY <1>1, <1>8, <1>13, <1>14 DEF SweepInv, StableInv
<1>16. OptimizeInv /\ FoundInv /\ CertifyInv /\ SettledInv
  BY <1>1, <1>11 DEF OptimizeInv, FoundInv, CertifyInv, SettledInv
<1>17. LandedIsLocal /\ KeptInv
  BY <1>1 DEF LandedIsLocal, KeptInv, Tuning
<1>18. QED
  BY <1>12, <1>15, <1>16, <1>17 DEF TunerInv

LEMMA TunerNext ==
  ASSUME TunerInv, [Next]_vars
  PROVE  TunerInv' /\ (Descends \/ BackToDefault)
BY OnlineTunes, PairedTunes, CompareTunes, OptimizedTunes, EndTunes, CertifiedTunes, AnchorTunes,
   IdleTunes, FinalTunes, ValidateTunes, StutterTunes DEF Next

LEMMA TunerAlways == Spec => []TunerInv
<1>1. TunerInv /\ [Next]_vars => TunerInv'
  BY TunerNext
<1>2. QED
  BY TunerInit, <1>1, PTL DEF Spec

----------------------------------------------------------------------------
(* What the tuner promises.                                                *)

(* Whatever breaks a streak or moves the parameters, what a candidate is   *)
(* judged against was measured under the present parameters, and what is   *)
(* tried differs from them in the coordinate being swept alone.            *)
LEMMA BaselineFollows == TunerInv => BaselineIsCurrent
<1> SUFFICES ASSUME TunerInv, program = "online", phase = "episodes"
             PROVE  /\ \A i \in DOMAIN opt.baseline : opt.baseline[i] \in Costs(opt.theta)
                    /\ \A probe \in Range(opt.pending) \cup Range(opt.observed) :
                         /\ probe.dim = Dimension(opt)
                         /\ probe.theta # opt.theta
                         /\ [probe.theta EXCEPT ![probe.dim] = opt.theta[probe.dim]] = opt.theta
  BY DEF BaselineIsCurrent
<1>1. OnLandscape /\ opt \in Opts /\ SweepOK(opt)
  BY DEF TunerInv, TypeInv, SweepInv
<1>2. PICK d : d = Dimension(opt)
  OBVIOUS
<1>3. d \in Range(dims) /\ opt.theta \in Thetas /\ opt.step[d] \in {1, 2}
  BY <1>1, <1>2, CursorIsFine, FieldTypes DEF Steps
<1>4. d \in Dims
  BY <1>1, <1>3, FamilyType
<1>5. ASSUME NEW probe \in Range(opt.pending) \cup Range(opt.observed)
      PROVE  probe.dim = d /\ probe.theta \in Places(opt.theta, d, opt.step[d])
  <2>1. probe.dim = d
    BY <1>1, <1>2, <1>5 DEF SweepOK, Range
  <2>2. opt.pending # <<>>
    <3>1. opt.pending = <<>> => Range(opt.pending) = {} /\ Range(opt.observed) = {}
      BY <1>1, RangeOfNothing DEF SweepOK
    <3>2. QED
      BY <1>5, <3>1
  <2>3. probe.theta \in Targets(opt.pending) \cup Targets(opt.observed)
    BY <1>5, TargetsOfRange
  <2>4. QED
    BY <1>1, <1>2, <2>1, <2>2, <2>3 DEF SweepOK
<1>6. ASSUME NEW probe \in Range(opt.pending) \cup Range(opt.observed)
      PROVE  /\ probe.dim = d /\ probe.theta # opt.theta
             /\ [probe.theta EXCEPT ![probe.dim] = opt.theta[probe.dim]] = opt.theta
  <2>1. probe.dim = d /\ probe.theta \in Places(opt.theta, d, opt.step[d])
    BY <1>5, <1>6
  <2>2. /\ probe.theta # opt.theta
        /\ [probe.theta EXCEPT ![d] = opt.theta[d]] = opt.theta
    BY <1>3, <1>4, <2>1, PlacesDiffer
  <2>3. QED
    BY <2>1, <2>2
<1>7. QED
  BY <1>1, <1>2, <1>6 DEF SweepOK

(* For every landscape, noise and streak: the costs that candidates are    *)
(* judged by are costs of the present parameters, and every probe differs  *)
(* from them in the coordinate being swept alone                           *)
(* (runtime_descent.cpp:150-157, 185-219).                                 *)
THEOREM BaselineStaysCurrent == Spec => []BaselineIsCurrent
BY TunerAlways, BaselineFollows, PTL

(* A family that has converged is where no single step would be taken,     *)
(* though each coordinate was last swept under other parameters.           *)
LEMMA LocalFollows == TunerInv => ConvergedIsLocal
<1> SUFFICES ASSUME TunerInv, Quiet, phase = "episodes", opt.converged,
                    NEW i \in DOMAIN Neighbours(opt.theta)
             PROVE  ~WouldCommit(Neighbours(opt.theta)[i].theta)
  BY DEF ConvergedIsLocal
<1>1. OnLandscape /\ opt \in Opts /\ opt.theta \in Thetas /\ StableOK(opt)
  BY FieldTypes DEF TunerInv, TypeInv, StableInv, Tuning
<1>2. PICK m : m = Neighbours(opt.theta)[i]
  OBVIOUS
<1>3. m \in Range(Neighbours(opt.theta))
  BY <1>2 DEF Range
<1>4. m.dim \in Range(dims) /\ m.theta \in Places(opt.theta, m.dim, 1)
  BY <1>1, <1>3, NeighboursAre DEF Neighbour, Move
<1>5. ~Gain(opt.theta, m.theta)
  BY <1>1, <1>4 DEF StableOK, Settled
<1>6. QED
  BY <1>2, <1>5 DEF Gain, WouldCommit

(* Without noise, a family that has converged has no step left in any      *)
(* coordinate that would be taken, though each was last swept under other  *)
(* values of the others (runtime_descent.cpp:104-109, 150-157).            *)
THEOREM ConvergedStaysLocal == Spec => []ConvergedIsLocal
BY TunerAlways, LocalFollows, PTL

(* A certified family has converged, none of its neighbours is better by   *)
(* the rule of certification, and what the online program kept is what the *)
(* last validation reports as faster.                                      *)
LEMMA SettledFollows == TunerInv => CertifiedIsSettled
<1> SUFFICES ASSUME TunerInv, Quiet, certified
             PROVE  /\ opt.converged
                    /\ \A i \in DOMAIN Neighbours(opt.theta) :
                         Worse(IF program = "paired" THEN "certify" ELSE "idle", opt.theta,
                               Neighbours(opt.theta)[i].theta)
                    /\ program = "online" =>
                         /\ Anchored(opt.theta, Wall(Default), Wall(opt.theta))
                         /\ phase = "reported" => report.faster = (opt.theta # Default)
  BY DEF CertifiedIsSettled, Worse
<1>1. \A i \in DOMAIN Neighbours(opt.theta) : Neighbours(opt.theta)[i] \in Range(Neighbours(opt.theta))
  BY DEF Range
<1>2. QED
  BY <1>1 DEF TunerInv, SettledInv

(* Without noise, a certified family has no neighbour that certification   *)
(* would prefer; online it was accepted by its anchors, and the report     *)
(* calls it faster if it left the default parameters                       *)
(* (runtime_descent.cpp:110-112, 305-342).                                 *)
THEOREM CertifiedStaysSettled == Spec => []CertifiedIsSettled
BY TunerAlways, SettledFollows, PTL

(* The idle search takes nothing back of what tuning converged to and the  *)
(* anchor accepts.                                                         *)
LEMMA KeptFollows == TunerInv => ConvergedIsCertified
<1>1. TunerInv /\ phase = "done" => ~Tuning
  BY DEF TunerInv, TypeInv, Tuning
<1>2. QED
  BY <1>1 DEF TunerInv, KeptInv, ConvergedIsCertified

(* Without noise, what an online family converges to and its anchor        *)
(* accepts ends certified: the idle search between takes nothing back      *)
(* (runtime_descent.cpp:253-334).                                          *)
THEOREM ConvergedGetsCertified == Spec => []ConvergedIsCertified
BY TunerAlways, KeptFollows, PTL

(* No step makes the parameters slower, but for the noise of the two       *)
(* measurements it compared and for the way back to the default ones.      *)
THEOREM CommitsAlwaysDescend == Spec => CommitsDescend
<1>1. TunerInv /\ [Next]_vars =>
        [opt'.theta # opt.theta =>
           \/ opt'.theta = Default /\ phase \in {"anchor", "final"}
           \/ Cost(opt'.theta) + 10 < Cost(opt.theta) + Spread]_vars
  BY TunerNext DEF Descends, BackToDefault
<1>2. QED
  BY TunerAlways, <1>1, PTL DEF Spec, CommitsDescend

=============================================================================
