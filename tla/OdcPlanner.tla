----------------------------- MODULE OdcPlanner -----------------------------
(***************************************************************************)
(* The planners of the archived C++ programs as operators on the value of  *)
(* a planner object.  DrmPlanner grows its vocabulary inside plan by       *)
(* rescoring the whole corpus; hy::CascadePlanner grows up to four words   *)
(* an episode; hy::HybridPlanner adds the provisional tier, still inside   *)
(* plan; sd::HybridPlanner defers every change of the vocabulary to        *)
(* consolidate_pending and rescores only the users of a candidate.         *)
(*                                                                         *)
(* These programs iterate std::set and std::map, so that the first         *)
(* candidate in lexicographic order wins among equals: their result is a   *)
(* function of the episodes, and so it is here.  Left out is what only     *)
(* structure_bytes reads (version, history_version) and what nothing reads *)
(* (hits, first_ep, last_ep, birth_struct, transfer_hits).                 *)
(***************************************************************************)
EXTENDS Vocabulary

CONSTANT Rank   \* the place of each capability in the order of their names

ASSUME RankAssumption ==
  /\ Rank \in [Capability -> Nat]
  /\ \A c, d \in Capability : Rank[c] = Rank[d] => c = d

(* A planner as it is constructed, with the capacities a program gives it. *)
NewPlanner(active_cap, mdl_threshold, provisional_cap, grace) ==
  [active_cap |-> active_cap, mdl_threshold |-> mdl_threshold,
   provisional_cap |-> provisional_cap, grace |-> grace,
   derived |-> <<>>, active |-> <<>>, lru |-> <<>>, history |-> <<>>,
   subseq_users |-> <<>>,            \* candidate -> the tasks that contained it
   pstats |-> <<>>,                  \* candidate -> the tasks of its PStat
   provisional |-> <<>>,             \* number in the name -> PWord
   struct_step |-> 0, pcounter |-> 0, admitted_total |-> 0, expired_total |-> 0,
   pending_touched |-> {}, pending_touched_p |-> {}, pending_consolidation |-> FALSE]

----------------------------------------------------------------------------
(* The order of std::vector<std::string>, and the first of a std::set.     *)
Before(s, t) ==
  \E n \in 0..Min({Len(s), Len(t)}) :
    /\ SubSeq(s, 1, n) = SubSeq(t, 1, n)
    /\ n < Len(t)
    /\ n = Len(s) \/ Rank[s[n + 1]] < Rank[t[n + 1]]

First(seqs) == CHOOSE s \in seqs : \A t \in seqs \ {s} : Before(s, t)

(* map[key] = value.                                                       *)
Put(map, key, value) ==
  [k \in DOMAIN map \cup {key} |-> IF k = key THEN value ELSE map[k]]

(* map[key].insert(task) for every key.                                    *)
Noted(users, keys, task) ==
  [k \in DOMAIN users \cup keys |->
     (IF k \in DOMAIN users THEN users[k] ELSE {}) \cup (IF k \in keys THEN {task} ELSE {})]

NewEvidence(p, ep) == ep.task \in DOMAIN p.history => p.history[ep.task] # ep.ops

(* (Mutant: the history keeps the first plan of a task.)                   *)
RecordedOnce(p, ep) ==
  [p EXCEPT !.history = IF ep.task \in DOMAIN @ THEN @ ELSE Put(@, ep.task, ep.ops),
            !.subseq_users = IF NewEvidence(p, ep) THEN Noted(@, Candidates(ep.ops), ep.task) ELSE @]

(* What both kinds of plan store before anything grows.                    *)
Recorded(p, ep) ==
  [p EXCEPT !.history = Put(@, ep.task, ep.ops),
            !.subseq_users = IF NewEvidence(p, ep) THEN Noted(@, Candidates(ep.ops), ep.task) ELSE @]

(* lru.erase(std::remove(...), ...).                                       *)
Without(s, task) == SelectSeq(s, LAMBDA t : t # task)

(* touch: to the recent end, then evict from the other end.                *)
Touched(p, ep) ==
  LET pushed  == Append(Without(p.lru, ep.task), ep.task)
      excess  == Max({0, Len(pushed) - p.active_cap})
      evicted == {pushed[i] : i \in 1..excess}
  IN  [p EXCEPT !.lru = SubSeq(pushed, excess + 1, Len(pushed)),
                !.active = Restrict(Put(@, ep.task, ep.ops),
                                    (DOMAIN @ \cup {ep.task}) \ evicted)]

----------------------------------------------------------------------------
(* The decision an episode costs: all of a new or recovered task, the      *)
(* changed middle of a drifted one, nothing of a repeat.                   *)

IsNew(p, ep)    == ep.task \notin DOMAIN p.active \cup DOMAIN p.history
Recovers(p, ep) == ep.task \in DOMAIN p.history \ DOMAIN p.active /\ ep.ancestral

Last(p, ep) == IF ep.task \in DOMAIN p.active THEN p.active[ep.task] ELSE p.history[ep.task]

Drifts(p, ep) == ~IsNew(p, ep) /\ ~Recovers(p, ep) /\ Last(p, ep) # ep.ops

Replanned(p, ep) ==
  CASE IsNew(p, ep) \/ Recovers(p, ep) -> ep.ops
    [] Drifts(p, ep) -> DiffMiddle(Last(p, ep), ep.ops)
    [] OTHER -> <<>>

Count(condition) == IF condition THEN 1 ELSE 0

Decision(p, ep, tokens) ==
  [semantic |-> Max({1, tokens}), recovery |-> Count(Recovers(p, ep)),
   local_repair |-> Count(Drifts(p, ep)),
   structural_change |-> Count(IsNew(p, ep) \/ Recovers(p, ep) \/ Drifts(p, ep))]

Raws(p) == {p.provisional[n].raw : n \in DOMAIN p.provisional}

(* compress(...).size() of DrmPlanner, semantic_cost of HybridPlanner.     *)
GreedyDecision(p, ep) == Decision(p, ep, Len(Pieces(Replanned(p, ep), Expansions(p.derived))))

TieredDecision(p, ep) ==
  Decision(p, ep, SemanticCost(Replanned(p, ep), Expansions(p.derived) \cup Raws(p)))

----------------------------------------------------------------------------
(* Growth: of the candidates two tasks use and no word stands for, the one *)
(* with the best key (gain, users, length) if its gain reaches the         *)
(* threshold, the first in order among equals.                             *)

Users(p, cand) == IF cand \in DOMAIN p.subseq_users THEN p.subseq_users[cand] ELSE {}

Saving(p, words, cand, tasks) ==
  SumFunction([t \in tasks |-> Len(Pieces(p.history[t], words))
                                 - Len(Pieces(p.history[t], words \cup {cand}))])

KeyBelow(k, l) ==
  \/ k[1] < l[1]
  \/ k[1] = l[1] /\ k[2] < l[2]
  \/ k[1] = l[1] /\ k[2] = l[2] /\ k[3] < l[3]

Eligible(p, words, cands) ==
  {c \in cands \ words : Cardinality(Users(p, c)) >= 2 /\ Len(Pieces(c, words)) > 1}

Grown(p, words, saving) ==
  LET key   == [c \in DOMAIN saving |-> <<saving[c] - (Len(Pieces(c, words)) + 1),
                                          Cardinality(Users(p, c)), Len(c)>>]
      worth == {c \in DOMAIN key : key[c][1] >= p.mdl_threshold}
      best  == {c \in worth : \A d \in worth : ~KeyBelow(key[c], key[d])}
  IN  IF worth = {} THEN p
      ELSE [p EXCEPT !.derived = Append(@, Compress(p.derived, First(best)))]

(* maybe_grow: corpus_cost before and after, over the whole history.       *)
MaybeGrow(p, cands) ==
  LET words == Expansions(p.derived)
  IN  Grown(p, words, [c \in Eligible(p, words, cands) |-> Saving(p, words, c, DOMAIN p.history)])

(* (Mutant: only the users that are in the working set are rescored.)      *)
MaybeGrowActive(p, cands) ==
  LET words == Expansions(p.derived)
  IN  Grown(p, words, [c \in Eligible(p, words, cands) |->
                         Saving(p, words, c, Users(p, c) \cap DOMAIN p.active)])

(* maybe_grow_localized: only the users of the candidate are rescored.     *)
MaybeGrowLocalized(p, cands) ==
  LET words == Expansions(p.derived)
  IN  Grown(p, words, [c \in Eligible(p, words, cands) |->
                         Saving(p, words, c, Users(p, c) \cap DOMAIN p.history)])

----------------------------------------------------------------------------
(* The provisional tier.                                                   *)

UpdateTransfer(p, ep) ==
  [p EXCEPT !.provisional = [n \in DOMAIN @ |->
     IF Occurs(@[n].raw, ep.ops) /\ ep.task \notin @[n].birth_tasks
     THEN [@[n] EXCEPT !.last_transfer = p.struct_step] ELSE @[n]]]

RemoveCommittedEquivalents(p) ==
  LET words == Expansions(p.derived)
  IN  [p EXCEPT !.provisional = RestrictDomain(@, LAMBDA n : @[n].raw \notin words)]

(* pscore: the score of an admissible candidate, and which those are.      *)
TierSaving(p, words, c) ==
  Cardinality(p.pstats[c]) * (Len(c) - 1) - (Len(Pieces(c, words)) + 1)

Admissible(p, words, cands) ==
  {c \in (cands \cap DOMAIN p.pstats) \ (words \cup Raws(p)) :
     /\ Len(Pieces(c, words \cup Raws(p))) > 1
     /\ Cardinality(p.pstats[c]) >= IF Len(c) = 2 THEN 3 ELSE 2
     /\ Len(Pieces(c, words)) > 1
     /\ TierSaving(p, words, c) >= 0}

Score(p, words, c) ==
  TierSaving(p, words, c) * 32 + Cardinality(p.pstats[c]) * 8 + Len(c) * 4

Admit(p, cands) ==
  LET words == Expansions(p.derived)
      fit   == Admissible(p, words, cands)
      best  == {c \in fit : \A d \in fit : Score(p, words, d) <= Score(p, words, c)}
      born(c) == [raw |-> c, birth_tasks |-> p.pstats[c], last_transfer |-> p.struct_step]
  IN  IF Cardinality(DOMAIN p.provisional) >= p.provisional_cap \/ fit = {} THEN p
      ELSE [p EXCEPT !.provisional = Put(@, p.pcounter + 1, born(First(best))),
                     !.pcounter = @ + 1, !.admitted_total = @ + 1]

Expire(p) ==
  LET stale == {n \in DOMAIN p.provisional :
                  p.struct_step >= p.provisional[n].last_transfer + p.grace}
  IN  [p EXCEPT !.provisional = RestrictDomain(@, LAMBDA n : n \notin stale),
                !.expired_total = @ + Cardinality(stale)]

(* What the growth, admission and expiry of one episode count as changes.  *)
Changes(p, q) ==
  (Len(q.derived) - Len(p.derived)) + (q.admitted_total - p.admitted_total)
    + (q.expired_total - p.expired_total)

----------------------------------------------------------------------------
(* The four planners.                                                      *)

(* DrmPlanner::plan.                                                       *)
BasePlan(p, ep) ==
  LET noted == Recorded(p, ep)
      grown == IF NewEvidence(p, ep) THEN MaybeGrow(noted, Candidates(ep.ops)) ELSE noted
  IN  Touched(grown, ep)

(* hy::CascadePlanner::plan: grow over every candidate ever noted, again   *)
(* and again up to the cap.                                                *)
CascadeCap == 4

CascadePlan(p, ep) ==
  LET noted == Recorded(p, ep)
      grown[k \in 0..CascadeCap] ==
        IF k = 0 THEN noted ELSE MaybeGrow(grown[k - 1], DOMAIN noted.subseq_users)
  IN  Touched(IF NewEvidence(p, ep) THEN grown[CascadeCap] ELSE noted, ep)

(* The tier's part of a plan with new evidence: age, refresh, note_p.      *)
Aged(p, ep) ==
  LET aged == UpdateTransfer([p EXCEPT !.struct_step = @ + 1], ep)
  IN  [aged EXCEPT !.pstats = Noted(@, Candidates(ep.ops), ep.task)]

(* hy::HybridPlanner::plan.                                                *)
InlinePlan(p, ep) ==
  LET noted == Aged(Recorded(p, ep), ep)
      grown == RemoveCommittedEquivalents(MaybeGrow(noted, Candidates(ep.ops)))
  IN  Touched(IF NewEvidence(p, ep) THEN Expire(Admit(grown, Candidates(ep.ops)))
              ELSE Recorded(p, ep), ep)

(* sd::HybridPlanner::plan.                                                *)
DeferredPlan(p, ep) ==
  LET queued == [Aged(Recorded(p, ep), ep) EXCEPT
                   !.pending_touched = Candidates(ep.ops),
                   !.pending_touched_p = Candidates(ep.ops),
                   !.pending_consolidation = TRUE]
  IN  Touched(IF NewEvidence(p, ep) THEN queued ELSE Recorded(p, ep), ep)

(* (Mutant: the candidates of the tier are forgotten.)                     *)
ConsolidatedWithoutTier(p) ==
  LET grown == RemoveCommittedEquivalents(MaybeGrowLocalized(p, p.pending_touched))
  IN  IF ~p.pending_consolidation THEN p
      ELSE [Expire(grown) EXCEPT
              !.pending_touched = {}, !.pending_touched_p = {}, !.pending_consolidation = FALSE]

(* sd::HybridPlanner::consolidate_pending.                                 *)
Consolidated(p) ==
  LET grown == RemoveCommittedEquivalents(MaybeGrowLocalized(p, p.pending_touched))
  IN  IF ~p.pending_consolidation THEN p
      ELSE [Expire(Admit(grown, p.pending_touched_p)) EXCEPT
              !.pending_touched = {}, !.pending_touched_p = {}, !.pending_consolidation = FALSE]
=============================================================================
