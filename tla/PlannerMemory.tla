--------------------------- MODULE PlannerMemory ---------------------------
(***************************************************************************)
(* The state of drm-core's DrmPlanner (planner.rs) and what both planners  *)
(* do to it in the same words: remember the episode in the history, note   *)
(* its subsequences as growth candidates, and touch the bounded working    *)
(* set.  DrmPlanner and HybridPlanner extend this module; they differ in   *)
(* how they price an episode and in when they grow the vocabulary.         *)
(*                                                                         *)
(* The maps keyed by task are functions on the tasks they hold.  The map   *)
(* subseq_users is the relation between candidates and their users: an     *)
(* absent candidate and one without users are skipped alike.               *)
(***************************************************************************)
EXTENDS Vocabulary

CONSTANTS Task,          \* task identities
          Ops,           \* capability sequences callers submit
          ActiveCap,     \* capacity of the working set (active_cap)
          MdlThreshold   \* tokens a new word must save (mdl_threshold)

ASSUME ConstantsAssumption ==
  /\ Ops \subseteq Seq(Symbol)
  /\ ActiveCap \in Nat
  /\ MdlThreshold \in Int

VARIABLES derived,          \* vocab.derived: the definition of each word
          active,           \* the working set: task -> its sequence
          lru,              \* its tasks, least recently used first
          history,          \* every task ever planned -> its latest sequence
          history_version,  \* ... -> the version that stored it
          subseq_users,     \* <<candidate, task that contained it>>
          version

memoryVars == <<active, lru, history, history_version, subseq_users, version>>

Episode == [task : Task, ops : Ops, ancestral : BOOLEAN]

MemoryInit ==
  /\ derived = <<>>
  /\ active = <<>>
  /\ lru = <<>>
  /\ history = <<>>
  /\ history_version = <<>>
  /\ subseq_users = {}
  /\ version = 0

----------------------------------------------------------------------------
(* map[key] := value, for a function map.                                  *)
Put(map, key, value) ==
  [k \in DOMAIN map \cup {key} |-> IF k = key THEN value ELSE map[k]]

(* lru.retain(|x| x != task): the order is the order of use, so no task    *)
(* occurs in it twice (LruCoherent below) and at most one place is cut.    *)
Without(s, task) ==
  IF \E i \in DOMAIN s : s[i] = task
  THEN LET i == CHOOSE i \in DOMAIN s : s[i] = task
       IN  SubSeq(s, 1, i - 1) \o SubSeq(s, i + 1, Len(s))
  ELSE s

Users(used, cand) == {t \in Task : <<cand, t>> \in used}

(* (Mutant: only a task never seen brings evidence, a drift does not.)     *)
NewTaskOnly(ep) == ep.task \notin DOMAIN history

(* An episode brings new evidence unless it repeats what history holds.    *)
NewEvidence(ep) ==
  ep.task \in DOMAIN history => history[ep.task] # ep.ops

(* (Mutant: a task in the working set keeps its place, so eviction is      *)
(* first in, first out.)                                                   *)
TouchFifo(ep) ==
  LET pushed == IF ep.task \in DOMAIN active THEN lru ELSE Append(lru, ep.task)
      excess == Max({0, Len(pushed) - ActiveCap})
  IN  /\ lru' = SubSeq(pushed, excess + 1, Len(pushed))
      /\ active' = Restrict(Put(active, ep.task, ep.ops),
                            (DOMAIN active \cup {ep.task}) \ {pushed[i] : i \in 1..excess})

(* DrmPlanner::touch: move the task to the recent end, then drop the least *)
(* recently used tasks until the working set fits.                         *)
Touch(ep) ==
  LET pushed == Append(Without(lru, ep.task), ep.task)
      excess == Max({0, Len(pushed) - ActiveCap})
      kept   == SubSeq(pushed, excess + 1, Len(pushed))
      popped == {pushed[i] : i \in 1..excess}
  IN  /\ lru' = kept
      /\ active' = Restrict(Put(active, ep.task, ep.ops),
                            (DOMAIN active \cup {ep.task}) \ popped)

(* The part of plan that stores the episode.                               *)
Remember(ep) ==
  /\ version' = version + 1
  /\ history' = Put(history, ep.task, ep.ops)
  /\ history_version' = Put(history_version, ep.task, version + 1)
  /\ subseq_users' = IF NewEvidence(ep)
                     THEN subseq_users \cup (Candidates(ep.ops) \X {ep.task})
                     ELSE subseq_users
  /\ Touch(ep)

----------------------------------------------------------------------------
(* How plan takes an episode: as a new task, as the recovery of a task that *)
(* left the working set, or as a repeat or a drift of what it last was.    *)

New(ep) == ep.task \notin DOMAIN active \cup DOMAIN history

Recovers(ep) == ep.task \in DOMAIN history \ DOMAIN active /\ ep.ancestral

Last(ep) == IF ep.task \in DOMAIN active THEN active[ep.task] ELSE history[ep.task]

Drifts(ep) == ~New(ep) /\ ~Recovers(ep) /\ Last(ep) # ep.ops

(* The sequence that has to be represented anew: all of it for a new or a  *)
(* recovered task, the changed middle for a drift, nothing for a repeat.   *)
Replanned(ep) ==
  CASE New(ep) \/ Recovers(ep) -> ep.ops
    [] Drifts(ep) -> DiffMiddle(Last(ep), ep.ops)
    [] OTHER -> <<>>

Count(condition) == IF condition THEN 1 ELSE 0

(* (Mutant: the ancestral flag is looked at before the working set.)       *)
DecisionAncestralFirst(ep, cost) ==
  LET recovers == ep.task \in DOMAIN history /\ ep.ancestral
  IN  [semantic |-> Max({1, cost}), recovery |-> Count(recovers),
       local_repair |-> Count(Drifts(ep) /\ ~recovers),
       structural_change |-> Count(New(ep) \/ recovers \/ Drifts(ep))]

(* What the episode is charged, where Replanned(ep) costs so many tokens:  *)
(* at least one decision.                                                  *)
Decision(ep, cost) ==
  [semantic |-> Max({1, cost}), recovery |-> Count(Recovers(ep)),
   local_repair |-> Count(Drifts(ep)),
   structural_change |-> Count(New(ep) \/ Recovers(ep) \/ Drifts(ep))]

----------------------------------------------------------------------------
(* The rule both planners grow by, over a history and its users relation.  *)
(* A candidate is eligible when two tasks use it and no word stands for    *)
(* it; the best key (gain, users, length) wins, and the iteration order of *)
(* a hash set decides among equals.                                        *)

Eligible(used, cand) ==
  /\ Cardinality(Users(used, cand)) >= 2
  /\ cand \notin Expansions(derived)
  /\ Len(Compress(derived, cand)) > 1

(* What the tasks of a set would save if cand became a word.               *)
Saving(hist, cand, tasks) ==
  SumFunction([t \in tasks |-> CompressedLen(derived, hist[t], {})
                                 - CompressedLen(derived, hist[t], {cand})])

(* (Mutant: the definition is free.)                                       *)
GainIgnoresDefinition(hist, cand, tasks) == Saving(hist, cand, tasks)

(* The saving net of the definition's own cost.                            *)
Gain(hist, cand, tasks) ==
  Saving(hist, cand, tasks) - (Len(Compress(derived, cand)) + 1)

KeyBelow(k, l) ==
  \/ k[1] < l[1]
  \/ k[1] = l[1] /\ k[2] < l[2]
  \/ k[1] = l[1] /\ k[2] = l[2] /\ k[3] < l[3]

(* (Mutant: the definition is compressed with the trial word, so the word  *)
(* is defined by itself.)                                                  *)
GrownByTrialWord(used, gain) ==
  LET worth == {c \in DOMAIN gain : Eligible(used, c) /\ gain[c] >= MdlThreshold}
  IN  IF worth = {} THEN {derived} ELSE {Append(derived, <<Len(derived) + 1>>)}

(* The dictionaries growth may leave, given what each candidate gains.     *)
Grown(used, gain) ==
  LET key   == [c \in {d \in DOMAIN gain : Eligible(used, d)} |->
                  <<gain[c], Cardinality(Users(used, c)), Len(c)>>]
      worth == {c \in DOMAIN key : key[c][1] >= MdlThreshold}
      best  == {c \in worth : \A d \in worth : ~KeyBelow(key[c], key[d])}
  IN  IF worth = {} THEN {derived}
      ELSE {Append(derived, Compress(derived, c)) : c \in best}

----------------------------------------------------------------------------
MemoryTypeOK ==
  /\ lru \in Seq(Task)
  /\ DOMAIN active \subseteq Task
  /\ DOMAIN history \subseteq Task
  /\ \A t \in DOMAIN active : active[t] \in Ops
  /\ \A t \in DOMAIN history : history[t] \in Ops
  /\ DOMAIN history_version = DOMAIN history
  /\ \A t \in DOMAIN history : history_version[t] \in 1..version
  /\ subseq_users \subseteq Seq(Symbol) \X Task
  /\ version \in Nat

(* The working set and its order never disagree: the order lists exactly   *)
(* the active tasks, each once, and there are never more than ActiveCap.   *)
(* Code: touch updates the two containers separately (planner.rs:46-55).   *)
LruCoherent ==
  /\ Range(lru) = DOMAIN active
  /\ \A i, j \in DOMAIN lru : lru[i] = lru[j] => i = j
  /\ Len(lru) <= ActiveCap

(* The working set is a cache of the history: what it says of a task is    *)
(* what the history says.  plan reads the first and falls back to the      *)
(* second (planner.rs:164-191), and decides on new evidence from the       *)
(* second alone.                                                           *)
ActiveIsHistory ==
  /\ DOMAIN active \subseteq DOMAIN history
  /\ \A t \in DOMAIN active : active[t] = history[t]

(* The order of the working set is the order of the versions, and a task   *)
(* is out of it only while ActiveCap tasks have been used since: eviction  *)
(* is least recently used, not any other order (planner.rs:46-55).         *)
LruIsMostRecent ==
  /\ \A i, j \in DOMAIN lru : i < j => history_version[lru[i]] < history_version[lru[j]]
  /\ \A t \in DOMAIN history \ DOMAIN active :
       /\ Len(lru) = ActiveCap
       /\ \A i \in DOMAIN lru : history_version[t] < history_version[lru[i]]

(* Every candidate in what the history now holds of a task names that task *)
(* among its users.  This is what makes scoring the users alone as good as *)
(* scoring the corpus (hybrid.rs:225-227).                                 *)
EvidenceComplete ==
  \A t \in DOMAIN history : \A c \in Candidates(history[t]) : <<c, t>> \in subseq_users

(* Whatever sequence comes next for a remembered task, the repair replans  *)
(* the least middle: some beginning and some end of the old sequence stand *)
(* around it, without overlapping, and no shorter middle would do          *)
(* (planner.rs:119-132).                                                   *)
RepairIsLeast ==
  \A t \in DOMAIN history, new \in Ops :
    LET old == history[t]
        Kept(p, q) ==
          /\ p + q <= Min({Len(old), Len(new)})
          /\ SubSeq(old, 1, p) = SubSeq(new, 1, p)
          /\ SubSeq(old, Len(old) - q + 1, Len(old)) = SubSeq(new, Len(new) - q + 1, Len(new))
        middles == {Len(new) - (x[1] + x[2]) :
                      x \in {y \in (0..Len(new)) \X (0..Len(new)) : Kept(y[1], y[2])}}
    IN  Len(DiffMiddle(old, new)) = Min(middles)

----------------------------------------------------------------------------
(* The working set, kept by an eviction order and never by looking at      *)
(* versions, is at every step the ActiveCap tasks of the latest versions   *)
(* (planner.rs:46-55 against 192-194).                                     *)
Recency == INSTANCE WorkingSet
             WITH Payload <- Ops, Capacity <- ActiveCap, clock <- version,
                  stored <- history, stamp <- history_version, atHand <- active
ImplementsWorkingSet == Recency!Spec

(* Growth, whatever rule chose the word and however long the candidate was *)
(* queued, learns one unexpressed sequence at a time and never touches an  *)
(* older word (planner.rs:110-112, hybrid.rs:271-273).                     *)
Growth == INSTANCE VocabularyGrowth WITH Text <- Ops, dict <- derived
ImplementsVocabularyGrowth == Growth!GrowthSpec
=============================================================================
