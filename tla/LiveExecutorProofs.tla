------------------------- MODULE LiveExecutorProofs -------------------------
(***************************************************************************)
(* What holds of LiveExecutor for every set of tasks, programs and output  *)
(* paths, however many episodes run and however often the process stops.   *)
(***************************************************************************)
EXTENDS LiveExecutor, TLAPS

(* No output path is the candidate path of an output.  The code does not   *)
(* ensure it, and the runs show what goes wrong without it.                *)
CandidatesApart == Range(CandidateOf) \cap Output = {}

(* An episode that runs has been numbered.                                 *)
Numbered == phase = "running" => idx >= 1

TypeInv == TypeOK /\ Numbered

LEMMA PathsOfEpisode ==
  ASSUME TypeOK
  PROVE  /\ Candidate \in Path /\ Target \in Path /\ Target \in Targets
         /\ Candidate \in Range(CandidateOf) \cup {StateCandidate}
<1>1. episode.output \in Output
  BY DEF TypeOK, Episode
<1>2. CandidateOf[episode.output] \in Range(CandidateOf)
  BY <1>1, ExecutorAssumption DEF Range
<1>3. QED
  BY <1>1, <1>2 DEF Candidate, Target, Targets, Path

(* A step of an episode that writes changes the file of no path but the    *)
(* candidate and, in the rename, the target; the files stay typed.         *)
LEMMA DiskTyped ==
  ASSUME TypeInv, NEW p \in Path, NEW f, disk' = [disk EXCEPT ![p] = f],
         FileOK(f), idx' = idx
  PROVE  DOMAIN disk' = Path /\ \A q \in Path : FileOK(disk[q])'
<1>1. DOMAIN disk' = Path /\ \A q \in Path : disk'[q] = f \/ disk'[q] = disk[q]
  BY DEF TypeInv, TypeOK
<1>2. \A q \in Path : FileOK(disk[q])
  BY DEF TypeInv, TypeOK
<1>3. QED
  BY <1>1, <1>2 DEF FileOK

(* The initial states are typed.                                           *)
LEMMA InitTyped == Init => TypeInv
BY DEF Init, TypeInv, TypeOK, Numbered, NoEffects, FileOK, Path

LEMMA NextTyped == TypeInv /\ [Next]_vars => TypeInv'
<1> SUFFICES ASSUME TypeInv, [Next]_vars
             PROVE  TypeInv'
  OBVIOUS
<1> USE DEF TypeInv, Numbered
<1>1. CASE Start
  BY <1>1 DEF Start, TypeOK, FileOK, counters
<1>2. ASSUME NEW ep \in Episode, Begin(ep)
      PROVE  TypeInv'
  <2>1. ep.ops \in Seq(STRING)
    BY ExecutorAssumption DEF Episode
  <2>2. \A p \in Path : FileOK(disk[p])'
    <3>1. idx \in Nat /\ idx' = idx + 1 /\ disk' = disk
      BY <1>2 DEF Begin, TypeOK
    <3>2. 1..idx \subseteq 1..idx'
      BY <3>1
    <3>3. \A p \in Path : FileOK(disk[p])
      BY DEF TypeOK
    <3>4. QED
      BY <3>1, <3>2, <3>3 DEF FileOK
  <2>3. QED
    BY <1>2, <2>1, <2>2 DEF Begin, TypeOK, counters
<1>3. CASE Compute
  <2>1. data' \in {"empty", "text"}
    BY <1>3 DEF Compute, Yields, TypeOK
  <2>2. effects' \in [Effect -> Nat]
    <3>1. \/ effects' = effects
          \/ \E f \in Effect : effects' = [effects EXCEPT ![f] = @ + 1]
      <4>1. CountedAs \in Effect \cup {"none"}
        BY DEF CountedAs, Effect
      <4>2. QED
        BY <1>3, <4>1 DEF Compute, Count, Effect
    <3>2. effects \in [Effect -> Nat]
      BY DEF TypeOK
    <3>3. ASSUME NEW f \in Effect, effects' = [effects EXCEPT ![f] = @ + 1]
          PROVE  effects' \in [Effect -> Nat]
      BY <3>2, <3>3
    <3>4. QED
      BY <3>1, <3>2, <3>3
  <2>3. root_counts' \in [Root -> Nat]
    BY <1>3 DEF Compute, NoteRoots, TypeOK
  <2>4. pos' \in 1..(Len(episode'.ops) + 1) /\ stage' = "start"
    <3>1. episode.ops \in Seq(STRING)
      BY ExecutorAssumption DEF TypeOK, Episode
    <3>2. QED
      BY <1>3, <3>1 DEF Compute, Advance, Executing, TypeOK
  <2>5. \A p \in Path : FileOK(disk[p])'
    BY <1>3 DEF Compute, TypeOK, FileOK
  <2>6. QED
    BY <1>3, <2>1, <2>2, <2>3, <2>4, <2>5 DEF Compute, TypeOK, Executing
<1>4. CASE OpenCandidate
  <2>1. FileOK(File(FALSE, TRUE, idx, state_runs')) /\ state_runs' \in Nat
    BY <1>4 DEF OpenCandidate, Executing, FileOK, File, TypeOK
  <2>2. DOMAIN disk' = Path /\ \A q \in Path : FileOK(disk[q])'
    BY <1>4, <2>1, PathsOfEpisode, DiskTyped DEF OpenCandidate
  <2>3. root_counts' \in [Root -> Nat]
    BY <1>4 DEF OpenCandidate, NoteRoots, TypeOK
  <2>4. QED
    BY <1>4, <2>1, <2>2, <2>3 DEF OpenCandidate, TypeOK
<1>5. CASE FillCandidate
  <2>1. FileOK(File(TRUE, IsEmpty, idx, state_runs))
    BY <1>5 DEF FillCandidate, Executing, FileOK, File, TypeOK, IsEmpty
  <2>2. DOMAIN disk' = Path /\ \A q \in Path : FileOK(disk[q])'
    BY <1>5, <2>1, PathsOfEpisode, DiskTyped DEF FillCandidate
  <2>3. QED
    BY <1>5, <2>1, <2>2 DEF FillCandidate, TypeOK, counters
<1>6. CASE Rename
  <2>1. DOMAIN disk' = Path /\ \A q \in Path : FileOK(disk[q])' /\ FileOK(NoFile)'
    BY <1>6, PathsOfEpisode DEF Rename, FileOK, TypeOK
  <2>2. effects' \in [Effect -> Nat]
    BY <1>6 DEF Rename, Count, Effect, TypeOK
  <2>3. pos' \in 1..(Len(episode'.ops) + 1) /\ stage' = "start"
    <3>1. episode.ops \in Seq(STRING)
      BY ExecutorAssumption DEF TypeOK, Episode
    <3>2. QED
      BY <1>6, <3>1 DEF Rename, Advance, Executing, TypeOK
  <2>4. QED
    BY <1>6, <2>1, <2>2, <2>3 DEF Rename, TypeOK
<1>7. CASE AppendText
  <2>1. log' \in Seq({"text", "newline"})
    BY <1>7 DEF AppendText, TypeOK
  <2>2. root_counts' \in [Root -> Nat]
    BY <1>7 DEF AppendText, NoteRoots, TypeOK
  <2>3. QED
    BY <1>7, <2>1, <2>2 DEF AppendText, TypeOK, FileOK
<1>8. CASE AppendNewline
  <2>1. log' \in Seq({"text", "newline"})
    BY <1>8 DEF AppendNewline, TypeOK
  <2>2. effects' \in [Effect -> Nat]
    BY <1>8 DEF AppendNewline, Count, Effect, TypeOK
  <2>3. pos' \in 1..(Len(episode'.ops) + 1) /\ stage' = "start"
    <3>1. episode.ops \in Seq(STRING)
      BY ExecutorAssumption DEF TypeOK, Episode
    <3>2. QED
      BY <1>8, <3>1 DEF AppendNewline, Advance, Executing, TypeOK
  <2>4. QED
    BY <1>8, <2>1, <2>2, <2>3 DEF AppendNewline, TypeOK, FileOK
<1>9. CASE Fail
  <2>1. root_counts' \in [Root -> Nat] /\ state_runs' \in Nat
    <3>1. \/ NoteRoots /\ state_runs' = state_runs + (IF Cap = "state.write" THEN 1 ELSE 0)
          \/ root_counts' = root_counts /\ state_runs' = state_runs
      BY <1>9 DEF Fail
    <3>2. QED
      BY <3>1 DEF NoteRoots, TypeOK
  <2>2. QED
    BY <1>9, <2>1 DEF Fail, TypeOK, FileOK
<1>10. CASE Finish
  BY <1>10 DEF Finish, TypeOK, FileOK, counters
<1>11. CASE Crash
  BY <1>11 DEF Crash, TypeOK, FileOK, NoEffects
<1>12. CASE UNCHANGED vars
  BY <1>12 DEF vars, TypeOK, FileOK
<1>13. QED
  BY <1>1, <1>2, <1>3, <1>4, <1>5, <1>6, <1>7, <1>8, <1>9, <1>10, <1>11, <1>12
  DEF Next, Step

(* Every reachable state is typed, and an episode that runs is numbered:   *)
(* the program counter never leaves the episode's capabilities, whatever   *)
(* fails or stops (executor.rs:97-207).                                    *)
THEOREM TypeCorrect == Spec => [](TypeOK /\ Numbered)
<1>1. Init => TypeInv
  BY InitTyped
<1>2. TypeInv /\ [Next]_vars => TypeInv'
  BY NextTyped
<1>3. QED
  BY <1>1, <1>2, PTL DEF Spec, TypeInv

----------------------------------------------------------------------------
(* Atomic commits.  A target is written by renaming a candidate only, and  *)
(* a candidate that is about to be renamed has been filled.                *)

CandidateFilled ==
  phase = "running" /\ Writes /\ stage = "filled" =>
    disk[Candidate].exists /\ disk[Candidate].whole

TargetsWhole == \A p \in Targets : disk[p].exists => disk[p].whole

CommitInv == CandidateFilled /\ TargetsWhole

(* With the names apart, no candidate is a target.                         *)
LEMMA CandidateIsNoTarget ==
  ASSUME TypeOK, CandidatesApart
  PROVE  Candidate \notin Targets
<1>1. StateFile # StateCandidate
  BY DEF StateFile, StateCandidate
<1>2. QED
  BY <1>1, PathsOfEpisode, ExecutorAssumption DEF Targets, CandidatesApart

(* What a step does to the targets, and that it keeps CommitInv.           *)
LEMMA CommitStep ==
  ASSUME TypeInv, CandidatesApart, CommitInv, [Next]_vars
  PROVE  /\ CommitInv'
         /\ \A p \in Targets : disk[p].exists => disk'[p].exists
<1> USE DEF CommitInv, CandidateFilled
<1>1. Targets \subseteq Path /\ DOMAIN disk = Path
  BY DEF Targets, Path, TypeInv, TypeOK
<1>2. Candidate \in Path /\ Candidate \notin Targets /\ Target \in Targets
  BY CandidateIsNoTarget, PathsOfEpisode DEF TypeInv
<1>3. ASSUME disk' = disk,
             UNCHANGED <<phase, episode, pos, stage>> \/ phase' # "running" \/ stage' # "filled"
      PROVE  CommitInv' /\ \A p \in Targets : disk[p].exists => disk'[p].exists
  BY <1>3 DEF TargetsWhole, Writes, Candidate, Cap
<1>4. CASE OpenCandidate
  <2>1. stage' = "open" /\ \A p \in Targets : disk'[p] = disk[p]
    BY <1>1, <1>2, <1>4 DEF OpenCandidate
  <2>2. QED
    BY <2>1 DEF TargetsWhole
<1>5. CASE FillCandidate
  <2>1. \A p \in Targets : disk'[p] = disk[p]
    BY <1>1, <1>2, <1>5 DEF FillCandidate
  <2>2. disk'[Candidate] = File(TRUE, IsEmpty, idx, state_runs)
    BY <1>1, <1>2, <1>5 DEF FillCandidate
  <2>3. Candidate' = Candidate
    BY <1>5 DEF FillCandidate, Candidate, Cap
  <2>4. QED
    BY <2>1, <2>2, <2>3 DEF TargetsWhole, File
<1>6. CASE Rename
  <2>1. disk[Candidate].exists /\ disk[Candidate].whole
    BY <1>6 DEF Rename, Executing
  <2>2. \A p \in Targets : disk'[p] = IF p = Target THEN disk[Candidate] ELSE disk[p]
    BY <1>1, <1>2, <1>6 DEF Rename
  <2>3. stage' = "start"
    BY <1>6 DEF Rename, Advance
  <2>4. QED
    BY <2>1, <2>2, <2>3 DEF TargetsWhole
<1>7. CASE Start
  BY <1>3, <1>7 DEF Start
<1>8. ASSUME NEW ep \in Episode, Begin(ep)
      PROVE  CommitInv' /\ \A p \in Targets : disk[p].exists => disk'[p].exists
  BY <1>3, <1>8 DEF Begin
<1>9. CASE Compute \/ AppendNewline
  BY <1>3, <1>9 DEF Compute, AppendNewline, Advance
<1>10. CASE AppendText
  BY <1>3, <1>10 DEF AppendText
<1>11. CASE Fail \/ Finish \/ Crash
  BY <1>3, <1>11 DEF Fail, Finish, Crash
<1>12. CASE UNCHANGED vars
  BY <1>3, <1>12 DEF vars
<1>13. QED
  BY <1>4, <1>5, <1>6, <1>7, <1>8, <1>9, <1>10, <1>11, <1>12 DEF Next, Step

(* As long as no output is named like a candidate, every commit is atomic: *)
(* at every moment, also while the process is down, a target holds nothing *)
(* or a completely written file, and a committed file is only ever         *)
(* replaced by another (serve.rs:17-20, executor.rs:170-188).              *)
THEOREM CommitsAtomic ==
  ASSUME CandidatesApart
  PROVE  Spec => CommitsAreAtomic
<1>1. Init => CommitInv
  BY DEF Init, CommitInv, CandidateFilled, TargetsWhole, Targets, Path, NoFile
<1>2. CommitInv /\ TypeInv /\ [Next]_vars => CommitInv'
  BY CommitStep
<1>3. CommitInv /\ TypeInv /\ [Next]_vars =>
        [\A p \in Targets : /\ disk'[p].exists => disk'[p].whole
                            /\ disk[p].exists => disk'[p].exists]_vars
  BY CommitStep DEF CommitInv, TargetsWhole
<1>4. QED
  BY <1>1, <1>2, <1>3, TypeCorrect, PTL DEF Spec, CommitsAreAtomic, TypeInv

----------------------------------------------------------------------------
(* Accounting.  A capability in progress has been counted as a COMMIT and  *)
(* its effect has not been counted yet.                                    *)

InProgress == IF phase = "running" /\ stage # "start" THEN 1 ELSE 0

EffectSum == effects["commits"] + effects["process_spawns"]
               + effects["tcp_requests"] + effects["ipc_requests"]

RootsInv == EffectSum + InProgress <= root_counts["COMMIT"]

LEMMA RootsStep == TypeInv /\ RootsInv /\ [Next]_vars => RootsInv'
<1> SUFFICES ASSUME TypeInv, RootsInv, [Next]_vars
             PROVE  RootsInv'
  OBVIOUS
<1> DEFINE done == EffectSum
           asked == root_counts["COMMIT"]
<1>1. done \in Nat /\ asked \in Nat /\ InProgress \in {0, 1} /\ done + InProgress <= asked
  BY DEF TypeInv, TypeOK, EffectSum, Effect, Root, InProgress, RootsInv
<1>2. NoteRoots => /\ asked' \in Nat /\ asked' >= asked
                   /\ "COMMIT" \in RootsOf(Cap) => asked' = asked + 1
  BY <1>1 DEF NoteRoots, Root
<1>3. \A f \in Effect : Count(f) => /\ f # "timer_events" => done' = done + 1
                                    /\ f = "timer_events" => done' = done
  BY DEF Count, TypeInv, TypeOK, Effect, EffectSum
<1>4. effects' = effects => done' = done
  BY DEF EffectSum
<1> HIDE DEF done, asked
<1>5. RootsInv' <=> done' + InProgress' <= asked'
  BY DEF RootsInv, done, asked
<1>6. CASE Compute
  <2>1. stage' = "start" /\ NoteRoots
    BY <1>6 DEF Compute, Advance
  <2>2. CASE CountedAs \in {"tcp_requests", "ipc_requests", "process_spawns"}
    <3>1. "COMMIT" \in RootsOf(Cap)
      BY <2>2 DEF CountedAs, RootsOf, Root
    <3>2. done' = done + 1
      BY <1>3, <1>6, <2>2 DEF Compute, Effect
    <3>3. QED
      BY <1>1, <1>2, <1>5, <2>1, <3>1, <3>2 DEF InProgress
  <2>3. CASE CountedAs \in {"timer_events", "none"}
    <3>1. done' = done
      BY <1>3, <1>4, <1>6, <2>3 DEF Compute, Effect
    <3>2. QED
      BY <1>1, <1>2, <1>5, <2>1, <3>1 DEF InProgress
  <2>4. CountedAs \in {"tcp_requests", "ipc_requests", "process_spawns", "timer_events", "none"}
    BY DEF CountedAs
  <2>5. QED
    BY <2>2, <2>3, <2>4
<1>7. CASE OpenCandidate \/ AppendText
  <2>1. "COMMIT" \in RootsOf(Cap) /\ NoteRoots /\ InProgress = 0
    BY <1>7 DEF OpenCandidate, AppendText, Writes, RootsOf, InProgress
  <2>2. done' = done /\ InProgress' = 1
    BY <1>4, <1>7 DEF OpenCandidate, AppendText, Executing, InProgress
  <2>3. asked' = asked + 1
    BY <1>2, <2>1
  <2>4. QED
    BY <1>1, <1>5, <2>1, <2>2, <2>3
<1>8. CASE Rename \/ AppendNewline
  <2>1. InProgress = 1 /\ InProgress' = 0
    BY <1>8 DEF Rename, AppendNewline, Executing, Advance, InProgress
  <2>2. done' = done + 1 /\ root_counts' = root_counts
    BY <1>3, <1>8 DEF Rename, AppendNewline, Effect
  <2>3. QED
    BY <1>1, <1>5, <2>1, <2>2 DEF asked
<1>9. CASE FillCandidate \/ Finish \/ Start \/ UNCHANGED vars
  <2>1. InProgress' = InProgress \/ InProgress' = 0
    <3>1. CASE FillCandidate
      BY <3>1 DEF FillCandidate, Executing, InProgress
    <3>2. CASE Finish \/ Start
      BY <3>2 DEF Finish, Start, InProgress
    <3>3. CASE UNCHANGED vars
      BY <3>3 DEF vars, InProgress
    <3>4. QED
      BY <1>9, <3>1, <3>2, <3>3
  <2>2. done' = done /\ root_counts' = root_counts
    BY <1>4, <1>9 DEF FillCandidate, Finish, Start, vars, counters
  <2>3. QED
    BY <1>1, <1>5, <2>1, <2>2 DEF asked
<1>10. ASSUME NEW ep \in Episode, Begin(ep)
       PROVE  RootsInv'
  BY <1>1, <1>4, <1>5, <1>10 DEF Begin, counters, InProgress, asked
<1>11. CASE Fail
  <2>1. InProgress' = 0 /\ done' = done
    BY <1>4, <1>11 DEF Fail, InProgress
  <2>2. NoteRoots \/ root_counts' = root_counts
    BY <1>11 DEF Fail
  <2>3. QED
    BY <1>1, <1>2, <1>5, <2>1, <2>2 DEF asked
<1>12. CASE Crash
  BY <1>12 DEF Crash, RootsInv, EffectSum, InProgress, NoEffects, Effect, Root
<1>13. QED
  BY <1>6, <1>7, <1>8, <1>9, <1>10, <1>11, <1>12 DEF Next, Step

(* Every commit and every request that completed was counted among the     *)
(* root capabilities when it began: the counters stay accountable across   *)
(* errors, aborted episodes and restarts (executor.rs:91-108, 171-198).    *)
THEOREM RootsAccount == Spec => []RootsCoverEffects
<1>1. Init => RootsInv
  BY DEF Init, RootsInv, EffectSum, InProgress, NoEffects, Effect, Root
<1>2. TypeInv /\ RootsInv /\ [Next]_vars => RootsInv'
  BY RootsStep
<1>3. TypeInv /\ RootsInv => RootsCoverEffects
  BY DEF TypeInv, TypeOK, RootsInv, RootsCoverEffects, EffectSum, InProgress, Effect, Root
<1>4. QED
  BY <1>1, <1>2, <1>3, TypeCorrect, PTL DEF Spec, TypeInv

----------------------------------------------------------------------------
(* Success.  From its first completed fs.write on, an episode finds its    *)
(* own file at its output, and a candidate beside it only while another    *)
(* fs.write of the same episode is under way.                              *)

HasWritten == \E i \in 1..(pos - 1) : episode.ops[i] = "fs.write"

OwnFile(f) == f.exists /\ f.whole /\ f.by = idx

Rewriting == Cap = "fs.write" /\ stage # "start"

FreshOutput ==
  /\ OwnFile(disk[episode.output])
  /\ ~Rewriting => ~disk[CandidateOf[episode.output]].exists

SuccessInv ==
  /\ phase = "running" =>
       /\ outcome # "ok"
       /\ pos > Len(episode.ops) => stage = "start"
       /\ Cap = "fs.write" /\ stage = "filled" => OwnFile(disk[Candidate])
       /\ HasWritten => FreshOutput
  /\ SuccessLeavesItsOutput

(* The paths of an fs.write and of a state.write are four different ones.  *)
LEMMA FourPaths ==
  ASSUME TypeOK, CandidatesApart
  PROVE  LET out == episode.output
             tmp == CandidateOf[episode.output]
         IN  /\ {out, tmp, StateFile, StateCandidate} \subseteq DOMAIN disk
             /\ out # tmp /\ out # StateFile /\ out # StateCandidate
             /\ tmp # StateFile /\ tmp # StateCandidate /\ StateFile # StateCandidate
<1>1. episode.output \in Output
  BY DEF TypeOK, Episode
<1>2. CandidateOf[episode.output] \in Range(CandidateOf)
  BY <1>1, ExecutorAssumption DEF Range
<1>3. StateFile # StateCandidate
  BY DEF StateFile, StateCandidate
<1>4. QED
  BY <1>1, <1>2, <1>3, ExecutorAssumption DEF CandidatesApart, TypeOK, Path

(* Every step of an episode but fs.write leaves its two files alone.       *)
LEMMA OtherSteps ==
  ASSUME TypeInv, CandidatesApart, SuccessInv, phase = "running",
         UNCHANGED <<idx, episode>>, phase' = "running", outcome' # "ok",
         Cap # "fs.write",
         disk'[episode.output] = disk[episode.output],
         disk'[CandidateOf[episode.output]] = disk[CandidateOf[episode.output]],
         \/ pos' = pos /\ pos <= Len(episode.ops)
         \/ pos' = pos + 1 /\ stage' = "start"
  PROVE  SuccessInv'
<1>1. pos \in Nat /\ Len(episode.ops) \in Nat
  BY ExecutorAssumption DEF TypeInv, TypeOK, Episode
<1>2. HasWritten' => HasWritten
  BY <1>1 DEF HasWritten, Cap
<1>3. ~Rewriting /\ ~Rewriting'
  BY <1>1 DEF Rewriting, Cap
<1>4. HasWritten' => FreshOutput'
  BY <1>2, <1>3 DEF SuccessInv, FreshOutput, OwnFile
<1>5. Cap' = "fs.write" => stage' # "filled"
  BY <1>1 DEF Cap
<1>6. pos' > Len(episode'.ops) => stage' = "start"
  BY <1>1
<1>7. SuccessLeavesItsOutput'
  BY DEF SuccessLeavesItsOutput
<1>8. QED
  BY <1>4, <1>5, <1>6, <1>7 DEF SuccessInv

LEMMA SuccessStep ==
  ASSUME TypeInv, CandidatesApart, SuccessInv, [Next]_vars
  PROVE  SuccessInv'
<1> DEFINE out == episode.output
           tmp == CandidateOf[episode.output]
<1>1. /\ {out, tmp, StateFile, StateCandidate} \subseteq DOMAIN disk
      /\ out # tmp /\ out # StateFile /\ out # StateCandidate
      /\ tmp # StateFile /\ tmp # StateCandidate /\ StateFile # StateCandidate
  BY FourPaths DEF TypeInv
<1>2. pos \in Nat /\ Len(episode.ops) \in Nat /\ pos >= 1
  BY ExecutorAssumption DEF TypeInv, TypeOK, Episode
<1>3. CASE Compute
  <2>1. Cap # "fs.write"
    BY <1>3 DEF Compute, Yields
  <2>2. QED
    BY <1>3, <2>1, OtherSteps DEF Compute, Executing, Advance, SuccessInv
<1>4. CASE OpenCandidate
  <2>1. CASE Cap = "fs.write"
    <3>1. disk'[out] = disk[out] /\ stage' = "open" /\ UNCHANGED <<phase, pos, episode, idx, outcome>>
      BY <1>1, <1>4, <2>1 DEF OpenCandidate, Candidate
    <3>2. Rewriting' /\ Cap' = Cap /\ (HasWritten' <=> HasWritten)
      BY <2>1, <3>1 DEF Rewriting, Cap, HasWritten
    <3>3. phase = "running" /\ pos <= Len(episode.ops)
      BY <1>4 DEF OpenCandidate, Executing
    <3>4. HasWritten' => FreshOutput'
      BY <3>1, <3>2, <3>3 DEF SuccessInv, FreshOutput, OwnFile
    <3>5. QED
      BY <1>2, <3>1, <3>3, <3>4 DEF SuccessInv, SuccessLeavesItsOutput
  <2>2. CASE Cap = "state.write"
    <3>1. disk'[out] = disk[out] /\ disk'[tmp] = disk[tmp]
      BY <1>1, <1>4, <2>2 DEF OpenCandidate, Candidate
    <3>2. QED
      BY <1>4, <2>2, <3>1, OtherSteps DEF OpenCandidate, Executing, SuccessInv
  <2>3. QED
    BY <1>4, <2>1, <2>2 DEF OpenCandidate, Writes
<1>5. CASE FillCandidate
  <2>1. CASE Cap = "fs.write"
    <3>1. /\ disk'[out] = disk[out] /\ disk'[tmp] = File(TRUE, IsEmpty, idx, state_runs)
          /\ stage' = "filled" /\ UNCHANGED <<phase, pos, episode, idx, outcome>>
      BY <1>1, <1>5, <2>1 DEF FillCandidate, Candidate
    <3>2. Rewriting' /\ Cap' = Cap /\ (HasWritten' <=> HasWritten) /\ Candidate' = tmp
      BY <2>1, <3>1 DEF Rewriting, Cap, HasWritten, Candidate
    <3>3. OwnFile(disk[Candidate])'
      BY <3>1, <3>2 DEF OwnFile, File
    <3>4. QED
      BY <1>2, <1>5, <3>1, <3>2, <3>3
      DEF FillCandidate, Executing, SuccessInv, FreshOutput, OwnFile, SuccessLeavesItsOutput
  <2>2. CASE Cap = "state.write"
    <3>1. disk'[out] = disk[out] /\ disk'[tmp] = disk[tmp]
      BY <1>1, <1>5, <2>2 DEF FillCandidate, Candidate
    <3>2. QED
      BY <1>5, <2>2, <3>1, OtherSteps DEF FillCandidate, Executing, SuccessInv
  <2>3. QED
    BY <1>5, <2>1, <2>2 DEF FillCandidate, Writes
<1>6. CASE Rename
  <2>1. CASE Cap = "fs.write"
    <3>1. OwnFile(disk[tmp])
      BY <1>6, <2>1 DEF Rename, Executing, SuccessInv, Candidate
    <3>2. disk'[out] = disk[tmp] /\ disk'[tmp] = NoFile
      BY <1>1, <1>6, <2>1 DEF Rename, Candidate, Target
    <3>3. stage' = "start" /\ UNCHANGED <<phase, episode, idx, outcome>>
      BY <1>6 DEF Rename, Advance
    <3>4. FreshOutput'
      BY <3>1, <3>2, <3>3 DEF FreshOutput, OwnFile, NoFile
    <3>5. QED
      BY <1>6, <3>3, <3>4 DEF Rename, Executing, SuccessInv, SuccessLeavesItsOutput
  <2>2. CASE Cap = "state.write"
    <3>1. disk'[out] = disk[out] /\ disk'[tmp] = disk[tmp]
      BY <1>1, <1>6, <2>2 DEF Rename, Candidate, Target
    <3>2. QED
      BY <1>6, <2>2, <3>1, OtherSteps DEF Rename, Executing, Advance, SuccessInv
  <2>3. QED
    BY <1>6, <2>1, <2>2 DEF Rename, Writes
<1>7. CASE AppendText \/ AppendNewline
  BY <1>7, OtherSteps DEF AppendText, AppendNewline, Executing, Advance, SuccessInv
<1>8. ASSUME NEW ep \in Episode, Begin(ep)
      PROVE  SuccessInv'
  <2>1. ~HasWritten' /\ Len(ep.ops) \in Nat
    BY <1>8, ExecutorAssumption DEF Begin, HasWritten, Episode
  <2>2. QED
    BY <1>8, <2>1 DEF Begin, SuccessInv, SuccessLeavesItsOutput
<1>9. CASE Finish
  <2>1. SuccessLeavesItsOutput'
    <3>1. SUFFICES ASSUME outcome' = "ok", "fs.write" \in Range(episode.ops)
                   PROVE  OwnFile(disk[out]) /\ ~disk[out].empty /\ ~disk[tmp].exists
      BY <1>9 DEF Finish, SuccessLeavesItsOutput, OwnFile
    <3>2. Verified
      BY <1>9, <3>1 DEF Finish
    <3>3. PICK i \in 1..Len(episode.ops) : episode.ops[i] = "fs.write"
      BY <3>1, ExecutorAssumption DEF Range, TypeInv, TypeOK, Episode
    <3>4. HasWritten
      BY <1>2, <1>9, <3>3 DEF Finish, HasWritten
    <3>5. FreshOutput /\ ~Rewriting
      BY <1>9, <3>4 DEF Finish, SuccessInv, Rewriting
    <3>6. QED
      BY <3>1, <3>2, <3>5 DEF FreshOutput, Verified
  <2>2. QED
    BY <1>9, <2>1 DEF Finish, SuccessInv
<1>10. CASE Start \/ Fail \/ Crash
  BY <1>10 DEF Start, Fail, Crash, SuccessInv, SuccessLeavesItsOutput
<1>11. CASE UNCHANGED vars
  BY <1>11 DEF vars, SuccessInv, SuccessLeavesItsOutput, HasWritten, FreshOutput, OwnFile,
               Rewriting, Cap, Candidate
<1>12. QED
  BY <1>3, <1>4, <1>5, <1>6, <1>7, <1>8, <1>9, <1>10, <1>11 DEF Next, Step

(* As long as no output is named like a candidate: an episode that reports *)
(* success has replaced its output by a complete, non-empty file of its    *)
(* own and left no candidate file beside it, although any number of        *)
(* episodes before it may have failed or been interrupted half-way         *)
(* (executor.rs:170-205).                                                  *)
THEOREM SuccessIsReal ==
  ASSUME CandidatesApart
  PROVE  Spec => []SuccessLeavesItsOutput
<1>1. Init => SuccessInv
  BY DEF Init, SuccessInv, SuccessLeavesItsOutput
<1>2. TypeInv /\ SuccessInv /\ [Next]_vars => SuccessInv'
  BY SuccessStep
<1>3. SuccessInv => SuccessLeavesItsOutput
  BY DEF SuccessInv
<1>4. QED
  BY <1>1, <1>2, <1>3, TypeCorrect, PTL DEF Spec, TypeInv
=============================================================================
