---------------------------- MODULE LiveExecutor ----------------------------
(***************************************************************************)
(* LiveExecutor (executor.rs): one episode at a time runs its capabilities *)
(* in order over a single data buffer; writers commit to the work          *)
(* directory.  The process may stop between any two system calls and be    *)
(* started again; what is in the directory survives, what is in memory     *)
(* does not.                                                               *)
(*                                                                         *)
(* Of the data only whether it is empty matters.  A file is described by   *)
(* whether its writing was completed, whether it is empty, the index of    *)
(* the episode that wrote it and, for state.txt, the run count it holds.   *)
(***************************************************************************)
EXTENDS Integers, Sequences, FiniteSets, FiniteSetsExt, Functions

CONSTANTS Task,          \* task names, perhaps the empty string
          Program,       \* the capability sequences episodes carry
          Output,        \* the output paths they name
          CandidateOf    \* output -> the path with_extension("candidate") gives

StateFile      == "state.txt"
StateCandidate == "state.candidate"
Path == Output \cup Range(CandidateOf) \cup {StateFile, StateCandidate}

ASSUME ExecutorAssumption ==
  /\ Program \subseteq Seq(STRING)
  /\ DOMAIN CandidateOf = Output
  /\ {StateFile, StateCandidate} \cap (Output \cup Range(CandidateOf)) = {}

VARIABLES phase,         \* "down", "idle" or "running"
          idx,           \* how many episodes this work directory has seen
          episode,       \* the last episode
          pos,           \* the position of the capability being executed
          stage,         \* how far that capability is: "start", "open", "filled", "text"
          data,          \* "empty" or "text"
          outcome,       \* of the last episode: "none", "ok" or "error"
          state_runs,
          effects,       \* commits, process_spawns, tcp_requests, ipc_requests, timer_events
          root_counts,
          disk,          \* path -> file
          log            \* notifications.log: "text" and "newline" as written

vars == <<phase, idx, episode, pos, stage, data, outcome,
          state_runs, effects, root_counts, disk, log>>
counters == <<state_runs, effects, root_counts>>

Episode == [task : Task, ops : Program, output : Output]

NoFile == [exists |-> FALSE]
File(whole, empty, by, runs) ==
  [exists |-> TRUE, whole |-> whole, empty |-> empty, by |-> by, runs |-> runs]

(* root_expansion, as a set: no capability names a root token twice.       *)
Root == {"OBSERVE", "DERIVE", "COMMIT"}
(* (Mutant: ipc.request is not taken for a commit.)                        *)
RootsOfWithoutIpc(cap) ==
  CASE cap \in {"fs.read", "state.read", "proc.observe", "timer.observe"} -> {"OBSERVE"}
    [] cap \in {"http.request", "process.run"} -> Root
    [] cap = "ipc.request" -> {"DERIVE", "OBSERVE"}
    [] cap \in {"transform.extract", "transform.summarize"} -> {"DERIVE"}
    [] cap \in {"fs.write", "state.write", "notify.send"} -> {"DERIVE", "COMMIT"}
    [] OTHER -> {}

RootsOf(cap) ==
  CASE cap \in {"fs.read", "state.read", "proc.observe", "timer.observe"} -> {"OBSERVE"}
    [] cap \in {"http.request", "ipc.request", "process.run"} -> Root
    [] cap \in {"transform.extract", "transform.summarize"} -> {"DERIVE"}
    [] cap \in {"fs.write", "state.write", "notify.send"} -> {"DERIVE", "COMMIT"}
    [] OTHER -> {}

Effect == {"commits", "process_spawns", "tcp_requests", "ipc_requests", "timer_events"}
NoEffects == [field \in Effect |-> 0]

Init ==
  /\ phase = "down"
  /\ idx = 0
  /\ episode \in Episode
  /\ pos = 1
  /\ stage = "start"
  /\ data = "empty"
  /\ outcome = "none"
  /\ state_runs = 0
  /\ effects = NoEffects
  /\ root_counts = [r \in Root |-> 0]
  /\ disk = [p \in Path |-> NoFile]
  /\ log = <<>>

----------------------------------------------------------------------------
Cap == episode.ops[pos]
Executing == phase = "running" /\ pos <= Len(episode.ops)

(* note_roots runs first, whether or not the capability then succeeds.     *)
NoteRoots == root_counts' = [r \in Root |-> root_counts[r] + (IF r \in RootsOf(Cap) THEN 1 ELSE 0)]

Advance == pos' = pos + 1 /\ stage' = "start"

Count(field) == effects' = [effects EXCEPT ![field] = @ + 1]

(* LiveExecutor::start.                                                    *)
Start ==
  /\ phase = "down"
  /\ phase' = "idle"
  /\ UNCHANGED <<idx, episode, pos, stage, data, outcome, counters, disk, log>>

Begin(ep) ==
  /\ phase = "idle"
  /\ phase' = "running"
  /\ idx' = idx + 1
  /\ episode' = ep
  /\ pos' = 1
  /\ stage' = "start"
  /\ data' = "empty"
  /\ outcome' = "none"
  /\ UNCHANGED <<counters, disk, log>>

(* The capabilities that only replace the buffer, and what they may leave  *)
(* in it.  The round trip of ipc.request sends the task's name when the    *)
(* buffer is empty, and never returns when that is empty too (see          *)
(* FixtureServers).                                                        *)
Yields ==
  CASE Cap \in {"fs.read", "proc.observe"} -> {"empty", "text"}
    [] Cap \in {"state.read", "timer.observe", "http.request",
                "process.run", "transform.summarize"} -> {"text"}
    [] Cap = "ipc.request" -> IF data = "empty" /\ episode.task = "" THEN {} ELSE {"text"}
    [] Cap = "transform.extract" -> {"empty", data}
    [] OTHER -> {}

CountedAs ==
  CASE Cap = "timer.observe" -> "timer_events"
    [] Cap = "http.request" -> "tcp_requests"
    [] Cap = "ipc.request" -> "ipc_requests"
    [] Cap = "process.run" -> "process_spawns"
    [] OTHER -> "none"

Compute ==
  /\ Executing
  /\ data' \in Yields
  /\ NoteRoots
  /\ \/ CountedAs = "none" /\ UNCHANGED effects
     \/ CountedAs # "none" /\ Count(CountedAs)
  /\ Advance
  /\ UNCHANGED <<phase, idx, episode, outcome, state_runs, disk, log>>

(* fs.write and state.write: create the candidate file, fill it, rename it *)
(* over the target.                                                        *)
Writes == Cap \in {"fs.write", "state.write"}
Target == IF Cap = "fs.write" THEN episode.output ELSE StateFile
(* (Mutant: the target is written in place.)                               *)
CandidateInPlace == Target

Candidate == IF Cap = "fs.write" THEN CandidateOf[episode.output] ELSE StateCandidate
IsEmpty == Cap = "fs.write" /\ data = "empty"

OpenCandidate ==
  /\ Executing /\ Writes /\ stage = "start"
  /\ NoteRoots
  /\ state_runs' = state_runs + (IF Cap = "state.write" THEN 1 ELSE 0)
  /\ disk' = [disk EXCEPT ![Candidate] = File(FALSE, TRUE, idx, state_runs')]
  /\ stage' = "open"
  /\ UNCHANGED <<phase, idx, episode, pos, data, outcome, effects, log>>

FillCandidate ==
  /\ Executing /\ Writes /\ stage = "open"
  /\ disk' = [disk EXCEPT ![Candidate] = File(TRUE, IsEmpty, idx, state_runs)]
  /\ stage' = "filled"
  /\ UNCHANGED <<phase, idx, episode, pos, data, outcome, counters, log>>

Rename ==
  /\ Executing /\ Writes /\ stage = "filled"
  /\ disk' = [disk EXCEPT ![Candidate] = NoFile, ![Target] = disk[Candidate]]
  /\ Count("commits")
  /\ Advance
  /\ UNCHANGED <<phase, idx, episode, data, outcome, state_runs, root_counts, log>>

(* notify.send: writeln! on an unbuffered file writes the text and the     *)
(* newline with one system call each; an empty text needs none.            *)
AppendText ==
  /\ Executing /\ Cap = "notify.send" /\ stage = "start"
  /\ NoteRoots
  /\ log' = IF data = "empty" THEN log ELSE Append(log, "text")
  /\ stage' = "text"
  /\ UNCHANGED <<phase, idx, episode, pos, data, outcome, state_runs, effects, disk>>

AppendNewline ==
  /\ Executing /\ Cap = "notify.send" /\ stage = "text"
  /\ log' = Append(log, "newline")
  /\ Count("commits")
  /\ Advance
  /\ UNCHANGED <<phase, idx, episode, data, outcome, state_runs, root_counts, disk>>

(* An error returns at once; what was already written stays.  The run      *)
(* count and the root counts of a capability that fails at its first call  *)
(* have been raised.  A capability the executor does not know always fails.*)
Infallible == {"state.read", "proc.observe", "timer.observe",
               "transform.extract", "transform.summarize"}

(* (Mutant: an unknown capability is not refused.)                         *)
FailKnownOnly ==
  /\ Executing /\ Cap \notin Infallible /\ RootsOf(Cap) # {}
  /\ ~(Cap = "ipc.request" /\ Yields = {})
  /\ phase' = "idle"
  /\ outcome' = "error"
  /\ UNCHANGED <<idx, episode, pos, stage, data, counters, disk, log>>

Fail ==
  /\ Executing /\ Cap \notin Infallible
  /\ ~(Cap = "ipc.request" /\ Yields = {})
  /\ phase' = "idle"
  /\ outcome' = "error"
  /\ \/ /\ stage = "start"
        /\ NoteRoots
        /\ state_runs' = state_runs + (IF Cap = "state.write" THEN 1 ELSE 0)
     \/ stage # "start" /\ UNCHANGED <<root_counts, state_runs>>
  /\ UNCHANGED <<idx, episode, pos, stage, data, effects, disk, log>>

(* The last check: an episode that wrote must have left a non-empty file.  *)
(* (Mutant: nothing is verified.)                                          *)
VerifiedAlways == TRUE

Verified ==
  "fs.write" \in Range(episode.ops) =>
    disk[episode.output].exists /\ ~disk[episode.output].empty

Finish ==
  /\ phase = "running" /\ pos > Len(episode.ops)
  /\ phase' = "idle"
  /\ outcome' = IF Verified THEN "ok" ELSE "error"
  /\ UNCHANGED <<idx, episode, pos, stage, data, counters, disk, log>>

(* The process stops between two system calls.                             *)
Crash ==
  /\ phase # "down"
  /\ phase' = "down"
  /\ outcome' = "none"
  /\ state_runs' = 0
  /\ effects' = NoEffects
  /\ root_counts' = [r \in Root |-> 0]
  /\ UNCHANGED <<idx, episode, pos, stage, data, disk, log>>

Step == Compute \/ OpenCandidate \/ FillCandidate \/ Rename
          \/ AppendText \/ AppendNewline \/ Fail \/ Finish

Next == Start \/ (\E ep \in Episode : Begin(ep)) \/ Step \/ Crash

Spec == Init /\ [][Next]_vars

(* The thread that executes an episode keeps running.                      *)
FairSpec == Spec /\ WF_vars(Step)
----------------------------------------------------------------------------
FileOK(f) ==
  f = NoFile \/ f \in [exists : {TRUE}, whole : BOOLEAN, empty : BOOLEAN,
                       by : 1..idx, runs : Nat]

TypeOK ==
  /\ phase \in {"down", "idle", "running"}
  /\ episode \in Episode
  /\ pos \in 1..(Len(episode.ops) + 1)
  /\ stage \in {"start", "open", "filled", "text"}
  /\ data \in {"empty", "text"}
  /\ outcome \in {"none", "ok", "error"}
  /\ idx \in Nat /\ state_runs \in Nat
  /\ effects \in [Effect -> Nat]
  /\ root_counts \in [Root -> Nat]
  /\ DOMAIN disk = Path /\ \A p \in Path : FileOK(disk[p])
  /\ log \in Seq({"text", "newline"})

Targets == Output \cup {StateFile}

(* Every commit is atomic: a target holds nothing or one completely        *)
(* written file at every moment, whatever was interrupted, and what was    *)
(* once committed is only ever replaced by another complete file           *)
(* (serve.rs:17-20; executor.rs:170-188).                                  *)
CommitsAreAtomic ==
  [][\A p \in Targets :
       /\ disk'[p].exists => disk'[p].whole
       /\ disk[p].exists => disk'[p].exists]_vars

(* An episode that reports success has replaced its output by a complete,  *)
(* non-empty file of its own, and left no candidate file there, not even   *)
(* one that an interrupted episode left before (executor.rs:170-205).      *)
SuccessLeavesItsOutput ==
  outcome = "ok" /\ "fs.write" \in Range(episode.ops) =>
    LET out == disk[episode.output]
    IN  /\ out.exists
        /\ out.whole /\ ~out.empty /\ out.by = idx
        /\ ~disk[CandidateOf[episode.output]].exists

(* The counters never claim more than the root counts explain: every       *)
(* commit and every request that completed was counted as a COMMIT when it *)
(* began, also across failed episodes (executor.rs:91-108, 171-198).       *)
RootsCoverEffects ==
  effects["commits"] + effects["process_spawns"]
      + effects["tcp_requests"] + effects["ipc_requests"]
    <= root_counts["COMMIT"]

(* An episode that begins ends, in success or error, unless the process    *)
(* stops (executor.rs:97-207).                                             *)
EpisodeEnds == (phase = "running") ~> (phase # "running")

=============================================================================
