--------------------------- MODULE BytecodeMachine ---------------------------
(***************************************************************************)
(* The near-machine prototype at work (bc::run): it learns a workload,     *)
(* compiles each final task into both encodings and interns the programs   *)
(* in two block tables; then it executes a selection of the workflows in   *)
(* five modes, each against an executor of its own, and audits the roots   *)
(* of what it executed.                                                    *)
(*                                                                         *)
(* The order of the tasks is fixed but is not the order of their names, so *)
(* that the ids differ by a renaming.  The content of files, the times and *)
(* the dispatch benchmark are left out.                                    *)
(***************************************************************************)
EXTENDS OdcBytecode

CONSTANTS Workloads,     \* sequences of episodes a run learns
          Limits,        \* how many blocks a table may hold: 65535, or few
          MaxFailures,   \* bound: executions that fail, over all modes
          MaxLive        \* how many distinct workflows are executed: 12

(* The episodes of a workload consist of capabilities (main.cpp workload). *)
ASSUME MachineAssumption ==
  /\ Limits \subseteq Nat
  /\ \A workload \in Workloads :
       /\ workload \in Seq(Range(workload))
       /\ \A ep \in Range(workload) : ep.ops \in Seq(Capability)

Modes == <<"graph", "bytecode", "block", "dense", "dense_block">>

VARIABLES pc,         \* what is done next
          learned,    \* final_tasks, planner.vocab and the subset to execute
          at,         \* the place of the task or workflow at hand
          mode,       \* the place of the mode at hand, 0 before the first
          limit,      \* what a table may hold
          explicit,   \* BlockTable
          dense,      \* DenseBlockTable
          report,     \* what the representation audit sums up
          executors,  \* the counters of each mode's LiveExecutor
          live_ok     \* the workflows each mode completed

vars == <<pc, learned, at, mode, limit, explicit, dense, report, executors, live_ok>>

(* unique_exec_subset: the first episode of each distinct workflow, until  *)
(* there are enough.                                                       *)
Selected(out, ops) ==
  IF Len(out) < MaxLive /\ ops \notin Range(out) THEN Append(out, ops) ELSE out

UniqueExecSubset(workload) ==
  LET out[i \in 0..Len(workload)] ==
        IF i = 0 THEN <<>> ELSE Selected(out[i - 1], workload[i].ops)
  IN  out[Len(workload)]

(* planner.plan over the workload, and what it leaves.                     *)
Learned(workload) ==
  LET after[i \in 0..Len(workload)] ==
        IF i = 0 THEN NewPlanner(8, 3, 0, 0) ELSE BasePlan(after[i - 1], workload[i])
      planner == after[Len(workload)]
      append(task, tasks) == Append(tasks, planner.history[task])
  IN  [episodes    |-> Len(workload),
       final_tasks |-> FoldSet(append, <<>>, DOMAIN planner.history),
       derived     |-> planner.derived,
       subset      |-> UniqueExecSubset(workload)]

NewTable == [blocks |-> <<>>, by_ops |-> <<>>]

Init ==
  /\ pc = "compile" /\ at = 1 /\ mode = 0
  /\ limit \in Limits
  /\ \E workload \in Workloads : learned = Learned(workload)
  /\ explicit = NewTable /\ dense = NewTable
  /\ report = [roundtrip |-> 0, root_equivalent |-> 0, dense_roundtrip |-> 0, byte_total |-> 0,
               dense_total |-> 0, task_refs |-> 0, all_uniform |-> TRUE, immutable |-> FALSE]
  /\ executors = [m \in Range(Modes) |-> [OBSERVE |-> 0, DERIVE |-> 0, COMMIT |-> 0, commits |-> 0]]
  /\ live_ok = [m \in Range(Modes) |-> 0]

----------------------------------------------------------------------------
(* intern: the id of a program already there, or the next one; a full      *)
(* table throws, and what it throws ends the program.  Ids count from 0.   *)

(* (Mutant: the id is taken after the block is appended.)                  *)
InternLate(table, ops, program) ==
  IF ops \in DOMAIN table.by_ops THEN table
  ELSE [blocks |-> Append(table.blocks, program),
        by_ops |-> Put(table.by_ops, ops, Len(table.blocks) + 1)]

Intern(table, ops, program) ==
  IF ops \in DOMAIN table.by_ops THEN table
  ELSE [blocks |-> Append(table.blocks, program),
        by_ops |-> Put(table.by_ops, ops, Len(table.blocks))]

Full(table, ops) == ops \notin DOMAIN table.by_ops /\ Len(table.blocks) >= limit

Interned(ops) ==
  /\ explicit' = Intern(explicit, ops, compile_caps(ops))
  /\ dense' = Intern(dense, ops, compile_dense(ops))

(* (Mutant: the block before the one the id names.)                        *)
BlockBefore(table, ops) == table.blocks[Max({1, table.by_ops[ops]})]

(* get: the program an id names.                                           *)
Block(table, ops) == table.blocks[table.by_ops[ops] + 1]

Abort ==
  /\ pc' = "aborted"
  /\ UNCHANGED <<at, mode, explicit, dense, report>>

----------------------------------------------------------------------------
(* The representation audit of one task.                                   *)
CompileTask ==
  /\ pc = "compile" /\ at <= Len(learned.final_tasks)
  /\ LET ops == learned.final_tasks[at]
         p   == compile_caps(ops)
         dp  == compile_dense(ops)
     IN  \/ Full(explicit, ops) /\ Abort
         \/ /\ ~Full(explicit, ops)
            /\ Interned(ops)
            /\ report' = [report EXCEPT
                 !.roundtrip = @ + Count(decode_caps(p) = ops),
                 !.root_equivalent = @ + Count(decode_roots(p) = RootsOf(ops)),
                 !.dense_roundtrip =
                   @ + Count(dense_decode_caps(dp) = ops /\ dense_decode_roots(dp) = decode_roots(p)),
                 !.byte_total = @ + 2 * Len(p), !.dense_total = @ + Len(dp), !.task_refs = @ + 2]
            /\ at' = at + 1
            /\ UNCHANGED <<pc, mode>>
  /\ UNCHANGED <<learned, limit, executors, live_ok>>

(* The audit of the vocabulary: each word expanded and compiled.           *)
AuditWords ==
  /\ pc = "compile" /\ at > Len(learned.final_tasks)
  /\ report' = [report EXCEPT !.all_uniform =
       \A w \in DOMAIN learned.derived :
         LET caps == Expand(learned.derived, w)
         IN  decode_caps(compile_caps(caps)) = caps]
  /\ pc' = "execute" /\ at' = 1
  /\ UNCHANGED <<mode, learned, limit, explicit, dense, executors, live_ok>>

----------------------------------------------------------------------------
(* A workflow is interned in both tables, unless it is a final task and is *)
(* there already.                                                          *)
BeginWorkflow ==
  /\ pc = "execute" /\ at <= Len(learned.subset) /\ mode = 0
  /\ \/ Full(explicit, learned.subset[at]) /\ Abort
     \/ /\ ~Full(explicit, learned.subset[at])
        /\ Interned(learned.subset[at])
        /\ mode' = 1
        /\ UNCHANGED <<pc, at, report>>
  /\ UNCHANGED <<learned, limit, executors, live_ok>>

(* What a mode runs: graph execution walks the capabilities, the others a  *)
(* program, compiled for this workflow or taken from a table.              *)
Executable(m, ops) ==
  CASE m = "graph"       -> [caps |-> ops, complete |-> TRUE]
    [] m = "bytecode"    -> Walk(compile_caps(ops), FALSE)
    [] m = "block"       -> Walk(Block(explicit, ops), FALSE)
    [] m = "dense"       -> DenseWalk(compile_dense(ops))
    [] m = "dense_block" -> DenseWalk(Block(dense, ops))

Failures == (at - 1) * Len(Modes) + Max({0, mode - 1}) - MapThenSumSet(LAMBDA m : live_ok[m], Range(Modes))

CountedRoots(caps, root) ==
  LET roots == RootsOf(caps) IN Cardinality({i \in DOMAIN roots : roots[i] = root})

Commits(caps) == Cardinality({i \in DOMAIN caps : caps[i] \in {fs_write, state_write, notify_send}})

(* The roots of a capability are counted before it runs, its commit after. *)
Charged(ex, begun, finished) ==
  [OBSERVE |-> ex.OBSERVE + CountedRoots(begun, "OBSERVE"),
   DERIVE  |-> ex.DERIVE + CountedRoots(begun, "DERIVE"),
   COMMIT  |-> ex.COMMIT + CountedRoots(begun, "COMMIT"),
   commits |-> ex.commits + Commits(finished)]

(* One workflow in one mode.  A capability may fail, of a workflow that    *)
(* writes a file the verification of the output at the end.                *)
ExecuteMode ==
  /\ pc = "execute" /\ mode \in DOMAIN Modes
  /\ LET m == Modes[mode]
         x == Executable(m, learned.subset[at])
     IN  \/ /\ executors' = [executors EXCEPT ![m] = Charged(@, x.caps, x.caps)]
            /\ live_ok' = [live_ok EXCEPT ![m] = @ + Count(x.complete)]
         \/ /\ Failures < MaxFailures
            /\ \/ \E i \in DOMAIN x.caps :
                    executors' = [executors EXCEPT
                      ![m] = Charged(@, SubSeq(x.caps, 1, i), SubSeq(x.caps, 1, i - 1))]
               \/ /\ fs_write \in Range(learned.subset[at])
                  /\ executors' = [executors EXCEPT ![m] = Charged(@, x.caps, x.caps)]
            /\ UNCHANGED live_ok
  /\ mode' = mode + 1
  /\ UNCHANGED <<pc, at, learned, limit, explicit, dense, report>>

(* The audit of the roots of an executed workflow walks from the begin() of *)
(* one decode_roots(p) to the end() of another: what it tells is not used, *)
(* but it may run off the first vector and crash.                          *)
AuditWorkflow ==
  /\ pc = "execute" /\ mode > Len(Modes)
  /\ \/ pc' = "crashed" /\ UNCHANGED <<at, mode>>
     \/ at' = at + 1 /\ mode' = 0 /\ UNCHANGED pc
  /\ UNCHANGED <<learned, limit, explicit, dense, report, executors, live_ok>>

(* An old and a drifted program are interned side by side, and their roots *)
(* audited in the same way.                                                *)
OldOps == <<fs_read, transform_summarize, fs_write, notify_send>>
NewOps == <<fs_read, transform_extract, transform_summarize, fs_write, notify_send>>

HistoricalAudit ==
  /\ pc = "execute" /\ at > Len(learned.subset)
  /\ LET withOld == Intern(explicit, OldOps, compile_caps(OldOps))
         table   == Intern(withOld, NewOps, compile_caps(NewOps))
     IN  \/ (Full(explicit, OldOps) \/ Full(withOld, NewOps)) /\ Abort
         \/ /\ ~Full(explicit, OldOps) /\ ~Full(withOld, NewOps)
            /\ explicit' = table
            /\ report' = [report EXCEPT !.immutable =
                 /\ table.by_ops[OldOps] # table.by_ops[NewOps]
                 /\ decode_caps(Block(table, OldOps)) = OldOps
                 /\ decode_caps(Block(table, NewOps)) = NewOps]
            /\ pc' \in {"done", "crashed"}
            /\ UNCHANGED <<at, mode, dense>>
  /\ UNCHANGED <<learned, limit, executors, live_ok>>

Next == CompileTask \/ AuditWords \/ BeginWorkflow \/ ExecuteMode \/ AuditWorkflow \/ HistoricalAudit

Spec == Init /\ [][Next]_vars

----------------------------------------------------------------------------
(* What run returns once it has written its summary.                       *)
Succeeds ==
  /\ report.all_uniform /\ report.immutable
  /\ \A m \in Range(Modes) : live_ok[m] = Len(learned.subset)

(* --self-test: every word of a known capability is valid and gives back   *)
(* what it was packed from, one workflow round-trips through both formats  *)
(* in four words, and to intern it again adds no block.                    *)
SelfTest ==
  LET ops    == <<fs_read, transform_summarize, fs_write>>
      twice(program) == Intern(Intern(NewTable, ops, program), ops, program)
      p  == compile_caps(ops)
      dp == compile_dense(ops)
  IN  /\ \A op \in 0..2, id \in 0..(Len(CAPS) - 1) :
           LET w == pack(op, id, OperandOf(CAPS[id + 1]))
           IN  valid_word(w) /\ op_of(w) = op /\ cap_of(w) = id
      /\ decode_caps(p) = ops /\ decode_roots(p) = RootsOf(ops) /\ Len(p) = 4
      /\ dense_decode_caps(dp) = ops /\ dense_decode_roots(dp) = RootsOf(ops)
      /\ Len(twice(p).blocks) = 1 /\ Len(twice(dp).blocks) = 1

(* What both tables are for: the id of a workflow names a program that     *)
(* decodes to it, no two workflows share an id, the dense table holds no   *)
(* workflow the other lacks and neither outgrows what an id can name.      *)
TablesSound ==
  /\ \A table \in {explicit, dense} :
       /\ IsInjective(table.by_ops)
       /\ Range(table.by_ops) = 0..(Len(table.blocks) - 1)
       /\ Len(table.blocks) <= limit
  /\ DOMAIN dense.by_ops \subseteq DOMAIN explicit.by_ops
  /\ \A ops \in DOMAIN explicit.by_ops : decode_caps(Block(explicit, ops)) = ops
  /\ \A ops \in DOMAIN dense.by_ops : dense_decode_caps(Block(dense, ops)) = ops

(* RESULTS.md: the modes are one execution.  Modes that completed every    *)
(* workflow so far have counted the same roots and commits; one that       *)
(* failed has never counted more.                                          *)
ModesAgree ==
  pc = "execute" =>
    \A m \in Range(Modes), n \in Range(Modes) :
      LET done(k) == at - 1 + Count(mode > CHOOSE j \in DOMAIN Modes : Modes[j] = k)
      IN  done(m) = done(n) /\ live_ok[m] = done(m) =>
            /\ live_ok[n] = done(n) => executors[n] = executors[m]
            /\ \A c \in DOMAIN executors[m] : executors[n][c] <= executors[m][c]
=============================================================================
