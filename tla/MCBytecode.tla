----------------------------- MODULE MCBytecode -----------------------------
(***************************************************************************)
(* The prototype on the workload it has, with tables as large as a 16-bit  *)
(* id allows and with tables of a few blocks; the sizes RESULTS.md         *)
(* publishes, and what the two encodings promise for any program.          *)
(***************************************************************************)
EXTENDS BytecodeMachine

(* A task that drifts twice, and one that does not: only their last        *)
(* workflows are final tasks.                                              *)
Drifting ==
  <<Ep(0, Task("one"), Hash), Ep(0, Task("one"), Ipc), Ep(0, Task("two"), Http), Ep(0, Task("one"), Hash)>>

MCWorkloads == {ReferenceWorkload, Drifting}

(* RESULTS.md: 57 final tasks round-trip exactly through both formats, and *)
(* the bytes of the representations; the bytes of a table are those of its *)
(* blocks.  The ids of an old and a drifted workflow differ.               *)
TableBytes(table) == MapThenSumSet(LAMBDA i : Len(table.blocks[i]), DOMAIN table.blocks)

Published == learned.episodes = 99

PublishedRepresentation ==
  /\ Published /\ pc = "compile" /\ at > Len(learned.final_tasks) =>
       /\ Len(learned.final_tasks) = 57 /\ Len(learned.derived) = 11
       /\ <<report.roundtrip, report.root_equivalent, report.dense_roundtrip>> = <<57, 57, 57>>
       /\ <<report.byte_total, report.dense_total>> = <<892, 273>>
       /\ report.task_refs + 2 * TableBytes(explicit) = 334
       /\ report.task_refs + TableBytes(dense) = 182
  /\ pc = "done" =>
       /\ report.all_uniform /\ report.immutable
       /\ Published => Len(learned.subset) = 12 /\ SelfTest
       /\ Failures = 0 => Succeeds

----------------------------------------------------------------------------
(* Both encodings are exact, on every program of up to three words over a  *)
(* few words (valid and not, with a wrong operand) and every single word:  *)
(* what a decoder accepts is the encoding of what it returns, so no two    *)
(* programs decode to one workflow; what runs as bytecode runs the         *)
(* capabilities decoding gives, though running does not look at operands;  *)
(* and every workflow of two steps decodes to itself.                      *)
SomeSlots == {<<0, 1>>, <<0, 2>>, <<4, 3>>, <<9, 2>>, <<9, 3>>, <<12, 1>>}
SomeWords == {pack(op, slot[1], slot[2]) : op \in 0..3, slot \in SomeSlots}
SomeBytes == {id * 16 + low : id \in {0, 4, 9, 12}, low \in 0..15}

(* What a word and a byte can hold.                                        *)
Byte == 0..(16 * 16 - 1)
Word == 0..(256 * 256 - 1)

Upto3(words) == UNION {[1..n -> words] : n \in 1..3}

FormatsAreExact ==
  (pc = "compile" /\ at = 1 /\ limit = Max(Limits) /\ Published) =>
    /\ \A p \in Upto3(SomeWords) \cup [1..1 -> Word] :
         decode_caps(p) # Bad =>
           /\ compile_caps(decode_caps(p)) = p
           /\ decode_roots(p) = RootsOf(decode_caps(p))
           /\ Walk(p, FALSE) = [caps |-> decode_caps(p), complete |-> TRUE]
    /\ \A p \in [1..2 -> SomeBytes] \cup [1..1 -> Byte] :
         dense_decode_caps(p) # Bad =>
           /\ compile_dense(dense_decode_caps(p)) = p
           /\ dense_decode_roots(p) = RootsOf(dense_decode_caps(p))
    /\ \A ops \in [1..2 -> Capability] :
         /\ decode_caps(compile_caps(ops)) = ops
         /\ dense_decode_caps(compile_dense(ops)) = ops

(* RESULTS.md says 12/12 selected live Linux workflow shapes completed: no *)
(* run ends in the audit of its own roots.                                 *)
AuditsReturn == pc # "crashed"
=============================================================================
