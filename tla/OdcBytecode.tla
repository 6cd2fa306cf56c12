----------------------------- MODULE OdcBytecode -----------------------------
(***************************************************************************)
(* The two encodings of a task program.  The explicit one has a 16-bit     *)
(* word for every root token of every capability (opcode, capability,      *)
(* operand); the dense one has a byte for every capability (capability,    *)
(* signature of its roots, two reserved bits).  A decoder that meets a     *)
(* word it does not accept throws: here its result is Bad.                 *)
(***************************************************************************)
EXTENDS OdcWorkloads

CONSTANT Bad

(* CAPS: the capability at place id + 1, and the slot each works on.       *)
CAPS == <<fs_read, state_read, proc_observe, timer_observe, http_request, ipc_request,
          process_run, transform_extract, transform_summarize, fs_write, state_write, notify_send>>

CapId(cap) == CHOOSE id \in 0..(Len(CAPS) - 1) : CAPS[id + 1] = cap

(* 0 to 5: NONE, SOURCE, OUTPUT, URL, STATE, TEMP. *)
OperandOf(cap) ==
  CASE cap \in {proc_observe, timer_observe} -> 0
    [] cap \in {fs_read, process_run} -> 1
    [] cap = fs_write -> 2
    [] cap = http_request -> 3
    [] cap \in {state_read, state_write} -> 4
    [] cap \in {ipc_request, transform_extract, transform_summarize, notify_send} -> 5

RootOps == <<"OBSERVE", "DERIVE", "COMMIT">>   \* OBS = 0, DRV = 1, CMT = 2
RootOp(root) == CHOOSE op \in 0..2 : RootOps[op + 1] = root

RootsOf(ops) == Flatten([i \in DOMAIN ops |-> CapRoot(ops[i])])

----------------------------------------------------------------------------
(* The 16-bit word: bits 15:14 the opcode, 13:8 the capability, 7:0 the    *)
(* operand; opcode 3 is reserved.                                          *)

(* (Mutant: the capability runs into the opcode.)                          *)
pack_unmasked(op, cap, operand) == (op * 8192) + (cap * 256) + operand

pack(op, cap, operand) == (op * 16384) + ((cap % 64) * 256) + operand

op_of(w)      == (w \div 16384) % 4
cap_of(w)     == (w \div 256) % 64
operand_of(w) == w % 256
valid_word(w) == op_of(w) # 3 /\ cap_of(w) < Len(CAPS)

CapOf(w) == CAPS[cap_of(w) + 1]

Words(cap) == [j \in DOMAIN CapRoot(cap) |-> pack(RootOp(CapRoot(cap)[j]), CapId(cap), OperandOf(cap))]

compile_caps(ops) == Flatten([i \in DOMAIN ops |-> Words(ops[i])])

(* The words from place i on start with the whole expansion of one         *)
(* capability; decode_caps compares the operands too, execute_bytecode     *)
(* does not.                                                               *)
Expands(p, i, operands) ==
  /\ valid_word(p[i])
  /\ LET roots == CapRoot(CapOf(p[i]))
     IN  /\ i + Len(roots) <= Len(p) + 1
         /\ \A j \in DOMAIN roots :
              LET w == p[i + j - 1]
              IN  /\ cap_of(w) = cap_of(p[i]) /\ op_of(w) = RootOp(roots[j])
                  /\ operands => operand_of(w) = OperandOf(CapOf(p[i]))

(* The capabilities a program stands for, up to the first words that do    *)
(* not expand, and whether that is all of it.                              *)
Walk(p, operands) ==
  LET from[i \in 1..(Len(p) + 1)] ==
        IF i = Len(p) + 1 THEN [caps |-> <<>>, complete |-> TRUE]
        ELSE IF ~Expands(p, i, operands) THEN [caps |-> <<>>, complete |-> FALSE]
        ELSE LET rest == from[i + Len(CapRoot(CapOf(p[i])))]
             IN  [rest EXCEPT !.caps = <<CapOf(p[i])>> \o @]
  IN  from[1]

decode_caps(p) == IF Walk(p, TRUE).complete THEN Walk(p, TRUE).caps ELSE Bad

decode_roots(p) ==
  IF \E i \in DOMAIN p : ~valid_word(p[i]) THEN Bad
  ELSE [i \in DOMAIN p |-> RootOps[op_of(p[i]) + 1]]

----------------------------------------------------------------------------
(* The byte: bits 7:4 the capability, 3:2 its signature, 1:0 reserved.     *)

Signatures == <<<<"OBSERVE">>, <<"DERIVE">>, <<"DERIVE", "COMMIT">>, <<"DERIVE", "COMMIT", "OBSERVE">>>>

signature_of(roots) == CHOOSE s \in 0..3 : Signatures[s + 1] = roots
roots_of_signature(s) == Signatures[(s % 4) + 1]

dense_pack(id) == id * 16 + signature_of(CapRoot(CAPS[id + 1])) * 4
dense_cap(w) == (w \div 16) % 16
dense_sig(w) == (w \div 4) % 4

(* (Mutant: the reserved bits are not looked at.)                          *)
dense_valid_reserved(w) ==
  /\ dense_cap(w) < Len(CAPS)
  /\ roots_of_signature(dense_sig(w)) = CapRoot(CAPS[dense_cap(w) + 1])

dense_valid(w) ==
  /\ w % 4 = 0
  /\ dense_cap(w) < Len(CAPS)
  /\ roots_of_signature(dense_sig(w)) = CapRoot(CAPS[dense_cap(w) + 1])

compile_dense(ops) == [i \in DOMAIN ops |-> dense_pack(CapId(ops[i]))]

(* As Walk: the capabilities before the first byte that is not valid.      *)
DenseWalk(p) ==
  LET valid == IF \A i \in DOMAIN p : dense_valid(p[i]) THEN Len(p)
               ELSE Min({i \in DOMAIN p : ~dense_valid(p[i])}) - 1
  IN  [caps |-> [i \in 1..valid |-> CAPS[dense_cap(p[i]) + 1]], complete |-> valid = Len(p)]

dense_decode_caps(p) == IF DenseWalk(p).complete THEN DenseWalk(p).caps ELSE Bad

dense_decode_roots(p) ==
  IF \E i \in DOMAIN p : ~dense_valid(p[i]) THEN Bad
  ELSE Flatten([i \in DOMAIN p |-> roots_of_signature(dense_sig(p[i]))])
=============================================================================
