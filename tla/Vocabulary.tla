----------------------------- MODULE Vocabulary -----------------------------
(***************************************************************************)
(* The learned dictionary of drm-core (vocabulary.rs, capability.rs) as    *)
(* operators on the value of the dictionary.                               *)
(*                                                                         *)
(* A symbol is a capability the runtime knows, a foreign name (any other   *)
(* string a caller may put in `ops`), or a derived word.  Derived words    *)
(* are named d001, d002, ... by a counter that only grows and no word is   *)
(* ever removed, so the word d<k> is the number k, and the dictionary is   *)
(* the sequence of the definitions in the order they were learned: the     *)
(* counter is its length.  A foreign name may be a number: a caller is     *)
(* free to write "d001" in `ops`.                                          *)
(***************************************************************************)
EXTENDS Integers, Sequences, FiniteSets, Functions, FiniteSetsExt

CONSTANTS Capability,    \* the names root_expansion maps to root tokens
          Foreign        \* every other name a caller may use

ASSUME NamesApart == Capability \cap (Foreign \cup Nat) = {}

Symbol == Capability \cup Foreign \cup Nat

----------------------------------------------------------------------------
(* Contiguous occurrences.                                                 *)

OccursAt(p, s, i) ==
  /\ i + Len(p) - 1 <= Len(s)
  /\ SubSeq(s, i, i + Len(p) - 1) = p

Occurs(p, s) == Len(p) > 0 /\ \E i \in 1..Len(s) : OccursAt(p, s, i)

(* The growth candidates of a sequence: its contiguous subsequences of     *)
(* length 2 to 5, as note_subseqs and note_p enumerate them.               *)
MinCandidate == 2
MaxCandidate == 5

(* (Mutant: the last window of every length is missed.)                    *)
CandidatesDropLast(s) ==
  UNION {{SubSeq(s, i, i + n - 1) : i \in 1..(Len(s) - n)} : n \in MinCandidate..MaxCandidate}

Candidates(s) ==
  UNION {{SubSeq(s, i, i + n - 1) : i \in 1..(Len(s) - n + 1)} : n \in MinCandidate..MaxCandidate}

----------------------------------------------------------------------------
(* Expansion of a symbol to capabilities.  NoExpansion stands for both     *)
(* errors, Cycle and Unknown: no caller tells them apart, and no symbol    *)
(* expands to the empty sequence.                                          *)

NoExpansion == <<>>

Flatten(parts) ==
  LET upTo[n \in 0..Len(parts)] == IF n = 0 THEN <<>> ELSE upTo[n - 1] \o parts[n]
  IN  upTo[Len(parts)]

(* (Mutant: a symbol stays on the stack after its expansion, so a second   *)
(* use of it in one definition is taken for a cycle.)                      *)
ExpandKeepsStack(dict, symbol) ==
  LET expand[stack \in SUBSET DOMAIN dict] == [sym \in Symbol |->
        IF sym \in Capability THEN <<sym>>
        ELSE IF sym \notin DOMAIN dict \ stack THEN NoExpansion
        ELSE LET before(i) == {dict[sym][j] : j \in 1..(i - 1)} \ Capability
                 parts == [i \in DOMAIN dict[sym] |->
                             expand[stack \cup {sym} \cup before(i)][dict[sym][i]]]
             IN  IF NoExpansion \in Range(parts) THEN NoExpansion ELSE Flatten(parts)]
  IN  expand[{}][symbol]

(* expand[stack][sym] is expand_rec with the symbols on its stack.         *)
Expand(dict, symbol) ==
  LET expand[stack \in SUBSET DOMAIN dict] == [sym \in Symbol |->
        IF sym \in Capability THEN <<sym>>
        ELSE IF sym \notin DOMAIN dict \ stack THEN NoExpansion
        ELSE LET parts == [i \in DOMAIN dict[sym] |-> expand[stack \cup {sym}][dict[sym][i]]]
             IN  IF NoExpansion \in Range(parts) THEN NoExpansion ELSE Flatten(parts)]
  IN  expand[{}][symbol]

(* What the expandable derived words stand for.                            *)
Expansions(dict) == {Expand(dict, w) : w \in DOMAIN dict} \ {NoExpansion}

(* Every derived word reduces to capabilities, hence to root tokens: the   *)
(* root expansion of a known capability is never empty and holds roots     *)
(* only, whatever the capability.                                          *)
Audit(dict) == \A w \in DOMAIN dict : Expand(dict, w) # NoExpansion

(* The height of the definition tree of a symbol; 0 for a capability.      *)
Depth(dict, symbol) ==
  LET depth[sym \in Symbol] ==
        IF sym \in Capability THEN 0
        ELSE 1 + Max({depth[dict[sym][i]] : i \in DOMAIN dict[sym]} \cup {0})
  IN  depth[symbol]

MaxDepth(dict) ==
  Max({Depth(dict, w) : w \in {v \in DOMAIN dict : Expand(dict, v) # NoExpansion}} \cup {0})

----------------------------------------------------------------------------
(* The greedy longest-match compressor, for a set of patterns.  Two        *)
(* patterns of one length that match at one place are the same pattern, so *)
(* the order among equal lengths only picks a name (see Name below).       *)

Matching(s, i, patterns) == {p \in patterns : Len(p) >= 2 /\ OccursAt(p, s, i)}

Piece(s, i, patterns) ==
  LET hits == Matching(s, i, patterns)
  IN  IF hits = {} THEN <<s[i]>>
      ELSE CHOOSE p \in hits : \A q \in hits : Len(q) <= Len(p)

(* (Mutant: the scan advances by one symbol after a match.)                *)
ScanStepOne(at) ==
  LET from[i \in Nat] == IF i \in DOMAIN at THEN <<at[i]>> \o from[i + 1] ELSE <<>>
  IN  from[1]

(* What the scan picks up from left to right, where at[i] is the piece it  *)
(* takes at place i.                                                       *)
Scan(at) ==
  LET from[i \in Nat] ==
        IF i \in DOMAIN at THEN LET p == at[i] IN <<p>> \o from[i + Len(p)] ELSE <<>>
  IN  from[1]

(* The pieces compress_with cuts s into, one per symbol of its result.     *)
Pieces(s, patterns) == Scan([i \in 1..Len(s) |-> Piece(s, i, patterns)])

(* The symbol a piece becomes: itself when it is one symbol that no word   *)
(* stands for, else the first word in name order with that expansion.      *)
Name(dict, piece) ==
  IF Len(piece) = 1 THEN piece[1]
  ELSE Min({w \in DOMAIN dict : Expand(dict, w) = piece})

Compress(dict, s) ==
  LET pieces == Pieces(s, Expansions(dict))
  IN  [i \in DOMAIN pieces |-> Name(dict, pieces[i])]

(* The length of compress_with(s, extra), where extra holds the expansion  *)
(* of each word that is not in the dictionary.                             *)
CompressedLen(dict, s, extra) == Len(Pieces(s, Expansions(dict) \cup extra))

(* (Mutant: the tokenizer is the greedy longest match.)                    *)
SemanticCostGreedy(s, patterns) == Len(Pieces(s, patterns))

(* HybridPlanner's tokenizer: the least number of tokens that cover s, at  *)
(* each position one symbol or one word that matches there.                *)
SemanticCost(s, patterns) ==
  LET cost[i \in 1..(Len(s) + 1)] ==
        IF i > Len(s) THEN 0
        ELSE 1 + Min({cost[i + 1]} \cup {cost[i + Len(p)] : p \in Matching(s, i, patterns)})
  IN  cost[1]

----------------------------------------------------------------------------
(* The middle of `new` left when the common prefix and then the common     *)
(* suffix with `old` are trimmed (DrmPlanner::diff_middle).                *)

CommonPrefix(old, new) ==
  Max({n \in 0..Min({Len(old), Len(new)}) : SubSeq(old, 1, n) = SubSeq(new, 1, n)})

(* (Mutant: the suffix may overlap the prefix.)                            *)
CommonSuffixOverlap(old, new, prefix) ==
  Max({n \in 0..Min({Len(old), Len(new)}) :
         SubSeq(old, Len(old) - n + 1, Len(old)) = SubSeq(new, Len(new) - n + 1, Len(new))})

CommonSuffix(old, new, prefix) ==
  Max({n \in 0..(Min({Len(old), Len(new)}) - prefix) :
         SubSeq(old, Len(old) - n + 1, Len(old)) = SubSeq(new, Len(new) - n + 1, Len(new))})

DiffMiddle(old, new) ==
  LET prefix == CommonPrefix(old, new)
  IN  SubSeq(new, prefix + 1, Len(new) - CommonSuffix(old, new, prefix))
=============================================================================
