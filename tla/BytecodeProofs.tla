--------------------------- MODULE BytecodeProofs ---------------------------
(***************************************************************************)
(* Both encodings are exact, for programs of every length; the block       *)
(* tables stay sound and the five modes one, for every workload.           *)
(***************************************************************************)
EXTENDS MCBytecode, VocabularyProofs

Roots == {"OBSERVE", "DERIVE", "COMMIT"}

----------------------------------------------------------------------------
(* The instruction set.                                                    *)

LEMMA RootOpIs ==
  /\ \A r \in Roots : RootOp(r) \in 0..2 /\ RootOps[RootOp(r) + 1] = r
  /\ \A op \in 0..2 : RootOps[op + 1] \in Roots /\ RootOp(RootOps[op + 1]) = op
<1>1. RootOps[1] = "OBSERVE" /\ RootOps[2] = "DERIVE" /\ RootOps[3] = "COMMIT"
  BY DEF RootOps
<1>2. ASSUME NEW r \in Roots
      PROVE  \E op \in 0..2 : RootOps[op + 1] = r
  <2>1. RootOps[0 + 1] = "OBSERVE" /\ RootOps[1 + 1] = "DERIVE" /\ RootOps[2 + 1] = "COMMIT"
    BY <1>1
  <2>2. QED
    BY <2>1 DEF Roots
<1>3. \A r \in Roots : RootOp(r) \in 0..2 /\ RootOps[RootOp(r) + 1] = r
  BY <1>2 DEF RootOp
<1>4. \A op \in 0..2 : RootOps[op + 1] \in Roots
  BY <1>1 DEF Roots
<1>5. \A a, b \in 0..2 : RootOps[a + 1] = RootOps[b + 1] => a = b
  BY <1>1
<1>6. QED
  BY <1>3, <1>4, <1>5

LEMMA CapsAre ==
  /\ Len(CAPS) = 12
  /\ \A id \in 0..11 : CAPS[id + 1] \in Capability
  /\ \A c \in Capability : \E id \in 0..11 : CAPS[id + 1] = c
  /\ \A a, b \in 0..11 : CAPS[a + 1] = CAPS[b + 1] => a = b
<1>1. /\ CapabilityOrder[1] = fs_read /\ CapabilityOrder[2] = fs_write
      /\ CapabilityOrder[3] = http_request /\ CapabilityOrder[4] = ipc_request
      /\ CapabilityOrder[5] = notify_send /\ CapabilityOrder[6] = proc_observe
      /\ CapabilityOrder[7] = process_run /\ CapabilityOrder[8] = state_read
      /\ CapabilityOrder[9] = state_write /\ CapabilityOrder[10] = timer_observe
      /\ CapabilityOrder[11] = transform_extract /\ CapabilityOrder[12] = transform_summarize
      /\ DOMAIN CapabilityOrder = 1..12
  BY DEF CapabilityOrder
<1>2. /\ CAPS[1] = fs_read /\ CAPS[2] = state_read /\ CAPS[3] = proc_observe
      /\ CAPS[4] = timer_observe /\ CAPS[5] = http_request /\ CAPS[6] = ipc_request
      /\ CAPS[7] = process_run /\ CAPS[8] = transform_extract /\ CAPS[9] = transform_summarize
      /\ CAPS[10] = fs_write /\ CAPS[11] = state_write /\ CAPS[12] = notify_send
      /\ Len(CAPS) = 12
  BY DEF CAPS
<1> DEFINE place == <<1, 8, 6, 10, 3, 4, 7, 11, 12, 2, 9, 5>>
<1>3. \A i \in 1..12 : place[i] \in 1..12 /\ CAPS[i] = CapabilityOrder[place[i]]
  BY <1>1, <1>2
<1>4. \A i, j \in 1..12 : place[i] = place[j] => i = j
  OBVIOUS
<1>5. \A k \in 1..12 : \E i \in 1..12 : place[i] = k
  <2>1. /\ place[1] = 1 /\ place[10] = 2 /\ place[5] = 3 /\ place[6] = 4 /\ place[12] = 5 /\ place[3] = 6
        /\ place[7] = 7 /\ place[2] = 8 /\ place[11] = 9 /\ place[4] = 10 /\ place[8] = 11 /\ place[9] = 12
    OBVIOUS
  <2> HIDE DEF place
  <2>2. QED
    BY <2>1
<1> HIDE DEF place
<1>6. \A k \in 1..12 : CapabilityOrder[k] \in Capability
  BY <1>1, CapabilitiesAssumption DEF Range
<1>7. \A c \in Capability : \E k \in 1..12 : CapabilityOrder[k] = c
  BY <1>1, CapabilitiesAssumption DEF Range
<1>8. \A id \in 0..11 : id + 1 \in 1..12
  OBVIOUS
<1>9. \A i \in 1..12 : i - 1 \in 0..11 /\ (i - 1) + 1 = i
  OBVIOUS
<1>10. \A a, b \in 0..11 : a + 1 = b + 1 => a = b
  OBVIOUS
<1>11. \A a, b \in 0..11 : CAPS[a + 1] = CAPS[b + 1] => a = b
  <2>1. \A i, j \in 1..12 : CAPS[i] = CAPS[j] => i = j
    <3>1. SUFFICES ASSUME NEW i \in 1..12, NEW j \in 1..12, CAPS[i] = CAPS[j]
                   PROVE  i = j
      OBVIOUS
    <3>2. place[i] \in 1..12 /\ place[j] \in 1..12 /\ CapabilityOrder[place[i]] = CapabilityOrder[place[j]]
      BY <1>3, <3>1
    <3>3. place[i] = place[j]
      BY <3>2, CapabilitiesAssumption
    <3>4. QED
      BY <1>4, <3>3
  <2>2. QED
    BY <1>8, <1>10, <2>1
<1>12. \A c \in Capability : \E id \in 0..11 : CAPS[id + 1] = c
  BY SMTT(30), <1>3, <1>5, <1>7, <1>9
<1>13. \A id \in 0..11 : CAPS[id + 1] \in Capability
  BY <1>3, <1>6, <1>8
<1>14. QED
  BY <1>2, <1>11, <1>12, <1>13

LEMMA CapIdIs ==
  /\ \A c \in Capability : CapId(c) \in 0..11 /\ CAPS[CapId(c) + 1] = c
  /\ \A id \in 0..11 : CapId(CAPS[id + 1]) = id
<1>1. 0..(Len(CAPS) - 1) = 0..11
  BY CapsAre
<1>2. \A c \in Capability : CapId(c) \in 0..11 /\ CAPS[CapId(c) + 1] = c
  BY <1>1, CapsAre DEF CapId
<1>3. QED
  BY <1>2, CapsAre

(* Distinct capabilities make each case of a definition the only one.      *)
LEMMA CapIsOne ==
  ASSUME NEW c \in Capability
  PROVE  /\ c \in {fs_read, state_read, proc_observe, timer_observe}
            \/ c \in {http_request, ipc_request, process_run}
            \/ c \in {transform_extract, transform_summarize}
            \/ c \in {fs_write, state_write, notify_send}
BY CapabilitiesAssumption DEF Range, CapabilityOrder

LEMMA CapRootIs ==
  ASSUME NEW c \in Capability
  PROVE  /\ CapRoot(c) \in Seq(Roots) /\ Len(CapRoot(c)) \in 1..3
         /\ CapRoot(c) \in {Signatures[s + 1] : s \in 0..3}
         /\ OperandOf(c) \in 0..5
<1>1. CapRoot(c) \in {<<"OBSERVE">>, <<"DERIVE", "COMMIT", "OBSERVE">>, <<"DERIVE">>, <<"DERIVE", "COMMIT">>}
  BY Zenon, CapIsOne DEF CapRoot
<1>2. \A r \in {<<"OBSERVE">>, <<"DERIVE", "COMMIT", "OBSERVE">>, <<"DERIVE">>, <<"DERIVE", "COMMIT">>} :
        r \in Seq(Roots) /\ Len(r) \in 1..3
  <2>1. <<"OBSERVE">> \in Seq(Roots) /\ Len(<<"OBSERVE">>) = 1
    BY DEF Roots
  <2>2. <<"DERIVE">> \in Seq(Roots) /\ Len(<<"DERIVE">>) = 1
    BY DEF Roots
  <2>3. <<"DERIVE", "COMMIT">> \in Seq(Roots) /\ Len(<<"DERIVE", "COMMIT">>) = 2
    BY DEF Roots
  <2>4. <<"DERIVE", "COMMIT", "OBSERVE">> \in Seq(Roots) /\ Len(<<"DERIVE", "COMMIT", "OBSERVE">>) = 3
    BY DEF Roots
  <2>5. 1 \in 1..3 /\ 2 \in 1..3 /\ 3 \in 1..3
    OBVIOUS
  <2>6. QED
    BY Zenon, <2>1, <2>2, <2>3, <2>4, <2>5
<1>3. /\ Signatures[0 + 1] = <<"OBSERVE">> /\ Signatures[1 + 1] = <<"DERIVE">>
      /\ Signatures[2 + 1] = <<"DERIVE", "COMMIT">> /\ Signatures[3 + 1] = <<"DERIVE", "COMMIT", "OBSERVE">>
  BY DEF Signatures
<1>4. OperandOf(c) \in 0..5
  BY CapIsOne DEF OperandOf
<1>5. 0 \in 0..3 /\ 1 \in 0..3 /\ 2 \in 0..3 /\ 3 \in 0..3
  OBVIOUS
<1>6. CapRoot(c) \in {Signatures[s + 1] : s \in 0..3}
  BY Zenon, <1>1, <1>3, <1>5
<1>7. QED
  BY <1>1, <1>2, <1>4, <1>6

----------------------------------------------------------------------------
(* The words.                                                              *)

(* Division, for the provers: quotient and remainder are the only ones.    *)
LEMMA ByteOf ==
  ASSUME NEW q \in Int, NEW r \in Int, 0 <= r, r < 256
  PROVE  (q * 256 + r) \div 256 = q /\ (q * 256 + r) % 256 = r
<1>1. PICK w \in Int : w = q * 256 + r
  OBVIOUS
<1>2. w \div 256 = q /\ w % 256 = r
  BY <1>1, Z3
<1>3. QED
  BY <1>1, <1>2

LEMMA OpcodeOf ==
  ASSUME NEW q \in Int, NEW r \in Int, 0 <= r, r < 16384
  PROVE  (q * 16384 + r) \div 16384 = q
<1>1. PICK w \in Int : w = q * 16384 + r
  OBVIOUS
<1>2. w \div 16384 = q
  BY <1>1, Z3
<1>3. QED
  BY <1>1, <1>2

LEMMA SlotOf ==
  ASSUME NEW q \in Int, NEW r \in Int, 0 <= r, r < 64
  PROVE  (q * 64 + r) \div 64 = q /\ (q * 64 + r) % 64 = r
<1>1. PICK w \in Int : w = q * 64 + r
  OBVIOUS
<1>2. w \div 64 = q /\ w % 64 = r
  BY <1>1, Z3
<1>3. QED
  BY <1>1, <1>2

LEMMA UpToIs ==
  ASSUME NEW n \in Int, NEW w \in Int, 0 <= w, w <= n
  PROVE  w \in 0..n
OBVIOUS

LEMMA UpToWord ==
  ASSUME NEW n \in Int, n = 256 * 256 - 1, NEW w \in Int, 0 <= w, w <= n
  PROVE  w \in Word
<1>1. w \in 0..n
  BY Zenon, UpToIs
<1>2. QED
  BY Zenon, <1>1 DEF Word

LEMMA WordIs ==
  ASSUME NEW w \in Int, 0 <= w, w < 65536
  PROVE  w \in Word
<1>1. PICK n \in Int : n = 256 * 256 - 1
  OBVIOUS
<1>2. w <= n
  BY <1>1, Z3
<1>3. QED
  BY <1>1, <1>2, UpToWord

LEMMA PackIs ==
  ASSUME NEW op \in Int, 0 <= op, op < 3, NEW id \in Int, 0 <= id, id < 12,
         NEW operand \in Int, 0 <= operand, operand < 6
  PROVE  LET w == pack(op, id, operand)
         IN  /\ w \in Word /\ valid_word(w)
             /\ op_of(w) = op /\ cap_of(w) = id /\ operand_of(w) = operand
<1>1. id % 64 = id
  OBVIOUS
<1>2. PICK w \in Int : w = op * 16384 + (id * 256 + operand)
  OBVIOUS
<1>3. pack(op, id, operand) = w
  BY <1>1, <1>2 DEF pack
<1>4. w \in Word
  <2>1. 0 <= w /\ w < 65536
    BY <1>2
  <2>2. QED
    BY <2>1, WordIs
<1>5. PICK q \in Int : q = op * 64 + id
  OBVIOUS
<1>6. w = q * 256 + operand
  BY <1>2, <1>5
<1>7. w \div 256 = q /\ w % 256 = operand
  BY <1>6, ByteOf
<1>8. q % 64 = id
  BY <1>5, SlotOf
<1>9. PICK r \in Int : r = id * 256 + operand /\ 0 <= r /\ r < 16384
  OBVIOUS
<1>10. w \div 16384 = op
  <2>1. w = op * 16384 + r
    BY <1>2, <1>9
  <2>2. QED
    BY <1>9, <2>1, OpcodeOf
<1>11. op % 4 = op
  OBVIOUS
<1>12. op_of(w) = op
  BY <1>10, <1>11 DEF op_of
<1>13. cap_of(w) = id
  BY <1>7, <1>8 DEF cap_of
<1>14. operand_of(w) = operand
  BY <1>7 DEF operand_of
<1>15. valid_word(w)
  <2>1. op # 3 /\ id < Len(CAPS)
    BY CapsAre
  <2>2. QED
    BY Zenon, <1>12, <1>13, <2>1 DEF valid_word
<1>16. QED
  BY <1>3, <1>4, <1>12, <1>13, <1>14, <1>15

LEMMA UnpackIs ==
  ASSUME NEW w \in Word
  PROVE  /\ op_of(w) \in 0..3 /\ cap_of(w) \in 0..63 /\ operand_of(w) \in 0..255
         /\ pack(op_of(w), cap_of(w), operand_of(w)) = w
<1>1. w \in Int /\ 0 <= w /\ w < 65536
  BY DEF Word
<1>2. PICK q \in Int, r \in Int : q = w \div 256 /\ r = w % 256
  BY <1>1
<1>3. w = q * 256 + r /\ 0 <= r /\ r < 256
  BY <1>1, <1>2, Z3
<1>4. 0 <= q /\ q < 256
  BY <1>1, <1>3
<1>5. PICK t \in Int, c \in Int : t = q \div 64 /\ c = q % 64
  OBVIOUS
<1>6. q = t * 64 + c /\ 0 <= c /\ c < 64
  BY <1>5, Z3
<1>7. 0 <= t /\ t < 4
  BY <1>4, <1>6
<1>8. PICK m \in Int : m = c * 256 + r /\ 0 <= m /\ m < 16384
  BY <1>3, <1>6
<1>9. w = t * 16384 + m
  BY <1>3, <1>6, <1>8
<1>10. w \div 16384 = t
  BY <1>8, <1>9, OpcodeOf
<1>11. t % 4 = t /\ c % 64 = c
  BY <1>6, <1>7
<1>12. op_of(w) = t
  BY <1>10, <1>11 DEF op_of
<1>13. cap_of(w) = c
  BY <1>2, <1>5 DEF cap_of
<1>14. operand_of(w) = r
  BY <1>2 DEF operand_of
<1>15. pack(t, c, r) = t * 16384 + (c * 256 + r)
  BY <1>11 DEF pack
<1>16. pack(t, c, r) = w
  BY <1>8, <1>9, <1>15
<1>17. t \in 0..3 /\ c \in 0..63 /\ r \in 0..255
  BY <1>3, <1>6, <1>7
<1>18. QED
  BY SMTT(30), <1>12, <1>13, <1>14, <1>16, <1>17

----------------------------------------------------------------------------
(* Programs, one capability at a time.                                     *)

LEMMA FrontInduction ==
  ASSUME NEW X, NEW T, <<>> \in T,
         \A x \in X : \A s \in Seq(X) : s \in T => <<x>> \o s \in T
  PROVE  \A s \in Seq(X) : s \in T
<1> DEFINE L == {n \in Nat : \A s \in Seq(X) : Len(s) = n => s \in T}
<1>1. 0 \in L
  OBVIOUS
<1>2. ASSUME NEW n \in Nat, n \in L
      PROVE  n + 1 \in L
  <2>1. SUFFICES ASSUME NEW s \in Seq(X), Len(s) = n + 1
                 PROVE  s \in T
    OBVIOUS
  <2>2. s # <<>>
    BY <2>1
  <2>3. Head(s) \in X /\ Tail(s) \in Seq(X) /\ Len(Tail(s)) = n /\ s = <<Head(s)>> \o Tail(s)
    BY <2>1, <2>2
  <2>4. QED
    BY <1>2, <2>3
<1> HIDE DEF L
<1>3. ASSUME NEW n \in Nat
      PROVE  n \in L
  <2>1. \A k \in 0..(n - 1) : k \in L => k + 1 \in L
    BY <1>2
  <2>2. \A k \in 0..n : k \in L
    BY <1>1, <2>1, InductionUpTo
  <2>3. QED
    BY <2>2
<1>4. \A s \in Seq(X) : Len(s) \in L
  BY <1>3
<1>5. QED
  BY <1>4 DEF L

LEMMA JoinIs ==
  ASSUME NEW X, NEW a \in X, NEW t \in Seq(X), NEW s \in Seq(X),
         Len(s) = 1 + Len(t), s[1] = a, \A i \in 1..Len(t) : s[i + 1] = t[i]
  PROVE  s = <<a>> \o t
<1>1. <<a>> \in Seq(X) /\ Len(<<a>>) = 1 /\ <<a>>[1] = a
  OBVIOUS
<1>2. /\ <<a>> \o t \in Seq(X) /\ Len(<<a>> \o t) = 1 + Len(t)
      /\ \A i \in 1..(1 + Len(t)) : (<<a>> \o t)[i] = IF i <= 1 THEN <<a>>[i] ELSE t[i - 1]
  BY <1>1, ConcatProperties
<1>3. ASSUME NEW i \in 1..Len(s)
      PROVE  s[i] = (<<a>> \o t)[i]
  <2>1. CASE i = 1
    BY <1>1, <1>2, <2>1
  <2>2. CASE i # 1
    <3>1. i - 1 \in 1..Len(t) /\ (i - 1) + 1 = i /\ ~(i <= 1)
      BY <2>2
    <3>2. QED
      BY <1>2, <3>1
  <2>3. QED
    BY <2>1, <2>2
<1>4. QED
  BY <1>2, <1>3, SeqEqual

LEMMA WordsAre ==
  ASSUME NEW c \in Capability
  PROVE  /\ Words(c) \in Seq(Word) /\ Len(Words(c)) = Len(CapRoot(c))
         /\ \A j \in 1..Len(CapRoot(c)) :
              /\ Words(c)[j] \in Word /\ valid_word(Words(c)[j])
              /\ op_of(Words(c)[j]) = RootOp(CapRoot(c)[j])
              /\ cap_of(Words(c)[j]) = CapId(c) /\ operand_of(Words(c)[j]) = OperandOf(c)
<1>1. CapRoot(c) \in Seq(Roots) /\ OperandOf(c) \in 0..5 /\ CapId(c) \in 0..11
  BY CapRootIs, CapIdIs
<1>2. PICK n \in Nat : n = Len(CapRoot(c)) /\ DOMAIN CapRoot(c) = 1..n
  BY <1>1
<1>3. ASSUME NEW j \in 1..n
      PROVE  /\ Words(c)[j] \in Word /\ valid_word(Words(c)[j])
             /\ op_of(Words(c)[j]) = RootOp(CapRoot(c)[j])
             /\ cap_of(Words(c)[j]) = CapId(c) /\ operand_of(Words(c)[j]) = OperandOf(c)
  <2>1. CapRoot(c)[j] \in Roots
    BY <1>1, <1>2
  <2>2. PICK op \in Int : op = RootOp(CapRoot(c)[j]) /\ 0 <= op /\ op < 3
    BY <2>1, RootOpIs
  <2>3. PICK id \in Int : id = CapId(c) /\ 0 <= id /\ id < 12
    BY <1>1
  <2>4. PICK operand \in Int : operand = OperandOf(c) /\ 0 <= operand /\ operand < 6
    BY <1>1
  <2>5. Words(c)[j] = pack(op, id, operand)
    BY <1>2, <2>2, <2>3, <2>4 DEF Words
  <2>6. QED
    BY <2>2, <2>3, <2>4, <2>5, PackIs
<1>4. Words(c) \in Seq(Word) /\ Len(Words(c)) = n
  <2>1. Words(c) = [j \in 1..n |-> Words(c)[j]]
    BY <1>2 DEF Words
  <2>2. QED
    BY <1>3, <2>1, IsASeq, LenProperties
<1>5. QED
  BY <1>2, <1>3, <1>4

LEMMA CompileFirst ==
  ASSUME NEW c \in Capability, NEW rest \in Seq(Capability)
  PROVE  /\ compile_caps(<<c>> \o rest) = Words(c) \o compile_caps(rest)
         /\ RootsOf(<<c>> \o rest) = CapRoot(c) \o RootsOf(rest)
         /\ compile_caps(rest) \in Seq(Word) /\ RootsOf(rest) \in Seq(Roots)
<1> DEFINE ops == <<c>> \o rest
<1>1. /\ ops \in Seq(Capability) /\ Len(ops) = 1 + Len(rest) /\ ops[1] = c
      /\ \A i \in 2..Len(ops) : ops[i] = rest[i - 1]
      /\ DOMAIN ops = 1..Len(ops) /\ DOMAIN rest = 1..Len(rest) /\ Len(rest) \in Nat
  OBVIOUS
<1> HIDE DEF ops
<1> DEFINE ws == [i \in DOMAIN rest |-> Words(rest[i])]
           rs == [i \in DOMAIN rest |-> CapRoot(rest[i])]
           allws == [i \in DOMAIN ops |-> Words(ops[i])]
           allrs == [i \in DOMAIN ops |-> CapRoot(ops[i])]
<1>2. ASSUME NEW s \in Seq(Capability)
      PROVE  /\ [i \in DOMAIN s |-> Words(s[i])] \in Seq(Seq(Word))
             /\ [i \in DOMAIN s |-> CapRoot(s[i])] \in Seq(Seq(Roots))
             /\ Len([i \in DOMAIN s |-> Words(s[i])]) = Len(s)
             /\ Len([i \in DOMAIN s |-> CapRoot(s[i])]) = Len(s)
  <2>1. \A i \in 1..Len(s) : s[i] \in Capability
    OBVIOUS
  <2>2. \A i \in 1..Len(s) : Words(s[i]) \in Seq(Word) /\ CapRoot(s[i]) \in Seq(Roots)
    BY <2>1, WordsAre, CapRootIs
  <2>3. DOMAIN s = 1..Len(s) /\ Len(s) \in Nat
    OBVIOUS
  <2>4. QED
    BY <2>2, <2>3, IsASeq
<1>3. /\ ws \in Seq(Seq(Word)) /\ rs \in Seq(Seq(Roots)) /\ Len(ws) = Len(rest) /\ Len(rs) = Len(rest)
      /\ allws \in Seq(Seq(Word)) /\ allrs \in Seq(Seq(Roots))
      /\ Len(allws) = Len(ops) /\ Len(allrs) = Len(ops)
  BY <1>1, <1>2
<1>4. /\ allws[1] = Words(c) /\ allrs[1] = CapRoot(c)
      /\ \A i \in 1..Len(rest) : allws[i + 1] = ws[i] /\ allrs[i + 1] = rs[i]
  <2>1. 1 \in DOMAIN ops
    BY <1>1
  <2>2. \A i \in 1..Len(rest) : i + 1 \in 2..Len(ops) /\ i + 1 \in DOMAIN ops /\ (i + 1) - 1 = i
    BY <1>1
  <2>3. QED
    BY <1>1, <2>1, <2>2
<1>5. Words(c) \in Seq(Word) /\ CapRoot(c) \in Seq(Roots)
  BY WordsAre, CapRootIs
<1>6. compile_caps(ops) = Flatten(allws) /\ compile_caps(rest) = Flatten(ws)
      /\ RootsOf(ops) = Flatten(allrs) /\ RootsOf(rest) = Flatten(rs)
  BY DEF compile_caps, RootsOf
<1> HIDE DEF ws, rs, allws, allrs
<1>7. allws = <<Words(c)>> \o ws
  <2>1. Len(allws) = 1 + Len(ws) /\ (\A i \in 1..Len(ws) : allws[i + 1] = ws[i])
    BY <1>1, <1>3, <1>4
  <2>2. Words(c) \in Seq(Word) /\ ws \in Seq(Seq(Word)) /\ allws \in Seq(Seq(Word)) /\ allws[1] = Words(c)
    BY <1>3, <1>4, <1>5
  <2>3. QED
    BY ZenonT(90), <2>1, <2>2, JoinIs
<1>8. allrs = <<CapRoot(c)>> \o rs
  <2>1. Len(allrs) = 1 + Len(rs) /\ (\A i \in 1..Len(rs) : allrs[i + 1] = rs[i])
    BY <1>1, <1>3, <1>4
  <2>2. CapRoot(c) \in Seq(Roots) /\ rs \in Seq(Seq(Roots)) /\ allrs \in Seq(Seq(Roots)) /\ allrs[1] = CapRoot(c)
    BY <1>3, <1>4, <1>5
  <2>3. QED
    BY ZenonT(90), <2>1, <2>2, JoinIs
<1>9. compile_caps(ops) = Words(c) \o compile_caps(rest)
  BY ZenonT(60), <1>3, <1>5, <1>6, <1>7, FlattenFirst
<1>10. RootsOf(ops) = CapRoot(c) \o RootsOf(rest)
  BY ZenonT(60), <1>3, <1>5, <1>6, <1>8, FlattenFirst
<1>11. compile_caps(rest) \in Seq(Word) /\ RootsOf(rest) \in Seq(Roots)
  BY <1>3, <1>6, FlattenType
<1>12. QED
  BY <1>9, <1>10, <1>11 DEF ops

LEMMA CompileNothing == compile_caps(<<>>) = <<>> /\ RootsOf(<<>>) = <<>>
<1>1. /\ [i \in DOMAIN <<>> |-> Words(<<>>[i])] = <<>>
      /\ [i \in DOMAIN <<>> |-> CapRoot(<<>>[i])] = <<>>
  OBVIOUS
<1>2. QED
  BY Zenon, <1>1, FlattenNothing DEF compile_caps, RootsOf

LEMMA CompileType ==
  ASSUME NEW ops \in Seq(Capability)
  PROVE  compile_caps(ops) \in Seq(Word) /\ RootsOf(ops) \in Seq(Roots)
<1>1. CASE ops = <<>>
  <2>1. <<>> \in Seq(Word) /\ <<>> \in Seq(Roots)
    OBVIOUS
  <2>2. QED
    BY Zenon, <1>1, <2>1, CompileNothing
<1>2. CASE ops # <<>>
  <2>1. PICK c \in Capability : c = ops[1]
    BY <1>2
  <2>2. QED
    BY <2>1, CompileFirst
<1>3. QED
  BY <1>1, <1>2

----------------------------------------------------------------------------
(* The decoder, from the end of a program to its beginning.                *)

WalkDef(from, p, operands, i) ==
  IF i = Len(p) + 1 THEN [caps |-> <<>>, complete |-> TRUE]
  ELSE IF ~Expands(p, i, operands) THEN [caps |-> <<>>, complete |-> FALSE]
  ELSE LET rest == from[i + Len(CapRoot(CapOf(p[i])))]
       IN  [rest EXCEPT !.caps = <<CapOf(p[i])>> \o @]

IsWalk(from, p, operands) ==
  from = [i \in 1..(Len(p) + 1) |-> WalkDef(from, p, operands, i)]

(* Words that expand start with a capability, whose words are all there.   *)
LEMMA ExpandsTo ==
  ASSUME NEW p \in Seq(Word), NEW i \in 1..Len(p), NEW operands, Expands(p, i, operands)
  PROVE  /\ CapOf(p[i]) \in Capability
         /\ Len(CapRoot(CapOf(p[i]))) \in 1..3
         /\ i + Len(CapRoot(CapOf(p[i]))) \in (i + 1)..(Len(p) + 1)
<1>1. p[i] \in Word
  OBVIOUS
<1>2. cap_of(p[i]) \in 0..63 /\ cap_of(p[i]) < 12
  <2>1. cap_of(p[i]) < Len(CAPS)
    BY DEF Expands, valid_word
  <2>2. QED
    BY <1>1, <2>1, UnpackIs, CapsAre
<1>3. cap_of(p[i]) \in 0..11
  <2>1. PICK id \in 0..63 : id = cap_of(p[i])
    BY <1>2
  <2>2. id < 12
    BY Zenon, <1>2, <2>1
  <2>3. id \in 0..11
    BY <2>2
  <2>4. QED
    BY Zenon, <2>1, <2>3
<1>4. CapOf(p[i]) \in Capability
  BY <1>3, CapsAre DEF CapOf
<1>5. Len(CapRoot(CapOf(p[i]))) \in 1..3
  BY <1>4, CapRootIs
<1>6. i + Len(CapRoot(CapOf(p[i]))) <= Len(p) + 1
  BY DEF Expands
<1>7. PICK n \in Nat, k \in 1..3 : n = Len(p) /\ k = Len(CapRoot(CapOf(p[i])))
  BY <1>5
<1>8. i + k \in (i + 1)..(n + 1)
  <2>1. i + k <= n + 1
    BY Zenon, <1>6, <1>7
  <2>2. QED
    BY <2>1
<1>9. QED
  BY <1>4, <1>7, <1>8

LEMMA WalkExists ==
  ASSUME NEW p \in Seq(Word), NEW operands
  PROVE  \E from : IsWalk(from, p, operands)
<1> DEFINE Def(g, i) == WalkDef(g, p, operands, i)
           n == Len(p)
           D(k) == {i \in 1..(n + 1) : i + k > n}
           T == {k \in 0..n : \E g : g = [i \in D(k) |-> Def(g, i)]}
<1>1. n \in Nat /\ n = Len(p)
  OBVIOUS
<1> HIDE DEF n
<1>2. 0 \in T
  <2> DEFINE g == [i \in D(0) |-> [caps |-> <<>>, complete |-> TRUE]]
  <2>1. \A i \in D(0) : i = n + 1
    BY <1>1
  <2>2. \A i \in D(0) : Def(g, i) = [caps |-> <<>>, complete |-> TRUE]
    BY <1>1, <2>1 DEF WalkDef
  <2>3. 0 \in 0..n
    BY <1>1
  <2> HIDE DEF Def, D
  <2>4. g = [i \in D(0) |-> Def(g, i)]
    BY <2>2
  <2> HIDE DEF g
  <2>5. QED
    BY <2>3, <2>4
<1>3. ASSUME NEW k \in 0..(n - 1), k \in T
      PROVE  k + 1 \in T
  <2>1. PICK g : g = [i \in D(k) |-> Def(g, i)]
    BY <1>3
  <2> DEFINE h == [i \in D(k + 1) |-> Def(g, i)]
  <2>2. \A i \in D(k) : h[i] = g[i]
    <3>1. \A i \in D(k) : i \in D(k + 1)
      BY <1>1
    <3> HIDE DEF Def, D
    <3>2. QED
      BY <2>1, <3>1
  <2>3. ASSUME NEW i \in D(k + 1)
        PROVE  Def(h, i) = Def(g, i)
    <3>1. i \in 1..(n + 1)
      OBVIOUS
    <3>2. CASE i = n + 1 \/ ~Expands(p, i, operands)
      <4> HIDE DEF h, D
      <4> QED
        BY <1>1, <3>2 DEF WalkDef
    <3>3. CASE i # n + 1 /\ Expands(p, i, operands)
      <4>1. i \in 1..n
        BY <1>1, <3>1, <3>3
      <4>2. i + Len(CapRoot(CapOf(p[i]))) \in (i + 1)..(n + 1)
        BY <1>1, <3>3, <4>1, ExpandsTo
      <4>3. i + Len(CapRoot(CapOf(p[i]))) \in D(k)
        BY <1>1, <4>1, <4>2
      <4> HIDE DEF h, D
      <4>4. h[i + Len(CapRoot(CapOf(p[i])))] = g[i + Len(CapRoot(CapOf(p[i])))]
        BY <2>2, <4>3
      <4>5. QED
        BY Zenon, <4>4 DEF WalkDef
    <3>4. QED
      BY <3>2, <3>3
  <2>4. h = [i \in D(k + 1) |-> Def(h, i)]
    <3> HIDE DEF Def, D
    <3> QED
      BY <2>3
  <2>5. k + 1 \in 0..n
    BY <1>1
  <2> HIDE DEF h, Def, D
  <2>6. QED
    BY <2>4, <2>5
<1>4. n \in T
  <2> HIDE DEF T
  <2>1. \A k \in 0..n : k \in T
    BY <1>1, <1>2, <1>3, InductionUpTo
  <2>2. QED
    BY <1>1, <2>1
<1>5. D(n) = 1..(n + 1)
  BY <1>1
<1>6. \E g : g = [i \in 1..(n + 1) |-> Def(g, i)]
  <2> HIDE DEF Def, D
  <2> QED
    BY <1>4, <1>5
<1>7. QED
  BY <1>6 DEF IsWalk, n

(* What the decoder makes of every rest of a program.                      *)
Walks(from, p, operands) ==
  /\ from[Len(p) + 1] = [caps |-> <<>>, complete |-> TRUE]
  /\ \A i \in 1..Len(p) :
       /\ ~Expands(p, i, operands) => from[i] = [caps |-> <<>>, complete |-> FALSE]
       /\ Expands(p, i, operands) =>
            from[i] = [from[i + Len(CapRoot(CapOf(p[i])))] EXCEPT !.caps = <<CapOf(p[i])>> \o @]
  /\ \A i \in 1..(Len(p) + 1) : from[i] \in [caps : Seq(Capability), complete : BOOLEAN]

LEMMA WalkIs ==
  ASSUME NEW p \in Seq(Word), NEW operands
  PROVE  \E from : Walk(p, operands) = from[1] /\ Walks(from, p, operands)
<1> DEFINE F == CHOOSE from : IsWalk(from, p, operands)
<1>1. IsWalk(F, p, operands)
  BY WalkExists
<1>2. Walk(p, operands) = F[1]
  BY Zenon DEF Walk, IsWalk, WalkDef
<1> HIDE DEF F
<1>3. PICK from : from = F
  OBVIOUS
<1>4. Walk(p, operands) = from[1] /\ IsWalk(from, p, operands)
  BY <1>1, <1>2, <1>3
<1>5. PICK n \in Nat : n = Len(p)
  OBVIOUS
<1>6. \A i \in 1..(n + 1) : from[i] = WalkDef(from, p, operands, i)
  BY Zenon, <1>4, <1>5 DEF IsWalk
<1>7. from[n + 1] = [caps |-> <<>>, complete |-> TRUE]
  <2>1. n + 1 \in 1..(n + 1)
    OBVIOUS
  <2>2. QED
    BY Zenon, <1>5, <1>6, <2>1 DEF WalkDef
<1>8. ASSUME NEW i \in 1..n
      PROVE  /\ ~Expands(p, i, operands) => from[i] = [caps |-> <<>>, complete |-> FALSE]
             /\ Expands(p, i, operands) =>
                  from[i] = [from[i + Len(CapRoot(CapOf(p[i])))] EXCEPT !.caps = <<CapOf(p[i])>> \o @]
  <2>1. i \in 1..(n + 1) /\ i # n + 1
    OBVIOUS
  <2>2. from[i] = WalkDef(from, p, operands, i)
    BY <1>6, <2>1
  <2>3. QED
    BY Zenon, <1>5, <2>1, <2>2 DEF WalkDef
<1> DEFINE Result == [caps : Seq(Capability), complete : BOOLEAN]
           T == {i \in 1..(n + 1) : from[i] \in Result}
<1>9. n + 1 \in T
  <2>1. [caps |-> <<>>, complete |-> TRUE] \in Result /\ n + 1 \in 1..(n + 1)
    OBVIOUS
  <2> HIDE DEF Result
  <2>2. QED
    BY Zenon, <1>7, <2>1
<1>10. ASSUME NEW i \in 1..n, \A j \in (i + 1)..(n + 1) : j \in T
       PROVE  i \in T
  <2>0. i \in 1..(n + 1)
    OBVIOUS
  <2>1. CASE ~Expands(p, i, operands)
    <3>1. [caps |-> <<>>, complete |-> FALSE] \in Result
      OBVIOUS
    <3> HIDE DEF Result
    <3>2. QED
      BY Zenon, <1>8, <2>0, <2>1, <3>1
  <2>2. CASE Expands(p, i, operands)
    <3>1. PICK j : j = i + Len(CapRoot(CapOf(p[i])))
      OBVIOUS
    <3>2. CapOf(p[i]) \in Capability /\ j \in (i + 1)..(n + 1)
      BY <1>5, <2>2, <3>1, ExpandsTo
    <3>3. from[j] \in [caps : Seq(Capability), complete : BOOLEAN]
      BY <1>10, <3>2
    <3>4. PICK c, rest : c \in Capability /\ c = CapOf(p[i]) /\ rest = from[j]
      BY <3>2
    <3>5. from[i] = [rest EXCEPT !.caps = <<c>> \o @]
      BY Zenon, <1>8, <2>2, <3>1, <3>4
    <3>6. <<c>> \o rest.caps \in Seq(Capability)
      BY <3>3, <3>4
    <3>7. from[i] = [caps |-> <<c>> \o rest.caps, complete |-> rest.complete]
      BY <3>3, <3>4, <3>5
    <3>8. from[i] \in Result
      BY <3>3, <3>4, <3>6, <3>7
    <3> HIDE DEF Result
    <3>9. QED
      BY Zenon, <2>0, <3>8
  <2>3. QED
    BY Zenon, <2>1, <2>2
<1>11. \A i \in 1..(n + 1) : i \in T
  <2> HIDE DEF T
  <2> QED
    BY <1>9, <1>10, InductionDown
<1>12. QED
  BY <1>4, <1>5, <1>7, <1>8, <1>11 DEF Walks

----------------------------------------------------------------------------
(* The words of one capability at a place of a program.                    *)

LEMMA WordsExpand ==
  ASSUME NEW p \in Seq(Word), NEW i \in 1..Len(p), NEW c \in Capability,
         i + Len(CapRoot(c)) <= Len(p) + 1,
         \A j \in 1..Len(CapRoot(c)) : p[i + j - 1] = Words(c)[j],
         NEW operands
  PROVE  Expands(p, i, operands) /\ CapOf(p[i]) = c
<1>0. Len(CapRoot(c)) \in 1..3 /\ CapRoot(c) \in Seq(Roots)
  BY CapRootIs
<1>1. 1 \in 1..Len(CapRoot(c))
  <2>1. PICK k \in 1..3 : k = Len(CapRoot(c))
    BY <1>0
  <2>2. 1 \in 1..k
    OBVIOUS
  <2>3. QED
    BY Zenon, <2>1, <2>2
<1>2. DOMAIN CapRoot(c) = 1..Len(CapRoot(c))
  BY <1>0
<1>3. ASSUME NEW j \in 1..Len(CapRoot(c))
      PROVE  /\ valid_word(p[i + j - 1]) /\ cap_of(p[i + j - 1]) = CapId(c)
             /\ op_of(p[i + j - 1]) = RootOp(CapRoot(c)[j])
             /\ operand_of(p[i + j - 1]) = OperandOf(c)
  BY Zenon, WordsAre
<1>4. i + 1 - 1 = i
  OBVIOUS
<1>5. valid_word(p[i]) /\ cap_of(p[i]) = CapId(c)
  BY <1>1, <1>3, <1>4
<1>6. CapOf(p[i]) = c
  BY Zenon, <1>5, CapIdIs DEF CapOf
<1>7. QED
  BY Zenon, <1>2, <1>3, <1>5, <1>6 DEF Expands

LEMMA ExpandsWords ==
  ASSUME NEW p \in Seq(Word), NEW i \in 1..Len(p), Expands(p, i, TRUE)
  PROVE  LET c == CapOf(p[i])
         IN  \A j \in 1..Len(CapRoot(c)) : p[i + j - 1] = Words(c)[j]
<1>1. PICK c \in Capability : c = CapOf(p[i])
  BY ExpandsTo
<1>2. CapRoot(c) \in Seq(Roots) /\ DOMAIN CapRoot(c) = 1..Len(CapRoot(c)) /\ Len(CapRoot(c)) \in 1..3
  <2>1. CapRoot(c) \in Seq(Roots) /\ Len(CapRoot(c)) \in 1..3
    BY CapRootIs
  <2>2. QED
    BY <2>1
<1>3. cap_of(p[i]) = CapId(c)
  <2>1. p[i] \in Word /\ cap_of(p[i]) < 12
    BY CapsAre DEF Expands, valid_word
  <2>2. PICK id \in 0..63 : id = cap_of(p[i])
    BY <2>1, UnpackIs
  <2>3. id < 12
    BY Zenon, <2>1, <2>2
  <2>4. id \in 0..11
    BY <2>3
  <2>5. c = CAPS[id + 1]
    BY Zenon, <1>1, <2>2 DEF CapOf
  <2>6. CapId(CAPS[id + 1]) = id
    BY <2>4, CapIdIs
  <2>7. QED
    BY <2>2, <2>5, <2>6
<1>4. ASSUME NEW j \in 1..Len(CapRoot(c))
      PROVE  p[i + j - 1] = Words(c)[j]
  <2>1. i + j - 1 \in 1..Len(p)
    <3>1. PICK n \in Nat, k \in 1..3 : n = Len(p) /\ k = Len(CapRoot(c))
      BY <1>2
    <3>2. i + k <= n + 1
      BY Zenon, <1>1, <3>1 DEF Expands
    <3>3. QED
      BY <3>1, <3>2
  <2>2. PICK w \in Word : w = p[i + j - 1]
    BY <2>1
  <2>3. cap_of(w) = cap_of(p[i]) /\ op_of(w) = RootOp(CapRoot(c)[j]) /\ operand_of(w) = OperandOf(c)
    BY Zenon, <1>1, <1>2, <2>2 DEF Expands
  <2>4. w = pack(RootOp(CapRoot(c)[j]), CapId(c), OperandOf(c))
    BY <1>3, <2>3, UnpackIs
  <2>5. Words(c)[j] = pack(RootOp(CapRoot(c)[j]), CapId(c), OperandOf(c))
    BY <1>2 DEF Words
  <2>6. QED
    BY <2>2, <2>4, <2>5
<1>5. QED
  BY Zenon, <1>1, <1>4

(* A rest of a sequence, cut where a part of it ends.                      *)
LEMMA CutAt ==
  ASSUME NEW X, NEW p \in Seq(X), NEW i \in 1..Len(p), NEW w \in Seq(X), i + Len(w) <= Len(p) + 1,
         \A j \in 1..Len(w) : p[i + j - 1] = w[j]
  PROVE  SubSeq(p, i, Len(p)) = w \o SubSeq(p, i + Len(w), Len(p))
<1>1. PICK n \in Nat, k \in Nat : n = Len(p) /\ k = Len(w)
  OBVIOUS
<1>2. /\ \A j \in i..n : p[j] \in X
      /\ \A j \in (i + k)..n : p[j] \in X
  BY <1>1
<1>3. PICK s, q : s = SubSeq(p, i, n) /\ q = SubSeq(p, i + k, n)
  OBVIOUS
<1>4. /\ s \in Seq(X) /\ Len(s) = n - i + 1
      /\ \A j \in 1..(n - i + 1) : s[j] = p[i + j - 1]
  BY <1>1, <1>2, <1>3, SubSeqProperties
<1>5. /\ q \in Seq(X) /\ Len(q) = n - (i + k) + 1
      /\ \A j \in 1..(n - (i + k) + 1) : q[j] = p[i + k + j - 1]
  <2>1. i + k <= n + 1
    BY Zenon, <1>1
  <2>2. PICK m \in Int : m = i + k
    OBVIOUS
  <2>3. /\ q \in Seq(X) /\ Len(q) = IF m <= n THEN n - m + 1 ELSE 0
        /\ \A j \in 1..(n - m + 1) : q[j] = p[m + j - 1]
    BY <1>2, <1>3, <2>2, SubSeqProperties
  <2>4. Len(q) = n - m + 1
    BY <2>1, <2>2, <2>3
  <2>5. QED
    BY <2>2, <2>3, <2>4
<1>6. /\ w \o q \in Seq(X) /\ Len(w \o q) = k + Len(q)
      /\ \A j \in 1..(k + Len(q)) : (w \o q)[j] = IF j <= k THEN w[j] ELSE q[j - k]
  BY SMTT(30), <1>1, <1>5, ConcatProperties
<1>7. PICK m \in Nat : m = Len(s) /\ m = n - i + 1 /\ m = k + Len(q)
  BY <1>4, <1>5
<1>8. ASSUME NEW j \in 1..m
      PROVE  s[j] = (w \o q)[j]
  <2>0. s[j] = p[i + j - 1]
    BY <1>4, <1>7
  <2>1. CASE j <= k
    <3>1. (w \o q)[j] = w[j] /\ j \in 1..k
      BY <1>6, <1>7, <2>1
    <3>2. p[i + j - 1] = w[j]
      BY <1>1, <3>1
    <3>3. QED
      BY <2>0, <3>1, <3>2
  <2>2. CASE j > k
    <3>1. j - k \in 1..(n - (i + k) + 1) /\ i + k + (j - k) - 1 = i + j - 1 /\ ~(j <= k)
      BY <1>7, <2>2
    <3>2. (w \o q)[j] = q[j - k]
      BY <1>6, <1>7, <3>1
    <3>3. q[j - k] = p[i + k + (j - k) - 1]
      BY <1>5, <3>1
    <3>4. QED
      BY <2>0, <3>1, <3>2, <3>3
  <2>3. j <= k \/ j > k
    OBVIOUS
  <2>4. QED
    BY Zenon, <2>1, <2>2, <2>3
<1>10. s = w \o q
  BY <1>4, <1>6, <1>7, <1>8, SeqEqual
<1>11. QED
  BY <1>1, <1>3, <1>10

(* The rest of p from place i on is w and then q.                          *)
Splits(X, p, n, i, w, k, q) ==
  /\ p \in Seq(X) /\ w \in Seq(X) /\ q \in Seq(X)
  /\ n \in Nat /\ n = Len(p) /\ k \in Nat /\ k = Len(w) /\ k # 0 /\ i \in 1..(n + 1)
  /\ SubSeq(p, i, n) = w \o q

LEMMA CutOff ==
  ASSUME NEW X, NEW p, NEW n, NEW i, NEW w, NEW k, NEW q, Splits(X, p, n, i, w, k, q)
  PROVE  /\ i \in 1..n /\ i + k \in (i + 1)..(n + 1)
         /\ \A j \in 1..k : p[i + j - 1] = w[j]
         /\ SubSeq(p, i + k, n) = q
<1> USE DEF Splits
<1>2. /\ \A j \in i..n : p[j] \in X
      /\ \A j \in (i + k)..n : p[j] \in X
  OBVIOUS
<1>3. PICK s, r : s = SubSeq(p, i, n) /\ r = SubSeq(p, i + k, n)
  OBVIOUS
<1>4. /\ s \in Seq(X) /\ Len(s) = n - i + 1
      /\ \A j \in 1..(n - i + 1) : s[j] = p[i + j - 1]
  BY <1>2, <1>3, SubSeqProperties
<1>5. /\ w \o q \in Seq(X) /\ Len(w \o q) = k + Len(q) /\ Len(q) \in Nat
      /\ \A j \in 1..(k + Len(q)) : (w \o q)[j] = IF j <= k THEN w[j] ELSE q[j - k]
  BY ConcatProperties
<1>6. s = w \o q
  BY <1>3
<1>7. n - i + 1 = k + Len(q)
  BY <1>4, <1>5, <1>6
<1>8. i <= n /\ i + k <= n + 1 /\ Len(q) = n - (i + k) + 1
  BY <1>5, <1>7
<1>9. /\ r \in Seq(X) /\ Len(r) = n - (i + k) + 1
      /\ \A j \in 1..(n - (i + k) + 1) : r[j] = p[i + k + j - 1]
  <2>1. i + k <= n + 1
    BY <1>8
  <2>2. PICK m \in Int : m = i + k
    OBVIOUS
  <2>3. /\ r \in Seq(X) /\ Len(r) = IF m <= n THEN n - m + 1 ELSE 0
        /\ \A j \in 1..(n - m + 1) : r[j] = p[m + j - 1]
    BY <1>2, <1>3, <2>2, SubSeqProperties
  <2>4. Len(r) = n - m + 1
    <3>1. PICK l : l = Len(r)
      OBVIOUS
    <3>2. l = IF m <= n THEN n - m + 1 ELSE 0
      BY Zenon, <2>3, <3>1
    <3>3. m <= n + 1
      BY <2>1, <2>2
    <3>4. l = n - m + 1
      BY <3>2, <3>3
    <3>5. QED
      BY Zenon, <3>1, <3>4
  <2>5. QED
    BY <2>2, <2>3, <2>4
<1>10. ASSUME NEW j \in 1..k
       PROVE  p[i + j - 1] = w[j]
  BY <1>4, <1>5, <1>6, <1>7
<1>11. ASSUME NEW j \in 1..Len(r)
       PROVE  r[j] = q[j]
  <2>1. k + j \in 1..(k + Len(q)) /\ ~(k + j <= k) /\ (k + j) - k = j /\ i + (k + j) - 1 = i + k + j - 1
    BY <1>5, <1>8, <1>9
  <2>2. r[j] = p[i + k + j - 1]
    BY <1>9
  <2>3. s[k + j] = p[i + (k + j) - 1]
    BY <1>4, <1>7, <2>1
  <2>4. (w \o q)[k + j] = q[j]
    BY <1>5, <2>1
  <2>5. QED
    BY <1>6, <2>1, <2>2, <2>3, <2>4
<1>12. r = q
  BY <1>8, <1>9, <1>11, SeqEqual
<1>13. QED
  BY <1>3, <1>8, <1>10, <1>12

----------------------------------------------------------------------------
(* The explicit encoding is exact.                                         *)

(* What compile_caps makes of a workflow decodes to it, operands compared  *)
(* or not.                                                                 *)
LEMMA CompiledDecodes ==
  ASSUME NEW p \in Seq(Word), NEW operands, NEW from, Walks(from, p, operands)
  PROVE  \A ops \in Seq(Capability) : \A i \in 1..(Len(p) + 1) :
           SubSeq(p, i, Len(p)) = compile_caps(ops) => from[i] = [caps |-> ops, complete |-> TRUE]
<1> DEFINE T == {ops \in Seq(Capability) : \A i \in 1..(Len(p) + 1) :
                   SubSeq(p, i, Len(p)) = compile_caps(ops)
                     => from[i] = [caps |-> ops, complete |-> TRUE]}
<1>0. PICK n \in Nat : n = Len(p)
  OBVIOUS
<1>1. <<>> \in T
  <2>1. SUFFICES ASSUME NEW i \in 1..(n + 1), SubSeq(p, i, n) = <<>>
                 PROVE  from[i] = [caps |-> <<>>, complete |-> TRUE]
    <3>1. <<>> \in Seq(Capability)
      OBVIOUS
    <3>2. QED
      BY Zenon, <1>0, <3>1, CompileNothing
  <2>2. Len(SubSeq(p, i, n)) = IF i <= n THEN n - i + 1 ELSE 0
    <3>1. \A j \in i..n : p[j] \in Word
      BY <1>0
    <3>2. QED
      BY <3>1, SubSeqProperties
  <2>3. Len(<<>>) = 0
    OBVIOUS
  <2>4. i = n + 1
    BY <2>1, <2>2, <2>3
  <2>5. QED
    BY Zenon, <1>0, <2>4 DEF Walks
<1>2. ASSUME NEW c \in Capability, NEW ops \in Seq(Capability), ops \in T
      PROVE  <<c>> \o ops \in T
  <2>1. SUFFICES ASSUME NEW i \in 1..(n + 1), SubSeq(p, i, n) = compile_caps(<<c>> \o ops)
                 PROVE  from[i] = [caps |-> <<c>> \o ops, complete |-> TRUE]
    <3>1. <<c>> \o ops \in Seq(Capability)
      OBVIOUS
    <3>2. QED
      BY Zenon, <1>0, <3>1
  <2>2. SubSeq(p, i, n) = Words(c) \o compile_caps(ops)
    BY <2>1, CompileFirst
  <2>3. /\ Words(c) \in Seq(Word) /\ Len(Words(c)) = Len(CapRoot(c)) /\ Len(CapRoot(c)) \in 1..3
        /\ compile_caps(ops) \in Seq(Word)
    BY WordsAre, CapRootIs, CompileType
  <2>4. PICK w \in Seq(Word), q \in Seq(Word) : w = Words(c) /\ q = compile_caps(ops)
    BY <2>3
  <2>5. PICK k \in Nat : k = Len(w) /\ k = Len(CapRoot(c)) /\ k # 0
    <3>1. PICK l \in 1..3 : l = Len(CapRoot(c))
      BY <2>3
    <3>2. Len(w) = l
      BY Zenon, <2>3, <2>4, <3>1
    <3>3. l \in Nat /\ l # 0
      OBVIOUS
    <3>4. QED
      BY Zenon, <3>1, <3>2, <3>3
  <2>6. /\ i \in 1..n /\ i + k \in (i + 1)..(n + 1)
        /\ \A j \in 1..k : p[i + j - 1] = w[j]
        /\ SubSeq(p, i + k, n) = q
    <3>1. SubSeq(p, i, n) = w \o q
      BY Zenon, <2>2, <2>4
    <3>2. Splits(Word, p, n, i, w, k, q)
      BY Zenon, <1>0, <2>4, <2>5, <3>1 DEF Splits
    <3>3. QED
      BY Zenon, <3>2, CutOff
  <2>7. Expands(p, i, operands) /\ CapOf(p[i]) = c
    <3>1. i + k <= n + 1
      BY <2>6
    <3>2. i + Len(CapRoot(c)) <= Len(p) + 1
      BY Zenon, <1>0, <2>5, <3>1
    <3>3. \A j \in 1..Len(CapRoot(c)) : p[i + j - 1] = Words(c)[j]
      BY Zenon, <2>4, <2>5, <2>6
    <3>4. i \in 1..Len(p)
      BY Zenon, <1>0, <2>6
    <3>5. QED
      BY Zenon, <3>2, <3>3, <3>4, WordsExpand
  <2>8. PICK j \in 1..(n + 1) : j = i + k
    BY <2>6
  <2>9. from[j] = [caps |-> ops, complete |-> TRUE]
    BY Zenon, <1>0, <1>2, <2>4, <2>6, <2>8
  <2>10. from[i] = [from[j] EXCEPT !.caps = <<c>> \o @]
    BY Zenon, <1>0, <2>5, <2>6, <2>7, <2>8 DEF Walks
  <2>11. PICK rest \in [caps : Seq(Capability), complete : BOOLEAN] : rest = from[j]
    <3>1. [caps |-> ops, complete |-> TRUE] \in [caps : Seq(Capability), complete : BOOLEAN]
      OBVIOUS
    <3>2. QED
      BY Zenon, <2>9, <3>1
  <2>12. rest.caps = ops /\ rest.complete = TRUE
    BY <2>9, <2>11
  <2>13. from[i] = [caps |-> <<c>> \o rest.caps, complete |-> rest.complete]
    BY <2>10, <2>11
  <2>14. QED
    BY Zenon, <2>12, <2>13
<1> HIDE DEF T
<1>3. \A ops \in Seq(Capability) : ops \in T
  BY <1>1, <1>2, FrontInduction
<1>4. QED
  BY <1>3 DEF T

(* What decodes is what compile_caps makes of the result, and the decoder  *)
(* that does not compare operands agrees.                                  *)
LEMMA DecodedCompiles ==
  ASSUME NEW p \in Seq(Word), NEW from, Walks(from, p, TRUE), NEW lax, Walks(lax, p, FALSE)
  PROVE  \A i \in 1..(Len(p) + 1) :
           from[i].complete => /\ SubSeq(p, i, Len(p)) = compile_caps(from[i].caps)
                               /\ lax[i] = from[i]
<1>0. PICK n \in Nat : n = Len(p)
  OBVIOUS
<1> DEFINE T == {i \in 1..(n + 1) :
                   from[i].complete => /\ SubSeq(p, i, n) = compile_caps(from[i].caps)
                                       /\ lax[i] = from[i]}
<1>1. n + 1 \in T
  <2>1. from[n + 1] = [caps |-> <<>>, complete |-> TRUE] /\ lax[n + 1] = [caps |-> <<>>, complete |-> TRUE]
    BY Zenon, <1>0 DEF Walks
  <2>2. SubSeq(p, n + 1, n) = <<>>
    BY SubSeqEmpty
  <2>3. from[n + 1].caps = <<>>
    BY <2>1
  <2>4. n + 1 \in 1..(n + 1)
    OBVIOUS
  <2>5. QED
    BY Zenon, <2>1, <2>2, <2>3, <2>4, CompileNothing
<1>2. ASSUME NEW i \in 1..n, \A j \in (i + 1)..(n + 1) : j \in T
      PROVE  i \in T
  <2>1. SUFFICES ASSUME from[i].complete
                 PROVE  /\ SubSeq(p, i, n) = compile_caps(from[i].caps)
                        /\ lax[i] = from[i]
    <3>1. i \in 1..(n + 1)
      OBVIOUS
    <3>2. QED
      BY Zenon, <3>1
  <2>2. i \in 1..Len(p)
    BY <1>0
  <2>3. Expands(p, i, TRUE)
    <3>1. SUFFICES ASSUME ~Expands(p, i, TRUE)
                   PROVE  FALSE
      OBVIOUS
    <3>2. from[i] = [caps |-> <<>>, complete |-> FALSE]
      BY Zenon, <2>2, <3>1 DEF Walks
    <3>3. QED
      BY <2>1, <3>2
  <2>4. Expands(p, i, FALSE)
    BY Zenon, <2>3 DEF Expands
  <2>5. PICK c \in Capability, j \in (i + 1)..(n + 1) : c = CapOf(p[i]) /\ j = i + Len(CapRoot(c))
    BY <1>0, <2>2, <2>3, ExpandsTo
  <2>6. /\ from[i] = [from[j] EXCEPT !.caps = <<c>> \o @]
        /\ lax[i] = [lax[j] EXCEPT !.caps = <<c>> \o @]
    BY Zenon, <2>2, <2>3, <2>4, <2>5 DEF Walks
  <2>7. PICK rest \in [caps : Seq(Capability), complete : BOOLEAN] : rest = from[j]
    <3>1. j \in 1..(n + 1)
      OBVIOUS
    <3>2. QED
      BY Zenon, <1>0, <3>1 DEF Walks
  <2>8. from[i] = [caps |-> <<c>> \o rest.caps, complete |-> rest.complete]
    BY <2>6, <2>7
  <2>9. from[i].caps = <<c>> \o rest.caps /\ rest.complete
    BY <2>1, <2>8
  <2>10. SubSeq(p, j, n) = compile_caps(rest.caps) /\ lax[j] = rest
    BY Zenon, <1>2, <2>7, <2>9
  <2>11. compile_caps(from[i].caps) = Words(c) \o compile_caps(rest.caps)
    <3>1. rest.caps \in Seq(Capability)
      BY <2>7
    <3>2. compile_caps(<<c>> \o rest.caps) = Words(c) \o compile_caps(rest.caps)
      BY Zenon, <3>1, CompileFirst
    <3>3. QED
      BY Zenon, <2>9, <3>2
  <2>12. SubSeq(p, i, n) = Words(c) \o SubSeq(p, j, n)
    <3>1. \A k \in 1..Len(CapRoot(c)) : p[i + k - 1] = Words(c)[k]
      BY Zenon, <2>2, <2>3, <2>5, ExpandsWords
    <3>2. PICK w \in Seq(Word) : w = Words(c) /\ Len(w) = Len(CapRoot(c))
      BY WordsAre
    <3>3. j <= n + 1 /\ j = i + Len(w)
      BY <2>5, <3>2
    <3>4. i + Len(w) <= Len(p) + 1
      BY Zenon, <1>0, <3>3
    <3>5. \A k \in 1..Len(w) : p[i + k - 1] = w[k]
      BY Zenon, <3>1, <3>2
    <3>6. SubSeq(p, i, Len(p)) = w \o SubSeq(p, i + Len(w), Len(p))
      BY Zenon, <2>2, <3>4, <3>5, CutAt
    <3>7. QED
      BY Zenon, <1>0, <3>2, <3>3, <3>6
  <2>13. lax[i] = from[i]
    BY Zenon, <2>6, <2>7, <2>10
  <2>14. QED
    BY Zenon, <2>10, <2>11, <2>12, <2>13
<1> HIDE DEF T
<1>3. \A i \in 1..(n + 1) : i \in T
  BY <1>1, <1>2, InductionDown
<1>4. QED
  BY <1>0, <1>3 DEF T

(* The words of a workflow tell the roots of its capabilities.             *)
LEMMA CompiledRoots ==
  \A ops \in Seq(Capability) :
    LET p == compile_caps(ops)
    IN  /\ Len(p) = Len(RootsOf(ops))
        /\ \A i \in 1..Len(p) : valid_word(p[i]) /\ RootOps[op_of(p[i]) + 1] = RootsOf(ops)[i]
<1> DEFINE Tell(p, roots) ==
             /\ Len(p) = Len(roots)
             /\ \A i \in 1..Len(p) : valid_word(p[i]) /\ RootOps[op_of(p[i]) + 1] = roots[i]
           T == {ops \in Seq(Capability) : Tell(compile_caps(ops), RootsOf(ops))}
<1>1. <<>> \in T
  <2>1. Tell(<<>>, <<>>)
    OBVIOUS
  <2>2. <<>> \in Seq(Capability)
    OBVIOUS
  <2> HIDE DEF Tell
  <2>3. QED
    BY Zenon, <2>1, <2>2, CompileNothing
<1>2. ASSUME NEW c \in Capability, NEW ops \in Seq(Capability), ops \in T
      PROVE  <<c>> \o ops \in T
  <2>1. PICK w \in Seq(Word), q \in Seq(Word), r \in Seq(Roots), s \in Seq(Roots) :
          /\ w = Words(c) /\ q = compile_caps(ops) /\ r = CapRoot(c) /\ s = RootsOf(ops)
    BY WordsAre, CapRootIs, CompileType
  <2>2. compile_caps(<<c>> \o ops) = w \o q /\ RootsOf(<<c>> \o ops) = r \o s
    BY Zenon, <2>1, CompileFirst
  <2>3. Tell(q, s)
    BY Zenon, <1>2, <2>1
  <2>4. Tell(w, r)
    <3>1. Len(w) = Len(r)
      BY Zenon, <2>1, WordsAre
    <3>2. ASSUME NEW i \in 1..Len(w)
          PROVE  valid_word(w[i]) /\ RootOps[op_of(w[i]) + 1] = r[i]
      <4>1. valid_word(w[i]) /\ op_of(w[i]) = RootOp(r[i])
        BY Zenon, <2>1, <3>1, WordsAre
      <4>2. r[i] \in Roots
        BY <3>1
      <4>3. QED
        BY Zenon, <4>1, <4>2, RootOpIs
    <3>3. QED
      BY <3>1, <3>2
  <2>5. PICK n \in Nat, k \in Nat : n = Len(w) /\ k = Len(q) /\ n = Len(r) /\ k = Len(s)
    <3>1. Len(w) \in Nat /\ Len(q) \in Nat
      OBVIOUS
    <3>2. QED
      BY Zenon, <2>3, <2>4, <3>1
  <2>6. /\ Len(w \o q) = n + k /\ Len(r \o s) = n + k
        /\ \A i \in 1..(n + k) : (w \o q)[i] = IF i <= n THEN w[i] ELSE q[i - n]
        /\ \A i \in 1..(n + k) : (r \o s)[i] = IF i <= n THEN r[i] ELSE s[i - n]
    <3>1. /\ Len(w \o q) = Len(w) + Len(q)
          /\ \A i \in 1..Len(w) + Len(q) : (w \o q)[i] = IF i <= Len(w) THEN w[i] ELSE q[i - Len(w)]
      BY ConcatProperties
    <3>2. /\ Len(r \o s) = Len(r) + Len(s)
          /\ \A i \in 1..Len(r) + Len(s) : (r \o s)[i] = IF i <= Len(r) THEN r[i] ELSE s[i - Len(r)]
      BY ConcatProperties
    <3>3. QED
      BY Zenon, <2>5, <3>1, <3>2
  <2>7. ASSUME NEW i \in 1..(n + k)
        PROVE  valid_word((w \o q)[i]) /\ RootOps[op_of((w \o q)[i]) + 1] = (r \o s)[i]
    <3>1. CASE i <= n
      <4>1. i \in 1..n
        BY <3>1
      <4>2. QED
        BY Zenon, <2>4, <2>5, <2>6, <3>1, <4>1
    <3>2. CASE ~(i <= n)
      <4>1. i - n \in 1..k
        BY <3>2
      <4>2. QED
        BY Zenon, <2>3, <2>5, <2>6, <3>2, <4>1
    <3>3. QED
      BY <3>1, <3>2
  <2>8. Tell(w \o q, r \o s)
    BY Zenon, <2>6, <2>7
  <2>9. <<c>> \o ops \in Seq(Capability)
    OBVIOUS
  <2> HIDE DEF Tell
  <2>10. QED
    BY Zenon, <2>2, <2>8, <2>9
<1> HIDE DEF T
<1>3. \A ops \in Seq(Capability) : ops \in T
  BY <1>1, <1>2, FrontInduction
<1>4. QED
  BY Zenon, <1>3 DEF T

LEMMA RootsDecoded ==
  ASSUME NEW ops \in Seq(Capability)
  PROVE  decode_roots(compile_caps(ops)) = RootsOf(ops)
<1>1. PICK p \in Seq(Word), roots \in Seq(Roots) : p = compile_caps(ops) /\ roots = RootsOf(ops)
  BY CompileType
<1>2. /\ Len(p) = Len(roots)
      /\ \A i \in 1..Len(p) : valid_word(p[i]) /\ RootOps[op_of(p[i]) + 1] = roots[i]
  BY Zenon, <1>1, CompiledRoots
<1>3. DOMAIN p = 1..Len(p) /\ roots = [i \in 1..Len(roots) |-> roots[i]]
  OBVIOUS
<1>4. [i \in DOMAIN p |-> RootOps[op_of(p[i]) + 1]] = [i \in DOMAIN p |-> roots[i]]
  BY Zenon, <1>2, <1>3
<1>5. decode_roots(p) = [i \in DOMAIN p |-> RootOps[op_of(p[i]) + 1]]
  BY Zenon, <1>2, <1>3 DEF decode_roots
<1>6. QED
  BY Zenon, <1>1, <1>2, <1>3, <1>4, <1>5

(* Every workflow of capabilities, of any length, decodes to itself.       *)
LEMMA CompiledIsDecoded ==
  ASSUME NEW ops \in Seq(Capability), NEW operands
  PROVE  Walk(compile_caps(ops), operands) = [caps |-> ops, complete |-> TRUE]
<1>1. PICK p \in Seq(Word) : p = compile_caps(ops)
  BY CompileType
<1>2. PICK from : Walk(p, operands) = from[1] /\ Walks(from, p, operands)
  BY WalkIs
<1>3. 1 \in 1..(Len(p) + 1) /\ SubSeq(p, 1, Len(p)) = p
  BY SubSeqFull
<1>4. from[1] = [caps |-> ops, complete |-> TRUE]
  <2>1. \A i \in 1..(Len(p) + 1) :
          SubSeq(p, i, Len(p)) = compile_caps(ops) => from[i] = [caps |-> ops, complete |-> TRUE]
    BY <1>2, CompiledDecodes
  <2>2. QED
    BY Zenon, <1>1, <1>3, <2>1
<1>5. QED
  BY Zenon, <1>1, <1>2, <1>4

(* Every program of words, of any length, that the decoder accepts is the  *)
(* program of the workflow it decodes to: no two programs decode to one    *)
(* workflow; its roots are the roots of the workflow; and to run it, which *)
(* does not look at operands, is to run the workflow (bytecode.cpp:60-104, *)
(* 126-137).                                                               *)
THEOREM ExplicitIsExact ==
  ASSUME NEW p \in Seq(Word), Walk(p, TRUE).complete
  PROVE  /\ decode_caps(p) \in Seq(Capability)
         /\ compile_caps(decode_caps(p)) = p
         /\ decode_roots(p) = RootsOf(decode_caps(p))
         /\ Walk(p, FALSE) = [caps |-> decode_caps(p), complete |-> TRUE]
<1>1. PICK from : Walk(p, TRUE) = from[1] /\ Walks(from, p, TRUE)
  BY WalkIs
<1>2. PICK lax : Walk(p, FALSE) = lax[1] /\ Walks(lax, p, FALSE)
  BY WalkIs
<1>3. 1 \in 1..(Len(p) + 1) /\ SubSeq(p, 1, Len(p)) = p
  BY SubSeqFull
<1>4. p = compile_caps(from[1].caps) /\ lax[1] = from[1]
  BY Zenon, <1>1, <1>2, <1>3, DecodedCompiles
<1>5. PICK x \in [caps : Seq(Capability), complete : BOOLEAN] : x = from[1]
  BY Zenon, <1>1, <1>3 DEF Walks
<1>6. decode_caps(p) = x.caps /\ x.complete
  BY Zenon, <1>1, <1>5 DEF decode_caps
<1>7. x.caps \in Seq(Capability) /\ x = [caps |-> x.caps, complete |-> TRUE]
  BY <1>5, <1>6
<1>8. decode_roots(p) = RootsOf(x.caps)
  BY Zenon, <1>4, <1>5, <1>7, RootsDecoded
<1>9. QED
  BY Zenon, <1>2, <1>4, <1>5, <1>6, <1>7, <1>8

----------------------------------------------------------------------------
(* The bytes.                                                              *)


LEMMA SignaturesAre ==
  /\ \A s, t \in 0..3 : Signatures[s + 1] = Signatures[t + 1] => s = t
  /\ \A c \in Capability : /\ signature_of(CapRoot(c)) \in 0..3
                           /\ Signatures[signature_of(CapRoot(c)) + 1] = CapRoot(c)
<1>1. \A s, t \in 0..3 : Signatures[s + 1] = Signatures[t + 1] => s = t
  <2>1. /\ Signatures[1] = <<"OBSERVE">> /\ Signatures[2] = <<"DERIVE">>
        /\ Signatures[3] = <<"DERIVE", "COMMIT">> /\ Signatures[4] = <<"DERIVE", "COMMIT", "OBSERVE">>
    BY DEF Signatures
  <2>2. /\ Signatures[1] # Signatures[2] /\ Signatures[1] # Signatures[3]
        /\ Signatures[1] # Signatures[4] /\ Signatures[2] # Signatures[3]
        /\ Signatures[2] # Signatures[4] /\ Signatures[3] # Signatures[4]
    BY <2>1
  <2>3. \A s \in 0..3 : \/ (s = 0 /\ s + 1 = 1)
                          \/ (s = 1 /\ s + 1 = 2)
                          \/ (s = 2 /\ s + 1 = 3)
                          \/ (s = 3 /\ s + 1 = 4)
    OBVIOUS
  <2>4. QED
    BY Zenon, <2>2, <2>3
<1>2. \A c \in Capability : \E s \in 0..3 : Signatures[s + 1] = CapRoot(c)
  <2>1. \A c \in Capability : CapRoot(c) \in {Signatures[s + 1] : s \in 0..3}
    BY CapRootIs
  <2>2. QED
    BY Zenon, <2>1
<1>3. \A c \in Capability : /\ signature_of(CapRoot(c)) \in 0..3
                            /\ Signatures[signature_of(CapRoot(c)) + 1] = CapRoot(c)
  BY Zenon, <1>2 DEF signature_of
<1>4. QED
  BY <1>1, <1>3

(* What the byte of a capability and a signature is made of.               *)
LEMMA ByteIs ==
  ASSUME NEW id \in 0..15, NEW s \in 0..3, NEW b \in Int, b = id * 16 + s * 4
  PROVE  b \in Byte /\ b % 4 = 0 /\ dense_cap(b) = id /\ dense_sig(b) = s
<1>1. b \in Byte
  BY DEF Byte
<1>2. PICK q \in Int : q = b \div 4
  OBVIOUS
<1>3. b % 4 = 0 /\ q = id * 4 + s
  BY <1>2, Z3
<1>4. q % 4 = s
  BY <1>3, Z3
<1>5. b \div 16 = id
  BY Z3
<1>6. id % 16 = id
  OBVIOUS
<1>7. dense_cap(b) = id /\ dense_sig(b) = s
  BY Zenon, <1>2, <1>4, <1>5, <1>6 DEF dense_cap, dense_sig
<1>8. QED
  BY Zenon, <1>1, <1>3, <1>7

LEMMA BytesAre ==
  ASSUME NEW b \in Byte, b % 4 = 0
  PROVE  /\ dense_cap(b) \in 0..15 /\ dense_sig(b) \in 0..3
         /\ b = dense_cap(b) * 16 + dense_sig(b) * 4
<1>1. b \in Int /\ 0 <= b /\ b < 256
  BY DEF Byte
<1>2. PICK q \in Int : q = b \div 4
  BY <1>1
<1>3. b = q * 4 /\ 0 <= q /\ q < 64
  BY <1>1, <1>2, Z3
<1>4. PICK id \in Int, s \in Int : id = q \div 4 /\ s = q % 4
  OBVIOUS
<1>5. q = id * 4 + s /\ 0 <= s /\ s < 4
  BY <1>4, Z3
<1>6. 0 <= id /\ id < 16
  BY <1>3, <1>5
<1>7. b = id * 16 + s * 4
  BY <1>3, <1>5
<1>8. dense_cap(b) = id /\ dense_sig(b) = s
  BY <1>1, <1>5, <1>6, <1>7, ByteIs
<1>9. id \in 0..15 /\ s \in 0..3
  BY <1>5, <1>6
<1>10. QED
  BY <1>7, <1>8, <1>9

LEMMA DensePackIs ==
  ASSUME NEW c \in Capability
  PROVE  LET b == dense_pack(CapId(c))
         IN  /\ b \in Byte /\ dense_valid(b) /\ CAPS[dense_cap(b) + 1] = c
             /\ roots_of_signature(dense_sig(b)) = CapRoot(c)
<1>1. PICK id \in 0..11, s \in 0..3 : /\ id = CapId(c) /\ CAPS[id + 1] = c
                                      /\ s = signature_of(CapRoot(c)) /\ Signatures[s + 1] = CapRoot(c)
  BY CapIdIs, SignaturesAre
<1>2. PICK b \in Int : b = id * 16 + s * 4
  OBVIOUS
<1>3. dense_pack(CapId(c)) = b
  BY Zenon, <1>1, <1>2 DEF dense_pack
<1>4. b \in Byte /\ b % 4 = 0 /\ dense_cap(b) = id /\ dense_sig(b) = s
  <2>1. id \in 0..15 /\ s \in 0..3 /\ b \in Int
    BY <1>1, <1>2
  <2>2. QED
    BY Zenon, <1>2, <2>1, ByteIs
<1>5. s % 4 = s /\ id < 12
  OBVIOUS
<1>6. roots_of_signature(dense_sig(b)) = CapRoot(c)
  BY Zenon, <1>1, <1>4, <1>5 DEF roots_of_signature
<1>7. dense_valid(b)
  BY Zenon, <1>1, <1>4, <1>5, <1>6, CapsAre DEF dense_valid
<1>8. QED
  BY Zenon, <1>1, <1>3, <1>4, <1>6, <1>7

LEMMA DenseUnpackIs ==
  ASSUME NEW b \in Byte, dense_valid(b)
  PROVE  LET c == CAPS[dense_cap(b) + 1]
         IN  /\ c \in Capability /\ dense_pack(CapId(c)) = b
             /\ roots_of_signature(dense_sig(b)) = CapRoot(c)
<1>1. b % 4 = 0 /\ dense_cap(b) < 12
  BY CapsAre DEF dense_valid
<1>2. PICK id \in 0..15, s \in 0..3 : id = dense_cap(b) /\ s = dense_sig(b) /\ b = id * 16 + s * 4
  BY <1>1, BytesAre
<1>3. id \in 0..11
  <2>1. id < 12
    BY Zenon, <1>1, <1>2
  <2>2. QED
    BY <2>1
<1>4. PICK c \in Capability : c = CAPS[id + 1] /\ CapId(c) = id
  BY <1>3, CapsAre, CapIdIs
<1>5. roots_of_signature(dense_sig(b)) = CapRoot(c)
  BY Zenon, <1>2, <1>4 DEF dense_valid
<1>6. s % 4 = s
  OBVIOUS
<1>7. Signatures[s + 1] = CapRoot(c)
  BY Zenon, <1>2, <1>5, <1>6 DEF roots_of_signature
<1>8. signature_of(CapRoot(c)) = s
  <2>1. PICK t \in 0..3 : t = signature_of(CapRoot(c)) /\ Signatures[t + 1] = CapRoot(c)
    BY SignaturesAre
  <2>2. QED
    BY Zenon, <1>7, <2>1, SignaturesAre
<1>9. dense_pack(CapId(c)) = b
  BY Zenon, <1>2, <1>4, <1>8 DEF dense_pack
<1>10. QED
  BY Zenon, <1>2, <1>4, <1>5, <1>9

----------------------------------------------------------------------------
(* The dense encoding is exact.                                            *)

LEMMA DenseWalkIs ==
  ASSUME NEW p \in Seq(Byte)
  PROVE  IF \A i \in DOMAIN p : dense_valid(p[i])
         THEN DenseWalk(p) = [caps |-> [i \in DOMAIN p |-> CAPS[dense_cap(p[i]) + 1]], complete |-> TRUE]
         ELSE ~DenseWalk(p).complete
<1>1. PICK n \in Nat : n = Len(p) /\ DOMAIN p = 1..n
  OBVIOUS
<1>2. CASE \A i \in DOMAIN p : dense_valid(p[i])
  <2>1. DenseWalk(p) = [caps |-> [i \in 1..Len(p) |-> CAPS[dense_cap(p[i]) + 1]], complete |-> Len(p) = Len(p)]
    BY Zenon, <1>2 DEF DenseWalk
  <2>2. (Len(p) = Len(p)) = TRUE
    OBVIOUS
  <2>3. QED
    BY Zenon, <1>1, <1>2, <2>1, <2>2
<1>3. CASE ~\A i \in DOMAIN p : dense_valid(p[i])
  <2> DEFINE Wrong == {i \in DOMAIN p : ~dense_valid(p[i])}
             valid == Min(Wrong) - 1
  <2>1. DenseWalk(p) = [caps |-> [i \in 1..valid |-> CAPS[dense_cap(p[i]) + 1]], complete |-> valid = Len(p)]
    BY Zenon, <1>3 DEF DenseWalk
  <2>2. DenseWalk(p).complete = (valid = Len(p))
    BY <2>1
  <2>3. Wrong \subseteq 1..n /\ Wrong # {}
    BY <1>1, <1>3
  <2> HIDE DEF Wrong
  <2>4. Min(Wrong) \in 1..n
    <3>1. Wrong \subseteq Nat
      BY <2>3
    <3>2. Min(Wrong) \in Wrong
      BY <2>3, <3>1, MinProperties
    <3>3. QED
      BY <2>3, <3>2
  <2>5. valid # n
    BY <2>4
  <2> HIDE DEF valid
  <2>6. QED
    BY Zenon, <1>1, <1>3, <2>2, <2>5
<1>4. QED
  BY Zenon, <1>2, <1>3

(* Every workflow of capabilities, of any length, goes through the dense   *)
(* encoding unchanged.                                                     *)
LEMMA DenseCompiledIsDecoded ==
  ASSUME NEW ops \in Seq(Capability)
  PROVE  /\ compile_dense(ops) \in Seq(Byte)
         /\ DenseWalk(compile_dense(ops)) = [caps |-> ops, complete |-> TRUE]
<1>1. PICK n \in Nat : n = Len(ops) /\ DOMAIN ops = 1..n
  OBVIOUS
<1>2. \A i \in 1..n : ops[i] \in Capability
  BY <1>1
<1>3. \A i \in 1..n : /\ dense_pack(CapId(ops[i])) \in Byte /\ dense_valid(dense_pack(CapId(ops[i])))
                      /\ CAPS[dense_cap(dense_pack(CapId(ops[i]))) + 1] = ops[i]
  BY Zenon, <1>2, DensePackIs
<1>4. PICK p : p = compile_dense(ops)
  OBVIOUS
<1>5. p = [i \in 1..n |-> dense_pack(CapId(ops[i]))]
  BY Zenon, <1>1, <1>4 DEF compile_dense
<1>6. p \in Seq(Byte)
  BY <1>3, <1>5, IsASeq
<1>7. DOMAIN p = 1..n /\ \A i \in 1..n : p[i] = dense_pack(CapId(ops[i]))
  BY Zenon, <1>5
<1>8. DenseWalk(p) = [caps |-> [i \in DOMAIN p |-> CAPS[dense_cap(p[i]) + 1]], complete |-> TRUE]
  BY Zenon, <1>3, <1>6, <1>7, DenseWalkIs
<1>9. [i \in DOMAIN p |-> CAPS[dense_cap(p[i]) + 1]] = [i \in 1..n |-> ops[i]]
  BY Zenon, <1>3, <1>7
<1>10. [i \in 1..n |-> ops[i]] = ops
  BY <1>1
<1>11. QED
  BY Zenon, <1>4, <1>6, <1>8, <1>9, <1>10

(* Every program of bytes, of any length, that the dense decoder accepts   *)
(* is the program of the workflow it decodes to, and its signatures give   *)
(* the workflow's roots (bytecode.cpp:106-124).                            *)
THEOREM DenseIsExact ==
  ASSUME NEW p \in Seq(Byte), DenseWalk(p).complete
  PROVE  /\ dense_decode_caps(p) \in Seq(Capability)
         /\ compile_dense(dense_decode_caps(p)) = p
         /\ dense_decode_roots(p) = RootsOf(dense_decode_caps(p))
<1>1. PICK n \in Nat : n = Len(p) /\ DOMAIN p = 1..n
  OBVIOUS
<1>2. \A i \in 1..n : dense_valid(p[i]) /\ p[i] \in Byte
  BY Zenon, <1>1, DenseWalkIs, ElementOfSeq
<1>3. PICK caps : caps = [i \in 1..n |-> CAPS[dense_cap(p[i]) + 1]]
  OBVIOUS
<1>4. DenseWalk(p) = [caps |-> caps, complete |-> TRUE]
  BY Zenon, <1>1, <1>2, <1>3, DenseWalkIs
<1>5. dense_decode_caps(p) = caps
  <2>1. [caps |-> caps, complete |-> TRUE].caps = caps
    OBVIOUS
  <2>2. QED
    BY Zenon, <1>4, <2>1 DEF dense_decode_caps
<1>6. DOMAIN caps = 1..n /\ \A i \in 1..n : caps[i] = CAPS[dense_cap(p[i]) + 1]
  BY Zenon, <1>3
<1>7. \A i \in 1..n : /\ caps[i] \in Capability /\ dense_pack(CapId(caps[i])) = p[i]
                      /\ roots_of_signature(dense_sig(p[i])) = CapRoot(caps[i])
  BY Zenon, <1>2, <1>6, DenseUnpackIs
<1>8. caps \in Seq(Capability)
  <2>1. caps = [i \in 1..n |-> caps[i]]
    BY <1>3
  <2>2. QED
    BY <1>7, <2>1, IsASeq
<1>9. compile_dense(caps) = [i \in 1..n |-> p[i]]
  BY Zenon, <1>6, <1>7 DEF compile_dense
<1>10. [i \in 1..n |-> p[i]] = p
  BY <1>1
<1>11. dense_decode_roots(p) = Flatten([i \in DOMAIN p |-> roots_of_signature(dense_sig(p[i]))])
  BY Zenon, <1>1, <1>2 DEF dense_decode_roots
<1>12. [i \in DOMAIN p |-> roots_of_signature(dense_sig(p[i]))] = [i \in DOMAIN caps |-> CapRoot(caps[i])]
  BY Zenon, <1>1, <1>6, <1>7
<1>13. dense_decode_roots(p) = RootsOf(caps)
  BY Zenon, <1>11, <1>12 DEF RootsOf
<1>14. QED
  BY Zenon, <1>5, <1>8, <1>9, <1>10, <1>13

LEMMA DecodesBack ==
  ASSUME NEW ops \in Seq(Capability)
  PROVE  /\ decode_caps(compile_caps(ops)) = ops
         /\ dense_decode_caps(compile_dense(ops)) = ops
<1> DEFINE all == [caps |-> ops, complete |-> TRUE]
<1>1. Walk(compile_caps(ops), TRUE) = all /\ DenseWalk(compile_dense(ops)) = all
  BY Zenon, CompiledIsDecoded, DenseCompiledIsDecoded
<1>2. all.complete = TRUE /\ all.caps = ops
  OBVIOUS
<1> HIDE DEF all
<1>3. Walk(compile_caps(ops), TRUE).complete = TRUE /\ Walk(compile_caps(ops), TRUE).caps = ops
  BY Zenon, <1>1, <1>2
<1>4. DenseWalk(compile_dense(ops)).complete = TRUE /\ DenseWalk(compile_dense(ops)).caps = ops
  BY Zenon, <1>1, <1>2
<1>5. QED
  BY Zenon, <1>3, <1>4 DEF decode_caps, dense_decode_caps

----------------------------------------------------------------------------
(* What the run tries is a small part of it.                               *)

LEMMA TriedWords == SomeWords \subseteq Word /\ SomeBytes \subseteq Byte
<1>1. ASSUME NEW op \in 0..3, NEW id \in 0..63, NEW operand \in 0..63
      PROVE  pack(op, id, operand) \in Word
  <2>1. PICK w \in Int : w = op * 16384 + (id * 256 + operand)
    OBVIOUS
  <2>2. id % 64 = id
    OBVIOUS
  <2>3. pack(op, id, operand) = w /\ 0 <= w /\ w < 65536
    BY <2>1, <2>2 DEF pack
  <2>4. QED
    BY <2>1, <2>3, WordIs
<1>2. ASSUME NEW slot \in SomeSlots
      PROVE  slot[1] \in 0..63 /\ slot[2] \in 0..63
  BY DEF SomeSlots
<1>3. ASSUME NEW w \in SomeWords
      PROVE  w \in Word
  <2>1. PICK op \in 0..3, slot \in SomeSlots : w = pack(op, slot[1], slot[2])
    BY DEF SomeWords
  <2>2. QED
    BY Zenon, <1>1, <1>2, <2>1
<1>4. SomeBytes \subseteq Byte
  BY DEF SomeBytes, Byte
<1>5. QED
  BY <1>3, <1>4

LEMMA TriedPrograms ==
  ASSUME NEW X, NEW n \in Nat
  PROVE  \A Y \in SUBSET X : [1..n -> Y] \subseteq Seq(X)
<1>1. ASSUME NEW Y \in SUBSET X, NEW p \in [1..n -> Y]
      PROVE  p \in Seq(X)
  <2>1. p \in [1..n -> X]
    OBVIOUS
  <2>2. QED
    BY Zenon, <2>1, SeqDef
<1>2. QED
  BY <1>1

(* What the decoders accept is exactly what the compilers emit, on the     *)
(* programs the run tries (bytecode.cpp decode_caps, decode_roots,         *)
(* execute_bytecode and their dense forms); ExplicitIsExact and DenseIsExact *)
(* say it of every program.                                                *)
THEOREM DecodersAreExact == Spec => []FormatsAreExact
<1>1. ASSUME NEW p \in Upto3(SomeWords) \cup [1..1 -> Word], decode_caps(p) # Bad
      PROVE  /\ compile_caps(decode_caps(p)) = p
             /\ decode_roots(p) = RootsOf(decode_caps(p))
             /\ Walk(p, FALSE) = [caps |-> decode_caps(p), complete |-> TRUE]
  <2>1. \A n \in {1, 2, 3} : [1..n -> SomeWords] \subseteq Seq(Word)
    BY TriedWords, TriedPrograms
  <2>2. 1..3 = {1, 2, 3}
    OBVIOUS
  <2>3. Upto3(SomeWords) \subseteq Seq(Word)
    BY Zenon, <2>1, <2>2 DEF Upto3
  <2>4. [1..1 -> Word] \subseteq Seq(Word)
    BY TriedWords, TriedPrograms, 1 \in Nat
  <2>5. p \in Seq(Word)
    BY Zenon, <1>1, <2>3, <2>4
  <2>6. Walk(p, TRUE).complete
    BY Zenon, <1>1 DEF decode_caps
  <2>7. QED
    BY Zenon, <2>5, <2>6, ExplicitIsExact
<1>2. ASSUME NEW p \in [1..2 -> SomeBytes] \cup [1..1 -> Byte], dense_decode_caps(p) # Bad
      PROVE  /\ compile_dense(dense_decode_caps(p)) = p
             /\ dense_decode_roots(p) = RootsOf(dense_decode_caps(p))
  <2>1. [1..2 -> SomeBytes] \subseteq Seq(Byte)
    BY TriedWords, TriedPrograms, 2 \in Nat
  <2>2. [1..1 -> Byte] \subseteq Seq(Byte)
    BY TriedWords, TriedPrograms, 1 \in Nat
  <2>3. p \in Seq(Byte)
    BY Zenon, <1>2, <2>1, <2>2
  <2>4. DenseWalk(p).complete
    BY Zenon, <1>2 DEF dense_decode_caps
  <2>5. QED
    BY Zenon, <2>3, <2>4, DenseIsExact
<1>3. ASSUME NEW ops \in [1..2 -> Capability]
      PROVE  decode_caps(compile_caps(ops)) = ops /\ dense_decode_caps(compile_dense(ops)) = ops
  <2>1. ops \in Seq(Capability)
    BY Zenon, TriedPrograms, 2 \in Nat
  <2>2. QED
    BY <2>1, DecodesBack
<1>4. FormatsAreExact
  BY Zenon, <1>1, <1>2, <1>3 DEF FormatsAreExact
<1>5. QED
  BY <1>4, PTL

----------------------------------------------------------------------------
(* What the planner learns: its history and the workflows to execute are   *)
(* sequences of capabilities.                                              *)

LEMMA PutIs ==
  ASSUME NEW map, NEW key, NEW value
  PROVE  /\ DOMAIN Put(map, key, value) = DOMAIN map \cup {key}
         /\ Put(map, key, value)[key] = value
         /\ \A k \in DOMAIN map : k # key => Put(map, key, value)[k] = map[k]
BY DEF Put

LEMMA BasePlanHistory ==
  ASSUME NEW p, "history" \in DOMAIN p, NEW ep
  PROVE  /\ DOMAIN BasePlan(p, ep) = DOMAIN p
         /\ BasePlan(p, ep).history = Put(p.history, ep.task, ep.ops)
<1>1. /\ DOMAIN Recorded(p, ep) = DOMAIN p
      /\ Recorded(p, ep).history = Put(p.history, ep.task, ep.ops)
  BY DEF Recorded
<1>2. ASSUME NEW q, "history" \in DOMAIN q, NEW words, NEW saving
      PROVE  DOMAIN Grown(q, words, saving) = DOMAIN q /\ Grown(q, words, saving).history = q.history
  BY <1>2 DEF Grown
<1>3. ASSUME NEW q, "history" \in DOMAIN q, NEW cands
      PROVE  DOMAIN MaybeGrow(q, cands) = DOMAIN q /\ MaybeGrow(q, cands).history = q.history
  BY <1>2, <1>3 DEF MaybeGrow
<1>4. ASSUME NEW q, "history" \in DOMAIN q
      PROVE  DOMAIN Touched(q, ep) = DOMAIN q /\ Touched(q, ep).history = q.history
  BY <1>4 DEF Touched
<1>5. QED
  BY Zenon, <1>1, <1>3, <1>4 DEF BasePlan

Plans(after, workload) ==
  after = [i \in 0..Len(workload) |->
             IF i = 0 THEN NewPlanner(8, 3, 0, 0) ELSE BasePlan(after[i - 1], workload[i])]

LEMMA PlansExist ==
  ASSUME NEW workload, Len(workload) \in Nat
  PROVE  \E after : Plans(after, workload)
<1> DEFINE Def(g, n) == IF n = 0 THEN NewPlanner(8, 3, 0, 0) ELSE BasePlan(g[n - 1], workload[n])
           T == {k \in 0..Len(workload) : \E g : g = [n \in 0..k |-> Def(g, n)]}
<1>1. 0 \in T
  <2> DEFINE g == [n \in 0..0 |-> NewPlanner(8, 3, 0, 0)]
  <2>1. g = [n \in 0..0 |-> Def(g, n)]
    OBVIOUS
  <2> HIDE DEF g, Def
  <2>2. QED
    BY <2>1
<1>2. ASSUME NEW k \in 0..(Len(workload) - 1), k \in T
      PROVE  k + 1 \in T
  <2>1. PICK g : g = [n \in 0..k |-> Def(g, n)]
    BY <1>2
  <2> DEFINE h == [n \in 0..(k + 1) |-> Def(g, n)]
  <2>2. \A n \in 0..k : h[n] = g[n]
    <3>1. \A n \in 0..k : n \in 0..(k + 1)
      OBVIOUS
    <3> HIDE DEF Def
    <3>2. QED
      BY <2>1, <3>1
  <2>3. ASSUME NEW n \in 0..(k + 1)
        PROVE  Def(h, n) = Def(g, n)
    <3>1. n = 0 \/ n - 1 \in 0..k
      OBVIOUS
    <3> HIDE DEF h
    <3>2. QED
      BY <2>2, <3>1
  <2>4. h = [n \in 0..(k + 1) |-> Def(h, n)]
    <3> HIDE DEF Def
    <3> QED
      BY <2>3
  <2> HIDE DEF h, Def
  <2>5. k + 1 \in 0..Len(workload)
    OBVIOUS
  <2>6. QED
    BY <2>4, <2>5
<1>3. \E g : g = [n \in 0..Len(workload) |-> Def(g, n)]
  <2>1. \A k \in 0..Len(workload) : k \in T
    <3> HIDE DEF T
    <3> QED
      BY <1>1, <1>2, InductionUpTo
  <2> HIDE DEF Def
  <2>2. QED
    BY <2>1
<1>4. QED
  BY Zenon, <1>3 DEF Plans

(* A history that can be read back: finitely many tasks, known names.      *)
Recalls(history) ==
  /\ IsFiniteSet(DOMAIN history)
  /\ \A task \in DOMAIN history : history[task] \in Seq(Capability)

LEMMA WorkloadType ==
  ASSUME NEW workload \in Workloads
  PROVE  /\ Len(workload) \in Nat
         /\ \A i \in 1..Len(workload) : workload[i].ops \in Seq(Capability)
<1>1. workload \in Seq(Range(workload)) /\ \A ep \in Range(workload) : ep.ops \in Seq(Capability)
  BY MachineAssumption
<1>2. \A i \in 1..Len(workload) : workload[i] \in Range(workload)
  BY <1>1 DEF Range
<1>3. QED
  BY <1>1, <1>2

LEMMA PlansRecall ==
  ASSUME NEW workload \in Workloads, NEW after, Plans(after, workload)
  PROVE  Recalls(after[Len(workload)].history)
<1>1. Len(workload) \in Nat /\ \A i \in 1..Len(workload) : workload[i].ops \in Seq(Capability)
  BY WorkloadType
<1>2. Len(workload) \in Nat
  BY <1>1
<1> DEFINE T == {k \in 0..Len(workload) : "history" \in DOMAIN after[k] /\ Recalls(after[k].history)}
<1>4. 0 \in T
  <2>1. after[0] = NewPlanner(8, 3, 0, 0)
    BY <1>2 DEF Plans
  <2>2. "history" \in DOMAIN after[0] /\ after[0].history = <<>>
    BY <2>1 DEF NewPlanner
  <2>3. DOMAIN after[0].history = {}
    BY <2>2
  <2>4. Recalls(after[0].history)
    BY <2>3, FS_EmptySet DEF Recalls
  <2>5. QED
    BY <1>2, <2>2, <2>4
<1>5. ASSUME NEW k \in 0..(Len(workload) - 1), k \in T
      PROVE  k + 1 \in T
  <2>1. k + 1 \in 0..Len(workload) /\ k + 1 # 0 /\ (k + 1) - 1 = k /\ k + 1 \in 1..Len(workload)
    BY <1>2
  <2>2. after[k + 1] = BasePlan(after[k], workload[k + 1])
    BY <2>1 DEF Plans
  <2>3. PICK ep : ep = workload[k + 1]
    OBVIOUS
  <2>4. /\ DOMAIN after[k + 1] = DOMAIN after[k]
        /\ after[k + 1].history = Put(after[k].history, ep.task, ep.ops)
    BY <1>5, <2>2, <2>3, BasePlanHistory
  <2>5. ep.ops \in Seq(Capability)
    BY <1>1, <2>1, <2>3
  <2>6. Recalls(after[k].history)
    BY <1>5
  <2>7. IsFiniteSet(DOMAIN after[k].history \cup {ep.task})
    BY <2>6, FS_AddElement DEF Recalls
  <2>8. Recalls(after[k + 1].history)
    <3>1. PICK old, new : old = after[k].history /\ new = Put(old, ep.task, ep.ops)
      OBVIOUS
    <3>2. /\ DOMAIN new = DOMAIN old \cup {ep.task} /\ new[ep.task] = ep.ops
          /\ \A task \in DOMAIN old : task # ep.task => new[task] = old[task]
      <4>1. PICK t, v : t = ep.task /\ v = ep.ops /\ new = Put(old, t, v)
        BY <3>1
      <4>2. QED
        BY <4>1 DEF Put
    <3>3. \A task \in DOMAIN old : old[task] \in Seq(Capability)
      BY Zenon, <2>6, <3>1 DEF Recalls
    <3>4. IsFiniteSet(DOMAIN new)
      BY Zenon, <2>7, <3>1, <3>2
    <3>5. \A task \in DOMAIN new : new[task] \in Seq(Capability)
      BY <2>5, <3>2, <3>3
    <3>6. QED
      BY Zenon, <2>4, <3>1, <3>4, <3>5 DEF Recalls
  <2>9. QED
    BY <1>5, <2>1, <2>4, <2>8
<1>6. Len(workload) \in T
  <2>1. \A k \in 0..Len(workload) : k \in T
    <3> HIDE DEF T
    <3> QED
      BY <1>2, <1>4, <1>5, InductionUpTo
  <2> HIDE DEF T
  <2>2. QED
    BY <1>2, <2>1
<1>7. QED
  BY <1>6

(* The fold that lists the final tasks in the order of the history.        *)
Lists(it, history, S) ==
  it = [U \in SUBSET S |->
          IF U = {} THEN <<>>
          ELSE LET x == CHOOSE x \in U : TRUE IN Append(it[U \ {x}], history[x])]

LEMMA ListsExist ==
  ASSUME NEW history, NEW S, IsFiniteSet(S)
  PROVE  \E it : Lists(it, history, S)
<1> DEFINE Def(g, U) == IF U = {} THEN <<>>
                        ELSE LET x == CHOOSE x \in U : TRUE IN Append(g[U \ {x}], history[x])
           Small(n)  == {U \in SUBSET S : Cardinality(U) <= n}
           T == {n \in 0..Cardinality(S) : \E g : g = [U \in Small(n) |-> Def(g, U)]}
<1>1. \A U \in SUBSET S : /\ IsFiniteSet(U) /\ Cardinality(U) \in 0..Cardinality(S)
                          /\ Cardinality(U) = 0 <=> U = {}
  <2>1. Cardinality(S) \in Nat
    BY FS_CardinalityType
  <2>2. \A U \in SUBSET S : IsFiniteSet(U) /\ Cardinality(U) \in Nat /\ Cardinality(U) <= Cardinality(S)
    BY FS_Subset, FS_CardinalityType
  <2>3. QED
    BY <2>1, <2>2, FS_EmptySet
<1>2. Cardinality(S) \in Nat
  BY FS_CardinalityType
<1>3. 0 \in T
  <2> DEFINE g == [U \in Small(0) |-> <<>>]
  <2>1. \A U \in Small(0) : U = {}
    BY <1>1
  <2>2. g = [U \in Small(0) |-> Def(g, U)]
    BY <2>1
  <2> HIDE DEF g, Def, Small
  <2>3. 0 \in 0..Cardinality(S)
    BY <1>2
  <2>4. QED
    BY <2>2, <2>3
<1>4. ASSUME NEW n \in 0..(Cardinality(S) - 1), n \in T
      PROVE  n + 1 \in T
  <2>1. PICK g : g = [U \in Small(n) |-> Def(g, U)]
    BY <1>4
  <2> DEFINE h == [U \in Small(n + 1) |-> Def(g, U)]
  <2>2. \A U \in Small(n) : U \in Small(n + 1) /\ h[U] = g[U]
    <3>1. \A U \in Small(n) : U \in Small(n + 1)
      BY <1>1, <1>2
    <3> HIDE DEF Def, Small
    <3>2. QED
      BY <2>1, <3>1
  <2>3. ASSUME NEW U \in Small(n + 1)
        PROVE  Def(h, U) = Def(g, U)
    <3>1. CASE U = {}
      BY <3>1
    <3>2. CASE U # {}
      <4> DEFINE x == CHOOSE x \in U : TRUE
      <4>1. x \in U
        BY <3>2
      <4> HIDE DEF x
      <4>2. Cardinality(U \ {x}) = Cardinality(U) - 1
        BY <1>1, <4>1, FS_RemoveElement
      <4>3. U \ {x} \in Small(n)
        BY <1>1, <1>2, <4>2
      <4>4. h[U \ {x}] = g[U \ {x}]
        BY <2>2, <4>3
      <4>5. Append(h[U \ {x}], history[x]) = Append(g[U \ {x}], history[x])
        BY <4>4
      <4> HIDE DEF h
      <4>6. QED
        BY <3>2, <4>5 DEF x
    <3>3. QED
      BY <3>1, <3>2
  <2>4. h = [U \in Small(n + 1) |-> Def(h, U)]
    <3> HIDE DEF Def, Small
    <3> QED
      BY <2>3
  <2> HIDE DEF h, Def, Small
  <2>5. n + 1 \in 0..Cardinality(S)
    BY <1>2
  <2>6. QED
    BY <2>4, <2>5
<1>5. Cardinality(S) \in T
  <2> HIDE DEF T
  <2>1. \A k \in 0..Cardinality(S) : k \in T
    BY <1>2, <1>3, <1>4, InductionUpTo
  <2>2. QED
    BY <1>2, <2>1
<1>6. Small(Cardinality(S)) = SUBSET S
  BY <1>1
<1>7. \E g : g = [U \in SUBSET S |-> Def(g, U)]
  <2> HIDE DEF Def, Small
  <2> QED
    BY <1>5, <1>6
<1>8. QED
  BY <1>7 DEF Lists

LEMMA TasksListed ==
  ASSUME NEW history, Recalls(history), NEW it, Lists(it, history, DOMAIN history)
  PROVE  it[DOMAIN history] \in Seq(Seq(Capability))
<1> DEFINE S == DOMAIN history
           T == {U \in SUBSET S : it[U] \in Seq(Seq(Capability))}
<1>1. IsFiniteSet(S) /\ \A x \in S : history[x] \in Seq(Capability)
  BY DEF Recalls
<1>2. ASSUME NEW U \in SUBSET S, \A V \in SUBSET U : V # U => V \in T
      PROVE  U \in T
  <2>1. it[U] = IF U = {} THEN <<>>
                ELSE LET x == CHOOSE x \in U : TRUE IN Append(it[U \ {x}], history[x])
    BY DEF Lists
  <2>2. CASE U = {}
    <3>1. it[U] = <<>>
      BY Zenon, <2>1, <2>2
    <3>2. <<>> \in Seq(Seq(Capability))
      OBVIOUS
    <3>3. it[U] \in Seq(Seq(Capability))
      BY Zenon, <3>1, <3>2
    <3>4. QED
      BY <3>3
  <2>3. CASE U # {}
    <3>1. PICK x \in U : it[U] = Append(it[U \ {x}], history[x])
      <4>1. \E x \in U : TRUE
        BY <2>3
      <4>2. QED
        BY Zenon, <2>1, <2>3, <4>1
    <3>2. U \ {x} \in T
      BY <1>2
    <3>3. PICK t, h : t = it[U \ {x}] /\ h = history[x]
      OBVIOUS
    <3>4. t \in Seq(Seq(Capability)) /\ h \in Seq(Capability)
      BY <1>1, <3>2, <3>3
    <3>5. Append(t, h) \in Seq(Seq(Capability))
      BY <3>4
    <3>6. it[U] \in Seq(Seq(Capability))
      BY Zenon, <3>1, <3>3, <3>5
    <3>7. QED
      BY <3>6
  <2>4. QED
    BY <2>2, <2>3
<1>3. S \in T
  <2>1. \A U \in SUBSET S : U \in T
    <3> HIDE DEF T
    <3> QED
      BY <1>1, <1>2, PartInduction
  <2>2. QED
    BY <2>1
<1>4. QED
  BY <1>3

(* The same for the selection of the workflows to execute.                 *)
Selects(out, workload) ==
  out = [i \in 0..Len(workload) |->
           IF i = 0 THEN <<>> ELSE Selected(out[i - 1], workload[i].ops)]

LEMMA SelectsExist ==
  ASSUME NEW workload, Len(workload) \in Nat
  PROVE  \E out : Selects(out, workload)
<1> DEFINE Def(g, n) == IF n = 0 THEN <<>> ELSE Selected(g[n - 1], workload[n].ops)
           T == {k \in 0..Len(workload) : \E g : g = [n \in 0..k |-> Def(g, n)]}
<1>1. 0 \in T
  <2> DEFINE g == [n \in 0..0 |-> <<>>]
  <2>1. g = [n \in 0..0 |-> Def(g, n)]
    OBVIOUS
  <2> HIDE DEF g, Def
  <2>2. QED
    BY <2>1
<1>2. ASSUME NEW k \in 0..(Len(workload) - 1), k \in T
      PROVE  k + 1 \in T
  <2>1. PICK g : g = [n \in 0..k |-> Def(g, n)]
    BY <1>2
  <2> DEFINE h == [n \in 0..(k + 1) |-> Def(g, n)]
  <2>2. \A n \in 0..k : h[n] = g[n]
    <3>1. \A n \in 0..k : n \in 0..(k + 1)
      OBVIOUS
    <3> HIDE DEF Def
    <3>2. QED
      BY <2>1, <3>1
  <2>3. ASSUME NEW n \in 0..(k + 1)
        PROVE  Def(h, n) = Def(g, n)
    <3>1. n = 0 \/ n - 1 \in 0..k
      OBVIOUS
    <3> HIDE DEF h
    <3>2. QED
      BY <2>2, <3>1
  <2>4. h = [n \in 0..(k + 1) |-> Def(h, n)]
    <3> HIDE DEF Def
    <3> QED
      BY <2>3
  <2> HIDE DEF h, Def
  <2>5. k + 1 \in 0..Len(workload)
    OBVIOUS
  <2>6. QED
    BY <2>4, <2>5
<1>3. \E g : g = [n \in 0..Len(workload) |-> Def(g, n)]
  <2>1. \A k \in 0..Len(workload) : k \in T
    <3> HIDE DEF T
    <3> QED
      BY <1>1, <1>2, InductionUpTo
  <2> HIDE DEF Def
  <2>2. QED
    BY <2>1
<1>4. QED
  BY Zenon, <1>3 DEF Selects

LEMMA SubsetType ==
  ASSUME NEW workload \in Workloads
  PROVE  UniqueExecSubset(workload) \in Seq(Seq(Capability))
<1>1. Len(workload) \in Nat /\ \A i \in 1..Len(workload) : workload[i].ops \in Seq(Capability)
  BY WorkloadType
<1> DEFINE F == CHOOSE out : Selects(out, workload)
<1>2. Selects(F, workload)
  BY <1>1, SelectsExist
<1>3. UniqueExecSubset(workload) = F[Len(workload)]
  BY Zenon DEF UniqueExecSubset, Selects
<1> HIDE DEF F
<1> DEFINE T == {k \in 0..Len(workload) : F[k] \in Seq(Seq(Capability))}
<1>4. 0 \in T
  <2>1. F[0] = <<>>
    BY <1>1, <1>2 DEF Selects
  <2>2. <<>> \in Seq(Seq(Capability)) /\ 0 \in 0..Len(workload)
    BY <1>1
  <2>3. F[0] \in Seq(Seq(Capability))
    BY Zenon, <2>1, <2>2
  <2>4. QED
    BY <2>2, <2>3
<1>5. ASSUME NEW k \in 0..(Len(workload) - 1), k \in T
      PROVE  k + 1 \in T
  <2>1. k + 1 \in 0..Len(workload) /\ k + 1 # 0 /\ (k + 1) - 1 = k /\ k + 1 \in 1..Len(workload)
    BY <1>1
  <2>2. PICK t, ops : t = F[k] /\ ops = workload[k + 1].ops
    OBVIOUS
  <2>3. t \in Seq(Seq(Capability)) /\ ops \in Seq(Capability)
    BY <1>1, <1>5, <2>1, <2>2
  <2>4. F[k + 1] = Selected(t, ops)
    BY <1>2, <2>1, <2>2 DEF Selects
  <2>5. Append(t, ops) \in Seq(Seq(Capability))
    BY <2>3
  <2>6. F[k + 1] \in Seq(Seq(Capability))
    BY Zenon, <2>3, <2>4, <2>5 DEF Selected
  <2>7. QED
    BY <2>1, <2>6
<1>6. Len(workload) \in T
  <2>1. \A k \in 0..Len(workload) : k \in T
    <3> HIDE DEF T
    <3> QED
      BY <1>1, <1>4, <1>5, InductionUpTo
  <2> HIDE DEF T
  <2>2. QED
    BY <1>1, <2>1
<1>7. QED
  BY <1>3, <1>6

LEMMA LearnedType ==
  ASSUME NEW workload \in Workloads
  PROVE  /\ Learned(workload).final_tasks \in Seq(Seq(Capability))
         /\ Learned(workload).subset \in Seq(Seq(Capability))
<1> DEFINE F == CHOOSE after : Plans(after, workload)
<1>1. Len(workload) \in Nat
  BY WorkloadType
<1>2. Plans(F, workload)
  BY <1>1, PlansExist
<1>3. Recalls(F[Len(workload)].history)
  BY <1>2, PlansRecall
<1> DEFINE history == F[Len(workload)].history
           G == CHOOSE it : Lists(it, history, DOMAIN history)
<1>4. Lists(G, history, DOMAIN history)
  BY <1>3, ListsExist DEF Recalls
<1>5. Learned(workload).final_tasks = G[DOMAIN history]
  BY Zenon DEF Learned, Plans, Lists, FoldSet, MapThenFoldSet
<1> HIDE DEF F
<1>6. G[DOMAIN history] \in Seq(Seq(Capability))
  <2> HIDE DEF G, history
  <2>1. QED
    BY <1>3, <1>4, TasksListed DEF history
<1>7. Learned(workload).subset = UniqueExecSubset(workload)
  BY Zenon DEF Learned
<1>8. QED
  BY Zenon, <1>5, <1>6, <1>7, SubsetType

----------------------------------------------------------------------------
(* The block tables.                                                       *)

Compiler      == [ops \in Seq(Capability) |-> compile_caps(ops)]
DenseCompiler == [ops \in Seq(Capability) |-> compile_dense(ops)]

(* A table with room for n blocks holds the programs of its workflows, one *)
(* block each, and every id up to the last is taken.                       *)
Interns(table, compiler, n) ==
  /\ table.blocks \in Seq(Range(compiler)) /\ Len(table.blocks) <= n
  /\ DOMAIN table.by_ops \subseteq Seq(Capability)
  /\ \A ops \in DOMAIN table.by_ops :
       /\ table.by_ops[ops] \in 0..(Len(table.blocks) - 1)
       /\ table.blocks[table.by_ops[ops] + 1] = compiler[ops]
  /\ \A id \in 0..(Len(table.blocks) - 1) : \E ops \in DOMAIN table.by_ops : table.by_ops[ops] = id
  /\ \A a, b \in DOMAIN table.by_ops : table.by_ops[a] = table.by_ops[b] => a = b

LEMMA NewTableInterns ==
  ASSUME NEW compiler, NEW n \in Nat
  PROVE  Interns(NewTable, compiler, n)
<1>1. NewTable.blocks = <<>> /\ DOMAIN NewTable.by_ops = {}
  BY DEF NewTable
<1>2. NewTable.blocks \in Seq(Range(compiler)) /\ Len(NewTable.blocks) = 0
  BY <1>1
<1>3. 0..(0 - 1) = {}
  OBVIOUS
<1>4. QED
  BY <1>1, <1>2, <1>3 DEF Interns

(* There is room for a workflow, or it is there already.                   *)
Fits(table, compiler, ops, n) ==
  /\ Interns(table, compiler, n) /\ DOMAIN compiler = Seq(Capability)
  /\ n \in Nat /\ ops \in Seq(Capability)
  /\ ops \in DOMAIN table.by_ops \/ Len(table.blocks) < n

LEMMA InternSound ==
  ASSUME NEW table, NEW compiler, NEW ops, NEW n, Fits(table, compiler, ops, n)
  PROVE  LET after == Intern(table, ops, compiler[ops])
         IN  /\ Interns(after, compiler, n)
             /\ DOMAIN after.by_ops = DOMAIN table.by_ops \cup {ops}
             /\ Len(after.blocks)
                  = IF ops \in DOMAIN table.by_ops THEN Len(table.blocks) ELSE Len(table.blocks) + 1
<1>1. /\ Interns(table, compiler, n) /\ DOMAIN compiler = Seq(Capability)
      /\ n \in Nat /\ ops \in Seq(Capability)
      /\ ops \in DOMAIN table.by_ops \/ Len(table.blocks) < n
  BY DEF Fits
<1>2. CASE ops \in DOMAIN table.by_ops
  <2>1. Intern(table, ops, compiler[ops]) = table
    BY <1>2 DEF Intern
  <2>2. DOMAIN table.by_ops \cup {ops} = DOMAIN table.by_ops
    BY <1>2
  <2>3. QED
    BY Zenon, <1>1, <1>2, <2>1, <2>2
<1>3. CASE ops \notin DOMAIN table.by_ops
  <2>1. PICK blocks, ids, program : blocks = table.blocks /\ ids = table.by_ops /\ program = compiler[ops]
    OBVIOUS
  <2>2. /\ blocks \in Seq(Range(compiler)) /\ Len(blocks) < n
        /\ DOMAIN ids \subseteq Seq(Capability) /\ ops \notin DOMAIN ids
    BY <1>1, <1>3, <2>1 DEF Interns
  <2>3. \A o \in DOMAIN ids : ids[o] \in 0..(Len(blocks) - 1) /\ blocks[ids[o] + 1] = compiler[o]
    BY <1>1, <2>1 DEF Interns
  <2>4. \A id \in 0..(Len(blocks) - 1) : \E o \in DOMAIN ids : ids[o] = id
    BY <1>1, <2>1 DEF Interns
  <2>5. \A a, b \in DOMAIN ids : ids[a] = ids[b] => a = b
    BY <1>1, <2>1 DEF Interns
  <2>6. PICK m \in Nat : m = Len(blocks)
    BY <2>2
  <2>7. PICK more, put : more = Append(blocks, program) /\ put = Put(ids, ops, m)
    OBVIOUS
  <2>8. program \in Range(compiler)
    BY <1>1, <2>1 DEF Range
  <2>9. /\ more \in Seq(Range(compiler)) /\ Len(more) = m + 1 /\ more[m + 1] = program
        /\ \A i \in 1..m : more[i] = blocks[i]
    BY <2>2, <2>6, <2>7, <2>8
  <2>10. /\ DOMAIN put = DOMAIN ids \cup {ops} /\ put[ops] = m
         /\ \A o \in DOMAIN ids : put[o] = ids[o]
    BY <2>2, <2>7 DEF Put
  <2>11. \A o \in DOMAIN ids : /\ put[o] \in 0..(m - 1) /\ put[o] + 1 \in 1..m
                               /\ more[put[o] + 1] = compiler[o]
    BY <2>3, <2>6, <2>9, <2>10
  <2>12. \A o \in DOMAIN put : put[o] \in 0..m /\ more[put[o] + 1] = compiler[o]
    BY <2>1, <2>9, <2>10, <2>11
  <2>13. \A id \in 0..m : \E o \in DOMAIN put : put[o] = id
    <3>1. \A id \in 0..m : id \in 0..(m - 1) \/ id = m
      OBVIOUS
    <3>2. QED
      BY <2>4, <2>6, <2>10, <3>1
  <2>14. \A a, b \in DOMAIN put : put[a] = put[b] => a = b
    <3>1. \A o \in DOMAIN ids : put[o] # m
      BY <2>11
    <3>2. QED
      BY <2>5, <2>10, <3>1
  <2>15. PICK after : after = [blocks |-> more, by_ops |-> put]
    OBVIOUS
  <2>16. Intern(table, ops, compiler[ops]) = after
    BY Zenon, <1>3, <2>1, <2>6, <2>7, <2>15 DEF Intern
  <2>17. after.blocks = more /\ after.by_ops = put
    BY <2>15
  <2>18. /\ (m + 1) - 1 = m /\ m + 1 <= n
         /\ DOMAIN put \subseteq Seq(Capability)
    BY <1>1, <2>2, <2>6, <2>10
  <2>19. Interns(after, compiler, n)
    <3>1. Len(more) - 1 = m /\ Len(more) <= n
      BY <2>9, <2>18
    <3>2. QED
      BY Zenon, <2>9, <2>12, <2>13, <2>14, <2>17, <2>18, <3>1 DEF Interns
  <2>20. QED
    BY Zenon, <1>3, <2>1, <2>6, <2>9, <2>10, <2>16, <2>17, <2>19
<1>4. QED
  BY Zenon, <1>2, <1>3

(* The inductive invariant of the tables: each interns what its compiler   *)
(* emits, and until the drifted program of the last audit goes to the      *)
(* explicit table alone, both hold the same workflows under the same       *)
(* number of ids, so that a check of the one for room serves the other.    *)
Workflows == Seq(Seq(Capability))

Running == pc \in {"compile", "execute"}

TableInv ==
  /\ limit \in Nat /\ at \in Nat \ {0} /\ mode \in Nat
  /\ learned.final_tasks \in Workflows /\ learned.subset \in Workflows
  /\ Interns(explicit, Compiler, limit) /\ Interns(dense, DenseCompiler, limit)
  /\ DOMAIN dense.by_ops \subseteq DOMAIN explicit.by_ops
  /\ Running => /\ DOMAIN explicit.by_ops \subseteq DOMAIN dense.by_ops
                /\ Len(explicit.blocks) = Len(dense.blocks)

LEMMA CompilersAre ==
  /\ DOMAIN Compiler = Seq(Capability) /\ DOMAIN DenseCompiler = Seq(Capability)
  /\ \A ops \in Seq(Capability) : /\ Compiler[ops] = compile_caps(ops)
                                  /\ DenseCompiler[ops] = compile_dense(ops)
BY DEF Compiler, DenseCompiler

LEMMA TableInit == Init => TableInv
<1>1. SUFFICES ASSUME Init PROVE TableInv
  OBVIOUS
<1>2. limit \in Nat
  BY <1>1, MachineAssumption DEF Init
<1>3. learned.final_tasks \in Workflows /\ learned.subset \in Workflows
  <2>1. PICK workload \in Workloads : learned = Learned(workload)
    BY Zenon, <1>1 DEF Init
  <2>2. QED
    BY Zenon, <2>1, LearnedType DEF Workflows
<1>4. explicit = NewTable /\ dense = NewTable /\ at = 1 /\ mode = 0
  BY <1>1 DEF Init
<1>5. Interns(explicit, Compiler, limit) /\ Interns(dense, DenseCompiler, limit)
  BY Zenon, <1>2, <1>4, NewTableInterns
<1>6. at \in Nat \ {0} /\ mode \in Nat
  BY <1>4
<1>7. QED
  BY Zenon, <1>2, <1>3, <1>4, <1>5, <1>6 DEF TableInv

(* A workflow interned in both tables.                                     *)
LEMMA InternedKeeps ==
  ASSUME TableInv, Running, NEW ops \in Seq(Capability), ~Full(explicit, ops), Interned(ops)
  PROVE  /\ Interns(explicit', Compiler, limit) /\ Interns(dense', DenseCompiler, limit)
         /\ DOMAIN explicit'.by_ops = DOMAIN explicit.by_ops \cup {ops}
         /\ DOMAIN dense'.by_ops = DOMAIN explicit'.by_ops
         /\ Len(explicit'.blocks) = Len(dense'.blocks)
<1>1. /\ explicit' = Intern(explicit, ops, Compiler[ops])
      /\ dense' = Intern(dense, ops, DenseCompiler[ops])
  BY Zenon, CompilersAre DEF Interned
<1>2. DOMAIN dense.by_ops = DOMAIN explicit.by_ops /\ Len(dense.blocks) = Len(explicit.blocks)
  BY DEF TableInv
<1>3. /\ limit \in Nat /\ Len(explicit.blocks) \in Nat
      /\ Interns(explicit, Compiler, limit) /\ Interns(dense, DenseCompiler, limit)
  BY DEF TableInv, Interns
<1>4. ops \in DOMAIN explicit.by_ops \/ Len(explicit.blocks) < limit
  BY <1>3 DEF Full
<1>5. ops \in DOMAIN dense.by_ops \/ Len(dense.blocks) < limit
  BY Zenon, <1>2, <1>4
<1>6. /\ Interns(explicit', Compiler, limit)
      /\ DOMAIN explicit'.by_ops = DOMAIN explicit.by_ops \cup {ops}
      /\ Len(explicit'.blocks) = IF ops \in DOMAIN explicit.by_ops THEN Len(explicit.blocks)
                                 ELSE Len(explicit.blocks) + 1
  <2>1. Fits(explicit, Compiler, ops, limit)
    BY Zenon, <1>3, <1>4, CompilersAre DEF Fits
  <2>2. QED
    BY Zenon, <1>1, <2>1, InternSound
<1>7. /\ Interns(dense', DenseCompiler, limit)
      /\ DOMAIN dense'.by_ops = DOMAIN dense.by_ops \cup {ops}
      /\ Len(dense'.blocks) = IF ops \in DOMAIN dense.by_ops THEN Len(dense.blocks)
                                 ELSE Len(dense.blocks) + 1
  <2>1. Fits(dense, DenseCompiler, ops, limit)
    BY Zenon, <1>3, <1>5, CompilersAre DEF Fits
  <2>2. QED
    BY Zenon, <1>1, <2>1, InternSound
<1>8. QED
  BY Zenon, <1>2, <1>6, <1>7

LEMMA HistoricalOps == OldOps \in Seq(Capability) /\ NewOps \in Seq(Capability)
<1>1. /\ fs_read \in Capability /\ transform_summarize \in Capability /\ fs_write \in Capability
      /\ notify_send \in Capability /\ transform_extract \in Capability
  <2>1. Capability = Range(CapabilityOrder)
    BY CapabilitiesAssumption
  <2>2. /\ DOMAIN CapabilityOrder = 1..12
        /\ CapabilityOrder[1] = fs_read /\ CapabilityOrder[2] = fs_write
        /\ CapabilityOrder[5] = notify_send /\ CapabilityOrder[11] = transform_extract
        /\ CapabilityOrder[12] = transform_summarize
    BY DEF CapabilityOrder
  <2>3. \A i \in 1..12 : CapabilityOrder[i] \in Capability
    BY Zenon, <2>1, <2>2 DEF Range
  <2>4. QED
    BY <2>2, <2>3
<1>2. QED
  BY <1>1 DEF OldOps, NewOps

LEMMA TableNext == TableInv /\ [Next]_vars => TableInv'
<1>1. SUFFICES ASSUME TableInv, [Next]_vars PROVE TableInv'
  OBVIOUS
<1>2. CASE CompileTask
  <2>1. Running /\ at <= Len(learned.final_tasks) /\ learned' = learned /\ limit' = limit
    BY <1>2 DEF CompileTask, Running
  <2>2. PICK ops : ops = learned.final_tasks[at]
    OBVIOUS
  <2>3. ops \in Seq(Capability)
    BY <1>1, <2>1, <2>2 DEF TableInv, Workflows
  <2>4. CASE Abort
    BY <1>1, <2>1, <2>4 DEF Abort, TableInv, Running
  <2>5. CASE ~Full(explicit, ops) /\ Interned(ops) /\ at' = at + 1 /\ mode' = mode
    <3>1. /\ Interns(explicit', Compiler, limit') /\ Interns(dense', DenseCompiler, limit')
          /\ DOMAIN dense'.by_ops = DOMAIN explicit'.by_ops
          /\ Len(explicit'.blocks) = Len(dense'.blocks)
      BY Zenon, <1>1, <2>1, <2>3, <2>5, InternedKeeps
    <3>2. at' \in Nat \ {0} /\ mode' \in Nat /\ limit' \in Nat
      BY <1>1, <2>1, <2>5 DEF TableInv
    <3>3. learned'.final_tasks \in Workflows /\ learned'.subset \in Workflows
      BY Zenon, <1>1, <2>1 DEF TableInv
    <3>4. QED
      BY <3>1, <3>2, <3>3 DEF TableInv
  <2>6. Abort \/ (~Full(explicit, ops) /\ Interned(ops) /\ at' = at + 1 /\ mode' = mode)
    BY Zenon, <1>2, <2>2 DEF CompileTask
  <2>7. QED
    BY Zenon, <2>4, <2>5, <2>6
<1>3. CASE AuditWords
  BY <1>1, <1>3 DEF AuditWords, TableInv, Running
<1>4. CASE BeginWorkflow
  <2>1. Running /\ at <= Len(learned.subset) /\ learned' = learned /\ limit' = limit
    BY <1>4 DEF BeginWorkflow, Running
  <2>2. PICK ops : ops = learned.subset[at]
    OBVIOUS
  <2>3. ops \in Seq(Capability)
    BY <1>1, <2>1, <2>2 DEF TableInv, Workflows
  <2>4. CASE Abort
    BY <1>1, <2>1, <2>4 DEF Abort, TableInv, Running
  <2>5. CASE ~Full(explicit, ops) /\ Interned(ops) /\ at' = at /\ mode' = 1
    <3>1. /\ Interns(explicit', Compiler, limit') /\ Interns(dense', DenseCompiler, limit')
          /\ DOMAIN dense'.by_ops = DOMAIN explicit'.by_ops
          /\ Len(explicit'.blocks) = Len(dense'.blocks)
      BY Zenon, <1>1, <2>1, <2>3, <2>5, InternedKeeps
    <3>2. at' \in Nat \ {0} /\ mode' \in Nat /\ limit' \in Nat
      BY <1>1, <2>1, <2>5 DEF TableInv
    <3>3. learned'.final_tasks \in Workflows /\ learned'.subset \in Workflows
      BY Zenon, <1>1, <2>1 DEF TableInv
    <3>4. QED
      BY <3>1, <3>2, <3>3 DEF TableInv
  <2>6. Abort \/ (~Full(explicit, ops) /\ Interned(ops) /\ at' = at /\ mode' = 1)
    BY Zenon, <1>4, <2>2 DEF BeginWorkflow
  <2>7. QED
    BY Zenon, <2>4, <2>5, <2>6
<1>5. CASE ExecuteMode
  <2>1. UNCHANGED <<pc, at, learned, limit, explicit, dense>> /\ mode' = mode + 1
    BY <1>5 DEF ExecuteMode
  <2>2. QED
    BY <1>1, <2>1 DEF TableInv, Running
<1>6. CASE AuditWorkflow
  <2>1. /\ UNCHANGED <<learned, limit, explicit, dense>> /\ pc = "execute"
        /\ (at' = at /\ mode' = mode) \/ (at' = at + 1 /\ mode' = 0)
    BY <1>6 DEF AuditWorkflow
  <2>2. QED
    BY <1>1, <2>1 DEF TableInv, Running
<1>7. CASE HistoricalAudit
  <2>1. UNCHANGED <<at, mode, learned, limit, dense>> /\ Running
    BY <1>7 DEF HistoricalAudit, Abort, Running
  <2>2. CASE Abort
    BY <1>1, <2>1, <2>2 DEF Abort, TableInv, Running
  <2>3. CASE ~Abort
    <3>1. PICK withOld : withOld = Intern(explicit, OldOps, Compiler[OldOps])
      OBVIOUS
    <3>2. /\ ~Full(explicit, OldOps) /\ ~Full(withOld, NewOps)
          /\ explicit' = Intern(withOld, NewOps, Compiler[NewOps]) /\ pc' \in {"done", "crashed"}
      BY Zenon, <1>7, <2>3, <3>1, HistoricalOps, CompilersAre DEF HistoricalAudit
    <3>3. limit \in Nat /\ Interns(explicit, Compiler, limit)
      BY <1>1 DEF TableInv
    <3>4. OldOps \in DOMAIN explicit.by_ops \/ Len(explicit.blocks) < limit
      BY <3>2, <3>3 DEF Full, Interns
    <3>5. /\ Interns(withOld, Compiler, limit)
          /\ DOMAIN withOld.by_ops = DOMAIN explicit.by_ops \cup {OldOps}
      <4>1. Fits(explicit, Compiler, OldOps, limit)
        BY Zenon, <3>3, <3>4, CompilersAre, HistoricalOps DEF Fits
      <4>2. QED
        BY Zenon, <3>1, <4>1, InternSound
    <3>6. NewOps \in DOMAIN withOld.by_ops \/ Len(withOld.blocks) < limit
      BY <3>2, <3>3, <3>5 DEF Full, Interns
    <3>7. /\ Interns(explicit', Compiler, limit)
          /\ DOMAIN explicit'.by_ops = DOMAIN withOld.by_ops \cup {NewOps}
      <4>1. Fits(withOld, Compiler, NewOps, limit)
        BY Zenon, <3>3, <3>5, <3>6, CompilersAre, HistoricalOps DEF Fits
      <4>2. QED
        BY Zenon, <3>2, <4>1, InternSound
    <3>8. DOMAIN dense'.by_ops \subseteq DOMAIN explicit'.by_ops /\ ~Running'
      BY <1>1, <2>1, <3>2, <3>5, <3>7 DEF TableInv, Running
    <3>9. QED
      BY Zenon, <1>1, <2>1, <3>7, <3>8 DEF TableInv
  <2>4. QED
    BY <2>2, <2>3
<1>8. CASE UNCHANGED vars
  BY <1>1, <1>8 DEF vars, TableInv, Running
<1>9. QED
  BY <1>1, <1>2, <1>3, <1>4, <1>5, <1>6, <1>7, <1>8 DEF Next

LEMMA TablesAreSound == TableInv => TablesSound
<1>1. SUFFICES ASSUME TableInv PROVE TablesSound
  OBVIOUS
<1>2. Interns(explicit, Compiler, limit) /\ Interns(dense, DenseCompiler, limit)
  BY <1>1 DEF TableInv
<1>3. ASSUME NEW table, NEW compiler, Interns(table, compiler, limit)
      PROVE  /\ IsInjective(table.by_ops)
             /\ Range(table.by_ops) = 0..(Len(table.blocks) - 1)
             /\ Len(table.blocks) <= limit
  <2>1. PICK ids, last : ids = table.by_ops /\ last = 0..(Len(table.blocks) - 1)
    OBVIOUS
  <2>2. /\ \A ops \in DOMAIN ids : ids[ops] \in last
        /\ \A id \in last : \E ops \in DOMAIN ids : ids[ops] = id
        /\ \A a, b \in DOMAIN ids : ids[a] = ids[b] => a = b
    BY Zenon, <1>3, <2>1 DEF Interns
  <2>3. IsInjective(ids) /\ Range(ids) = last
    BY <2>2 DEF IsInjective, Range
  <2>4. QED
    BY Zenon, <1>3, <2>1, <2>3 DEF Interns
<1>4. ASSUME NEW ops \in DOMAIN explicit.by_ops
      PROVE  decode_caps(Block(explicit, ops)) = ops
  <2>1. ops \in Seq(Capability) /\ Block(explicit, ops) = Compiler[ops]
    BY Zenon, <1>2 DEF Interns, Block
  <2>2. QED
    BY Zenon, <2>1, CompilersAre, DecodesBack
<1>5. ASSUME NEW ops \in DOMAIN dense.by_ops
      PROVE  dense_decode_caps(Block(dense, ops)) = ops
  <2>1. ops \in Seq(Capability) /\ Block(dense, ops) = DenseCompiler[ops]
    BY Zenon, <1>2 DEF Interns, Block
  <2>2. QED
    BY Zenon, <2>1, CompilersAre, DecodesBack
<1>6. \A table \in {explicit, dense} : \E compiler : Interns(table, compiler, limit)
  BY <1>2
<1>7. DOMAIN dense.by_ops \subseteq DOMAIN explicit.by_ops
  BY <1>1 DEF TableInv
<1>8. QED
  BY Zenon, <1>3, <1>4, <1>5, <1>6, <1>7 DEF TablesSound

(* Every workflow in a table has an id of its own, the ids are those up to *)
(* the last block, a table never outgrows its limit, and the block an id   *)
(* names decodes to its workflow, in both encodings (bytecode.cpp:127-142).*)
THEOREM TablesStaySound == Spec => []TablesSound
<1>1. Spec => []TableInv
  BY TableInit, TableNext, PTL DEF Spec
<1>2. QED
  BY <1>1, TablesAreSound, PTL

----------------------------------------------------------------------------
(* The modes.  What a workflow counts, and less if it stops on the way.    *)

Places(s, R) == {i \in DOMAIN s : s[i] \in R}

LEMMA PlacesCounted ==
  ASSUME NEW X, NEW a \in Seq(X), NEW b \in Seq(X), NEW R
  PROVE  /\ Cardinality(Places(a, R)) \in Nat /\ Cardinality(Places(a \o b, R)) \in Nat
         /\ Cardinality(Places(a, R)) <= Cardinality(Places(a \o b, R))
<1>1. PICK ab : ab = a \o b
  OBVIOUS
<1>2. /\ ab \in Seq(X) /\ Len(ab) = Len(a) + Len(b)
      /\ \A i \in DOMAIN a : i \in DOMAIN ab /\ ab[i] = a[i]
  BY <1>1
<1>3. Places(a, R) \subseteq Places(ab, R)
  BY <1>2 DEF Places
<1>4. IsFiniteSet(Places(ab, R))
  <2>1. IsFiniteSet(1..Len(ab))
    BY <1>2, FS_Interval
  <2>2. Places(ab, R) \in SUBSET (1..Len(ab))
    BY <1>2 DEF Places
  <2>3. QED
    BY <2>1, <2>2, FS_Subset
<1>5. IsFiniteSet(Places(a, R)) /\ Cardinality(Places(a, R)) <= Cardinality(Places(ab, R))
  BY <1>3, <1>4, FS_Subset
<1>6. Cardinality(Places(a, R)) \in Nat /\ Cardinality(Places(ab, R)) \in Nat
  BY <1>4, <1>5, FS_CardinalityType
<1>7. QED
  BY Zenon, <1>1, <1>5, <1>6

LEMMA RootsJoin ==
  \A a \in Seq(Capability) : \A b \in Seq(Capability) : RootsOf(a \o b) = RootsOf(a) \o RootsOf(b)
<1> DEFINE T == {a \in Seq(Capability) :
                   \A b \in Seq(Capability) : RootsOf(a \o b) = RootsOf(a) \o RootsOf(b)}
<1>1. <<>> \in T
  <2>1. ASSUME NEW b \in Seq(Capability)
        PROVE  RootsOf(<<>> \o b) = RootsOf(<<>>) \o RootsOf(b)
    <3>1. <<>> \o b = b
      OBVIOUS
    <3>2. PICK roots \in Seq(Roots) : roots = RootsOf(b)
      BY CompileType
    <3>3. <<>> \o roots = roots
      OBVIOUS
    <3>4. QED
      BY Zenon, <3>1, <3>2, <3>3, CompileNothing
  <2>2. <<>> \in Seq(Capability)
    OBVIOUS
  <2>3. QED
    BY <2>1, <2>2
<1>2. ASSUME NEW x \in Capability, NEW s \in Seq(Capability), s \in T
      PROVE  <<x>> \o s \in T
  <2>1. ASSUME NEW b \in Seq(Capability)
        PROVE  RootsOf((<<x>> \o s) \o b) = RootsOf(<<x>> \o s) \o RootsOf(b)
    <3>1. /\ s \o b \in Seq(Capability) /\ <<x>> \in Seq(Capability)
          /\ (<<x>> \o s) \o b = <<x>> \o (s \o b)
      BY ConcatAnyOrder
    <3>2. /\ RootsOf(<<x>> \o (s \o b)) = CapRoot(x) \o RootsOf(s \o b)
          /\ RootsOf(<<x>> \o s) = CapRoot(x) \o RootsOf(s)
      BY Zenon, <3>1, CompileFirst
    <3>3. RootsOf(s \o b) = RootsOf(s) \o RootsOf(b)
      BY <1>2
    <3>4. /\ CapRoot(x) \in Seq(Roots) /\ RootsOf(s) \in Seq(Roots) /\ RootsOf(b) \in Seq(Roots)
      BY Zenon, CapRootIs, CompileType
    <3>5. (CapRoot(x) \o RootsOf(s)) \o RootsOf(b) = CapRoot(x) \o (RootsOf(s) \o RootsOf(b))
      BY SMTT(30), <3>4, ConcatAnyOrder
    <3>6. QED
      BY Zenon, <3>1, <3>2, <3>3, <3>5
  <2>2. <<x>> \o s \in Seq(Capability)
    OBVIOUS
  <2>3. QED
    BY <2>1, <2>2
<1>3. \A s \in Seq(Capability) : s \in T
  <2> HIDE DEF T
  <2> QED
    BY <1>1, <1>2, FrontInduction
<1>4. QED
  BY <1>3

Counter == {"OBSERVE", "DERIVE", "COMMIT", "commits"}

(* What a capability sequence adds to a counter.                           *)
Charge(caps, c) == IF c = "commits" THEN Commits(caps) ELSE CountedRoots(caps, c)

LEMMA PrefixCharges ==
  ASSUME NEW ops \in Seq(Capability), NEW n \in 0..Len(ops), NEW c
  PROVE  /\ Charge(SubSeq(ops, 1, n), c) \in Nat /\ Charge(ops, c) \in Nat
         /\ Charge(SubSeq(ops, 1, n), c) <= Charge(ops, c)
<1>1. PICK a \in Seq(Capability), b \in Seq(Capability) : a = SubSeq(ops, 1, n) /\ ops = a \o b
  <2>1. PICK a, b : a = SubSeq(ops, 1, n) /\ b = SubSeq(ops, n + 1, Len(ops))
    OBVIOUS
  <2>2. /\ a \in Seq(Capability) /\ Len(a) = n /\ \A i \in 1..n : a[i] = ops[i]
        /\ b \in Seq(Capability) /\ Len(b) = Len(ops) - n /\ \A i \in 1..(Len(ops) - n) : b[i] = ops[n + i]
    BY <2>1
  <2>3. PICK ab : ab = a \o b
    OBVIOUS
  <2>4. /\ ab \in Seq(Capability) /\ Len(ab) = Len(ops)
        /\ \A i \in 1..n : ab[i] = a[i]
        /\ \A j \in 1..(Len(ops) - n) : ab[n + j] = b[j]
    BY <2>2, <2>3
  <2>5. ab = ops
    <3>1. ASSUME NEW i \in 1..Len(ops)
          PROVE  ab[i] = ops[i]
      <4>1. CASE i \in 1..n
        BY <2>2, <2>4, <4>1
      <4>2. CASE i \notin 1..n
        <5>1. PICK j \in 1..(Len(ops) - n) : n + j = i
          <6>1. i - n \in 1..(Len(ops) - n) /\ n + (i - n) = i
            BY <4>2
          <6>2. QED
            BY Zenon, <6>1
        <5>2. ab[n + j] = b[j] /\ b[j] = ops[n + j]
          BY <2>2, <2>4
        <5>3. QED
          BY Zenon, <5>1, <5>2
      <4>3. QED
        BY <4>1, <4>2
    <3>2. QED
      BY <2>4, <3>1
  <2>6. QED
    BY Zenon, <2>1, <2>2, <2>3, <2>5
<1>2. /\ Commits(a) \in Nat /\ Commits(ops) \in Nat /\ Commits(a) <= Commits(ops)
  <2> DEFINE R == {fs_write, state_write, notify_send}
  <2>1. \A s : Commits(s) = Cardinality(Places(s, R))
    BY Zenon DEF Commits, Places
  <2> HIDE DEF R
  <2>2. QED
    BY Zenon, <1>1, <2>1, PlacesCounted
<1>3. /\ CountedRoots(a, c) \in Nat /\ CountedRoots(ops, c) \in Nat
      /\ CountedRoots(a, c) <= CountedRoots(ops, c)
  <2>1. PICK ra \in Seq(Roots), rb \in Seq(Roots) : ra = RootsOf(a) /\ rb = RootsOf(b)
    BY Zenon, <1>1, CompileType
  <2>2. RootsOf(ops) = ra \o rb
    BY Zenon, <1>1, <2>1, RootsJoin
  <2>3. \A s : {i \in DOMAIN s : s[i] = c} = Places(s, {c})
    BY DEF Places
  <2>4. /\ CountedRoots(a, c) = Cardinality(Places(ra, {c}))
        /\ CountedRoots(ops, c) = Cardinality(Places(ra \o rb, {c}))
    BY Zenon, <2>1, <2>2, <2>3 DEF CountedRoots
  <2>5. QED
    BY Zenon, <2>1, <2>4, PlacesCounted
<1>4. QED
  BY Zenon, <1>1, <1>2, <1>3 DEF Charge

(* What a mode that completed the first d workflows has counted.           *)
Charges(flows, c) == [i \in 1..Len(flows) |-> Charge(flows[i], c)]

Ideal(flows, d, c) == SumFunctionOnSet(Charges(flows, c), 1..d)

LEMMA IdealIs ==
  ASSUME NEW flows \in Workflows, NEW c
  PROVE  /\ Ideal(flows, 0, c) = 0
         /\ \A d \in 0..(Len(flows) - 1) :
              /\ Ideal(flows, d, c) \in Int /\ Charge(flows[d + 1], c) \in Nat
              /\ Ideal(flows, d + 1, c) = Ideal(flows, d, c) + Charge(flows[d + 1], c)
<1>1. Len(flows) \in Nat /\ \A i \in 1..Len(flows) : flows[i] \in Seq(Capability)
  BY DEF Workflows
<1>2. PICK f : f = Charges(flows, c)
  OBVIOUS
<1>3. \A i \in 1..Len(flows) : f[i] = Charge(flows[i], c) /\ f[i] \in Nat
  <2>1. ASSUME NEW i \in 1..Len(flows)
        PROVE  Charge(flows[i], c) \in Nat
    <3>1. PICK ops \in Seq(Capability) : ops = flows[i]
      BY <1>1
    <3>2. 0 \in 0..Len(ops)
      OBVIOUS
    <3>3. QED
      BY Zenon, <3>1, <3>2, PrefixCharges
  <2>2. \A i \in 1..Len(flows) : f[i] = Charge(flows[i], c)
    BY <1>2 DEF Charges
  <2>3. QED
    BY Zenon, <2>1, <2>2
<1>4. Ideal(flows, 0, c) = 0
  <2>1. 1..0 = {}
    OBVIOUS
  <2>2. QED
    BY Zenon, <2>1, SumOfNothing DEF Ideal
<1>5. ASSUME NEW d \in 0..(Len(flows) - 1)
      PROVE  /\ Ideal(flows, d, c) \in Int /\ Charge(flows[d + 1], c) \in Nat
             /\ Ideal(flows, d + 1, c) = Ideal(flows, d, c) + Charge(flows[d + 1], c)
  <2>1. PICK e, S, U : e \in 1..Len(flows) /\ e = d + 1 /\ S = 1..(d + 1) /\ U = 1..d
    BY <1>1
  <2>2. IsFiniteSet(S) /\ e \in S /\ S \ {e} = U /\ U \in SUBSET S /\ \A x \in S : x \in 1..Len(flows)
    <3>1. IsFiniteSet(1..(d + 1))
      BY <1>1, FS_Interval
    <3>2. QED
      BY <1>1, <2>1, <3>1
  <2>3. \A x \in S : f[x] \in Int
    BY <1>3, <2>2
  <2>4. SumFunctionOnSet(f, S) = f[e] + SumFunctionOnSet(f, S \ {e})
    <3>1. IsFiniteSet(S) /\ e \in S
      BY <2>2
    <3>2. \A y \in S : SumFunctionOnSet(f, S) = f[y] + SumFunctionOnSet(f, S \ {y})
      BY Zenon, <2>3, <3>1, SumTakesOut
    <3>3. QED
      BY Zenon, <3>1, <3>2
  <2>5. SumFunctionOnSet(f, U) \in Int
    BY Zenon, <2>2, <2>3, SumType
  <2>6. PICK sum \in Int, more \in Nat : sum = SumFunctionOnSet(f, U) /\ more = f[e]
    BY <1>3, <2>1, <2>5
  <2>7. more + sum = sum + more
    BY <2>6
  <2>8. Ideal(flows, d, c) = sum /\ Ideal(flows, d + 1, c) = more + sum /\ Charge(flows[d + 1], c) = more
    BY Zenon, <1>2, <1>3, <2>1, <2>2, <2>4, <2>6 DEF Ideal
  <2>9. QED
    BY Zenon, <2>6, <2>7, <2>8
<1>6. QED
  BY Zenon, <1>4, <1>5

Counters == [OBSERVE : Nat, DERIVE : Nat, COMMIT : Nat, commits : Nat]

(* Of d workflows a mode completed ok: it counted no more than d workflows *)
(* count, and all of that if it completed them.                            *)
Keeps(flows, ex, ok, d) ==
  /\ ex \in Counters /\ ok \in Nat /\ ok <= d
  /\ \A c \in Counter : /\ ex[c] <= Ideal(flows, d, c)
                        /\ ok = d => ex[c] = Ideal(flows, d, c)

LEMMA ChargedIs ==
  ASSUME NEW ex \in Counters, NEW begun, NEW finished,
         \A c \in Counter : Charge(begun, c) \in Nat /\ Charge(finished, c) \in Nat
  PROVE  /\ Charged(ex, begun, finished) \in Counters
         /\ \A c \in Counter :
              Charged(ex, begun, finished)[c] = ex[c] + Charge(IF c = "commits" THEN finished ELSE begun, c)
<1>1. /\ Charge(begun, "OBSERVE") = CountedRoots(begun, "OBSERVE")
      /\ Charge(begun, "DERIVE") = CountedRoots(begun, "DERIVE")
      /\ Charge(begun, "COMMIT") = CountedRoots(begun, "COMMIT")
      /\ Charge(finished, "commits") = Commits(finished)
  BY DEF Charge
<1>2. PICK o \in Nat, d \in Nat, t \in Nat, m \in Nat :
        /\ o = Charge(begun, "OBSERVE") /\ d = Charge(begun, "DERIVE")
        /\ t = Charge(begun, "COMMIT") /\ m = Charge(finished, "commits")
  BY DEF Counter
<1>3. PICK after : after = [OBSERVE |-> ex.OBSERVE + o, DERIVE |-> ex.DERIVE + d,
                            COMMIT |-> ex.COMMIT + t, commits |-> ex.commits + m]
  OBVIOUS
<1>4. Charged(ex, begun, finished) = after
  BY Zenon, <1>1, <1>2, <1>3 DEF Charged
<1>5. /\ after \in Counters
      /\ after["OBSERVE"] = ex["OBSERVE"] + o /\ after["DERIVE"] = ex["DERIVE"] + d
      /\ after["COMMIT"] = ex["COMMIT"] + t /\ after["commits"] = ex["commits"] + m
  BY <1>2, <1>3 DEF Counters
<1>6. ASSUME NEW c \in Counter
      PROVE  after[c] = ex[c] + Charge(IF c = "commits" THEN finished ELSE begun, c)
  <2>1. CASE c = "commits"
    BY Zenon, <1>2, <1>5, <2>1
  <2>2. CASE c # "commits"
    <3>1. c = "OBSERVE" \/ c = "DERIVE" \/ c = "COMMIT"
      BY <2>2 DEF Counter
    <3>2. QED
      BY Zenon, <1>2, <1>5, <2>2, <3>1
  <2>3. QED
    BY <2>1, <2>2
<1>7. QED
  BY Zenon, <1>4, <1>5, <1>6

(* A workflow begun and finished as far as it goes.                        *)
Partly(ops, begun, finished) ==
  \A c \in Counter :
    /\ Charge(ops, c) \in Nat
    /\ Charge(begun, c) \in Nat /\ Charge(begun, c) <= Charge(ops, c)
    /\ Charge(finished, c) \in Nat /\ Charge(finished, c) <= Charge(ops, c)

LEMMA KeepsOn ==
  ASSUME NEW flows \in Workflows, NEW d \in 0..(Len(flows) - 1), NEW ex, NEW ok, Keeps(flows, ex, ok, d),
         NEW begun, NEW finished, Partly(flows[d + 1], begun, finished),
         NEW more, more = ok \/ (more = ok + 1 /\ begun = flows[d + 1] /\ finished = flows[d + 1])
  PROVE  Keeps(flows, Charged(ex, begun, finished), more, d + 1)
<1>1. ex \in Counters /\ ok \in Nat /\ ok <= d
  BY DEF Keeps
<1>2. PICK ops : ops = flows[d + 1]
  OBVIOUS
<1>3. PICK after : after = Charged(ex, begun, finished)
  OBVIOUS
<1>4. /\ after \in Counters
      /\ \A c \in Counter : after[c] = ex[c] + Charge(IF c = "commits" THEN finished ELSE begun, c)
  BY Zenon, <1>1, <1>3, ChargedIs DEF Partly
<1>5. more \in Nat /\ more <= d + 1 /\ (more = d + 1 => ok = d /\ begun = ops /\ finished = ops)
  BY <1>1, <1>2
<1>6. ASSUME NEW c \in Counter
      PROVE  /\ after[c] <= Ideal(flows, d + 1, c)
             /\ more = d + 1 => after[c] = Ideal(flows, d + 1, c)
  <2>1. PICK paid \in Nat, full \in Nat :
          /\ paid = Charge(IF c = "commits" THEN finished ELSE begun, c)
          /\ full = Charge(ops, c) /\ paid <= full
    BY <1>2 DEF Partly
  <2>2. PICK was \in Nat, ideal \in Int :
          /\ was = ex[c] /\ ideal = Ideal(flows, d, c)
          /\ was <= ideal /\ (ok = d => was = ideal)
    <3>1. ex[c] \in Nat
      BY <1>1 DEF Counters, Counter
    <3>2. Ideal(flows, d, c) \in Int
      BY Zenon, IdealIs
    <3>3. ex[c] <= Ideal(flows, d, c) /\ (ok = d => ex[c] = Ideal(flows, d, c))
      BY DEF Keeps
    <3>4. QED
      BY Zenon, <3>1, <3>2, <3>3
  <2>3. after[c] = was + paid /\ Ideal(flows, d + 1, c) = ideal + full
    BY Zenon, <1>2, <1>4, <2>1, <2>2, IdealIs
  <2>4. was + paid <= ideal + full /\ (paid = full /\ was = ideal => was + paid = ideal + full)
    BY <2>1, <2>2
  <2>5. more = d + 1 => paid = full /\ was = ideal
    BY Zenon, <1>5, <2>1, <2>2
  <2>6. QED
    BY Zenon, <2>3, <2>4, <2>5
<1>7. QED
  BY Zenon, <1>3, <1>4, <1>5, <1>6 DEF Keeps

LEMMA ModesAre ==
  /\ DOMAIN Modes = 1..5 /\ Len(Modes) = 5
  /\ Modes[1] = "graph" /\ Modes[2] = "bytecode" /\ Modes[3] = "block"
  /\ Modes[4] = "dense" /\ Modes[5] = "dense_block"
  /\ \A i, j \in 1..5 : Modes[i] = Modes[j] => i = j
  /\ \A k \in Range(Modes) : \E j \in 1..5 : k = Modes[j]
  /\ \A j \in 1..5 : Modes[j] \in Range(Modes)
BY DEF Modes, Range

(* Whatever a mode runs, it runs the workflow: the programs compiled for   *)
(* it and those the tables hold are complete and mean it.                  *)
LEMMA ExecutableIs ==
  ASSUME TableInv, Running, NEW ops \in DOMAIN explicit.by_ops, NEW j \in 1..5
  PROVE  ops \in Seq(Capability) /\ Executable(Modes[j], ops) = [caps |-> ops, complete |-> TRUE]
<1> DEFINE all == [caps |-> ops, complete |-> TRUE]
<1>1. /\ ops \in Seq(Capability) /\ ops \in DOMAIN dense.by_ops
      /\ Interns(explicit, Compiler, limit) /\ Interns(dense, DenseCompiler, limit)
  BY DEF TableInv, Interns
<1>2. Block(explicit, ops) = compile_caps(ops) /\ Block(dense, ops) = compile_dense(ops)
  <2>1. Block(explicit, ops) = Compiler[ops] /\ Block(dense, ops) = DenseCompiler[ops]
    BY Zenon, <1>1 DEF Interns, Block
  <2>2. QED
    BY Zenon, <1>1, <2>1, CompilersAre
<1>3. Walk(compile_caps(ops), FALSE) = all /\ DenseWalk(compile_dense(ops)) = all
  BY Zenon, <1>1, CompiledIsDecoded, DenseCompiledIsDecoded
<1> HIDE DEF all
<1>4. /\ Executable("graph", ops) = all
      /\ Executable("bytecode", ops) = all /\ Executable("block", ops) = all
      /\ Executable("dense", ops) = all /\ Executable("dense_block", ops) = all
  <2>1. Executable("graph", ops) = all
    BY DEF Executable, all
  <2>2. /\ Executable("bytecode", ops) = Walk(compile_caps(ops), FALSE)
        /\ Executable("block", ops) = Walk(Block(explicit, ops), FALSE)
        /\ Executable("dense", ops) = DenseWalk(compile_dense(ops))
        /\ Executable("dense_block", ops) = DenseWalk(Block(dense, ops))
    BY DEF Executable
  <2>3. QED
    BY Zenon, <1>2, <1>3, <2>1, <2>2
<1>5. j = 1 \/ j = 2 \/ j = 3 \/ j = 4 \/ j = 5
  OBVIOUS
<1>6. Executable(Modes[j], ops) = all
  BY <1>4, <1>5, ModesAre
<1>7. QED
  BY Zenon, <1>1, <1>6 DEF all

(* The workflows the mode at place j is through with.                      *)
Done(j) == at - 1 + Count(mode > j)

(* The inductive invariant of the modes.                                   *)
ModesInv ==
  /\ DOMAIN executors = Range(Modes) /\ live_ok \in [Range(Modes) -> Nat]
  /\ pc = "compile" =>
       /\ mode = 0
       /\ \A j \in 1..5 : Keeps(learned.subset, executors[Modes[j]], live_ok[Modes[j]], 0)
  /\ pc = "execute" =>
       /\ mode <= 6 /\ at - 1 <= Len(learned.subset)
       /\ mode > 0 => /\ at <= Len(learned.subset)
                      /\ learned.subset[at] \in DOMAIN explicit.by_ops
       /\ \A j \in 1..5 : Keeps(learned.subset, executors[Modes[j]], live_ok[Modes[j]], Done(j))

LEMMA ModesInit == Init /\ TableInv => ModesInv
<1>1. SUFFICES ASSUME Init, TableInv PROVE ModesInv
  OBVIOUS
<1> DEFINE zero == [OBSERVE |-> 0, DERIVE |-> 0, COMMIT |-> 0, commits |-> 0]
<1>2. /\ pc = "compile" /\ mode = 0
      /\ executors = [m \in Range(Modes) |-> zero] /\ live_ok = [m \in Range(Modes) |-> 0]
  BY <1>1 DEF Init
<1>3. zero \in Counters /\ \A c \in Counter : zero[c] = 0
  BY DEF Counters, Counter
<1> HIDE DEF zero
<1>4. learned.subset \in Workflows
  BY <1>1 DEF TableInv
<1>5. \A c \in Counter : Ideal(learned.subset, 0, c) = 0
  BY Zenon, <1>4, IdealIs
<1>6. Keeps(learned.subset, zero, 0, 0)
  BY <1>3, <1>5 DEF Keeps
<1>7. \A j \in 1..5 : executors[Modes[j]] = zero /\ live_ok[Modes[j]] = 0
  BY <1>2, ModesAre
<1>8. QED
  BY <1>2, <1>6, <1>7 DEF ModesInv

LEMMA ExecuteKeeps ==
  ASSUME TableInv, ModesInv, ExecuteMode
  PROVE  ModesInv'
<1>1. /\ pc = "execute" /\ mode \in 1..5 /\ mode' = mode + 1
      /\ pc' = pc /\ at' = at /\ learned' = learned /\ explicit' = explicit
  BY ModesAre DEF ExecuteMode
<1>2. PICK flows, k : flows = learned.subset /\ k = Modes[mode]
  OBVIOUS
<1>3. PICK ops : ops = flows[at]
  OBVIOUS
<1>4. /\ flows \in Workflows /\ at \in Nat \ {0}
      /\ DOMAIN executors = Range(Modes) /\ live_ok \in [Range(Modes) -> Nat]
      /\ at <= Len(flows) /\ ops \in DOMAIN explicit.by_ops
      /\ \A j \in 1..5 : Keeps(flows, executors[Modes[j]], live_ok[Modes[j]], Done(j))
  <2>1. mode > 0
    BY <1>1
  <2>2. QED
    BY <1>1, <1>2, <1>3, <2>1 DEF TableInv, ModesInv
<1>5. PICK d \in 0..(Len(flows) - 1) : d = at - 1 /\ d + 1 = at
  <2>1. Len(flows) \in Nat
    BY <1>4 DEF Workflows
  <2>2. at - 1 \in 0..(Len(flows) - 1) /\ (at - 1) + 1 = at
    BY <1>4, <2>1
  <2>3. QED
    BY Zenon, <2>2
<1>6. ops \in Seq(Capability) /\ Executable(k, ops) = [caps |-> ops, complete |-> TRUE]
  BY Zenon, <1>1, <1>2, <1>4, ExecutableIs DEF Running
<1>7. PICK x : x = Executable(k, ops)
  OBVIOUS
<1>8. x.caps = ops /\ Count(x.complete) = 1
  BY <1>6, <1>7 DEF Count
<1>9. Keeps(flows, executors[k], live_ok[k], d)
  <2>1. Done(mode) = d
    BY <1>1, <1>4, <1>5 DEF Done, Count
  <2>2. QED
    BY Zenon, <1>1, <1>2, <1>4, <2>1
<1>10. live_ok[k] \in Nat
  BY <1>9 DEF Keeps
<1>11. \A i \in 0..Len(ops) : \A c : /\ Charge(ops, c) \in Nat
                                     /\ Charge(SubSeq(ops, 1, i), c) \in Nat
                                     /\ Charge(SubSeq(ops, 1, i), c) <= Charge(ops, c)
  BY Zenon, <1>6, PrefixCharges
<1>12. \A i \in 0..Len(ops), l \in 0..Len(ops) : Partly(ops, SubSeq(ops, 1, i), SubSeq(ops, 1, l))
  BY Zenon, <1>11 DEF Partly
<1>13. SubSeq(ops, 1, Len(ops)) = ops /\ Len(ops) \in 0..Len(ops)
  BY <1>6
<1>14. Partly(ops, ops, ops)
  BY Zenon, <1>12, <1>13
<1>15. PICK begun, finished, more :
         /\ executors' = [executors EXCEPT ![k] = Charged(@, begun, finished)]
         /\ live_ok' = [live_ok EXCEPT ![k] = more]
         /\ Partly(ops, begun, finished)
         /\ more = live_ok[k] \/ (more = live_ok[k] + 1 /\ begun = ops /\ finished = ops)
  <2>1. CASE /\ executors' = [executors EXCEPT ![k] = Charged(@, x.caps, x.caps)]
             /\ live_ok' = [live_ok EXCEPT ![k] = @ + Count(x.complete)]
    <3>1. live_ok' = [live_ok EXCEPT ![k] = live_ok[k] + 1]
      BY <1>8, <2>1
    <3>2. QED
      BY Zenon, <1>8, <1>14, <2>1, <3>1
  <2>2. ASSUME NEW i \in DOMAIN x.caps,
               executors' = [executors EXCEPT
                               ![k] = Charged(@, SubSeq(x.caps, 1, i), SubSeq(x.caps, 1, i - 1))],
               live_ok' = live_ok
        PROVE  \E begun, finished, more :
                 /\ executors' = [executors EXCEPT ![k] = Charged(@, begun, finished)]
                 /\ live_ok' = [live_ok EXCEPT ![k] = more]
                 /\ Partly(ops, begun, finished)
                 /\ more = live_ok[k] \/ (more = live_ok[k] + 1 /\ begun = ops /\ finished = ops)
    <3>1. i \in 0..Len(ops) /\ i - 1 \in 0..Len(ops)
      BY <1>6, <1>8
    <3>2. live_ok' = [live_ok EXCEPT ![k] = live_ok[k]]
      BY <1>4, <2>2
    <3>3. Partly(ops, SubSeq(ops, 1, i), SubSeq(ops, 1, i - 1))
      BY Zenon, <1>12, <3>1
    <3>4. QED
      BY Zenon, <1>8, <2>2, <3>2, <3>3
  <2>3. CASE /\ executors' = [executors EXCEPT ![k] = Charged(@, x.caps, x.caps)]
             /\ live_ok' = live_ok
    <3>1. live_ok' = [live_ok EXCEPT ![k] = live_ok[k]]
      BY <1>4, <2>3
    <3>2. QED
      BY Zenon, <1>8, <1>14, <2>3, <3>1
  <2>4. \/ /\ executors' = [executors EXCEPT ![k] = Charged(@, x.caps, x.caps)]
           /\ live_ok' = [live_ok EXCEPT ![k] = @ + Count(x.complete)]
        \/ /\ \E i \in DOMAIN x.caps :
                executors' = [executors EXCEPT
                                ![k] = Charged(@, SubSeq(x.caps, 1, i), SubSeq(x.caps, 1, i - 1))]
           /\ live_ok' = live_ok
        \/ /\ executors' = [executors EXCEPT ![k] = Charged(@, x.caps, x.caps)]
           /\ live_ok' = live_ok
    BY Zenon, <1>2, <1>3, <1>7 DEF ExecuteMode
  <2>5. QED
    BY Zenon, <2>1, <2>2, <2>3, <2>4
<1>16. Keeps(flows, Charged(executors[k], begun, finished), more, at)
  <2>1. ops = flows[d + 1]
    BY Zenon, <1>3, <1>5
  <2>2. Keeps(flows, Charged(executors[k], begun, finished), more, d + 1)
    BY Zenon, <1>4, <1>9, <1>15, <2>1, KeepsOn
  <2>3. QED
    BY Zenon, <1>5, <2>2
<1>17. /\ DOMAIN executors' = Range(Modes) /\ live_ok' \in [Range(Modes) -> Nat]
       /\ executors'[k] = Charged(executors[k], begun, finished) /\ live_ok'[k] = more
       /\ \A j \in 1..5 : Modes[j] # k =>
            executors'[Modes[j]] = executors[Modes[j]] /\ live_ok'[Modes[j]] = live_ok[Modes[j]]
  <2>1. k \in Range(Modes) /\ \A j \in 1..5 : Modes[j] \in Range(Modes)
    BY Zenon, <1>1, <1>2, ModesAre
  <2>2. more \in Nat
    BY <1>10, <1>15
  <2>3. QED
    BY <1>4, <1>15, <2>1, <2>2
<1>18. ASSUME NEW j \in 1..5
       PROVE  Keeps(flows, executors'[Modes[j]], live_ok'[Modes[j]], Done(j)')
  <2>1. CASE j = mode
    <3>1. Done(j)' = at
      BY <1>1, <1>4, <2>1 DEF Done, Count
    <3>2. QED
      BY Zenon, <1>2, <1>16, <1>17, <2>1, <3>1
  <2>2. CASE j # mode
    <3>1. Done(j)' = Done(j)
      BY <1>1, <1>4, <2>2 DEF Done, Count
    <3>2. Modes[j] # k
      BY Zenon, <1>1, <1>2, <2>2, ModesAre
    <3>3. QED
      BY Zenon, <1>4, <1>17, <3>1, <3>2
  <2>3. QED
    BY <2>1, <2>2
<1>19. /\ pc' = "execute" /\ mode' <= 6 /\ at' - 1 <= Len(flows) /\ at' <= Len(flows)
       /\ flows = learned'.subset /\ learned'.subset[at'] \in DOMAIN explicit'.by_ops
  <2>1. Len(flows) \in Nat
    BY <1>4 DEF Workflows
  <2>2. mode' <= 6 /\ at' - 1 <= Len(flows) /\ at' <= Len(flows)
    BY <1>1, <1>4, <2>1
  <2>3. QED
    BY Zenon, <1>1, <1>2, <1>3, <1>4, <2>2
<1>20. QED
  BY <1>17, <1>18, <1>19 DEF ModesInv

LEMMA ModesNext == TableInv /\ ModesInv /\ [Next]_vars => ModesInv'
<1>1. SUFFICES ASSUME TableInv, ModesInv, [Next]_vars PROVE ModesInv'
  OBVIOUS
<1>2. CASE CompileTask
  <2>1. /\ pc = "compile" /\ (pc' = "compile" \/ pc' = "aborted") /\ mode' = mode
        /\ UNCHANGED <<learned, executors, live_ok>>
    BY <1>2 DEF CompileTask, Abort
  <2>2. QED
    BY <1>1, <2>1 DEF ModesInv
<1>3. CASE AuditWords
  <2>1. /\ pc = "compile" /\ pc' = "execute" /\ at' = 1
        /\ UNCHANGED <<mode, learned, explicit, executors, live_ok>>
    BY <1>3 DEF AuditWords
  <2>2. /\ mode = 0
        /\ \A j \in 1..5 : Keeps(learned.subset, executors[Modes[j]], live_ok[Modes[j]], 0)
    BY <1>1, <2>1 DEF ModesInv
  <2>3. \A j \in 1..5 : Done(j)' = 0
    BY <2>1, <2>2 DEF Done, Count
  <2>4. Len(learned.subset) \in Nat
    BY <1>1 DEF TableInv, Workflows
  <2>5. QED
    BY <1>1, <2>1, <2>2, <2>3, <2>4 DEF ModesInv
<1>4. CASE BeginWorkflow
  <2>1. /\ pc = "execute" /\ mode = 0 /\ at <= Len(learned.subset)
        /\ UNCHANGED <<learned, executors, live_ok>>
    BY <1>4 DEF BeginWorkflow
  <2>2. CASE Abort
    BY <1>1, <2>1, <2>2 DEF Abort, ModesInv
  <2>3. CASE /\ ~Full(explicit, learned.subset[at]) /\ Interned(learned.subset[at])
             /\ mode' = 1 /\ pc' = pc /\ at' = at
    <3>1. PICK ops : ops = learned.subset[at]
      OBVIOUS
    <3>2. ops \in Seq(Capability)
      BY <1>1, <2>1, <3>1 DEF TableInv, Workflows
    <3>3. ops \in DOMAIN explicit'.by_ops
      <4>1. DOMAIN explicit'.by_ops = DOMAIN explicit.by_ops \cup {ops}
        BY Zenon, <1>1, <2>1, <2>3, <3>1, <3>2, InternedKeeps DEF Running
      <4>2. QED
        BY <4>1
    <3>4. \A j \in 1..5 : Done(j)' = Done(j)
      BY <2>1, <2>3 DEF Done, Count
    <3>5. /\ at - 1 <= Len(learned.subset)
          /\ DOMAIN executors = Range(Modes) /\ live_ok \in [Range(Modes) -> Nat]
          /\ \A j \in 1..5 : Keeps(learned.subset, executors[Modes[j]], live_ok[Modes[j]], Done(j))
      BY <1>1, <2>1 DEF ModesInv
    <3>6. QED
      BY <2>1, <2>3, <3>1, <3>3, <3>4, <3>5 DEF ModesInv
  <2>4. QED
    BY Zenon, <1>4, <2>2, <2>3 DEF BeginWorkflow
<1>5. CASE ExecuteMode
  BY <1>1, <1>5, ExecuteKeeps
<1>6. CASE AuditWorkflow
  <2>1. pc = "execute" /\ mode > 5 /\ UNCHANGED <<learned, explicit, executors, live_ok>>
    BY <1>6, ModesAre DEF AuditWorkflow
  <2>2. CASE pc' = "crashed"
    BY <1>1, <2>1, <2>2 DEF ModesInv
  <2>3. CASE at' = at + 1 /\ mode' = 0 /\ pc' = pc
    <3>1. /\ mode \in Nat /\ at \in Nat /\ Len(learned.subset) \in Nat
      BY <1>1 DEF TableInv, Workflows
    <3>2. /\ mode = 6 /\ at <= Len(learned.subset)
          /\ DOMAIN executors = Range(Modes) /\ live_ok \in [Range(Modes) -> Nat]
          /\ \A j \in 1..5 : Keeps(learned.subset, executors[Modes[j]], live_ok[Modes[j]], Done(j))
      BY <1>1, <2>1, <3>1 DEF ModesInv
    <3>3. \A j \in 1..5 : Done(j)' = Done(j)
      BY <2>3, <3>1, <3>2 DEF Done, Count
    <3>4. mode' <= 6 /\ ~(mode' > 0) /\ at' - 1 <= Len(learned.subset)
      BY <2>3, <3>1, <3>2
    <3>5. QED
      BY <2>1, <2>3, <3>2, <3>3, <3>4 DEF ModesInv
  <2>4. QED
    BY Zenon, <1>6, <2>2, <2>3 DEF AuditWorkflow
<1>7. CASE HistoricalAudit
  <2>1. /\ pc' \in {"aborted", "done", "crashed"} /\ UNCHANGED <<executors, live_ok>>
    BY <1>7 DEF HistoricalAudit, Abort
  <2>2. QED
    BY <1>1, <2>1 DEF ModesInv
<1>8. CASE UNCHANGED vars
  BY <1>1, <1>8 DEF vars, ModesInv, Done
<1>9. QED
  BY <1>1, <1>2, <1>3, <1>4, <1>5, <1>6, <1>7, <1>8 DEF Next

LEMMA ModesInvAgrees == TableInv /\ ModesInv => ModesAgree
<1>1. SUFFICES ASSUME TableInv, ModesInv, pc = "execute", NEW a \in 1..5, NEW b \in 1..5,
                      Done(a) = Done(b), live_ok[Modes[a]] = Done(a)
               PROVE  /\ live_ok[Modes[b]] = Done(b) => executors[Modes[b]] = executors[Modes[a]]
                      /\ \A c \in Counter : executors[Modes[b]][c] <= executors[Modes[a]][c]
  <2>1. \A j \in 1..5 : (CHOOSE i \in DOMAIN Modes : Modes[i] = Modes[j]) = j
    BY ModesAre
  <2>2. ASSUME NEW m \in Range(Modes), NEW n \in Range(Modes), TableInv, ModesInv, pc = "execute"
        PROVE  LET done(k) == at - 1 + Count(mode > CHOOSE j \in DOMAIN Modes : Modes[j] = k)
               IN  done(m) = done(n) /\ live_ok[m] = done(m) =>
                     /\ live_ok[n] = done(n) => executors[n] = executors[m]
                     /\ \A c \in DOMAIN executors[m] : executors[n][c] <= executors[m][c]
    <3>1. PICK a \in 1..5, b \in 1..5 : m = Modes[a] /\ n = Modes[b]
      BY Zenon, ModesAre
    <3>2. DOMAIN executors[m] = Counter
      <4>1. executors[m] \in Counters
        BY Zenon, <2>2, <3>1 DEF ModesInv, Keeps
      <4>2. QED
        BY <4>1 DEF Counters, Counter
    <3>3. /\ at - 1 + Count(mode > CHOOSE j \in DOMAIN Modes : Modes[j] = m) = Done(a)
          /\ at - 1 + Count(mode > CHOOSE j \in DOMAIN Modes : Modes[j] = n) = Done(b)
      BY Zenon, <2>1, <3>1 DEF Done
    <3>4. QED
      BY ZenonT(30), <1>1, <2>2, <3>1, <3>2, <3>3
  <2>3. QED
    BY Zenon, <2>2 DEF ModesAgree
<1>2. PICK flows, x, y, d : /\ flows = learned.subset /\ d = Done(a)
                            /\ x = executors[Modes[a]] /\ y = executors[Modes[b]]
  OBVIOUS
<1>3. Keeps(flows, x, live_ok[Modes[a]], d) /\ Keeps(flows, y, live_ok[Modes[b]], d)
  BY Zenon, <1>1, <1>2 DEF ModesInv
<1>4. /\ \A c \in Counter : x[c] = Ideal(flows, d, c) /\ y[c] <= Ideal(flows, d, c)
      /\ live_ok[Modes[b]] = d => \A c \in Counter : y[c] = Ideal(flows, d, c)
  BY Zenon, <1>1, <1>2, <1>3 DEF Keeps
<1>5. x \in Counters /\ y \in Counters
  BY <1>3 DEF Keeps
<1>6. \A c \in Counter : y[c] <= x[c]
  BY <1>4
<1>7. (\A c \in Counter : y[c] = x[c]) => y = x
  BY <1>5 DEF Counters, Counter
<1>8. QED
  BY Zenon, <1>1, <1>2, <1>4, <1>6, <1>7

(* The five modes are one execution (bytecode.cpp run, the execution loop  *)
(* and its counters): modes that completed every workflow so far counted   *)
(* the same roots and commits, and one that failed has counted no more.    *)
THEOREM ModesStayOne == Spec => []ModesAgree
<1>1. Spec => []TableInv
  BY TableInit, TableNext, PTL DEF Spec
<1>2. Spec => []ModesInv
  BY <1>1, TableInit, ModesInit, ModesNext, PTL DEF Spec
<1>3. QED
  BY <1>1, <1>2, ModesInvAgrees, PTL

----------------------------------------------------------------------------
(* What an id names, and what the audits find.                             *)

(* Every workflow of a table keeps its id, and the id its block.           *)
StaysIn(old, new) ==
  \A ops \in DOMAIN old.by_ops : /\ ops \in DOMAIN new.by_ops
                                 /\ new.by_ops[ops] = old.by_ops[ops]
                                 /\ Block(new, ops) = Block(old, ops)

BlocksStay == StaysIn(explicit, explicit') /\ StaysIn(dense, dense')

LEMMA StaysWhole == \A table : StaysIn(table, table)
BY DEF StaysIn

LEMMA InternStays ==
  ASSUME NEW table, NEW compiler, NEW n, Interns(table, compiler, n), NEW ops, NEW program
  PROVE  StaysIn(table, Intern(table, ops, program))
<1>1. CASE ops \in DOMAIN table.by_ops
  <2>1. Intern(table, ops, program) = table
    BY <1>1 DEF Intern
  <2>2. QED
    BY Zenon, <2>1, StaysWhole
<1>2. CASE ops \notin DOMAIN table.by_ops
  <2>1. PICK blocks, ids, m : blocks = table.blocks /\ ids = table.by_ops /\ m = Len(blocks)
    OBVIOUS
  <2>2. blocks \in Seq(Range(compiler)) /\ \A o \in DOMAIN ids : ids[o] \in 0..(m - 1)
    BY Zenon, <2>1 DEF Interns
  <2>3. PICK more, put, after :
          more = Append(blocks, program) /\ put = Put(ids, ops, m) /\ after = [blocks |-> more, by_ops |-> put]
    OBVIOUS
  <2>4. Intern(table, ops, program) = after
    BY Zenon, <1>2, <2>1, <2>3 DEF Intern
  <2>5. \A o \in DOMAIN ids : o \in DOMAIN put /\ put[o] = ids[o]
    BY <1>2, <2>1, <2>3 DEF Put
  <2>6. ASSUME NEW o \in DOMAIN ids
        PROVE  more[put[o] + 1] = blocks[ids[o] + 1]
    <3>1. PICK k : k = ids[o] + 1
      OBVIOUS
    <3>2. m \in Nat /\ k \in 1..m
      BY <2>1, <2>2, <3>1
    <3>3. more[k] = blocks[k]
      BY <2>1, <2>2, <2>3, <3>2
    <3>4. QED
      BY Zenon, <2>5, <3>1, <3>3
  <2>7. after.blocks = more /\ after.by_ops = put
    BY <2>3
  <2>8. QED
    BY Zenon, <2>1, <2>4, <2>5, <2>6, <2>7 DEF StaysIn, Block
<1>3. QED
  BY Zenon, <1>1, <1>2

LEMMA StaysOn ==
  ASSUME NEW a, NEW b, NEW c, StaysIn(a, b), StaysIn(b, c)
  PROVE  StaysIn(a, c)
BY Zenon DEF StaysIn

(* Once a workflow was interned its id is not given away and the block it  *)
(* names is not changed, whatever is interned later, a drifted form of the *)
(* same task included: an id may be kept (bytecode.cpp:130-141, 262-264).  *)
THEOREM IdsNameOneBlock == Spec => [][BlocksStay]_vars
<1>1. ASSUME TableInv, [Next]_vars
      PROVE  [BlocksStay]_vars
  <2>1. Interns(explicit, Compiler, limit) /\ Interns(dense, DenseCompiler, limit)
    BY <1>1 DEF TableInv
  <2>2. ASSUME UNCHANGED <<explicit, dense>>
        PROVE  BlocksStay
    <3>1. explicit' = explicit /\ dense' = dense
      BY <2>2
    <3>2. QED
      BY Zenon, <3>1, StaysWhole DEF BlocksStay
  <2>3. ASSUME NEW ops, Interned(ops)
        PROVE  BlocksStay
    BY Zenon, <2>1, <2>3, InternStays DEF Interned, BlocksStay
  <2>4. CASE CompileTask
    <3>1. Abort \/ Interned(learned.final_tasks[at])
      BY Zenon, <2>4 DEF CompileTask
    <3>2. QED
      BY <2>2, <2>3, <3>1 DEF Abort
  <2>5. CASE BeginWorkflow
    <3>1. Abort \/ Interned(learned.subset[at])
      BY Zenon, <2>5 DEF BeginWorkflow
    <3>2. QED
      BY <2>2, <2>3, <3>1 DEF Abort
  <2>6. CASE HistoricalAudit
    <3>1. PICK withOld : withOld = Intern(explicit, OldOps, Compiler[OldOps])
      OBVIOUS
    <3>2. Abort \/ (/\ ~Full(explicit, OldOps) /\ dense' = dense
                    /\ explicit' = Intern(withOld, NewOps, Compiler[NewOps]))
      <4>1. UNCHANGED <<at, mode, dense>> \/ Abort
        BY <2>6 DEF HistoricalAudit
      <4>2. QED
        BY Zenon, <2>6, <3>1, <4>1, HistoricalOps, CompilersAre DEF HistoricalAudit
    <3>3. CASE ~Full(explicit, OldOps) /\ dense' = dense
               /\ explicit' = Intern(withOld, NewOps, Compiler[NewOps])
      <4>1. limit \in Nat /\ (OldOps \in DOMAIN explicit.by_ops \/ Len(explicit.blocks) < limit)
        BY <1>1, <2>1, <3>3 DEF Full, Interns, TableInv
      <4>2. Fits(explicit, Compiler, OldOps, limit)
        BY Zenon, <2>1, <4>1, CompilersAre, HistoricalOps DEF Fits
      <4>3. Interns(withOld, Compiler, limit)
        BY Zenon, <3>1, <4>2, InternSound
      <4>4. StaysIn(explicit, withOld) /\ StaysIn(withOld, explicit')
        BY Zenon, <2>1, <3>1, <3>3, <4>3, InternStays
      <4>5. QED
        BY Zenon, <3>3, <4>4, StaysOn, StaysWhole DEF BlocksStay
    <3>4. QED
      BY <2>2, <3>2, <3>3 DEF Abort
  <2>7. CASE AuditWords
    BY <2>2, <2>7 DEF AuditWords
  <2>8. CASE ExecuteMode
    BY <2>2, <2>8 DEF ExecuteMode
  <2>9. CASE AuditWorkflow
    BY <2>2, <2>9 DEF AuditWorkflow
  <2>10. CASE UNCHANGED vars
    BY <2>10
  <2>11. QED
    BY <1>1, <2>4, <2>5, <2>6, <2>7, <2>8, <2>9, <2>10 DEF Next
<1>2. Spec => []TableInv
  BY TableInit, TableNext, PTL DEF Spec
<1>3. QED
  BY <1>1, <1>2, PTL DEF Spec

(* The tasks found in order, in both encodings and in their roots.         *)
Passed(n) ==
  report.roundtrip = n /\ report.root_equivalent = n /\ report.dense_roundtrip = n

(* The audits pass as far as they are.                                     *)
AuditsPass ==
  /\ pc = "compile" => Passed(at - 1)
  /\ pc \in {"execute", "done", "crashed"} => Passed(Len(learned.final_tasks))
  /\ pc = "done" => report.immutable

Audited == {"roundtrip", "root_equivalent", "dense_roundtrip", "byte_total",
            "dense_total", "task_refs", "all_uniform", "immutable"}

(* The inductive invariant of the audits.                                  *)
AuditInv == AuditsPass /\ DOMAIN report = Audited /\ (pc = "compile" => at - 1 <= Len(learned.final_tasks))

(* Nothing a compiler emits is found wrong.                                *)
LEMMA CompiledPasses ==
  ASSUME NEW ops \in Seq(Capability)
  PROVE  /\ decode_caps(compile_caps(ops)) = ops
         /\ decode_roots(compile_caps(ops)) = RootsOf(ops)
         /\ dense_decode_caps(compile_dense(ops)) = ops
         /\ dense_decode_roots(compile_dense(ops)) = decode_roots(compile_caps(ops))
<1> DEFINE all == [caps |-> ops, complete |-> TRUE]
<1>1. PICK p \in Seq(Word), dp \in Seq(Byte) : p = compile_caps(ops) /\ dp = compile_dense(ops)
  BY Zenon, CompileType, DenseCompiledIsDecoded
<1>2. Walk(p, TRUE) = all /\ DenseWalk(dp) = all
  BY Zenon, <1>1, CompiledIsDecoded, DenseCompiledIsDecoded
<1>3. all.complete = TRUE
  OBVIOUS
<1> HIDE DEF all
<1>4. Walk(p, TRUE).complete /\ DenseWalk(dp).complete
  BY Zenon, <1>2, <1>3
<1>5. decode_roots(p) = RootsOf(decode_caps(p)) /\ dense_decode_roots(dp) = RootsOf(dense_decode_caps(dp))
  BY Zenon, <1>4, ExplicitIsExact, DenseIsExact
<1>6. QED
  BY Zenon, <1>1, <1>5, DecodesBack

(* The report after one task.                                              *)
Reported(q, r, a, b, c, d, e, f) ==
  /\ DOMAIN r = Audited
  /\ q = [r EXCEPT !.roundtrip = a, !.root_equivalent = b, !.dense_roundtrip = c,
                   !.byte_total = d, !.dense_total = e, !.task_refs = f]

LEMMA ReportIs ==
  ASSUME NEW r, NEW a, NEW b, NEW c, NEW d, NEW e, NEW f, NEW q, Reported(q, r, a, b, c, d, e, f)
  PROVE  DOMAIN q = Audited /\ q.roundtrip = a /\ q.root_equivalent = b /\ q.dense_roundtrip = c
<1>1. PICK u, v, w : /\ u = [r EXCEPT !.roundtrip = a] /\ v = [u EXCEPT !.root_equivalent = b]
                     /\ w = [v EXCEPT !.dense_roundtrip = c]
  OBVIOUS
<1>2. PICK x, y : x = [w EXCEPT !.byte_total = d] /\ y = [x EXCEPT !.dense_total = e]
  OBVIOUS
<1>3. q = [y EXCEPT !.task_refs = f] /\ DOMAIN r = Audited
  BY Zenon, <1>1, <1>2 DEF Reported
<1>4. DOMAIN w = Audited /\ w.roundtrip = a /\ w.root_equivalent = b /\ w.dense_roundtrip = c
  BY <1>1, <1>3 DEF Audited
<1>5. DOMAIN q = Audited /\ q.roundtrip = w.roundtrip /\ q.root_equivalent = w.root_equivalent
      /\ q.dense_roundtrip = w.dense_roundtrip
  BY <1>2, <1>3, <1>4 DEF Audited
<1>6. QED
  BY Zenon, <1>4, <1>5

(* What a task, or the last audit, adds to the report.                     *)
LEMMA CompilePasses ==
  ASSUME TableInv, AuditInv, CompileTask
  PROVE  AuditInv'
<1>1. /\ pc = "compile" /\ at <= Len(learned.final_tasks) /\ learned' = learned
      /\ at \in Nat /\ Len(learned.final_tasks) \in Nat
  BY DEF CompileTask, TableInv, Workflows
<1>2. PICK ops : ops = learned.final_tasks[at]
  OBVIOUS
<1>3. ops \in Seq(Capability)
  BY <1>1, <1>2 DEF TableInv, Workflows
<1>4. CASE Abort
  BY <1>1, <1>4 DEF Abort, AuditInv, AuditsPass
<1>5. CASE ~Abort
  <2>1. PICK p, dp : p = compile_caps(ops) /\ dp = compile_dense(ops)
    OBVIOUS
  <2>2. /\ at' = at + 1 /\ pc' = pc
        /\ report' = [report EXCEPT
             !.roundtrip = @ + Count(decode_caps(p) = ops),
             !.root_equivalent = @ + Count(decode_roots(p) = RootsOf(ops)),
             !.dense_roundtrip =
               @ + Count(dense_decode_caps(dp) = ops /\ dense_decode_roots(dp) = decode_roots(p)),
             !.byte_total = @ + 2 * Len(p), !.dense_total = @ + Len(dp), !.task_refs = @ + 2]
    BY Zenon, <1>2, <1>5, <2>1 DEF CompileTask
  <2>3. /\ Count(decode_caps(p) = ops) = 1 /\ Count(decode_roots(p) = RootsOf(ops)) = 1
        /\ Count(dense_decode_caps(dp) = ops /\ dense_decode_roots(dp) = decode_roots(p)) = 1
    BY Zenon, <1>3, <2>1, CompiledPasses DEF Count
  <2>4. Passed(at - 1) /\ DOMAIN report = Audited
    BY <1>1 DEF AuditInv, AuditsPass
  <2>5. /\ DOMAIN report' = Audited
        /\ report'.roundtrip = report.roundtrip + Count(decode_caps(p) = ops)
        /\ report'.root_equivalent = report.root_equivalent + Count(decode_roots(p) = RootsOf(ops))
        /\ report'.dense_roundtrip = report.dense_roundtrip
             + Count(dense_decode_caps(dp) = ops /\ dense_decode_roots(dp) = decode_roots(p))
    <3>1. PICK q, a, b, c, d, e, f :
            /\ a = report.roundtrip + Count(decode_caps(p) = ops)
            /\ b = report.root_equivalent + Count(decode_roots(p) = RootsOf(ops))
            /\ c = report.dense_roundtrip
                    + Count(dense_decode_caps(dp) = ops /\ dense_decode_roots(dp) = decode_roots(p))
            /\ d = report.byte_total + 2 * Len(p) /\ e = report.dense_total + Len(dp)
            /\ f = report.task_refs + 2 /\ q = report'
      OBVIOUS
    <3>2. Reported(q, report, a, b, c, d, e, f)
      BY Zenon, <2>2, <2>4, <3>1 DEF Reported
    <3>3. DOMAIN q = Audited /\ q.roundtrip = a /\ q.root_equivalent = b /\ q.dense_roundtrip = c
      BY <3>2, ReportIs
    <3>4. QED
      BY Zenon, <3>1, <3>3
  <2>6. /\ report'.roundtrip = report.roundtrip + 1
        /\ report'.root_equivalent = report.root_equivalent + 1
        /\ report'.dense_roundtrip = report.dense_roundtrip + 1
    BY Zenon, <2>3, <2>5
  <2>7. Passed(at - 1)'
    <3>1. report'.roundtrip = (at + 1) - 1 /\ report'.root_equivalent = (at + 1) - 1
          /\ report'.dense_roundtrip = (at + 1) - 1
      BY <1>1, <2>4, <2>6 DEF Passed
    <3>2. QED
      BY Zenon, <2>2, <3>1 DEF Passed
  <2>8. pc' = "compile" /\ at' - 1 <= Len(learned'.final_tasks)
    BY <1>1, <2>2
  <2>9. QED
    BY <2>5, <2>7, <2>8 DEF AuditInv, AuditsPass
<1>6. QED
  BY <1>4, <1>5

LEMMA InternHolds ==
  ASSUME NEW table, NEW ops, NEW program
  PROVE  ops \in DOMAIN Intern(table, ops, program).by_ops
<1>1. CASE ops \in DOMAIN table.by_ops
  BY <1>1 DEF Intern
<1>2. CASE ops \notin DOMAIN table.by_ops
  BY <1>2 DEF Intern, Put
<1>3. QED
  BY <1>1, <1>2

LEMMA HistoryPasses ==
  ASSUME TableInv, AuditInv, HistoricalAudit
  PROVE  AuditInv'
<1>1. /\ pc = "execute" /\ UNCHANGED <<at, learned, limit>>
      /\ Passed(Len(learned.final_tasks)) /\ DOMAIN report = Audited
  BY DEF HistoricalAudit, Abort, AuditInv, AuditsPass
<1>2. CASE Abort
  BY <1>1, <1>2 DEF Abort, AuditInv, AuditsPass
<1>3. CASE ~Abort
  <2>1. PICK withOld, table : /\ withOld = Intern(explicit, OldOps, compile_caps(OldOps))
                              /\ table = Intern(withOld, NewOps, compile_caps(NewOps))
    OBVIOUS
  <2>2. /\ ~Full(explicit, OldOps) /\ ~Full(withOld, NewOps)
        /\ explicit' = table /\ pc' \in {"done", "crashed"}
        /\ report' = [report EXCEPT !.immutable =
             /\ table.by_ops[OldOps] # table.by_ops[NewOps]
             /\ decode_caps(Block(table, OldOps)) = OldOps
             /\ decode_caps(Block(table, NewOps)) = NewOps]
    BY Zenon, <1>3, <2>1 DEF HistoricalAudit
  <2>3. Interns(table, Compiler, limit)
    <3>1. TableInv'
      BY Zenon, TableNext DEF Next
    <3>2. Interns(explicit', Compiler, limit')
      BY Zenon, <3>1 DEF TableInv
    <3>3. limit' = limit
      BY <1>1
    <3>4. QED
      BY Zenon, <2>2, <3>2, <3>3
  <2>4. OldOps \in DOMAIN table.by_ops /\ NewOps \in DOMAIN table.by_ops
    <3>1. OldOps \in DOMAIN withOld.by_ops /\ NewOps \in DOMAIN table.by_ops
      BY Zenon, <2>1, InternHolds
    <3>2. OldOps \in DOMAIN table.by_ops
      <4>1. CASE NewOps \in DOMAIN withOld.by_ops
        BY Zenon, <2>1, <3>1, <4>1 DEF Intern
      <4>2. CASE NewOps \notin DOMAIN withOld.by_ops
        <5>1. PICK ids, m, blocks : ids = withOld.by_ops /\ m = Len(withOld.blocks)
                                    /\ blocks = Append(withOld.blocks, compile_caps(NewOps))
          OBVIOUS
        <5>2. table = [blocks |-> blocks, by_ops |-> Put(ids, NewOps, m)]
          BY Zenon, <2>1, <4>2, <5>1 DEF Intern
        <5>3. table.by_ops = Put(ids, NewOps, m)
          BY <5>2
        <5>4. OldOps \in DOMAIN ids
          BY Zenon, <3>1, <5>1
        <5>5. OldOps \in DOMAIN Put(ids, NewOps, m)
          BY <5>4 DEF Put
        <5>6. QED
          BY Zenon, <5>3, <5>5
      <4>3. QED
        BY Zenon, <4>1, <4>2
    <3>3. QED
      BY <3>1, <3>2
  <2>5. OldOps # NewOps
    <3>1. Len(OldOps) = 4 /\ Len(NewOps) = 5
      BY DEF OldOps, NewOps
    <3>2. QED
      BY <3>1
  <2>6. table.by_ops[OldOps] # table.by_ops[NewOps]
    BY Zenon, <2>3, <2>4, <2>5 DEF Interns
  <2>7. decode_caps(Block(table, OldOps)) = OldOps /\ decode_caps(Block(table, NewOps)) = NewOps
    <3>1. Block(table, OldOps) = Compiler[OldOps] /\ Block(table, NewOps) = Compiler[NewOps]
      BY Zenon, <2>3, <2>4 DEF Interns, Block
    <3>2. QED
      BY Zenon, <3>1, HistoricalOps, CompilersAre, DecodesBack
  <2>8. PICK passes : passes = (/\ table.by_ops[OldOps] # table.by_ops[NewOps]
                                /\ decode_caps(Block(table, OldOps)) = OldOps
                                /\ decode_caps(Block(table, NewOps)) = NewOps)
    OBVIOUS
  <2>9. passes /\ report' = [report EXCEPT !.immutable = passes]
    BY Zenon, <2>2, <2>6, <2>7, <2>8
  <2>10. /\ DOMAIN report' = Audited /\ report'.immutable
         /\ report'.roundtrip = report.roundtrip /\ report'.root_equivalent = report.root_equivalent
         /\ report'.dense_roundtrip = report.dense_roundtrip
    BY <1>1, <2>9 DEF Audited
  <2>11. QED
    BY <1>1, <2>2, <2>10 DEF AuditInv, AuditsPass, Passed
<1>4. QED
  BY <1>2, <1>3

LEMMA AuditNext == TableInv /\ AuditInv /\ [Next]_vars => AuditInv'
<1>1. SUFFICES ASSUME TableInv, AuditInv, [Next]_vars PROVE AuditInv'
  OBVIOUS
<1>2. CASE CompileTask
  BY Zenon, <1>1, <1>2, CompilePasses
<1>3. CASE AuditWords
  <2>1. /\ pc = "compile" /\ at > Len(learned.final_tasks) /\ pc' = "execute" /\ learned' = learned
        /\ Len(learned.final_tasks) \in Nat /\ at \in Nat
    BY <1>1, <1>3 DEF AuditWords, TableInv, Workflows
  <2>2. at - 1 = Len(learned.final_tasks) /\ Passed(at - 1) /\ DOMAIN report = Audited
    BY <1>1, <2>1 DEF AuditInv, AuditsPass
  <2>3. PICK uniform : report' = [report EXCEPT !.all_uniform = uniform]
    BY Zenon, <1>3 DEF AuditWords
  <2>4. /\ DOMAIN report' = Audited
        /\ report'.roundtrip = report.roundtrip /\ report'.root_equivalent = report.root_equivalent
        /\ report'.dense_roundtrip = report.dense_roundtrip
    BY <2>2, <2>3 DEF Audited
  <2>5. QED
    BY <2>1, <2>2, <2>4 DEF AuditInv, AuditsPass, Passed
<1>4. CASE BeginWorkflow
  <2>1. pc = "execute" /\ UNCHANGED <<learned, report>> /\ pc' \in {"execute", "aborted"}
    BY <1>4 DEF BeginWorkflow, Abort
  <2>2. QED
    BY <1>1, <2>1 DEF AuditInv, AuditsPass, Passed
<1>5. CASE ExecuteMode
  <2>1. pc = "execute" /\ UNCHANGED <<pc, learned, report>>
    BY <1>5 DEF ExecuteMode
  <2>2. QED
    BY <1>1, <2>1 DEF AuditInv, AuditsPass, Passed
<1>6. CASE AuditWorkflow
  <2>1. pc = "execute" /\ UNCHANGED <<learned, report>> /\ pc' \in {"execute", "crashed"}
    BY <1>6 DEF AuditWorkflow
  <2>2. QED
    BY <1>1, <2>1 DEF AuditInv, AuditsPass, Passed
<1>7. CASE HistoricalAudit
  BY Zenon, <1>1, <1>7, HistoryPasses
<1>8. CASE UNCHANGED vars
  BY <1>1, <1>8 DEF vars, AuditInv, AuditsPass, Passed
<1>9. QED
  BY <1>1, <1>2, <1>3, <1>4, <1>5, <1>6, <1>7, <1>8 DEF Next

(* The audits find nothing wrong, of any workload: every final task        *)
(* round-trips through both formats with its own roots, none is left out,  *)
(* and a historical program is still itself when a drifted one has been    *)
(* interned behind it (bytecode.cpp:235-248, 262-264).                     *)
THEOREM AuditsFindNothing == Spec => []AuditsPass
<1>1. Init /\ TableInv => AuditInv
  <2>1. SUFFICES ASSUME Init, TableInv PROVE AuditInv
    OBVIOUS
  <2>2. pc = "compile" /\ at = 1 /\ Len(learned.final_tasks) \in Nat
    BY <2>1 DEF Init, TableInv, Workflows
  <2>3. DOMAIN report = Audited /\ Passed(0)
    BY <2>1 DEF Init, Audited, Passed
  <2>4. QED
    BY <2>2, <2>3 DEF AuditInv, AuditsPass
<1>2. AuditInv => AuditsPass
  BY DEF AuditInv
<1>3. Spec => []TableInv
  BY TableInit, TableNext, PTL DEF Spec
<1>4. QED
  BY <1>1, <1>2, <1>3, TableInit, AuditNext, PTL DEF Spec
=============================================================================
