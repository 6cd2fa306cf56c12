---------------------------- MODULE OdcRunsProofs ----------------------------
(***************************************************************************)
(* Theorems about the archived programs, for every program that plans      *)
(* episodes: whatever their number, their capabilities, the capacities and *)
(* the threshold of the planner, and wherever an execution fails.          *)
(***************************************************************************)
EXTENDS OdcRuns, VocabularyProofs

----------------------------------------------------------------------------
(* What is chosen exists.                                                  *)

(* A finite set with a strict order has a greatest element; <<x, y>> in R  *)
(* says that y is above x.                                                 *)
LEMMA GreatestExists ==
  ASSUME NEW S, IsFiniteSet(S), S # {}, NEW R,
         \A x \in S : <<x, x>> \notin R,
         \A x, y, z \in S : <<x, y>> \in R /\ <<y, z>> \in R => <<x, z>> \in R
  PROVE  \E x \in S : \A y \in S : <<x, y>> \notin R
<1> DEFINE T == {U \in SUBSET S : U = {} \/ \E x \in U : \A y \in U : <<x, y>> \notin R}
<1>1. {} \in T
  OBVIOUS
<1>2. ASSUME NEW U \in SUBSET S, NEW e \in S \ U, U \in T
      PROVE  U \cup {e} \in T
  <2>1. CASE U = {}
    BY <2>1
  <2>2. CASE U # {}
    <3>1. PICK x \in U : \A y \in U : <<x, y>> \notin R
      BY <1>2, <2>2
    <3>2. CASE <<x, e>> \in R
      <4>1. \A y \in U : <<e, y>> \notin R
        BY <3>1, <3>2
      <4>2. \A y \in U \cup {e} : <<e, y>> \notin R
        BY <4>1
      <4>3. QED
        BY <4>2
    <3>3. CASE <<x, e>> \notin R
      BY <3>1, <3>3
    <3>4. QED
      BY <3>2, <3>3
  <2>3. QED
    BY <2>1, <2>2
<1>3. \A U \in SUBSET S : U \in T
  <2>1. \A U \in SUBSET S : \A x \in S \ U : U \in T => U \cup {x} \in T
    BY <1>2
  <2> HIDE DEF T
  <2>2. QED
    BY <1>1, <2>1, FiniteInduction
<1>4. QED
  BY <1>3

(* Before, place by place.                                                 *)
LEMMA BeforeIs ==
  ASSUME NEW s \in Seq(Capability), NEW t \in Seq(Capability)
  PROVE  Before(s, t) <=>
           \E n \in Nat : /\ n <= Len(s) /\ n < Len(t)
                          /\ \A i \in 1..n : s[i] = t[i]
                          /\ n = Len(s) \/ Rank[s[n + 1]] < Rank[t[n + 1]]
<1>1. PICK m \in Nat : m = Min({Len(s), Len(t)}) /\ m <= Len(s) /\ m <= Len(t) /\ m \in {Len(s), Len(t)}
  BY MinOfTwo
<1>2. \A n \in 0..m : SubSeq(s, 1, n) = SubSeq(t, 1, n) <=> \A i \in 1..n : s[i] = t[i]
  <2>1. SUFFICES ASSUME NEW n \in 0..m
                 PROVE  SubSeq(s, 1, n) = SubSeq(t, 1, n) <=> \A i \in 1..n : s[i] = t[i]
    OBVIOUS
  <2>2. /\ SubSeq(s, 1, n) = [i \in 1..n |-> s[i]]
        /\ SubSeq(t, 1, n) = [i \in 1..n |-> t[i]]
    BY <1>1
  <2>3. QED
    BY <2>2
<1>3. \A n \in Nat : n \in 0..m <=> n <= Len(s) /\ n <= Len(t)
  BY <1>1
<1>4. Before(s, t) <=> \E n \in 0..m : /\ SubSeq(s, 1, n) = SubSeq(t, 1, n)
                                       /\ n < Len(t)
                                       /\ n = Len(s) \/ Rank[s[n + 1]] < Rank[t[n + 1]]
  BY <1>1, Zenon DEF Before
<1> DEFINE Apart(n) == n = Len(s) \/ Rank[s[n + 1]] < Rank[t[n + 1]]
<1> HIDE DEF Apart
<1>5. Before(s, t) <=> \E n \in 0..m : /\ SubSeq(s, 1, n) = SubSeq(t, 1, n)
                                       /\ n < Len(t)
                                       /\ Apart(n)
  BY <1>4, Zenon DEF Apart
<1>6. Before(s, t) <=> \E n \in 0..m : n < Len(t) /\ (\A i \in 1..n : s[i] = t[i]) /\ Apart(n)
  BY <1>2, <1>5, Zenon
<1>7. Before(s, t) <=> \E n \in Nat : /\ n <= Len(s) /\ n < Len(t)
                                      /\ \A i \in 1..n : s[i] = t[i]
                                      /\ Apart(n)
  <2>1. \A n \in Nat : n < Len(t) /\ n <= Len(s) => n \in 0..m
    BY <1>1
  <2>2. \A n \in 0..m : n \in Nat /\ n <= Len(s)
    BY <1>1
  <2>3. QED
    BY <1>6, <2>1, <2>2, Zenon
<1>8. QED
  BY <1>7, Zenon DEF Apart

(* The order of names is one.                                              *)
LEMMA BeforeOrders ==
  /\ \A s \in Seq(Capability) : ~Before(s, s)
  /\ \A s, t, u \in Seq(Capability) : Before(s, t) /\ Before(t, u) => Before(s, u)
  /\ \A s, t \in Seq(Capability) : s = t \/ Before(s, t) \/ Before(t, s)
<1>0. \A c \in Capability : Rank[c] \in Nat
  BY RankAssumption
<1>1. \A s \in Seq(Capability) : \A n \in 1..Len(s) : s[n] \in Capability
  OBVIOUS
<1>2. ASSUME NEW s \in Seq(Capability) PROVE ~Before(s, s)
  <2>1. SUFFICES ASSUME NEW n \in Nat, n <= Len(s), n < Len(s),
                        n = Len(s) \/ Rank[s[n + 1]] < Rank[s[n + 1]]
                 PROVE  FALSE
    BY BeforeIs
  <2>2. s[n + 1] \in Capability
    BY <2>1
  <2>3. QED
    BY <1>0, <2>1, <2>2
<1>3. ASSUME NEW s \in Seq(Capability), NEW t \in Seq(Capability), NEW u \in Seq(Capability),
             Before(s, t), Before(t, u)
      PROVE  Before(s, u)
  <2>1. PICK n \in Nat : /\ n <= Len(s) /\ n < Len(t) /\ \A i \in 1..n : s[i] = t[i]
                         /\ n = Len(s) \/ Rank[s[n + 1]] < Rank[t[n + 1]]
    BY <1>3, BeforeIs
  <2>2. PICK m \in Nat : /\ m <= Len(t) /\ m < Len(u) /\ \A i \in 1..m : t[i] = u[i]
                         /\ m = Len(t) \/ Rank[t[m + 1]] < Rank[u[m + 1]]
    BY <1>3, BeforeIs
  <2>3. SUFFICES \E k \in Nat : /\ k <= Len(s) /\ k < Len(u) /\ \A i \in 1..k : s[i] = u[i]
                                /\ k = Len(s) \/ Rank[s[k + 1]] < Rank[u[k + 1]]
    BY BeforeIs
  <2>4. CASE n < m
    <3>1. t[n + 1] = u[n + 1] /\ \A i \in 1..n : s[i] = u[i]
      BY <2>1, <2>2, <2>4
    <3>2. QED
      BY <2>1, <2>2, <2>4, <3>1
  <2>5. CASE n = m
    <3>1. m # Len(t) /\ \A i \in 1..n : s[i] = u[i]
      BY <2>1, <2>2, <2>5
    <3>2. n # Len(s) => Rank[s[n + 1]] < Rank[u[n + 1]]
      <4>1. SUFFICES ASSUME n # Len(s) PROVE Rank[s[n + 1]] < Rank[u[n + 1]]
        OBVIOUS
      <4>2. s[n + 1] \in Capability /\ t[n + 1] \in Capability /\ u[n + 1] \in Capability
        BY <2>1, <2>2, <2>5, <4>1
      <4>3. QED
        BY <1>0, <2>1, <2>2, <2>5, <3>1, <4>1, <4>2
    <3>3. QED
      BY <2>1, <2>2, <2>5, <3>1, <3>2
  <2>6. CASE m < n
    <3>1. s[m + 1] = t[m + 1] /\ m # Len(t) /\ m # Len(s) /\ \A i \in 1..m : s[i] = u[i]
      BY <2>1, <2>2, <2>6
    <3>2. QED
      BY <2>1, <2>2, <2>6, <3>1
  <2>7. QED
    BY <2>4, <2>5, <2>6
<1>4. ASSUME NEW s \in Seq(Capability), NEW t \in Seq(Capability), s # t
      PROVE  Before(s, t) \/ Before(t, s)
  <2>1. PICK m \in Nat : m = Min({Len(s), Len(t)}) /\ m <= Len(s) /\ m <= Len(t) /\ m \in {Len(s), Len(t)}
    BY MinOfTwo
  <2>2. PICK n \in 0..m : /\ SubSeq(s, 1, n) = SubSeq(t, 1, n)
                          /\ \A k \in 0..m : SubSeq(s, 1, k) = SubSeq(t, 1, k) => k <= n
    BY <2>1, CommonPrefixProperties
  <2>3. \A k \in 0..m : /\ SubSeq(s, 1, k) = [i \in 1..k |-> s[i]]
                        /\ SubSeq(t, 1, k) = [i \in 1..k |-> t[i]]
    BY <2>1
  <2>4. \A i \in 1..n : s[i] = t[i]
    BY <2>2, <2>3
  <2>5. n < m => s[n + 1] # t[n + 1]
    <3>1. SUFFICES ASSUME n < m, s[n + 1] = t[n + 1] PROVE FALSE
      OBVIOUS
    <3>2. \A i \in 1..(n + 1) : s[i] = t[i]
      BY <2>4, <3>1
    <3>3. n + 1 \in 0..m
      BY <3>1
    <3>4. SubSeq(s, 1, n + 1) = SubSeq(t, 1, n + 1)
      BY <2>3, <3>2, <3>3
    <3>5. QED
      BY <2>2, <3>3, <3>4
  <2>6. CASE n = m
    <3>1. Len(s) # Len(t)
      <4>1. SUFFICES ASSUME Len(s) = Len(t) PROVE FALSE
        OBVIOUS
      <4>2. Len(s) = n /\ Len(t) = n
        BY <2>1, <2>6, <4>1
      <4>4. s = [i \in 1..n |-> s[i]] /\ t = [i \in 1..n |-> t[i]]
        BY <4>2
      <4>5. s = t
        BY <2>4, <4>4
      <4>3. QED
        BY <1>4, <4>5
    <3>2. CASE n = Len(s)
      <4>1. n < Len(t)
        BY <2>1, <2>6, <3>1, <3>2
      <4>2. QED
        BY <2>1, <2>4, <3>2, <4>1, BeforeIs
    <3>3. CASE n = Len(t)
      <4>1. n < Len(s)
        BY <2>1, <2>6, <3>1, <3>3
      <4>2. QED
        BY <2>1, <2>4, <3>3, <4>1, BeforeIs
    <3>4. QED
      BY <2>1, <2>6, <3>2, <3>3
  <2>7. CASE n < m
    <3>1. s[n + 1] \in Capability /\ t[n + 1] \in Capability
      BY <2>1, <2>7
    <3>2. Rank[s[n + 1]] < Rank[t[n + 1]] \/ Rank[t[n + 1]] < Rank[s[n + 1]]
      BY <1>0, <2>5, <2>7, <3>1, RankAssumption
    <3>3. n < Len(s) /\ n < Len(t)
      BY <2>1, <2>7
    <3>4. QED
      BY <2>4, <3>2, <3>3, BeforeIs
  <2>8. QED
    BY <2>6, <2>7
<1>5. QED
  BY <1>2, <1>3, <1>4

(* So a finite set of sequences has a first one.                           *)
LEMMA FirstIsOne ==
  ASSUME NEW seqs, IsFiniteSet(seqs), seqs # {}, seqs \subseteq Seq(Capability)
  PROVE  First(seqs) \in seqs
<1> DEFINE R == {e \in seqs \X seqs : Before(e[2], e[1])}
<1>1. \A s, t \in seqs : <<s, t>> \in R <=> Before(t, s)
  OBVIOUS
<1> HIDE DEF R
<1>2. \A s \in seqs : <<s, s>> \notin R
  BY <1>1, BeforeOrders
<1>3. \A s, t, u \in seqs : <<s, t>> \in R /\ <<t, u>> \in R => <<s, u>> \in R
  BY <1>1, BeforeOrders
<1>4. PICK s \in seqs : \A t \in seqs : <<s, t>> \notin R
  BY <1>2, <1>3, GreatestExists
<1>5. \A t \in seqs \ {s} : Before(s, t)
  BY <1>1, <1>4, BeforeOrders
<1>6. QED
  BY <1>5 DEF First

(* A sequence has finitely many candidates, of capabilities when it is.    *)
LEMMA CandidatesAre ==
  ASSUME NEW s \in Seq(Capability)
  PROVE  /\ IsFiniteSet(Candidates(s))
         /\ Candidates(s) \subseteq Seq(Capability) \ {<<>>}
         /\ \A c \in Candidates(s) : Len(c) \in 2..5
<1> DEFINE S == (1..Len(s)) \X (2..5)
           f == [e \in S |-> SubSeq(s, e[1], e[1] + e[2] - 1)]
<1>1. IsFiniteSet(S)
  <2>0. Len(s) \in Int /\ 1 \in Int /\ 2 \in Int /\ 5 \in Int
    OBVIOUS
  <2>1. IsFiniteSet(1..Len(s)) /\ IsFiniteSet(2..5)
    BY <2>0, FS_Interval
  <2>2. QED
    BY <2>1, FS_Product
<1>2. f \in Surjection(S, Range(f))
  BY DEF Surjection, Range
<1>3. IsFiniteSet(Range(f))
  <2> HIDE DEF S, f
  <2>1. QED
    BY <1>1, <1>2, FS_Surjection
<1>4. Candidates(s) \subseteq Range(f)
  <2>1. SUFFICES ASSUME NEW c \in Candidates(s)
                 PROVE  c \in Range(f)
    OBVIOUS
  <2>2. PICK i \in 1..Len(s) : Len(c) \in 2..5 /\ c = SubSeq(s, i, i + Len(c) - 1)
    BY CandidateProperties DEF OccursAt
  <2>3. PICK n \in 2..5 : n = Len(c)
    BY <2>2
  <2>4. <<i, n>> \in S /\ <<i, n>>[1] = i /\ <<i, n>>[2] = n
    OBVIOUS
  <2>5. f[<<i, n>>] = SubSeq(s, i, i + n - 1)
    BY <2>4
  <2>6. QED
    BY <2>2, <2>3, <2>4, <2>5 DEF Range
<1>5. IsFiniteSet(Candidates(s))
  BY <1>3, <1>4, FS_Subset
<1>6. QED
  BY <1>5, CandidateProperties

----------------------------------------------------------------------------
(* What is true of a planner.                                              *)

NonemptySeq == Seq(Capability) \ {<<>>}

Fields ==
  {"active_cap", "mdl_threshold", "provisional_cap", "grace", "derived", "active", "lru", "history",
   "subseq_users", "pstats", "provisional", "struct_step", "pcounter", "admitted_total",
   "expired_total", "pending_touched", "pending_touched_p", "pending_consolidation"}

IsPlanner(p) == p = [f \in Fields |-> p[f]]

HistoryOK(p) ==
  /\ IsFiniteSet(DOMAIN p.history)
  /\ \A t \in DOMAIN p.history : p.history[t] \in Seq(Capability)

(* The users noted of a candidate are tasks, among them all whose last     *)
(* plan holds it.                                                          *)
IndexOK(p) ==
  /\ IsFiniteSet(DOMAIN p.subseq_users) /\ DOMAIN p.subseq_users \subseteq NonemptySeq
  /\ \A c \in DOMAIN p.subseq_users : p.subseq_users[c] \subseteq DOMAIN p.history
  /\ \A t \in DOMAIN p.history : \A c \in Candidates(p.history[t]) :
       c \in DOMAIN p.subseq_users /\ t \in p.subseq_users[c]

IsWord(w) == "raw" \in DOMAIN w /\ w.raw \in NonemptySeq

TierOK(p) ==
  /\ \A c \in DOMAIN p.pstats : p.pstats[c] \subseteq DOMAIN p.history
  /\ \A n \in DOMAIN p.provisional : IsWord(p.provisional[n])

QueueOK(p) ==
  /\ \A queue \in {p.pending_touched, p.pending_touched_p} :
       /\ IsFiniteSet(queue) /\ queue \subseteq NonemptySeq
       /\ ~p.pending_consolidation => queue = {}
  /\ p.pending_consolidation \in BOOLEAN

KnowledgeOK(p) ==
  /\ IsPlanner(p) /\ p.mdl_threshold \in Int
  /\ Grounded(p.derived)
  /\ HistoryOK(p) /\ IndexOK(p) /\ TierOK(p) /\ QueueOK(p)

(* What growth and the tier leave alone.                                   *)
Leaves(p, q) ==
  /\ IsPlanner(q)
  /\ q.active_cap = p.active_cap /\ q.mdl_threshold = p.mdl_threshold
  /\ q.provisional_cap = p.provisional_cap /\ q.grace = p.grace
  /\ q.active = p.active /\ q.lru = p.lru /\ q.history = p.history
  /\ q.subseq_users = p.subseq_users /\ q.pstats = p.pstats /\ q.struct_step = p.struct_step
  /\ q.pending_touched = p.pending_touched /\ q.pending_touched_p = p.pending_touched_p
  /\ q.pending_consolidation = p.pending_consolidation

(* Two planners that know the same and differ in their working set, and in *)
(* what they have queued.                                                  *)
SameKnowledge(p, q) ==
  /\ q.active_cap = p.active_cap /\ q.mdl_threshold = p.mdl_threshold
  /\ q.provisional_cap = p.provisional_cap /\ q.grace = p.grace
  /\ q.derived = p.derived /\ q.history = p.history /\ q.subseq_users = p.subseq_users
  /\ q.pstats = p.pstats /\ q.provisional = p.provisional
  /\ q.struct_step = p.struct_step /\ q.pcounter = p.pcounter
  /\ q.admitted_total = p.admitted_total /\ q.expired_total = p.expired_total

LEMMA LeavesKnowledge ==
  ASSUME NEW p, NEW q, KnowledgeOK(p), Leaves(p, q), Grounded(q.derived),
         \A n \in DOMAIN q.provisional : IsWord(q.provisional[n])
  PROVE  KnowledgeOK(q)
<1>1. HistoryOK(q) /\ IndexOK(q)
  BY DEF KnowledgeOK, Leaves, HistoryOK, IndexOK
<1>2. TierOK(q) /\ QueueOK(q)
  BY DEF KnowledgeOK, Leaves, TierOK, QueueOK
<1>3. QED
  BY <1>1, <1>2 DEF KnowledgeOK, Leaves

LEMMA NewPlannerIs ==
  ASSUME NEW a, NEW m \in Int, NEW c, NEW g
  PROVE  KnowledgeOK(NewPlanner(a, m, c, g))
<1> DEFINE p == NewPlanner(a, m, c, g)
<1>1. IsPlanner(p)
  BY DEF IsPlanner, Fields, NewPlanner
<1>2. /\ p.mdl_threshold = m /\ p.derived = <<>> /\ p.history = <<>> /\ p.subseq_users = <<>>
      /\ p.pstats = <<>> /\ p.provisional = <<>> /\ p.pending_touched = {}
      /\ p.pending_touched_p = {} /\ p.pending_consolidation = FALSE
  BY DEF NewPlanner
<1>3. DOMAIN <<>> = {} /\ IsFiniteSet({})
  BY FS_EmptySet
<1> HIDE DEF p
<1>4. Grounded(p.derived)
  BY <1>2 DEF Grounded
<1>5. HistoryOK(p) /\ IndexOK(p) /\ TierOK(p) /\ QueueOK(p)
  BY <1>2, <1>3 DEF HistoryOK, IndexOK, TierOK, QueueOK
<1>6. KnowledgeOK(p)
  BY <1>1, <1>2, <1>4, <1>5 DEF KnowledgeOK
<1>7. QED
  BY <1>6 DEF p

----------------------------------------------------------------------------
(* Growth.                                                                 *)

LEMMA PiecesLen ==
  ASSUME NEW s \in Seq(Capability), NEW words, words \subseteq Seq(Capability)
  PROVE  Len(Pieces(s, words)) \in 0..Len(s)
<1>1. PICK pieces : pieces = Pieces(s, words)
  OBVIOUS
<1>2. pieces \in Seq(Seq(Capability)) /\ Len(pieces) <= Len(s)
  BY <1>1, PiecesProperties
<1>3. QED
  BY <1>1, <1>2

LEMMA SavingIsInt ==
  ASSUME NEW p, HistoryOK(p), NEW words, words \subseteq Seq(Capability), NEW c \in Seq(Capability),
         NEW tasks, tasks \subseteq DOMAIN p.history
  PROVE  /\ Saving(p, words, c, tasks) \in Int
         /\ \A t \in tasks : Len(Pieces(p.history[t], words))
                               - Len(Pieces(p.history[t], words \cup {c})) \in Int
<1> DEFINE f == [t \in tasks |-> Len(Pieces(p.history[t], words))
                                   - Len(Pieces(p.history[t], words \cup {c}))]
<1>1. IsFiniteSet(tasks)
  BY FS_Subset DEF HistoryOK
<1>2. ASSUME NEW t \in tasks
      PROVE  Len(Pieces(p.history[t], words))
               - Len(Pieces(p.history[t], words \cup {c})) \in Int
  <2>1. p.history[t] \in Seq(Capability)
    BY DEF HistoryOK
  <2>2. words \cup {c} \subseteq Seq(Capability)
    OBVIOUS
  <2>3. Len(Pieces(p.history[t], words)) \in Int
    BY <2>1, PiecesLen
  <2>4. Len(Pieces(p.history[t], words \cup {c})) \in Int
    BY <2>1, <2>2, PiecesLen
  <2>5. QED
    BY <2>3, <2>4
<1>3. \A t \in tasks : f[t] \in Int
  BY <1>2
<1>4. DOMAIN f = tasks /\ Saving(p, words, c, tasks) = SumFunction(f)
  BY DEF Saving
<1> HIDE DEF f
<1>5. SumFunctionOnSet(f, tasks) \in Int
  BY <1>1, <1>3, SumType
<1>6. QED
  BY <1>2, <1>4, <1>5 DEF SumFunction

(* What users are counted are tasks, finitely many.                        *)
LEMMA UsersAre ==
  ASSUME NEW p, HistoryOK(p), IndexOK(p), NEW c
  PROVE  /\ Users(p, c) \subseteq DOMAIN p.history
         /\ Cardinality(Users(p, c)) \in Nat
<1>1. Users(p, c) \subseteq DOMAIN p.history
  BY DEF Users, IndexOK
<1>2. IsFiniteSet(Users(p, c))
  BY <1>1, FS_Subset DEF HistoryOK
<1>3. QED
  BY <1>1, <1>2, FS_CardinalityType

(* The order of keys, of three integers.                                   *)
LEMMA KeysOrder ==
  /\ \A k \in Int \X Int \X Int : ~KeyBelow(k, k)
  /\ \A k, l, m \in Int \X Int \X Int : KeyBelow(k, l) /\ KeyBelow(l, m) => KeyBelow(k, m)
BY DEF KeyBelow

(* The planner that has learned a sequence.                                *)
Learned(p, c) == [p EXCEPT !.derived = Append(p.derived, Compress(p.derived, c))]

(* Growth learns one of the candidates it scores, or nothing.              *)
LEMMA GrownLearns ==
  ASSUME NEW p, KnowledgeOK(p), NEW words, words = Expansions(p.derived), NEW saving,
         IsFiniteSet(DOMAIN saving), DOMAIN saving \subseteq NonemptySeq,
         \A c \in DOMAIN saving : saving[c] \in Int
  PROVE  \/ Grown(p, words, saving) = p
         \/ \E c \in DOMAIN saving : Grown(p, words, saving) = Learned(p, c)
<1> DEFINE key == [c \in DOMAIN saving |-> <<saving[c] - (Len(Pieces(c, words)) + 1),
                                             Cardinality(Users(p, c)), Len(c)>>]
           worth == {c \in DOMAIN key : key[c][1] >= p.mdl_threshold}
           best == {c \in worth : \A d \in worth : ~KeyBelow(key[c], key[d])}
<1>1. \A c \in DOMAIN saving : key[c] \in Int \X Int \X Int
  <2>1. SUFFICES ASSUME NEW c \in DOMAIN saving PROVE key[c] \in Int \X Int \X Int
    OBVIOUS
  <2>2. c \in Seq(Capability) /\ Len(c) \in Int
    BY DEF NonemptySeq
  <2>3. words \subseteq Seq(Capability)
    BY ExpansionsType DEF KnowledgeOK
  <2>4. Len(Pieces(c, words)) \in Int
    BY <2>2, <2>3, PiecesLen
  <2>5. saving[c] - (Len(Pieces(c, words)) + 1) \in Int
    BY <2>4
  <2>6. Cardinality(Users(p, c)) \in Int
    BY UsersAre DEF KnowledgeOK
  <2>7. key[c] = <<saving[c] - (Len(Pieces(c, words)) + 1), Cardinality(Users(p, c)), Len(c)>>
    OBVIOUS
  <2>8. QED
    BY <2>2, <2>5, <2>6, <2>7
<1>2. DOMAIN key = DOMAIN saving
  OBVIOUS
<1>3. Grown(p, words, saving)
        = IF worth = {} THEN p
          ELSE [p EXCEPT !.derived = Append(@, Compress(p.derived, First(best)))]
  BY DEF Grown
<1> HIDE DEF key
<1>4. worth \subseteq DOMAIN saving /\ IsFiniteSet(worth)
  <2>1. worth \subseteq DOMAIN saving
    BY <1>2
  <2> HIDE DEF worth
  <2>2. QED
    BY <2>1, FS_Subset
<1>5. worth # {} => best # {}
  <2> DEFINE R == {e \in worth \X worth : KeyBelow(key[e[1]], key[e[2]])}
  <2>1. \A c, d \in worth : <<c, d>> \in R <=> KeyBelow(key[c], key[d])
    OBVIOUS
  <2>2. \A c \in worth : key[c] \in Int \X Int \X Int
    BY <1>1, <1>4
  <2> HIDE DEF R, worth
  <2>3. \A c \in worth : <<c, c>> \notin R
    BY <2>1, <2>2, KeysOrder
  <2>4. \A c, d, e \in worth : <<c, d>> \in R /\ <<d, e>> \in R => <<c, e>> \in R
    BY <2>1, <2>2, KeysOrder
  <2>5. SUFFICES ASSUME worth # {} PROVE best # {}
    OBVIOUS
  <2>6. PICK c \in worth : \A d \in worth : <<c, d>> \notin R
    BY <1>4, <2>3, <2>4, <2>5, GreatestExists
  <2>7. QED
    BY <2>1, <2>6
<1>6. best \subseteq worth
  OBVIOUS
<1> HIDE DEF worth, best
<1>7. worth # {} => First(best) \in DOMAIN saving
  <2>1. IsFiniteSet(best)
    BY <1>4, <1>6, FS_Subset
  <2>2. best \subseteq Seq(Capability)
    BY <1>4, <1>6 DEF NonemptySeq
  <2>3. QED
    BY <1>4, <1>5, <1>6, <2>1, <2>2, FirstIsOne
<1>8. CASE worth = {}
  BY <1>3, <1>8
<1>9. CASE worth # {}
  <2>1. Grown(p, words, saving) = Learned(p, First(best))
    BY <1>3, <1>9 DEF Learned
  <2>2. QED
    BY <1>7, <1>9, <2>1
<1>10. QED
  BY <1>8, <1>9

(* Learning keeps what is true of a planner.                               *)
LEMMA GrownKeeps ==
  ASSUME NEW p, KnowledgeOK(p), NEW words, words = Expansions(p.derived), NEW saving,
         IsFiniteSet(DOMAIN saving), DOMAIN saving \subseteq NonemptySeq,
         \A c \in DOMAIN saving : saving[c] \in Int
  PROVE  /\ KnowledgeOK(Grown(p, words, saving)) /\ Leaves(p, Grown(p, words, saving))
         /\ Grown(p, words, saving).provisional = p.provisional
         /\ Grown(p, words, saving).pcounter = p.pcounter
         /\ Grown(p, words, saving).admitted_total = p.admitted_total
         /\ Grown(p, words, saving).expired_total = p.expired_total
<1>1. PICK q : q = Grown(p, words, saving)
  OBVIOUS
<1>2. IsPlanner(p) /\ Grounded(p.derived)
  BY DEF KnowledgeOK
<1>3. CASE q = p
  <2>1. Leaves(p, p)
    BY <1>2 DEF Leaves
  <2>2. QED
    BY <1>1, <1>3, <2>1
<1>4. ASSUME NEW c \in DOMAIN saving, q = Learned(p, c)
      PROVE  /\ KnowledgeOK(q) /\ Leaves(p, q) /\ q.provisional = p.provisional
             /\ q.pcounter = p.pcounter /\ q.admitted_total = p.admitted_total
             /\ q.expired_total = p.expired_total
  <2>1. PICK d : d = Append(p.derived, Compress(p.derived, c))
    OBVIOUS
  <2>2. Grounded(d)
    BY <1>2, <2>1, LearningExact DEF NonemptySeq
  <2>3. q = [p EXCEPT !.derived = d]
    BY <1>4, <2>1 DEF Learned
  <2>4. /\ Leaves(p, q) /\ q.derived = d /\ q.provisional = p.provisional
        /\ q.pcounter = p.pcounter /\ q.admitted_total = p.admitted_total
        /\ q.expired_total = p.expired_total
    BY <1>2, <2>3 DEF IsPlanner, Fields, Leaves
  <2>5. \A n \in DOMAIN q.provisional : IsWord(q.provisional[n])
    BY <2>4 DEF KnowledgeOK, TierOK
  <2>6. KnowledgeOK(q)
    BY <2>2, <2>4, <2>5, LeavesKnowledge
  <2>7. QED
    BY <2>4, <2>6
<1>5. q = p \/ \E c \in DOMAIN saving : q = Learned(p, c)
  BY <1>1, GrownLearns
<1>6. QED
  BY <1>1, <1>3, <1>4, <1>5

(* Over the whole corpus, or over the users of each candidate.             *)
GrowthSaving(p, cands) ==
  [c \in Eligible(p, Expansions(p.derived), cands) |->
     Saving(p, Expansions(p.derived), c, DOMAIN p.history)]

LocalizedSaving(p, cands) ==
  [c \in Eligible(p, Expansions(p.derived), cands) |->
     Saving(p, Expansions(p.derived), c, Users(p, c) \cap DOMAIN p.history)]

LEMMA GrowthIs ==
  ASSUME NEW p, NEW cands
  PROVE  /\ MaybeGrow(p, cands) = Grown(p, Expansions(p.derived), GrowthSaving(p, cands))
         /\ MaybeGrowLocalized(p, cands) = Grown(p, Expansions(p.derived), LocalizedSaving(p, cands))
BY DEF MaybeGrow, MaybeGrowLocalized, GrowthSaving, LocalizedSaving

LEMMA SavingsAre ==
  ASSUME NEW p, KnowledgeOK(p), NEW cands, IsFiniteSet(cands), cands \subseteq NonemptySeq
  PROVE  \A saving \in {GrowthSaving(p, cands), LocalizedSaving(p, cands)} :
           /\ IsFiniteSet(DOMAIN saving) /\ DOMAIN saving \subseteq NonemptySeq
           /\ \A c \in DOMAIN saving : saving[c] \in Int
<1>1. PICK words : words = Expansions(p.derived)
  OBVIOUS
<1>2. words \subseteq Seq(Capability)
  BY <1>1, ExpansionsType DEF KnowledgeOK
<1>3. Eligible(p, words, cands) \subseteq cands
  BY DEF Eligible
<1>4. IsFiniteSet(Eligible(p, words, cands))
  BY <1>3, FS_Subset
<1>5. /\ DOMAIN GrowthSaving(p, cands) = Eligible(p, words, cands)
      /\ DOMAIN LocalizedSaving(p, cands) = Eligible(p, words, cands)
  BY <1>1 DEF GrowthSaving, LocalizedSaving
<1>6. ASSUME NEW c \in Eligible(p, words, cands)
      PROVE  GrowthSaving(p, cands)[c] \in Int /\ LocalizedSaving(p, cands)[c] \in Int
  <2>1. c \in Seq(Capability)
    BY <1>3 DEF NonemptySeq
  <2>2. /\ GrowthSaving(p, cands)[c] = Saving(p, words, c, DOMAIN p.history)
        /\ LocalizedSaving(p, cands)[c] = Saving(p, words, c, Users(p, c) \cap DOMAIN p.history)
    BY <1>1 DEF GrowthSaving, LocalizedSaving
  <2>3. HistoryOK(p)
    BY DEF KnowledgeOK
  <2>4. Saving(p, words, c, DOMAIN p.history) \in Int
    BY <1>2, <2>1, <2>3, SavingIsInt
  <2>5. Saving(p, words, c, Users(p, c) \cap DOMAIN p.history) \in Int
    BY <1>2, <2>1, <2>3, SavingIsInt
  <2>6. QED
    BY <2>2, <2>4, <2>5
<1>7. QED
  BY <1>3, <1>4, <1>5, <1>6

LEMMA GrowthKeeps ==
  ASSUME NEW p, KnowledgeOK(p), NEW cands, IsFiniteSet(cands), cands \subseteq NonemptySeq
  PROVE  \A q \in {MaybeGrow(p, cands), MaybeGrowLocalized(p, cands)} :
           /\ KnowledgeOK(q) /\ Leaves(p, q) /\ q.provisional = p.provisional
           /\ q.pcounter = p.pcounter /\ q.admitted_total = p.admitted_total
           /\ q.expired_total = p.expired_total
<1>1. ASSUME NEW saving \in {GrowthSaving(p, cands), LocalizedSaving(p, cands)},
             NEW q, q = Grown(p, Expansions(p.derived), saving)
      PROVE  /\ KnowledgeOK(q) /\ Leaves(p, q) /\ q.provisional = p.provisional
             /\ q.pcounter = p.pcounter /\ q.admitted_total = p.admitted_total
             /\ q.expired_total = p.expired_total
  <2>1. /\ IsFiniteSet(DOMAIN saving) /\ DOMAIN saving \subseteq NonemptySeq
        /\ \A c \in DOMAIN saving : saving[c] \in Int
    BY SavingsAre
  <2>2. QED
    BY <1>1, <2>1, GrownKeeps
<1>2. QED
  BY <1>1, GrowthIs

----------------------------------------------------------------------------
(* The provisional tier.                                                   *)

(* The tier without what the vocabulary holds, and without what is stale.  *)
TierLeft(tier, dict) == RestrictDomain(tier, LAMBDA n : tier[n].raw \notin Expansions(dict))

StaleIn(tier, clock, grace) == {n \in DOMAIN tier : clock >= tier[n].last_transfer + grace}

TierFresh(tier, clock, grace) == RestrictDomain(tier, LAMBDA n : n \notin StaleIn(tier, clock, grace))

LEMMA RemovalIs ==
  ASSUME NEW p, KnowledgeOK(p)
  PROVE  LET q == RemoveCommittedEquivalents(p)
         IN  /\ KnowledgeOK(q) /\ Leaves(p, q)
             /\ q.provisional = TierLeft(p.provisional, p.derived) /\ q.derived = p.derived
             /\ q.pcounter = p.pcounter /\ q.admitted_total = p.admitted_total
             /\ q.expired_total = p.expired_total
<1>1. PICK tier : tier = TierLeft(p.provisional, p.derived)
  OBVIOUS
<1>2. PICK q : q = RemoveCommittedEquivalents(p)
  OBVIOUS
<1>3. q = [p EXCEPT !.provisional = tier]
  BY <1>1, <1>2 DEF RemoveCommittedEquivalents, TierLeft
<1>4. IsPlanner(p)
  BY DEF KnowledgeOK
<1>5. /\ Leaves(p, q) /\ q.provisional = tier /\ q.derived = p.derived
      /\ q.pcounter = p.pcounter /\ q.admitted_total = p.admitted_total
      /\ q.expired_total = p.expired_total
  BY <1>3, <1>4 DEF IsPlanner, Fields, Leaves
<1>6. \A n \in DOMAIN tier : n \in DOMAIN p.provisional /\ tier[n] = p.provisional[n]
  BY <1>1 DEF TierLeft, RestrictDomain, Restrict
<1>7. \A n \in DOMAIN q.provisional : IsWord(q.provisional[n])
  BY <1>5, <1>6 DEF KnowledgeOK, TierOK
<1>8. KnowledgeOK(q)
  BY <1>5, <1>7, LeavesKnowledge DEF KnowledgeOK
<1>9. QED
  BY <1>1, <1>2, <1>5, <1>8

LEMMA ExpiryIs ==
  ASSUME NEW p, KnowledgeOK(p)
  PROVE  LET q == Expire(p)
         IN  /\ KnowledgeOK(q) /\ Leaves(p, q)
             /\ q.provisional = TierFresh(p.provisional, p.struct_step, p.grace)
             /\ q.derived = p.derived
             /\ q.pcounter = p.pcounter /\ q.admitted_total = p.admitted_total
             /\ q.expired_total = p.expired_total + Cardinality(StaleIn(p.provisional, p.struct_step, p.grace))
<1>1. PICK tier, stale : /\ stale = StaleIn(p.provisional, p.struct_step, p.grace)
                         /\ tier = TierFresh(p.provisional, p.struct_step, p.grace)
  OBVIOUS
<1>2. PICK q : q = Expire(p)
  OBVIOUS
<1>3. q = [p EXCEPT !.provisional = tier, !.expired_total = @ + Cardinality(stale)]
  BY <1>1, <1>2 DEF Expire, TierFresh, StaleIn
<1>4. IsPlanner(p)
  BY DEF KnowledgeOK
<1>5. /\ Leaves(p, q) /\ q.provisional = tier /\ q.derived = p.derived
      /\ q.pcounter = p.pcounter /\ q.admitted_total = p.admitted_total
      /\ q.expired_total = p.expired_total + Cardinality(stale)
  BY <1>3, <1>4 DEF IsPlanner, Fields, Leaves
<1>6. \A n \in DOMAIN tier : n \in DOMAIN p.provisional /\ tier[n] = p.provisional[n]
  BY <1>1 DEF TierFresh, RestrictDomain, Restrict
<1>7. \A n \in DOMAIN q.provisional : IsWord(q.provisional[n])
  BY <1>5, <1>6 DEF KnowledgeOK, TierOK
<1>8. KnowledgeOK(q)
  BY <1>5, <1>7, LeavesKnowledge DEF KnowledgeOK
<1>9. QED
  BY <1>1, <1>2, <1>5, <1>8

(* Admission takes in one of the admissible candidates, or nothing.        *)
Fit(p, cands) == Admissible(p, Expansions(p.derived), cands)

BestFit(p, cands) ==
  {c \in Fit(p, cands) : \A d \in Fit(p, cands) :
     Score(p, Expansions(p.derived), d) <= Score(p, Expansions(p.derived), c)}

Admitted(p, c) ==
  [p EXCEPT !.provisional = Put(@, p.pcounter + 1,
                                [raw |-> c, birth_tasks |-> p.pstats[c], last_transfer |-> p.struct_step]),
            !.pcounter = @ + 1, !.admitted_total = @ + 1]

LEMMA AdmitIs ==
  ASSUME NEW p, NEW cands
  PROVE  Admit(p, cands) = IF Cardinality(DOMAIN p.provisional) >= p.provisional_cap \/ Fit(p, cands) = {}
                           THEN p ELSE Admitted(p, First(BestFit(p, cands)))
BY DEF Admit, Fit, BestFit, Admitted

LEMMA ScoreIsInt ==
  ASSUME NEW p, KnowledgeOK(p), NEW words, words \subseteq Seq(Capability),
         NEW c \in NonemptySeq, c \in DOMAIN p.pstats
  PROVE  TierSaving(p, words, c) \in Int /\ Score(p, words, c) \in Int
<1>1. PICK users : users = Cardinality(p.pstats[c])
  OBVIOUS
<1>2. users \in Nat
  <2>1. p.pstats[c] \subseteq DOMAIN p.history /\ IsFiniteSet(DOMAIN p.history)
    BY DEF KnowledgeOK, TierOK, HistoryOK
  <2>2. IsFiniteSet(p.pstats[c])
    BY <2>1, FS_Subset
  <2>3. QED
    BY <1>1, <2>2, FS_CardinalityType
<1>3. PICK n, m : n = Len(c) /\ m = Len(Pieces(c, words))
  OBVIOUS
<1>4. n \in Nat /\ m \in Nat
  BY <1>3, PiecesLen DEF NonemptySeq
<1>5. PICK product : product = users * (n - 1)
  OBVIOUS
<1>6. product \in Int
  BY <1>2, <1>4, <1>5
<1>7. TierSaving(p, words, c) = product - (m + 1)
  BY <1>1, <1>3, <1>5 DEF TierSaving
<1>8. TierSaving(p, words, c) \in Int
  BY <1>4, <1>6, <1>7
<1>9. Score(p, words, c) = TierSaving(p, words, c) * 32 + users * 8 + n * 4
  BY <1>1, <1>3 DEF Score
<1>10. QED
  BY <1>2, <1>4, <1>8, <1>9

LEMMA AdmissionKeeps ==
  ASSUME NEW p, KnowledgeOK(p), NEW cands, IsFiniteSet(cands), cands \subseteq NonemptySeq
  PROVE  LET q == Admit(p, cands)
         IN  KnowledgeOK(q) /\ Leaves(p, q) /\ q.derived = p.derived
<1>1. PICK q : q = Admit(p, cands)
  OBVIOUS
<1>2. IsPlanner(p) /\ Grounded(p.derived)
  BY DEF KnowledgeOK
<1>3. CASE q = p
  <2>1. Leaves(p, p)
    BY <1>2 DEF Leaves
  <2>2. QED
    BY <1>1, <1>3, <2>1
<1>4. CASE Fit(p, cands) # {} /\ q = Admitted(p, First(BestFit(p, cands)))
  <2>1. PICK words : words = Expansions(p.derived) /\ words \subseteq Seq(Capability)
    BY <1>2, ExpansionsType
  <2>2. Fit(p, cands) \subseteq cands \cap DOMAIN p.pstats
    BY DEF Fit, Admissible
  <2>3. IsFiniteSet(Fit(p, cands))
    BY <2>2, FS_Subset
  <2>4. \A c \in Fit(p, cands) : Score(p, words, c) \in Int
    BY <2>1, <2>2, ScoreIsInt
  <2>5. BestFit(p, cands) # {}
    <3> DEFINE S == Fit(p, cands)
               R == {e \in S \X S : Score(p, words, e[1]) < Score(p, words, e[2])}
    <3>1. \A c, d \in S : <<c, d>> \in R <=> Score(p, words, c) < Score(p, words, d)
      OBVIOUS
    <3>2. S # {} /\ IsFiniteSet(S) /\ \A c \in S : Score(p, words, c) \in Int
      BY <1>4, <2>3, <2>4
    <3>3. BestFit(p, cands) = {c \in S : \A d \in S : Score(p, words, d) <= Score(p, words, c)}
      BY <2>1 DEF BestFit
    <3> HIDE DEF R, S
    <3>4. \A c \in S : <<c, c>> \notin R
      BY <3>1, <3>2
    <3>5. \A c, d, e \in S : <<c, d>> \in R /\ <<d, e>> \in R => <<c, e>> \in R
      BY <3>1, <3>2
    <3>6. PICK c \in S : \A d \in S : <<c, d>> \notin R
      BY <3>2, <3>4, <3>5, GreatestExists
    <3>7. ASSUME NEW d \in S PROVE Score(p, words, d) <= Score(p, words, c)
      <4>1. ~(Score(p, words, c) < Score(p, words, d))
        BY <3>1, <3>6
      <4>2. Score(p, words, c) \in Int /\ Score(p, words, d) \in Int
        BY <3>2
      <4>3. QED
        BY <4>1, <4>2
    <3>8. QED
      BY <3>3, <3>7
  <2>6. BestFit(p, cands) \subseteq Fit(p, cands)
    BY DEF BestFit
  <2>7. IsFiniteSet(BestFit(p, cands)) /\ BestFit(p, cands) \subseteq Seq(Capability)
    BY <2>2, <2>3, <2>6, FS_Subset DEF NonemptySeq
  <2>8. PICK c : c = First(BestFit(p, cands))
    OBVIOUS
  <2>9. c \in NonemptySeq
    BY <2>2, <2>5, <2>6, <2>7, <2>8, FirstIsOne
  <2>10. PICK word, tier : /\ word = [raw |-> c, birth_tasks |-> p.pstats[c], last_transfer |-> p.struct_step]
                           /\ tier = Put(p.provisional, p.pcounter + 1, word)
    OBVIOUS
  <2>11. q = [p EXCEPT !.provisional = tier, !.pcounter = @ + 1, !.admitted_total = @ + 1]
    BY <1>4, <2>8, <2>10 DEF Admitted
  <2>12. Leaves(p, q) /\ q.derived = p.derived /\ q.provisional = tier
    BY <1>2, <2>11 DEF IsPlanner, Fields, Leaves
  <2>13. \A n \in DOMAIN tier : tier[n] = word \/ (n \in DOMAIN p.provisional /\ tier[n] = p.provisional[n])
    BY <2>10 DEF Put
  <2>14. IsWord(word)
    BY <2>9, <2>10 DEF IsWord
  <2>15. \A n \in DOMAIN q.provisional : IsWord(q.provisional[n])
    BY <2>12, <2>13, <2>14 DEF KnowledgeOK, TierOK
  <2>16. KnowledgeOK(q)
    BY <1>2, <2>12, <2>15, LeavesKnowledge
  <2>17. QED
    BY <1>1, <2>12, <2>16
<1>5. QED
  BY <1>1, <1>3, <1>4, AdmitIs

----------------------------------------------------------------------------
(* What a plan stores.                                                     *)

PlansOps(ep) == ep.ops \in NonemptySeq

LEMMA CandidatesOf ==
  ASSUME NEW ep, PlansOps(ep)
  PROVE  /\ IsFiniteSet(Candidates(ep.ops)) /\ Candidates(ep.ops) \subseteq NonemptySeq
         /\ \A c \in Candidates(ep.ops) : Len(c) \in 2..5
BY CandidatesAre DEF PlansOps, NonemptySeq

LEMMA NotedIs ==
  ASSUME NEW users, NEW keys, NEW task
  PROVE  /\ DOMAIN Noted(users, keys, task) = DOMAIN users \cup keys
         /\ \A k \in DOMAIN users : users[k] \subseteq Noted(users, keys, task)[k]
         /\ \A k \in keys : task \in Noted(users, keys, task)[k]
BY DEF Noted

LEMMA NotedWithin ==
  ASSUME NEW users, NEW keys, NEW task, NEW S, task \in S, \A k \in DOMAIN users : users[k] \subseteq S
  PROVE  \A k \in DOMAIN Noted(users, keys, task) : Noted(users, keys, task)[k] \subseteq S
BY DEF Noted

(* Recorded stores the plan and its evidence, nothing else.                *)
LEMMA RecordedIs ==
  ASSUME NEW p, KnowledgeOK(p), NEW ep, PlansOps(ep)
  PROVE  LET q == Recorded(p, ep)
         IN  /\ KnowledgeOK(q)
             /\ q.history = Put(p.history, ep.task, ep.ops) /\ ep.task \in DOMAIN q.history
             /\ q.active_cap = p.active_cap /\ q.mdl_threshold = p.mdl_threshold
             /\ q.provisional_cap = p.provisional_cap /\ q.grace = p.grace
             /\ q.derived = p.derived /\ q.active = p.active /\ q.lru = p.lru
             /\ q.pstats = p.pstats /\ q.provisional = p.provisional
             /\ q.struct_step = p.struct_step /\ q.pcounter = p.pcounter
             /\ q.admitted_total = p.admitted_total /\ q.expired_total = p.expired_total
             /\ q.pending_touched = p.pending_touched /\ q.pending_touched_p = p.pending_touched_p
             /\ q.pending_consolidation = p.pending_consolidation
<1>1. PICK h, users, task, ops, C :
        /\ task = ep.task /\ ops = ep.ops /\ C = Candidates(ops)
        /\ h = Put(p.history, task, ops)
        /\ users = IF NewEvidence(p, ep) THEN Noted(p.subseq_users, C, task) ELSE p.subseq_users
  OBVIOUS
<1>2. PICK q : q = Recorded(p, ep)
  OBVIOUS
<1>3. q = [p EXCEPT !.history = h, !.subseq_users = users]
  BY <1>1, <1>2 DEF Recorded
<1>4. IsPlanner(p)
  BY DEF KnowledgeOK
<1>5. IsPlanner(q) /\ q.history = h /\ q.subseq_users = users
  BY <1>3, <1>4 DEF IsPlanner, Fields
<1>6. /\ q.active_cap = p.active_cap /\ q.mdl_threshold = p.mdl_threshold
      /\ q.provisional_cap = p.provisional_cap /\ q.grace = p.grace
      /\ q.derived = p.derived /\ q.active = p.active /\ q.lru = p.lru
      /\ q.pstats = p.pstats /\ q.provisional = p.provisional
      /\ q.struct_step = p.struct_step /\ q.pcounter = p.pcounter
      /\ q.admitted_total = p.admitted_total /\ q.expired_total = p.expired_total
      /\ q.pending_touched = p.pending_touched /\ q.pending_touched_p = p.pending_touched_p
      /\ q.pending_consolidation = p.pending_consolidation
  BY <1>3, <1>4 DEF IsPlanner, Fields
<1>7. /\ DOMAIN h = DOMAIN p.history \cup {task}
      /\ \A t \in DOMAIN h : h[t] = IF t = task THEN ops ELSE p.history[t]
  BY <1>1 DEF Put
<1>8. ops \in Seq(Capability) /\ IsFiniteSet(C) /\ C \subseteq NonemptySeq
  BY <1>1, CandidatesOf DEF PlansOps, NonemptySeq
<1>9. HistoryOK(q)
  <2>1. IsFiniteSet(DOMAIN h)
    BY <1>7, FS_AddElement DEF KnowledgeOK, HistoryOK
  <2>2. \A t \in DOMAIN h : h[t] \in Seq(Capability)
    BY <1>7, <1>8 DEF KnowledgeOK, HistoryOK
  <2>3. QED
    BY <1>5, <2>1, <2>2 DEF HistoryOK
<1>10. IndexOK(q)
  <2>1. CASE NewEvidence(p, ep)
    <3>1. users = Noted(p.subseq_users, C, task)
      BY <1>1, <2>1
    <3>2. DOMAIN users = DOMAIN p.subseq_users \cup C
      BY <3>1, NotedIs
    <3>3. IsFiniteSet(DOMAIN users) /\ DOMAIN users \subseteq NonemptySeq
      BY <1>8, <3>2, FS_Union DEF KnowledgeOK, IndexOK
    <3>4. \A c \in DOMAIN users : users[c] \subseteq DOMAIN h
      <4>1. \A c \in DOMAIN p.subseq_users : p.subseq_users[c] \subseteq DOMAIN h
        BY <1>7 DEF KnowledgeOK, IndexOK
      <4>2. task \in DOMAIN h
        BY <1>7
      <4>3. QED
        BY <3>1, <4>1, <4>2, NotedWithin
    <3>5. ASSUME NEW t \in DOMAIN h, NEW c \in Candidates(h[t])
          PROVE  c \in DOMAIN users /\ t \in users[c]
      <4>1. CASE t = task
        <5>1. c \in C
          BY <1>1, <1>7, <4>1
        <5>2. QED
          BY <3>1, <3>2, <4>1, <5>1, NotedIs
      <4>2. CASE t # task
        <5>1. t \in DOMAIN p.history /\ c \in Candidates(p.history[t])
          BY <1>7, <4>2
        <5>2. c \in DOMAIN p.subseq_users /\ t \in p.subseq_users[c]
          BY <5>1 DEF KnowledgeOK, IndexOK
        <5>3. p.subseq_users[c] \subseteq users[c]
          BY <3>1, <5>2, NotedIs
        <5>4. QED
          BY <3>2, <5>2, <5>3
      <4>3. QED
        BY <4>1, <4>2
    <3>6. QED
      BY <1>5, <3>3, <3>4, <3>5 DEF IndexOK
  <2>2. CASE ~NewEvidence(p, ep)
    <3>1. users = p.subseq_users /\ task \in DOMAIN p.history /\ p.history[task] = ops
      BY <1>1, <2>2 DEF NewEvidence
    <3>2. DOMAIN h = DOMAIN p.history /\ \A t \in DOMAIN h : h[t] = p.history[t]
      BY <1>7, <3>1
    <3>3. QED
      BY <1>5, <3>1, <3>2 DEF KnowledgeOK, IndexOK
  <2>3. QED
    BY <2>1, <2>2
<1>11. TierOK(q)
  <2>1. DOMAIN p.history \subseteq DOMAIN q.history
    BY <1>5, <1>7
  <2>2. QED
    BY <1>6, <2>1 DEF KnowledgeOK, TierOK
<1>12. QueueOK(q)
  BY <1>6 DEF KnowledgeOK, QueueOK
<1>13. KnowledgeOK(q)
  BY <1>5, <1>6, <1>9, <1>10, <1>11, <1>12 DEF KnowledgeOK
<1>14. q.history = Put(p.history, ep.task, ep.ops) /\ ep.task \in DOMAIN q.history
  BY <1>1, <1>5, <1>7
<1>15. QED
  BY <1>2, <1>6, <1>13, <1>14

(* Aged turns the clock, refreshes the tier and notes the candidates.      *)
TransferTo(tier, clock, ep) ==
  [n \in DOMAIN tier |->
     IF Occurs(tier[n].raw, ep.ops) /\ ep.task \notin tier[n].birth_tasks
     THEN [tier[n] EXCEPT !.last_transfer = clock] ELSE tier[n]]

LEMMA AgedIs ==
  ASSUME NEW p, KnowledgeOK(p), NEW ep, PlansOps(ep), ep.task \in DOMAIN p.history
  PROVE  LET q == Aged(p, ep)
         IN  /\ KnowledgeOK(q)
             /\ q.struct_step = p.struct_step + 1
             /\ q.provisional = TransferTo(p.provisional, p.struct_step + 1, ep)
             /\ q.pstats = Noted(p.pstats, Candidates(ep.ops), ep.task)
             /\ q.active_cap = p.active_cap /\ q.mdl_threshold = p.mdl_threshold
             /\ q.provisional_cap = p.provisional_cap /\ q.grace = p.grace
             /\ q.derived = p.derived /\ q.active = p.active /\ q.lru = p.lru
             /\ q.history = p.history /\ q.subseq_users = p.subseq_users /\ q.pcounter = p.pcounter
             /\ q.admitted_total = p.admitted_total /\ q.expired_total = p.expired_total
             /\ q.pending_touched = p.pending_touched /\ q.pending_touched_p = p.pending_touched_p
             /\ q.pending_consolidation = p.pending_consolidation
<1>1. PICK r, clock : clock = p.struct_step + 1 /\ r = [p EXCEPT !.struct_step = @ + 1]
  OBVIOUS
<1>2. PICK q : q = Aged(p, ep)
  OBVIOUS
<1>3. PICK tier, stats : /\ tier = TransferTo(r.provisional, r.struct_step, ep)
                         /\ stats = Noted(r.pstats, Candidates(ep.ops), ep.task)
  OBVIOUS
<1>4. IsPlanner(p)
  BY DEF KnowledgeOK
<1>5. PICK s : s = UpdateTransfer(r, ep)
  OBVIOUS
<1>6. s = [r EXCEPT !.provisional = tier]
  BY <1>3, <1>5 DEF UpdateTransfer, TransferTo
<1>7. q = [s EXCEPT !.pstats = Noted(@, Candidates(ep.ops), ep.task)]
  BY <1>1, <1>2, <1>5 DEF Aged
<1>8. r.provisional = p.provisional /\ r.struct_step = clock /\ r.pstats = p.pstats
  BY <1>1, <1>4 DEF IsPlanner, Fields
<1>9. r = [p EXCEPT !.struct_step = clock]
  BY <1>1
<1>10. s.pstats = p.pstats
  BY <1>4, <1>6, <1>9 DEF IsPlanner, Fields
<1>11. q = [s EXCEPT !.pstats = stats]
  BY <1>3, <1>7, <1>8, <1>10
<1>12. IsPlanner(q) /\ q.struct_step = clock /\ q.provisional = tier /\ q.pstats = stats
  BY <1>4, <1>6, <1>9, <1>11 DEF IsPlanner, Fields
<1>13. /\ q.active_cap = p.active_cap /\ q.mdl_threshold = p.mdl_threshold
       /\ q.provisional_cap = p.provisional_cap /\ q.grace = p.grace
       /\ q.derived = p.derived /\ q.active = p.active /\ q.lru = p.lru
       /\ q.history = p.history /\ q.subseq_users = p.subseq_users /\ q.pcounter = p.pcounter
       /\ q.admitted_total = p.admitted_total /\ q.expired_total = p.expired_total
       /\ q.pending_touched = p.pending_touched /\ q.pending_touched_p = p.pending_touched_p
       /\ q.pending_consolidation = p.pending_consolidation
  BY <1>4, <1>6, <1>9, <1>11 DEF IsPlanner, Fields
<1>14. HistoryOK(q) /\ IndexOK(q) /\ QueueOK(q)
  BY <1>13 DEF KnowledgeOK, HistoryOK, IndexOK, QueueOK
<1>15. TierOK(q)
  <2>1. \A c \in DOMAIN stats : stats[c] \subseteq DOMAIN p.history
    <3>1. stats = Noted(p.pstats, Candidates(ep.ops), ep.task)
      BY <1>3, <1>8
    <3>2. \A c \in DOMAIN p.pstats : p.pstats[c] \subseteq DOMAIN p.history
      BY DEF KnowledgeOK, TierOK
    <3>3. ep.task \in DOMAIN p.history
      OBVIOUS
    <3>4. QED
      BY <3>1, <3>2, <3>3, NotedWithin
  <2>2. ASSUME NEW n \in DOMAIN tier PROVE IsWord(tier[n])
    <3>1. PICK w : w = p.provisional[n]
      OBVIOUS
    <3>2. n \in DOMAIN p.provisional /\ (tier[n] = w \/ tier[n] = [w EXCEPT !.last_transfer = clock])
      BY <1>3, <1>8, <2>2, <3>1 DEF TransferTo
    <3>3. IsWord(w)
      BY <3>1, <3>2 DEF KnowledgeOK, TierOK
    <3>4. PICK v : v = [w EXCEPT !.last_transfer = clock]
      OBVIOUS
    <3>5. DOMAIN v = DOMAIN w /\ v.raw = w.raw
      BY <3>3, <3>4 DEF IsWord
    <3>6. IsWord(v)
      BY <3>3, <3>5 DEF IsWord
    <3>7. QED
      BY <3>2, <3>3, <3>4, <3>6
  <2>3. QED
    BY <1>12, <1>13, <2>1, <2>2 DEF TierOK
<1>16. KnowledgeOK(q)
  BY <1>12, <1>13, <1>14, <1>15 DEF KnowledgeOK
<1>17. /\ q.struct_step = p.struct_step + 1
       /\ q.provisional = TransferTo(p.provisional, p.struct_step + 1, ep)
       /\ q.pstats = Noted(p.pstats, Candidates(ep.ops), ep.task)
  BY <1>1, <1>3, <1>8, <1>12
<1>18. QED
  BY <1>2, <1>13, <1>16, <1>17

(* The working set after an episode.                                       *)
Pushed(lru, task) == Append(Without(lru, task), task)

Excess(lru, cap, task) == Max({0, Len(Pushed(lru, task)) - cap})

Evicted(lru, cap, task) == {Pushed(lru, task)[i] : i \in 1..Excess(lru, cap, task)}

TouchedLru(lru, cap, task) ==
  SubSeq(Pushed(lru, task), Excess(lru, cap, task) + 1, Len(Pushed(lru, task)))

TouchedActive(active, lru, cap, ep) ==
  Restrict(Put(active, ep.task, ep.ops), (DOMAIN active \cup {ep.task}) \ Evicted(lru, cap, ep.task))

LEMMA TouchedIs ==
  ASSUME NEW p, KnowledgeOK(p), NEW ep
  PROVE  LET q == Touched(p, ep)
         IN  /\ KnowledgeOK(q) /\ SameKnowledge(p, q)
             /\ q.lru = TouchedLru(p.lru, p.active_cap, ep.task)
             /\ q.active = TouchedActive(p.active, p.lru, p.active_cap, ep)
             /\ q.pending_touched = p.pending_touched /\ q.pending_touched_p = p.pending_touched_p
             /\ q.pending_consolidation = p.pending_consolidation
<1>1. PICK order, set : /\ order = TouchedLru(p.lru, p.active_cap, ep.task)
                        /\ set = TouchedActive(p.active, p.lru, p.active_cap, ep)
  OBVIOUS
<1>2. PICK q : q = Touched(p, ep)
  OBVIOUS
<1>3. q = [p EXCEPT !.lru = order, !.active = set]
  BY <1>1, <1>2, Zenon DEF Touched, TouchedLru, TouchedActive, Evicted, Excess, Pushed
<1>4. IsPlanner(p)
  BY DEF KnowledgeOK
<1>5. /\ IsPlanner(q) /\ SameKnowledge(p, q) /\ q.lru = order /\ q.active = set
      /\ q.pending_touched = p.pending_touched /\ q.pending_touched_p = p.pending_touched_p
      /\ q.pending_consolidation = p.pending_consolidation
  BY <1>3, <1>4 DEF IsPlanner, Fields, SameKnowledge
<1>6. HistoryOK(q) /\ IndexOK(q) /\ TierOK(q) /\ QueueOK(q)
  BY <1>5 DEF KnowledgeOK, SameKnowledge, HistoryOK, IndexOK, TierOK, QueueOK
<1>7. KnowledgeOK(q)
  BY <1>5, <1>6 DEF KnowledgeOK, SameKnowledge
<1>8. QED
  BY <1>1, <1>2, <1>5, <1>7

(* The working set is a part of the history.                               *)
CacheOK(p) ==
  \A t \in DOMAIN p.active : t \in DOMAIN p.history /\ p.active[t] = p.history[t]

(* What a plan leaves: the history with the plan, and what was true.       *)
Remembers(p, ep, q) ==
  KnowledgeOK(q) /\ CacheOK(q) /\ q.history = Put(p.history, ep.task, ep.ops)

LEMMA TouchRemembers ==
  ASSUME NEW p, CacheOK(p), NEW ep, NEW r, KnowledgeOK(r),
         r.history = Put(p.history, ep.task, ep.ops), r.active = p.active
  PROVE  Remembers(p, ep, Touched(r, ep))
<1>1. PICK q : q = Touched(r, ep)
  OBVIOUS
<1>2. KnowledgeOK(q) /\ q.history = Put(p.history, ep.task, ep.ops)
  <2>1. KnowledgeOK(q) /\ SameKnowledge(r, q)
    BY <1>1, TouchedIs
  <2>2. QED
    BY <2>1 DEF SameKnowledge
<1>3. q.active = TouchedActive(p.active, r.lru, r.active_cap, ep)
  <2>1. q.active = TouchedActive(r.active, r.lru, r.active_cap, ep)
    BY <1>1, TouchedIs
  <2>2. QED
    BY <2>1
<1>4. \A t \in DOMAIN q.active : /\ t \in DOMAIN p.active \cup {ep.task}
                                 /\ q.active[t] = IF t = ep.task THEN ep.ops ELSE p.active[t]
  BY <1>3 DEF TouchedActive, Restrict, Put
<1>5. /\ DOMAIN q.history = DOMAIN p.history \cup {ep.task}
      /\ \A t \in DOMAIN q.history : q.history[t] = IF t = ep.task THEN ep.ops ELSE p.history[t]
  BY <1>2 DEF Put
<1>6. CacheOK(q)
  BY <1>4, <1>5 DEF CacheOK
<1>7. QED
  BY <1>1, <1>2, <1>6 DEF Remembers

----------------------------------------------------------------------------
(* The four planners remember what they plan.                              *)

LEMMA BaseRemembers ==
  ASSUME NEW p, KnowledgeOK(p), CacheOK(p), NEW ep, PlansOps(ep)
  PROVE  Remembers(p, ep, BasePlan(p, ep))
<1>1. PICK noted : noted = Recorded(p, ep)
  OBVIOUS
<1>2. KnowledgeOK(noted) /\ noted.history = Put(p.history, ep.task, ep.ops) /\ noted.active = p.active
  BY <1>1, RecordedIs
<1>3. PICK grown : grown = IF NewEvidence(p, ep) THEN MaybeGrow(noted, Candidates(ep.ops)) ELSE noted
  OBVIOUS
<1>4. KnowledgeOK(grown) /\ grown.history = noted.history /\ grown.active = noted.active
  <2>1. PICK q : q = MaybeGrow(noted, Candidates(ep.ops))
    OBVIOUS
  <2>2. KnowledgeOK(q) /\ Leaves(noted, q)
    BY <1>2, <2>1, CandidatesOf, GrowthKeeps
  <2>3. QED
    BY <1>2, <1>3, <2>1, <2>2 DEF Leaves
<1>5. BasePlan(p, ep) = Touched(grown, ep)
  BY <1>1, <1>3 DEF BasePlan
<1>6. QED
  BY <1>2, <1>4, <1>5, TouchRemembers

(* The cascade, step by step.                                              *)
IsCascade(grown, noted) ==
  grown = [k \in 0..CascadeCap |->
             IF k = 0 THEN noted ELSE MaybeGrow(grown[k - 1], DOMAIN noted.subseq_users)]

LEMMA CascadeExists ==
  ASSUME NEW noted
  PROVE  \E grown : IsCascade(grown, noted)
<1> DEFINE G(q) == MaybeGrow(q, DOMAIN noted.subseq_users)
<1>1. PICK a, b, c, d : a = G(noted) /\ b = G(a) /\ c = G(b) /\ d = G(c)
  OBVIOUS
<1> HIDE DEF G
<1> DEFINE value(k) == IF k = 0 THEN noted ELSE IF k = 1 THEN a ELSE IF k = 2 THEN b
                       ELSE IF k = 3 THEN c ELSE d
           g == [k \in 0..CascadeCap |-> value(k)]
<1>2. \A k \in 0..CascadeCap : g[k] = IF k = 0 THEN noted ELSE G(g[k - 1])
  BY <1>1 DEF CascadeCap
<1>3. g = [k \in 0..CascadeCap |-> IF k = 0 THEN noted ELSE G(g[k - 1])]
  BY <1>2
<1> HIDE DEF g
<1>4. QED
  BY <1>3, Zenon DEF IsCascade, G

LEMMA CascadeRemembers ==
  ASSUME NEW p, KnowledgeOK(p), CacheOK(p), NEW ep, PlansOps(ep)
  PROVE  Remembers(p, ep, CascadePlan(p, ep))
<1>1. PICK noted : noted = Recorded(p, ep)
  OBVIOUS
<1>2. KnowledgeOK(noted) /\ noted.history = Put(p.history, ep.task, ep.ops) /\ noted.active = p.active
  BY <1>1, RecordedIs
<1> DEFINE U(q) == CHOOSE grown : IsCascade(grown, q)
<1>3. IsCascade(U(noted), noted)
  BY CascadeExists
<1>4. CascadePlan(p, ep) =
        Touched(IF NewEvidence(p, ep) THEN U(Recorded(p, ep))[CascadeCap] ELSE Recorded(p, ep), ep)
  BY Zenon DEF CascadePlan, IsCascade
<1> HIDE DEF U
<1>5. PICK u : u = U(noted)
  OBVIOUS
<1>6. PICK C : C = DOMAIN noted.subseq_users
  OBVIOUS
<1>7. IsFiniteSet(C) /\ C \subseteq NonemptySeq
  BY <1>2, <1>6 DEF KnowledgeOK, IndexOK
<1>8. /\ u[0] = noted
      /\ \A k \in 1..CascadeCap : u[k] = MaybeGrow(u[k - 1], C)
  BY <1>3, <1>5, <1>6 DEF IsCascade, CascadeCap
<1>9. ASSUME NEW q, KnowledgeOK(q), NEW r, r = MaybeGrow(q, C)
      PROVE  KnowledgeOK(r) /\ r.history = q.history /\ r.active = q.active
  <2>1. KnowledgeOK(r) /\ Leaves(q, r)
    BY <1>7, <1>9, GrowthKeeps
  <2>2. QED
    BY <2>1 DEF Leaves
<1>10. u[1] = MaybeGrow(u[0], C) /\ u[2] = MaybeGrow(u[1], C) /\ u[3] = MaybeGrow(u[2], C)
         /\ u[4] = MaybeGrow(u[3], C)
  BY <1>8 DEF CascadeCap
<1>11. KnowledgeOK(u[1]) /\ u[1].history = noted.history /\ u[1].active = noted.active
  BY <1>2, <1>8, <1>9, <1>10
<1>12. KnowledgeOK(u[2]) /\ u[2].history = noted.history /\ u[2].active = noted.active
  BY <1>9, <1>10, <1>11
<1>13. KnowledgeOK(u[3]) /\ u[3].history = noted.history /\ u[3].active = noted.active
  BY <1>9, <1>10, <1>12
<1>14. KnowledgeOK(u[4]) /\ u[4].history = noted.history /\ u[4].active = noted.active
  BY <1>9, <1>10, <1>13
<1>15. CascadePlan(p, ep) = Touched(IF NewEvidence(p, ep) THEN u[4] ELSE noted, ep)
  BY <1>1, <1>4, <1>5 DEF CascadeCap
<1>16. PICK r : r = IF NewEvidence(p, ep) THEN u[4] ELSE noted
  OBVIOUS
<1>17. KnowledgeOK(r) /\ r.history = Put(p.history, ep.task, ep.ops) /\ r.active = p.active
  BY <1>2, <1>14, <1>16
<1>18. QED
  BY <1>15, <1>16, <1>17, TouchRemembers

(* What growth, removal, admission and expiry do to a planner together.    *)
Tiered(p, cands) == Expire(Admit(RemoveCommittedEquivalents(p), cands))

LEMMA TieredLeaves ==
  ASSUME NEW p, KnowledgeOK(p), NEW cands, IsFiniteSet(cands), cands \subseteq NonemptySeq
  PROVE  \A q \in {MaybeGrow(p, cands), MaybeGrowLocalized(p, cands)} :
           KnowledgeOK(Tiered(q, cands)) /\ Leaves(p, Tiered(q, cands))
<1>1. SUFFICES ASSUME NEW q \in {MaybeGrow(p, cands), MaybeGrowLocalized(p, cands)}
               PROVE  KnowledgeOK(Tiered(q, cands)) /\ Leaves(p, Tiered(q, cands))
  OBVIOUS
<1>2. KnowledgeOK(q) /\ Leaves(p, q)
  BY GrowthKeeps
<1>3. PICK r : r = RemoveCommittedEquivalents(q) /\ KnowledgeOK(r) /\ Leaves(q, r)
  BY <1>2, RemovalIs
<1>4. PICK s : s = Admit(r, cands) /\ KnowledgeOK(s) /\ Leaves(r, s)
  BY <1>3, AdmissionKeeps
<1>5. PICK t : t = Expire(s) /\ KnowledgeOK(t) /\ Leaves(s, t)
  BY <1>4, ExpiryIs
<1>6. Leaves(p, t)
  BY <1>2, <1>3, <1>4, <1>5 DEF Leaves
<1>7. t = Tiered(q, cands)
  BY <1>3, <1>4, <1>5 DEF Tiered
<1>8. QED
  BY <1>5, <1>6, <1>7

LEMMA InlineRemembers ==
  ASSUME NEW p, KnowledgeOK(p), CacheOK(p), NEW ep, PlansOps(ep)
  PROVE  Remembers(p, ep, InlinePlan(p, ep))
<1>1. PICK recorded : recorded = Recorded(p, ep)
  OBVIOUS
<1>2. /\ KnowledgeOK(recorded) /\ recorded.history = Put(p.history, ep.task, ep.ops)
      /\ recorded.active = p.active /\ ep.task \in DOMAIN recorded.history
  BY <1>1, RecordedIs
<1>3. PICK noted : noted = Aged(recorded, ep)
  OBVIOUS
<1>4. KnowledgeOK(noted) /\ noted.history = recorded.history /\ noted.active = recorded.active
  BY <1>2, <1>3, AgedIs
<1>5. PICK C : C = Candidates(ep.ops) /\ IsFiniteSet(C) /\ C \subseteq NonemptySeq
  BY CandidatesOf
<1>6. PICK q : q = Tiered(MaybeGrow(noted, C), C)
  OBVIOUS
<1>7. KnowledgeOK(q) /\ Leaves(noted, q)
  BY <1>4, <1>5, <1>6, TieredLeaves
<1>8. PICK r : r = IF NewEvidence(p, ep) THEN q ELSE recorded
  OBVIOUS
<1>9. KnowledgeOK(r) /\ r.history = Put(p.history, ep.task, ep.ops) /\ r.active = p.active
  BY <1>2, <1>4, <1>7, <1>8 DEF Leaves
<1>10. InlinePlan(p, ep) = Touched(r, ep)
  BY <1>1, <1>3, <1>5, <1>6, <1>8 DEF InlinePlan, Tiered
<1>11. QED
  BY <1>9, <1>10, TouchRemembers

(* The queue of what is to be learned, filled or emptied.                  *)
WithQueue(p, cands, waiting) ==
  [p EXCEPT !.pending_touched = cands, !.pending_touched_p = cands, !.pending_consolidation = waiting]

LEMMA QueueIs ==
  ASSUME NEW p, KnowledgeOK(p), NEW S, NEW b
  PROVE  LET q == WithQueue(p, S, b)
         IN  /\ SameKnowledge(p, q) /\ q.active = p.active /\ q.lru = p.lru
             /\ q.pending_touched = S /\ q.pending_touched_p = S /\ q.pending_consolidation = b
             /\ IsPlanner(q)
             /\ QueueOK(q) => KnowledgeOK(q)
<1>1. IsPlanner(p)
  BY DEF KnowledgeOK
<1>2. PICK q : q = WithQueue(p, S, b)
  OBVIOUS
<1>3. /\ IsPlanner(q) /\ SameKnowledge(p, q) /\ q.active = p.active /\ q.lru = p.lru
      /\ q.pending_touched = S /\ q.pending_touched_p = S /\ q.pending_consolidation = b
  BY <1>1, <1>2 DEF IsPlanner, Fields, SameKnowledge, WithQueue
<1>4. HistoryOK(q) /\ IndexOK(q) /\ TierOK(q)
  BY <1>3 DEF KnowledgeOK, SameKnowledge, HistoryOK, IndexOK, TierOK
<1>5. q.mdl_threshold \in Int /\ Grounded(q.derived)
  BY <1>3 DEF KnowledgeOK, SameKnowledge
<1>6. QueueOK(q) => KnowledgeOK(q)
  BY <1>3, <1>4, <1>5 DEF KnowledgeOK
<1>7. QED
  BY <1>2, <1>3, <1>6

LEMMA DeferredRemembers ==
  ASSUME NEW p, KnowledgeOK(p), CacheOK(p), NEW ep, PlansOps(ep)
  PROVE  Remembers(p, ep, DeferredPlan(p, ep))
<1>1. PICK recorded : recorded = Recorded(p, ep)
  OBVIOUS
<1>2. /\ KnowledgeOK(recorded) /\ recorded.history = Put(p.history, ep.task, ep.ops)
      /\ recorded.active = p.active /\ ep.task \in DOMAIN recorded.history
  BY <1>1, RecordedIs
<1>3. PICK noted : noted = Aged(recorded, ep)
  OBVIOUS
<1>4. KnowledgeOK(noted) /\ noted.history = recorded.history /\ noted.active = recorded.active
  BY <1>2, <1>3, AgedIs
<1>5. PICK C : C = Candidates(ep.ops) /\ IsFiniteSet(C) /\ C \subseteq NonemptySeq
  BY CandidatesOf
<1>6. PICK b, q : b = TRUE /\ q = WithQueue(noted, C, b)
  OBVIOUS
<1>7. KnowledgeOK(q) /\ q.history = noted.history /\ q.active = noted.active
  <2>1. /\ SameKnowledge(noted, q) /\ q.active = noted.active
        /\ q.pending_touched = C /\ q.pending_touched_p = C /\ q.pending_consolidation = b
        /\ QueueOK(q) => KnowledgeOK(q)
    <3>1. q = WithQueue(noted, C, b)
      BY <1>6
    <3>2. QED
      BY <1>4, <3>1, QueueIs
  <2>2. QueueOK(q)
    BY <1>5, <1>6, <2>1 DEF QueueOK
  <2>3. QED
    BY <2>1, <2>2 DEF SameKnowledge
<1>8. PICK r : r = IF NewEvidence(p, ep) THEN q ELSE recorded
  OBVIOUS
<1>9. KnowledgeOK(r) /\ r.history = Put(p.history, ep.task, ep.ops) /\ r.active = p.active
  BY <1>2, <1>4, <1>7, <1>8
<1>10. DeferredPlan(p, ep) = Touched(r, ep)
  BY <1>1, <1>3, <1>5, <1>6, <1>8 DEF DeferredPlan, WithQueue
<1>11. QED
  BY <1>9, <1>10, TouchRemembers

LEMMA ConsolidationKeeps ==
  ASSUME NEW p, KnowledgeOK(p), CacheOK(p)
  PROVE  /\ KnowledgeOK(Consolidated(p)) /\ CacheOK(Consolidated(p))
         /\ Consolidated(p).history = p.history
         /\ Consolidated(p).pending_touched = {} /\ Consolidated(p).pending_touched_p = {}
         /\ Consolidated(p).pending_consolidation = FALSE
<1>1. CASE ~p.pending_consolidation
  <2>1. Consolidated(p) = p
    BY <1>1 DEF Consolidated
  <2>2. p.pending_touched = {} /\ p.pending_touched_p = {} /\ p.pending_consolidation = FALSE
    BY <1>1 DEF KnowledgeOK, QueueOK
  <2>3. QED
    BY <2>1, <2>2
<1>2. CASE p.pending_consolidation
  <2>1. PICK C : C = p.pending_touched /\ IsFiniteSet(C) /\ C \subseteq NonemptySeq
    BY DEF KnowledgeOK, QueueOK
  <2>2. PICK D : D = p.pending_touched_p /\ IsFiniteSet(D) /\ D \subseteq NonemptySeq
    BY DEF KnowledgeOK, QueueOK
  <2>3. PICK q : q = MaybeGrowLocalized(p, C) /\ KnowledgeOK(q) /\ Leaves(p, q)
    BY <2>1, GrowthKeeps
  <2>4. PICK r : r = RemoveCommittedEquivalents(q) /\ KnowledgeOK(r) /\ Leaves(q, r)
    BY <2>3, RemovalIs
  <2>5. PICK s : s = Admit(r, D) /\ KnowledgeOK(s) /\ Leaves(r, s)
    BY <2>2, <2>4, AdmissionKeeps
  <2>6. PICK t : t = Expire(s) /\ KnowledgeOK(t) /\ Leaves(s, t)
    BY <2>5, ExpiryIs
  <2>7. PICK e, b : e = {} /\ b = FALSE
    OBVIOUS
  <2>8. t.history = p.history /\ t.active = p.active
    BY <2>3, <2>4, <2>5, <2>6 DEF Leaves
  <2>9. PICK u : u = WithQueue(t, e, b)
    OBVIOUS
  <2>10. /\ KnowledgeOK(u) /\ u.history = p.history /\ u.active = p.active
         /\ u.pending_touched = {} /\ u.pending_touched_p = {} /\ u.pending_consolidation = FALSE
    <3>1. IsFiniteSet({})
      BY FS_EmptySet
    <3>2. /\ SameKnowledge(t, u) /\ u.active = t.active
          /\ u.pending_touched = {} /\ u.pending_touched_p = {} /\ u.pending_consolidation = FALSE
          /\ QueueOK(u) => KnowledgeOK(u)
      BY <2>6, <2>7, <2>9, QueueIs
    <3>3. QueueOK(u)
      BY <3>1, <3>2 DEF QueueOK
    <3>4. QED
      BY <2>8, <3>2, <3>3 DEF SameKnowledge
  <2>11. CacheOK(u)
    BY <2>10 DEF CacheOK
  <2>12. Consolidated(p) = u
    BY <1>2, <2>1, <2>2, <2>3, <2>4, <2>5, <2>6, <2>7, <2>9 DEF Consolidated, WithQueue
  <2>13. QED
    BY <2>10, <2>11, <2>12
<1>3. QED
  BY <1>1, <1>2 DEF KnowledgeOK, QueueOK

----------------------------------------------------------------------------
(* What an episode costs.                                                  *)

LEMMA MaxWithOne ==
  ASSUME NEW n \in Nat
  PROVE  Max({1, n}) \in Nat /\ Max({1, n}) = IF n <= 1 THEN 1 ELSE n
<1>1. {1, n} \subseteq 0..(n + 1) /\ {1, n} # {} /\ n + 1 \in Nat
  OBVIOUS
<1>2. Max({1, n}) \in {1, n} /\ \A m \in {1, n} : Max({1, n}) >= m
  BY <1>1, MaxProperties
<1>3. QED
  BY <1>2

LEMMA MiddleType ==
  ASSUME NEW old \in Seq(Capability), NEW new \in Seq(Capability)
  PROVE  DiffMiddle(old, new) \in Seq(Capability) /\ Len(DiffMiddle(old, new)) \in 0..Len(new)
<1>1. PICK m \in Nat : m = Min({Len(old), Len(new)}) /\ m <= Len(new)
  BY MinOfTwo
<1>2. PICK p \in 0..m : p = CommonPrefix(old, new)
  BY <1>1, CommonPrefixProperties
<1>3. PICK q \in 0..(m - p) : q = CommonSuffix(old, new, p)
  BY <1>1, CommonSuffixProperties
<1>4. DiffMiddle(old, new) = SubSeq(new, p + 1, Len(new) - q)
  BY <1>2, <1>3 DEF DiffMiddle
<1>5. p + 1 \in Nat /\ Len(new) - q \in Nat /\ p + 1 >= 1 /\ Len(new) - q <= Len(new)
  BY <1>1
<1>6. \A i \in (p + 1)..(Len(new) - q) : new[i] \in Capability
  BY <1>1
<1>7. SubSeq(new, p + 1, Len(new) - q) \in Seq(Capability)
  BY <1>5, <1>6
<1>8. PICK x \in 0..Len(new), y \in 0..Len(new) :
        Len(DiffMiddle(old, new)) = Len(new) - (x + y) /\ Len(new) - (x + y) \in Nat
  BY MiddleIsLeast
<1>9. QED
  BY <1>4, <1>7, <1>8

(* What a baseline that replays checkpoints decides, of what it has seen.  *)
ReplayCost(history, ep) ==
  IF ep.task \notin DOMAIN history THEN Len(ep.ops)
  ELSE IF history[ep.task] = ep.ops THEN 1
  ELSE Max({1, Len(DiffMiddle(history[ep.task], ep.ops))})

TemplateCost(history, ep) ==
  IF ep.task \in DOMAIN history /\ history[ep.task] = ep.ops THEN 1 ELSE Len(ep.ops)

LEMMA BaselinesOrdered ==
  ASSUME NEW history, \A t \in DOMAIN history : history[t] \in Seq(Capability), NEW ep, PlansOps(ep)
  PROVE  /\ ReplayCost(history, ep) <= TemplateCost(history, ep)
         /\ TemplateCost(history, ep) <= Len(ep.ops)
<1>1. PICK n \in Nat : n = Len(ep.ops) /\ n >= 1
  BY DEF PlansOps, NonemptySeq
<1>2. CASE ep.task \notin DOMAIN history \/ history[ep.task] = ep.ops
  BY <1>1, <1>2 DEF ReplayCost, TemplateCost
<1>3. CASE ep.task \in DOMAIN history /\ history[ep.task] # ep.ops
  <2>1. PICK m \in 0..n : m = Len(DiffMiddle(history[ep.task], ep.ops))
    BY <1>1, <1>3, MiddleType DEF PlansOps, NonemptySeq
  <2>2. Max({1, m}) \in Nat /\ Max({1, m}) = IF m <= 1 THEN 1 ELSE m
    BY <2>1, MaxWithOne
  <2>3. ReplayCost(history, ep) = Max({1, m}) /\ TemplateCost(history, ep) = n
    BY <1>1, <1>3, <2>1 DEF ReplayCost, TemplateCost
  <2>4. QED
    BY <1>1, <2>1, <2>2, <2>3
<1>4. QED
  BY <1>2, <1>3

LEMMA ReplannedIs ==
  ASSUME NEW p, KnowledgeOK(p), CacheOK(p), NEW ep, PlansOps(ep)
  PROVE  /\ Replanned(p, ep) \in Seq(Capability)
         /\ ~Recovers(p, ep) =>
              Replanned(p, ep) =
                IF ep.task \notin DOMAIN p.history THEN ep.ops
                ELSE IF p.history[ep.task] = ep.ops THEN <<>>
                ELSE DiffMiddle(p.history[ep.task], ep.ops)
<1>1. ep.ops \in Seq(Capability) /\ <<>> \in Seq(Capability)
  BY DEF PlansOps, NonemptySeq
<1>2. DOMAIN p.active \subseteq DOMAIN p.history
  BY DEF CacheOK
<1>3. IsNew(p, ep) <=> ep.task \notin DOMAIN p.history
  BY <1>2 DEF IsNew
<1>4. ~IsNew(p, ep) => Last(p, ep) = p.history[ep.task] /\ Last(p, ep) \in Seq(Capability)
  BY <1>3 DEF Last, CacheOK, KnowledgeOK, HistoryOK
<1>5. CASE IsNew(p, ep) \/ Recovers(p, ep)
  <2>1. ~Drifts(p, ep)
    BY <1>5 DEF Drifts
  <2>2. Replanned(p, ep) = ep.ops
    BY <1>5, <2>1 DEF Replanned
  <2>3. QED
    BY <1>1, <1>3, <1>5, <2>2
<1>6. CASE ~IsNew(p, ep) /\ ~Recovers(p, ep)
  <2>1. Replanned(p, ep) = IF Last(p, ep) # ep.ops THEN DiffMiddle(Last(p, ep), ep.ops) ELSE <<>>
    BY <1>6, Zenon DEF Replanned, Drifts
  <2>2. DiffMiddle(Last(p, ep), ep.ops) \in Seq(Capability)
    BY <1>1, <1>4, <1>6, MiddleType
  <2>3. QED
    BY <1>1, <1>3, <1>4, <1>6, <2>1, <2>2
<1>7. QED
  BY <1>5, <1>6

(* Short of a recovery a decision costs no more than a replay.             *)
NoMore(d, history, ep) == d.recovery = 0 => d.semantic <= ReplayCost(history, ep)

LEMMA DecisionIsCheap ==
  ASSUME NEW p, KnowledgeOK(p), CacheOK(p), NEW ep, PlansOps(ep),
         NEW tokens \in 0..Len(Replanned(p, ep))
  PROVE  NoMore(Decision(p, ep, tokens), p.history, ep)
<1>1. PICK d : d = Decision(p, ep, tokens)
  OBVIOUS
<1>2. d.semantic = Max({1, tokens}) /\ d.recovery = IF Recovers(p, ep) THEN 1 ELSE 0
  BY <1>1 DEF Decision, Count
<1>3. SUFFICES ASSUME ~Recovers(p, ep)
               PROVE  d.semantic <= ReplayCost(p.history, ep)
  BY <1>1, <1>2 DEF NoMore
<1>4. Replanned(p, ep) \in Seq(Capability)
  BY ReplannedIs
<1>5. tokens \in Nat
  BY <1>4
<1>6. Max({1, tokens}) \in Nat /\ Max({1, tokens}) = IF tokens <= 1 THEN 1 ELSE tokens
  BY <1>5, MaxWithOne
<1>7. PICK n \in Nat : n = Len(ep.ops) /\ n >= 1
  BY DEF PlansOps, NonemptySeq
<1>8. CASE ep.task \notin DOMAIN p.history
  <2>1. Replanned(p, ep) = ep.ops
    BY <1>3, <1>8, ReplannedIs
  <2>2. ReplayCost(p.history, ep) = n
    BY <1>7, <1>8 DEF ReplayCost
  <2>3. QED
    BY <1>2, <1>6, <1>7, <2>1, <2>2
<1>9. CASE ep.task \in DOMAIN p.history /\ p.history[ep.task] = ep.ops
  <2>1. Replanned(p, ep) = <<>>
    BY <1>3, <1>9, ReplannedIs
  <2>2. ReplayCost(p.history, ep) = 1
    BY <1>9 DEF ReplayCost
  <2>3. tokens = 0
    BY <2>1
  <2>4. QED
    BY <1>2, <1>6, <2>2, <2>3
<1>10. CASE ep.task \in DOMAIN p.history /\ p.history[ep.task] # ep.ops
  <2>1. PICK middle : middle = DiffMiddle(p.history[ep.task], ep.ops)
    OBVIOUS
  <2>2. Replanned(p, ep) = middle
    BY <1>3, <1>10, <2>1, ReplannedIs
  <2>3. Len(middle) \in Nat
    BY <1>4, <2>2
  <2>4. Max({1, Len(middle)}) = IF Len(middle) <= 1 THEN 1 ELSE Len(middle)
    BY <2>3, MaxWithOne
  <2>5. ReplayCost(p.history, ep) = Max({1, Len(middle)})
    BY <1>10, <2>1 DEF ReplayCost
  <2>6. QED
    BY <1>2, <1>5, <1>6, <2>2, <2>3, <2>4, <2>5
<1>11. QED
  BY <1>8, <1>9, <1>10

LEMMA DecisionsAreCheap ==
  ASSUME NEW p, KnowledgeOK(p), CacheOK(p), NEW ep, PlansOps(ep)
  PROVE  /\ NoMore(GreedyDecision(p, ep), p.history, ep)
         /\ NoMore(TieredDecision(p, ep), p.history, ep)
<1>1. PICK plan : plan = Replanned(p, ep) /\ plan \in Seq(Capability)
  BY ReplannedIs
<1>2. PICK words : words = Expansions(p.derived) /\ words \subseteq Seq(Capability)
  BY ExpansionsType DEF KnowledgeOK
<1>3. Raws(p) \subseteq Seq(Capability)
  BY DEF Raws, KnowledgeOK, TierOK, IsWord, NonemptySeq
<1>4. Len(Pieces(plan, words)) \in 0..Len(plan)
  BY <1>1, <1>2, PiecesLen
<1>5. words \cup Raws(p) \subseteq Seq(Capability)
  BY <1>2, <1>3
<1>6. SemanticCost(plan, words \cup Raws(p)) \in 0..Len(plan)
  BY <1>1, <1>5, SemanticCostBounds
<1>7. GreedyDecision(p, ep) = Decision(p, ep, Len(Pieces(plan, words)))
  BY <1>1, <1>2 DEF GreedyDecision
<1>8. TieredDecision(p, ep) = Decision(p, ep, SemanticCost(plan, words \cup Raws(p)))
  BY <1>1, <1>2 DEF TieredDecision
<1>9. QED
  BY <1>1, <1>4, <1>6, <1>7, <1>8, DecisionIsCheap

----------------------------------------------------------------------------
(* What is true of a run.                                                  *)

(* Between episodes the planner remembers what the caching baselines have  *)
(* seen, and has nothing queued; at an episode it remembers that one, too. *)
Settled ==
  /\ planner.history = baselines.seen
  /\ program.kind = "deferred" => /\ planner.pending_touched = {} /\ planner.pending_touched_p = {}
                                  /\ planner.pending_consolidation = FALSE

Deciding ==
  /\ next <= Len(Stream)
  /\ planner.history = Put(baselines.seen, Current.task, Current.ops)
  /\ NoMore(decision, baselines.seen, Current)

RunsInv ==
  /\ program \in Programs
  /\ next \in Nat \ {0}
  /\ KnowledgeOK(planner) /\ CacheOK(planner)
  /\ \A t \in DOMAIN baselines.seen : baselines.seen[t] \in Seq(Capability)
  /\ pc = "plan" => Settled
  /\ pc \in {"execute", "settle"} => Deciding

LEMMA StreamIs ==
  ASSUME program \in Programs
  PROVE  /\ program.warmup \in Seq(Range(program.warmup))
         /\ program.episodes \in Seq(Range(program.episodes))
         /\ Len(Stream) = Len(program.warmup) + Len(program.episodes) /\ Len(Stream) \in Nat
         /\ \A i \in 1..Len(Stream) : PlansOps(Stream[i])
<1>1. PICK s, t : s = program.warmup /\ t = program.episodes
  OBVIOUS
<1>2. /\ s \in Seq(Range(s)) /\ \A ep \in Range(s) : ep.ops \in NonemptySeq
      /\ t \in Seq(Range(t)) /\ \A ep \in Range(t) : ep.ops \in NonemptySeq
  BY <1>1, ProgramsAssumption DEF AreEpisodes, NonemptySeq
<1>3. PICK X, Y : X = Range(s) /\ Y = Range(t)
  OBVIOUS
<1>4. s \in Seq(X \cup Y) /\ t \in Seq(X \cup Y)
  BY <1>2, <1>3
<1>5. s \o t \in Seq(X \cup Y) /\ Len(s \o t) = Len(s) + Len(t)
  BY <1>4
<1>6. \A ep \in X \cup Y : PlansOps(ep)
  BY <1>2, <1>3 DEF PlansOps
<1>7. Stream = s \o t
  BY <1>1 DEF Stream
<1>8. \A i \in 1..Len(s \o t) : PlansOps((s \o t)[i])
  <2>1. PICK st : st = s \o t
    OBVIOUS
  <2>2. \A i \in 1..Len(st) : st[i] \in X \cup Y
    BY <1>5, <2>1
  <2>3. QED
    BY <1>6, <2>1, <2>2
<1>9. Len(s) \in Nat /\ Len(t) \in Nat
  BY <1>4
<1>10. Len(Stream) = Len(s) + Len(t) /\ Len(Stream) \in Nat /\ \A i \in 1..Len(Stream) : PlansOps(Stream[i])
  BY <1>5, <1>7, <1>8, <1>9
<1>11. QED
  BY <1>1, <1>2, <1>10

LEMMA RunsInit == Init => RunsInv
<1>1. SUFFICES ASSUME Init PROVE RunsInv
  OBVIOUS
<1>2. IsConstructed(program.planner)
  BY <1>1, ProgramsAssumption DEF Init
<1>3. PICK a, m, c, g : /\ m \in Int /\ planner = NewPlanner(a, m, c, g)
  BY <1>1, <1>2, Zenon DEF Init, IsConstructed
<1>4. KnowledgeOK(planner)
  BY <1>3, NewPlannerIs
<1>5. /\ planner.history = <<>> /\ planner.active = <<>> /\ planner.pending_touched = {}
      /\ planner.pending_touched_p = {} /\ planner.pending_consolidation = FALSE
  BY <1>3 DEF NewPlanner
<1>6. CacheOK(planner)
  BY <1>5 DEF CacheOK
<1>7. baselines.seen = <<>> /\ DOMAIN <<>> = {}
  <2>1. baselines = [seen |-> <<>>, stateless |-> 0, template_cache |-> 0, checkpoint_replay |-> 0]
    BY <1>1 DEF Init
  <2>2. baselines.seen = <<>>
    BY <2>1
  <2>3. DOMAIN <<>> = {}
    OBVIOUS
  <2>4. QED
    BY <2>2, <2>3
<1>8. Settled
  BY <1>5, <1>7 DEF Settled
<1>9. QED
  BY <1>1, <1>4, <1>6, <1>7, <1>8 DEF Init, RunsInv

LEMMA PlanKeeps ==
  ASSUME RunsInv, PlanEpisode
  PROVE  RunsInv'
<1>1. PICK p, ep : p = planner /\ ep = Current
  OBVIOUS
<1>2. PlansOps(ep)
  <2>1. Len(Stream) \in Nat /\ \A i \in 1..Len(Stream) : PlansOps(Stream[i])
    BY StreamIs DEF RunsInv
  <2>2. next \in Nat \ {0} /\ next <= Len(Stream)
    BY DEF RunsInv, PlanEpisode
  <2>3. QED
    BY <1>1, <2>1, <2>2 DEF Current
<1>3. KnowledgeOK(p) /\ CacheOK(p) /\ p.history = baselines.seen
  BY <1>1 DEF RunsInv, PlanEpisode, Settled
<1>4. PICK q : q = Planned(p, ep)
  OBVIOUS
<1>5. program.kind \in {"base", "cascade", "inline", "deferred"}
  BY ProgramsAssumption DEF RunsInv
<1>6. Remembers(p, ep, q)
  BY <1>2, <1>3, <1>4, <1>5, BaseRemembers, CascadeRemembers, InlineRemembers, DeferredRemembers
     DEF Planned
<1>7. planner' = q
  BY <1>1, <1>4 DEF PlanEpisode
<1>8. PICK d : d = Decide(p, ep) /\ NoMore(d, p.history, ep)
  BY <1>2, <1>3, DecisionsAreCheap DEF Decide
<1>9. decision'.semantic = d.semantic /\ decision'.recovery = d.recovery
  <2>1. \E n : d = [semantic |-> d.semantic, recovery |-> d.recovery,
                    local_repair |-> d.local_repair, structural_change |-> n]
    BY <1>8 DEF Decide, GreedyDecision, TieredDecision, Decision
  <2>2. decision' = [d EXCEPT !.structural_change = @ + Changes(p, q)]
    BY <1>1, <1>4, <1>7, <1>8 DEF PlanEpisode
  <2>3. QED
    BY <2>1, <2>2
<1>10. Current' = ep /\ Len(Stream)' = Len(Stream)
  BY <1>1 DEF PlanEpisode, Current, Stream
<1>11. Deciding'
  BY <1>3, <1>6, <1>7, <1>8, <1>9, <1>10 DEF Deciding, Remembers, PlanEpisode, NoMore
<1>12. KnowledgeOK(planner') /\ CacheOK(planner')
  BY <1>6, <1>7 DEF Remembers
<1>13. QED
  BY <1>11, <1>12 DEF RunsInv, PlanEpisode

LEMMA ExecuteKeeps ==
  ASSUME RunsInv, ExecuteEpisode
  PROVE  RunsInv'
<1>1. Deciding
  BY DEF RunsInv, ExecuteEpisode
<1>2. UNCHANGED <<program, planner, next, decision, baselines>>
  BY DEF ExecuteEpisode
<1>3. Deciding'
  BY <1>1, <1>2 DEF Deciding, Stream, Current
<1>4. pc' \in {"aborted", "settle"}
  BY DEF ExecuteEpisode
<1>5. QED
  BY <1>2, <1>3, <1>4 DEF RunsInv

LEMMA SettleKeeps ==
  ASSUME RunsInv, SettleEpisode
  PROVE  RunsInv'
<1>1. PICK p, ep : p = planner /\ ep = Current
  OBVIOUS
<1>2. KnowledgeOK(p) /\ CacheOK(p) /\ p.history = Put(baselines.seen, ep.task, ep.ops)
      /\ next \in 1..Len(Stream)
  BY <1>1, StreamIs DEF RunsInv, SettleEpisode, Deciding
<1>3. PlansOps(ep)
  BY <1>1, <1>2, StreamIs DEF RunsInv, Current
<1>4. PICK q : q = planner'
  OBVIOUS
<1>5. /\ KnowledgeOK(q) /\ CacheOK(q) /\ q.history = p.history
      /\ program.kind = "deferred" => /\ q.pending_touched = {} /\ q.pending_touched_p = {}
                                      /\ q.pending_consolidation = FALSE
  <2>1. CASE program.kind = "deferred"
    BY <1>1, <1>2, <1>4, <2>1, ConsolidationKeeps DEF SettleEpisode
  <2>2. CASE program.kind # "deferred"
    BY <1>1, <1>2, <1>4, <2>2 DEF SettleEpisode
  <2>3. QED
    BY <2>1, <2>2
<1>6. baselines'.seen = Put(baselines.seen, ep.task, ep.ops)
  BY <1>1 DEF SettleEpisode, BaselinesAfter
<1>7. program' = program /\ next' = next + 1
  BY DEF SettleEpisode
<1>8. Settled'
  BY <1>2, <1>4, <1>5, <1>6, <1>7 DEF Settled
<1>9. \A t \in DOMAIN baselines'.seen : baselines'.seen[t] \in Seq(Capability)
  BY <1>2, <1>5, <1>6 DEF KnowledgeOK, HistoryOK
<1>10. pc' \in {"plan", "done"}
  BY DEF SettleEpisode
<1>11. QED
  BY <1>2, <1>4, <1>5, <1>7, <1>8, <1>9, <1>10 DEF RunsInv

LEMMA RunsAlways == Spec => []RunsInv
<1>1. RunsInv /\ [Next]_vars => RunsInv'
  <2>1. SUFFICES ASSUME RunsInv, [Next]_vars PROVE RunsInv'
    OBVIOUS
  <2>2. CASE UNCHANGED vars
    BY <2>1, <2>2 DEF RunsInv, Settled, Deciding, Stream, Current, vars
  <2>3. QED
    BY <2>1, <2>2, PlanKeeps, ExecuteKeeps, SettleKeeps DEF Next
<1>2. QED
  BY <1>1, RunsInit, PTL DEF Spec

(* No program's planner decides more of an episode it need not recover     *)
(* than a baseline that replays the last plan of the task from a           *)
(* checkpoint, that no more than a cache of whole plans, that no more than *)
(* a baseline without memory: CachingBaseline and hy::HybridPlanner::plan, *)
(* whatever the capacity of the working set, whose evictions the history   *)
(* makes good.                                                             *)
THEOREM EvictionNeverCosts == Spec => []BaselinesNeverCheaper
<1>1. RunsInv => BaselinesNeverCheaper
  <2>1. SUFFICES ASSUME RunsInv, pc = "settle"
                 PROVE  /\ NoMore(decision, baselines.seen, Current)
                        /\ ReplayCost(baselines.seen, Current) <= TemplateCost(baselines.seen, Current)
                        /\ TemplateCost(baselines.seen, Current) <= Len(Current.ops)
    BY DEF BaselinesNeverCheaper, CheckpointReplay, TemplateCache, Stateless,
           NoMore, ReplayCost, TemplateCost
  <2>2. Deciding /\ next \in 1..Len(Stream)
    BY <2>1, StreamIs DEF RunsInv, Deciding
  <2>3. PlansOps(Current)
    BY <2>1, <2>2, StreamIs DEF RunsInv, Current
  <2>4. QED
    BY <2>1, <2>2, <2>3, BaselinesOrdered DEF RunsInv, Deciding
<1>2. QED
  BY <1>1, RunsAlways, PTL

----------------------------------------------------------------------------
(* The windows of a program that notes their boundaries.                   *)

IsAccount(w) ==
  "episodes" \in DOMAIN w /\ "start" \in DOMAIN w /\ "end" \in DOMAIN w /\ w.episodes \in Nat

LEMMA AccountedIs ==
  ASSUME NEW w, IsAccount(w), NEW ep, NEW m, NEW p
  PROVE  LET a == Accounted(w, ep, m, p)
         IN  /\ IsAccount(a) /\ a.episodes = w.episodes + 1
             /\ a.start = w.start /\ a.end = Known(p)
<1> DEFINE first == ep.task \notin seen
           b == [w EXCEPT !.episodes = w.episodes + 1,
                          !.success = w.success + Count(ok),
                          !.semantic = w.semantic + m.semantic,
                          !.structural = w.structural + m.structural_change,
                          !.recoveries = w.recoveries + m.recovery,
                          !.repairs = w.repairs + m.local_repair]
           c == [b EXCEPT !.first_seen = w.first_seen + Count(first),
                          !.first_semantic = w.first_semantic + IF first THEN m.semantic ELSE 0,
                          !.first_one = w.first_one + Count(first /\ m.semantic = 1),
                          !.repeat_count = w.repeat_count + Count(ep.expected_repeat),
                          !.repeat_semantic =
                            w.repeat_semantic + IF ep.expected_repeat THEN m.semantic ELSE 0]
           d == [c EXCEPT !.post_recovery = w.post_recovery + Count(ep.post_recovery),
                          !.post_recovery_zero =
                            w.post_recovery_zero + Count(ep.post_recovery /\ m.recovery = 0),
                          !.attention = w.attention + AttentionSeconds(first, m),
                          !.half_minutes = w.half_minutes + ep.half_minutes]
           e == [d EXCEPT !.uniform = w.uniform /\ Audit(planner.derived), !.end = Known(p)]
<1>1. Accounted(w, ep, m, p) = e
  BY Zenon DEF Accounted
<1>2. DOMAIN b = DOMAIN w /\ b.episodes = w.episodes + 1 /\ b.start = w.start
  BY DEF IsAccount
<1> HIDE DEF b
<1>3. DOMAIN c = DOMAIN b /\ c.episodes = b.episodes /\ c.start = b.start
  BY <1>2 DEF IsAccount
<1> HIDE DEF c
<1>4. DOMAIN d = DOMAIN c /\ d.episodes = c.episodes /\ d.start = c.start
  BY <1>2, <1>3 DEF IsAccount
<1> HIDE DEF d
<1>5. DOMAIN e = DOMAIN d /\ e.episodes = d.episodes /\ e.start = d.start /\ e.end = Known(p)
  BY <1>2, <1>3, <1>4 DEF IsAccount
<1> HIDE DEF e
<1>6. QED
  BY <1>1, <1>2, <1>3, <1>4, <1>5 DEF IsAccount

WindowAt(i) == program.episodes[i].window

Reached == IF pc = "done" THEN WindowAt(Len(program.episodes)) ELSE WindowAt(next)

TileInv ==
  program.notes_boundaries =>
    /\ next \in 1..(Len(program.episodes) + 1)
    /\ pc \in {"plan", "execute", "settle", "done"}
    /\ pc = "done" <=> next = Len(program.episodes) + 1
    /\ DOMAIN windows = 0..(program.windows - 1)
    /\ \A w \in DOMAIN windows : IsAccount(windows[w])
    /\ \A w \in DOMAIN windows : w > Reached => windows[w].episodes = 0
    /\ \A w \in DOMAIN windows \ {0} : w <= Reached => windows[w].start = windows[w - 1].end
    /\ pc = "plan" /\ next > 1 => windows[WindowAt(next - 1)].end = Known(planner)

LEMMA NotesInOrder ==
  ASSUME program \in Programs, program.notes_boundaries
  PROVE  LET s == program.episodes
         IN  /\ Stream = s /\ Len(program.warmup) = 0
             /\ Len(s) \in Nat /\ Len(s) >= 1 /\ program.windows \in Nat
             /\ WindowAt(1) = 0
             /\ \A i \in 1..Len(s) : WindowAt(i) \in 0..(program.windows - 1)
             /\ \A i \in 1..(Len(s) - 1) : WindowAt(i + 1) \in {WindowAt(i), WindowAt(i) + 1}
<1>1. PICK s : s = program.episodes
  OBVIOUS
<1>2. program.warmup = <<>> /\ program.windows \in Nat /\ WindowsInOrder(s, program.windows)
  BY <1>1, ProgramsAssumption
<1>3. s \in Seq(Range(s))
  BY <1>1, StreamIs
<1>4. Stream = s
  BY <1>1, <1>2, <1>3 DEF Stream
<1>5. Len(s) \in Nat /\ Len(s) >= 1 /\ DOMAIN s = 1..Len(s)
  BY <1>2, <1>3 DEF WindowsInOrder
<1>6. Len(<<>>) = 0
  OBVIOUS
<1>7. QED
  BY <1>1, <1>2, <1>4, <1>5, <1>6 DEF WindowsInOrder, WindowAt

LEMMA TileInit == Init => TileInv
<1>1. SUFFICES ASSUME Init, program.notes_boundaries PROVE TileInv
  BY DEF TileInv
<1>2. program \in Programs
  BY <1>1 DEF Init
<1>3. /\ Len(program.episodes) \in Nat /\ Len(program.episodes) >= 1 /\ WindowAt(1) = 0
      /\ program.windows \in Nat
  BY <1>1, <1>2, NotesInOrder
<1>4. /\ DOMAIN windows = 0..(program.windows - 1)
      /\ \A w \in DOMAIN windows : IsAccount(windows[w]) /\ windows[w].episodes = 0
  BY <1>1 DEF Init, NewWindow, IsAccount
<1>5. next = 1 /\ pc = "plan"
  BY <1>1 DEF Init
<1>6. Reached = 0
  BY <1>3, <1>5 DEF Reached
<1>7. QED
  BY <1>3, <1>4, <1>5, <1>6 DEF TileInv

LEMMA SettleTiles ==
  ASSUME RunsInv, TileInv, program.notes_boundaries, SettleEpisode
  PROVE  TileInv'
<1>1. PICK n, m, s : n = Len(program.episodes) /\ m = program.windows /\ s = program.episodes
  OBVIOUS
<1>2. /\ n \in Nat /\ n >= 1 /\ m \in Nat /\ Stream = s
      /\ \A i \in 1..n : WindowAt(i) \in 0..(m - 1)
      /\ \A i \in 1..(n - 1) : WindowAt(i + 1) \in {WindowAt(i), WindowAt(i) + 1}
  BY <1>1, NotesInOrder DEF RunsInv
<1>3. /\ next \in 1..n /\ pc = "settle" /\ ~Warming /\ Reached = WindowAt(next)
      /\ DOMAIN windows = 0..(m - 1) /\ \A w \in DOMAIN windows : IsAccount(windows[w])
      /\ \A w \in DOMAIN windows : w > WindowAt(next) => windows[w].episodes = 0
      /\ \A w \in DOMAIN windows \ {0} : w <= WindowAt(next) => windows[w].start = windows[w - 1].end
  <2>1. pc = "settle"
    BY DEF SettleEpisode
  <2>2. Reached = WindowAt(next)
    BY <2>1 DEF Reached
  <2>3. next \in 1..n
    BY <1>1, <1>2, <2>1 DEF TileInv
  <2>4. ~Warming
    BY <1>2, <2>3, NotesInOrder DEF RunsInv, Warming
  <2>5. QED
    BY <1>1, <2>1, <2>2, <2>3, <2>4 DEF TileInv
<1>4. PICK c \in 0..(m - 1) : c = WindowAt(next)
  BY <1>2, <1>3
<1>5. Current.window = c /\ Len(Stream) = n /\ \A i \in 1..n : Stream[i].window = WindowAt(i)
  BY <1>1, <1>2, <1>4 DEF Current, WindowAt
<1>6. PICK known : known = Known(planner')
  OBVIOUS
<1>7. PICK a : /\ \E d : a = Accounted(windows[c], Current, d, planner')
               /\ windows' = Boundary([windows EXCEPT ![c] = a], planner')
  BY <1>3, <1>5 DEF SettleEpisode
<1>8. /\ IsAccount(a) /\ a.episodes = windows[c].episodes + 1
      /\ a.start = windows[c].start /\ a.end = known
  BY <1>3, <1>4, <1>6, <1>7, AccountedIs
<1>9. PICK after : /\ after = [windows EXCEPT ![c] = a]
                   /\ DOMAIN after = 0..(m - 1) /\ after[c] = a
                   /\ \A w \in 0..(m - 1) : w # c => after[w] = windows[w]
  <2>1. PICK after : after = [windows EXCEPT ![c] = a]
    OBVIOUS
  <2>2. c \in DOMAIN windows /\ DOMAIN windows = 0..(m - 1)
    BY <1>3, <1>4
  <2>3. /\ DOMAIN after = DOMAIN windows /\ after[c] = a
        /\ \A w \in DOMAIN windows : w # c => after[w] = windows[w]
    BY <2>1, <2>2
  <2>4. QED
    BY <2>1, <2>2, <2>3
<1>10. \A w \in 0..(m - 1) : IsAccount(after[w])
  BY <1>3, <1>8, <1>9
<1>11. /\ program' = program /\ next' = next + 1
       /\ pc' = IF next < n THEN "plan" ELSE "done"
  BY <1>5 DEF SettleEpisode
<1>13. CASE next < n /\ WindowAt(next + 1) # c
  <2>1. WindowAt(next + 1) = c + 1 /\ c + 1 \in 0..(m - 1)
    BY <1>2, <1>3, <1>4, <1>13
  <2>2. windows' = [after EXCEPT ![c + 1].start = known]
    <3>1. Stream[next + 1].window = c + 1
      BY <1>3, <1>5, <1>13, <2>1
    <3>2. Boundary(after, planner') = [after EXCEPT ![c + 1].start = Known(planner')]
      BY <1>5, <1>13, <2>1, <3>1 DEF Boundary
    <3>3. QED
      BY <1>6, <1>7, <1>9, <3>2
  <2>3. /\ DOMAIN windows' = 0..(m - 1)
        /\ \A w \in 0..(m - 1) : w # c + 1 => windows'[w] = after[w]
        /\ windows'[c + 1] = [after[c + 1] EXCEPT !.start = known]
    BY <1>9, <2>1, <2>2
  <2>4. /\ IsAccount(windows'[c + 1]) /\ windows'[c + 1].start = known
        /\ windows'[c + 1].episodes = after[c + 1].episodes
        /\ windows'[c + 1].end = after[c + 1].end
    BY <1>10, <2>1, <2>3 DEF IsAccount
  <2>5. pc' = "plan" /\ Reached' = c + 1
    <3>1. pc' = "plan" /\ pc' # "done"
      BY <1>11, <1>13
    <3>2. Reached' = program'.episodes[next'].window
      BY <3>1 DEF Reached, WindowAt
    <3>3. QED
      BY <1>4, <1>11, <2>1, <3>1, <3>2 DEF WindowAt
  <2>6. \A w \in 0..(m - 1) : IsAccount(windows'[w])
    BY <1>10, <2>3, <2>4
  <2>7. \A w \in 0..(m - 1) : w > c + 1 => windows'[w].episodes = 0
    BY <1>3, <1>4, <1>9, <2>3
  <2>8. \A w \in 0..(m - 1) \ {0} : w <= c + 1 => windows'[w].start = windows'[w - 1].end
    <3>1. SUFFICES ASSUME NEW w \in 0..(m - 1), w # 0, w <= c + 1
                   PROVE  windows'[w].start = windows'[w - 1].end
      OBVIOUS
    <3>2. CASE w = c + 1
      <4>1. w - 1 = c /\ c \in 0..(m - 1) /\ c # c + 1
        BY <3>2
      <4>2. windows'[c].end = known
        BY <1>8, <1>9, <2>3, <4>1
      <4>3. QED
        BY <2>4, <3>2, <4>1, <4>2
    <3>3. CASE w <= c
      <4>1. w - 1 \in 0..(m - 1) /\ w - 1 # c /\ w - 1 # c + 1 /\ w # c + 1
        BY <1>2, <3>1, <3>3
      <4>2. windows'[w - 1] = windows[w - 1]
        BY <1>9, <2>3, <4>1
      <4>3. windows'[w].start = windows[w].start
        BY <1>8, <1>9, <2>3, <3>1, <4>1
      <4>4. windows[w].start = windows[w - 1].end
        BY <1>3, <1>4, <3>1, <3>3
      <4>5. QED
        BY <4>2, <4>3, <4>4
    <3>4. QED
      BY <3>1, <3>2, <3>3
  <2>9. windows'[c].end = known
    BY <1>8, <1>9, <2>1, <2>3
  <2>10. next' - 1 = next /\ next' \in 1..(n + 1) /\ next' # n + 1
    BY <1>2, <1>3, <1>11, <1>13
  <2>11. WindowAt(next - 1)' = c
    BY <1>4, <1>11, <2>10 DEF WindowAt
  <2>12. QED
    BY <1>1, <1>6, <1>11, <2>3, <2>5, <2>6, <2>7, <2>8, <2>9, <2>10, <2>11 DEF TileInv
<1>14. CASE ~(next < n /\ WindowAt(next + 1) # c)
  <2>1. windows' = after
    <3>1. ~(next < Len(Stream) /\ Stream[next + 1].window # Current.window)
      BY <1>2, <1>3, <1>5, <1>14
    <3>2. Boundary(after, planner') = after
      BY <3>1 DEF Boundary
    <3>3. QED
      BY <1>7, <1>9, <3>2
  <2>2. Reached' = c
    <3>1. CASE next < n
      BY <1>4, <1>11, <1>14, <3>1 DEF Reached, WindowAt
    <3>2. CASE next = n
      BY <1>1, <1>2, <1>3, <1>4, <1>11, <3>2 DEF Reached, WindowAt
    <3>3. QED
      BY <1>2, <1>3, <3>1, <3>2
  <2>3. \A w \in 0..(m - 1) : w > c => after[w].episodes = 0
    BY <1>3, <1>4, <1>9
  <2>4. \A w \in 0..(m - 1) \ {0} : w <= c => after[w].start = after[w - 1].end
    <3>1. SUFFICES ASSUME NEW w \in 0..(m - 1), w # 0, w <= c
                   PROVE  after[w].start = after[w - 1].end
      OBVIOUS
    <3>2. w - 1 \in 0..(m - 1) /\ w - 1 # c
      BY <1>2, <3>1
    <3>3. after[w - 1] = windows[w - 1]
      BY <1>9, <3>2
    <3>4. after[w].start = windows[w].start
      BY <1>8, <1>9, <3>1
    <3>5. windows[w].start = windows[w - 1].end
      BY <1>3, <1>4, <3>1
    <3>6. QED
      BY <3>3, <3>4, <3>5
  <2>5. next' - 1 = next /\ next' \in 1..(n + 1) /\ (pc' = "done" <=> next' = n + 1)
    BY <1>2, <1>3, <1>11
  <2>6. WindowAt(next - 1)' = c
    BY <1>4, <1>11, <2>5 DEF WindowAt
  <2>7. pc' \in {"plan", "done"} /\ after[c].end = known
    BY <1>8, <1>9, <1>11
  <2>8. QED
    BY <1>1, <1>6, <1>9, <1>10, <1>11, <2>1, <2>2, <2>3, <2>4, <2>5, <2>6, <2>7 DEF TileInv
<1>15. QED
  BY <1>13, <1>14

LEMMA OthersTile ==
  ASSUME RunsInv, TileInv, program.notes_boundaries, PlanEpisode \/ ExecuteEpisode \/ UNCHANGED vars
  PROVE  TileInv'
<1>1. program' = program /\ next' = next /\ windows' = windows
  BY DEF PlanEpisode, ExecuteEpisode, vars
<1>2. CASE UNCHANGED vars
  BY <1>2 DEF TileInv, Reached, WindowAt, vars
<1>3. CASE PlanEpisode \/ ExecuteEpisode
  <2>1. pc \in {"plan", "execute"} /\ pc' \in {"execute", "settle"}
    <3>1. CASE PlanEpisode
      BY <3>1 DEF PlanEpisode
    <3>2. CASE ExecuteEpisode
      <4>1. program \in Programs /\ next \in 1..(Len(program.episodes) + 1)
        BY DEF RunsInv, TileInv
      <4>2. ~Warming
        BY <4>1, NotesInOrder DEF Warming
      <4>3. pc' = IF Warming /\ ~ok' THEN "aborted" ELSE "settle"
        BY <3>2 DEF ExecuteEpisode
      <4>4. QED
        BY <3>2, <4>2, <4>3 DEF ExecuteEpisode
    <3>3. QED
      BY <1>3, <3>1, <3>2
  <2>2. Reached' = Reached
    BY <1>1, <2>1 DEF Reached, WindowAt
  <2>3. QED
    BY <1>1, <2>1, <2>2 DEF TileInv
<1>4. QED
  BY <1>2, <1>3

(* What is known when a window starts is what was known when the one       *)
(* before it ended: the start an episode's successor notes in the          *)
(* deployment and the week is noted behind consolidate_pending.            *)
THEOREM WindowsAddUp == Spec => []WindowsTile
<1>1. Init => TileInv
  BY TileInit
<1>2. RunsInv /\ TileInv /\ [Next]_vars => TileInv'
  <2>1. SUFFICES ASSUME RunsInv, TileInv, [Next]_vars PROVE TileInv'
    OBVIOUS
  <2>2. CASE program.notes_boundaries
    BY <2>1, <2>2, SettleTiles, OthersTile DEF Next
  <2>3. CASE ~program.notes_boundaries
    <3>1. program' = program
      BY <2>1 DEF Next, PlanEpisode, ExecuteEpisode, SettleEpisode, vars
    <3>2. QED
      BY <2>3, <3>1 DEF TileInv
  <2>4. QED
    BY <2>2, <2>3
<1>3. RunsInv /\ TileInv => WindowsTile
  <2>1. SUFFICES ASSUME RunsInv, TileInv, program.notes_boundaries PROVE WindowsTile
    BY DEF WindowsTile
  <2>2. /\ Stream = program.episodes /\ Len(program.episodes) \in Nat /\ program.windows \in Nat
        /\ \A i \in 1..Len(program.episodes) : WindowAt(i) \in 0..(program.windows - 1)
        /\ Len(program.episodes) >= 1
    BY <2>1, NotesInOrder DEF RunsInv
  <2>3. ASSUME NEW w \in DOMAIN windows \ {0},
               windows[w].episodes > 0 \/ (pc # "done" /\ Current.window = w)
        PROVE  windows[w].start = windows[w - 1].end
    <3>1. Reached \in 0..(program.windows - 1) /\ w \in 0..(program.windows - 1)
      BY <2>1, <2>2 DEF TileInv, Reached
    <3>2. pc # "done" => Reached = Current.window
      BY <2>2 DEF Reached, WindowAt, Current
    <3>3. w > Reached => windows[w].episodes = 0
      BY <2>1 DEF TileInv
    <3>4. w <= Reached
      BY <2>3, <3>1, <3>2, <3>3
    <3>5. QED
      BY <2>1, <3>4 DEF TileInv
  <2>4. pc = "plan" /\ next > 1 => windows[Stream[next - 1].window].end = Known(planner)
    BY <2>1, <2>2 DEF TileInv, WindowAt
  <2>5. QED
    BY <2>3, <2>4 DEF WindowsTile
<1>4. QED
  BY <1>1, <1>2, <1>3, RunsAlways, PTL DEF Spec

----------------------------------------------------------------------------
(* Deferral.  What growth and the tier make of a planner depends on what   *)
(* it knows, and not on its working set or its queue.                      *)

SavingOf(history, words, cand, tasks) ==
  SumFunction([t \in tasks |-> Len(Pieces(history[t], words))
                                 - Len(Pieces(history[t], words \cup {cand}))])

UsersIn(index, cand) == IF cand \in DOMAIN index THEN index[cand] ELSE {}

SavingsOf(dict, index, history, cands) ==
  [c \in {d \in cands \ Expansions(dict) :
            Cardinality(UsersIn(index, d)) >= 2 /\ Len(Pieces(d, Expansions(dict))) > 1} |->
     SavingOf(history, Expansions(dict), c, DOMAIN history)]

GrownDict(dict, threshold, index, saving) ==
  LET words == Expansions(dict)
      key   == [c \in DOMAIN saving |-> <<saving[c] - (Len(Pieces(c, words)) + 1),
                                          Cardinality(UsersIn(index, c)), Len(c)>>]
      worth == {c \in DOMAIN key : key[c][1] >= threshold}
      best  == {c \in worth : \A d \in worth : ~KeyBelow(key[c], key[d])}
  IN  IF worth = {} THEN dict ELSE Append(dict, Compress(dict, First(best)))

LEMMA GrownDictIs ==
  ASSUME NEW p, IsPlanner(p), NEW saving
  PROVE  Grown(p, Expansions(p.derived), saving).derived =
           GrownDict(p.derived, p.mdl_threshold, p.subseq_users, saving)
<1> DEFINE words == Expansions(p.derived)
           key == [c \in DOMAIN saving |-> <<saving[c] - (Len(Pieces(c, words)) + 1),
                                             Cardinality(Users(p, c)), Len(c)>>]
           worth == {c \in DOMAIN key : key[c][1] >= p.mdl_threshold}
           best == {c \in worth : \A d \in worth : ~KeyBelow(key[c], key[d])}
<1>1. Grown(p, words, saving) = IF worth = {} THEN p
                                ELSE [p EXCEPT !.derived = Append(@, Compress(p.derived, First(best)))]
  BY Zenon DEF Grown
<1>2. GrownDict(p.derived, p.mdl_threshold, p.subseq_users, saving) =
        IF worth = {} THEN p.derived ELSE Append(p.derived, Compress(p.derived, First(best)))
  BY Zenon DEF GrownDict, Users, UsersIn
<1> HIDE DEF words, key, worth, best
<1>3. PICK value : value = Append(p.derived, Compress(p.derived, First(best)))
  OBVIOUS
<1>4. PICK q : q = [p EXCEPT !.derived = value]
  OBVIOUS
<1>5. q.derived = value
  BY <1>4 DEF IsPlanner, Fields
<1>6. Grown(p, words, saving) = IF worth = {} THEN p ELSE q
  BY <1>1, <1>3, <1>4
<1>7. Grown(p, words, saving).derived = IF worth = {} THEN p.derived ELSE value
  BY <1>5, <1>6
<1>8. QED
  BY <1>2, <1>3, <1>7 DEF words

LEMMA GrowthSavingIs ==
  ASSUME NEW p, NEW cands
  PROVE  GrowthSaving(p, cands) = SavingsOf(p.derived, p.subseq_users, p.history, cands)
BY Zenon DEF GrowthSaving, SavingsOf, Saving, SavingOf, Eligible, Users, UsersIn

(* The tasks outside the users of a candidate hold no occurrence of it.    *)
LEMMA LocalizedIsWhole ==
  ASSUME NEW p, KnowledgeOK(p), NEW cands, cands \subseteq NonemptySeq,
         \A c \in cands : Len(c) \in 2..5
  PROVE  LocalizedSaving(p, cands) = GrowthSaving(p, cands)
<1>1. PICK words : words = Expansions(p.derived) /\ words \subseteq Seq(Capability)
  BY ExpansionsType DEF KnowledgeOK
<1>2. PICK eligible : eligible = Eligible(p, words, cands) /\ eligible \subseteq cands
  BY DEF Eligible
<1>3. HistoryOK(p) /\ IndexOK(p)
  BY DEF KnowledgeOK
<1>4. ASSUME NEW c \in eligible
      PROVE  Saving(p, words, c, Users(p, c) \cap DOMAIN p.history) = Saving(p, words, c, DOMAIN p.history)
  <2>1. c \in Seq(Capability) /\ Len(c) \in 2..5
    BY <1>2 DEF NonemptySeq
  <2>2. PICK D, U : D = DOMAIN p.history /\ U = Users(p, c) \cap DOMAIN p.history
    OBVIOUS
  <2>3. IsFiniteSet(D) /\ U \in SUBSET D /\ IsFiniteSet(U)
    BY <1>3, <2>2, FS_Subset DEF HistoryOK
  <2>4. PICK f, g : /\ f = [t \in D |-> Len(Pieces(p.history[t], words))
                                          - Len(Pieces(p.history[t], words \cup {c}))]
                    /\ g = [t \in U |-> Len(Pieces(p.history[t], words))
                                          - Len(Pieces(p.history[t], words \cup {c}))]
    OBVIOUS
  <2>5. \A t \in D : /\ f[t] = Len(Pieces(p.history[t], words))
                                 - Len(Pieces(p.history[t], words \cup {c}))
                     /\ f[t] \in Int
    BY <1>1, <1>3, <2>1, <2>2, <2>4, SavingIsInt
  <2>6. ASSUME NEW t \in D \ U PROVE f[t] = 0
    <3>1. p.history[t] \in Seq(Capability)
      BY <1>3, <2>2 DEF HistoryOK
    <3>2. c \notin Candidates(p.history[t])
      BY <1>3, <2>2 DEF IndexOK, Users
    <3>3. \A i \in 1..Len(p.history[t]) : ~OccursAt(c, p.history[t], i)
      BY <2>1, <3>1, <3>2, CandidateIfOccurs
    <3>4. Pieces(p.history[t], words \cup {c}) = Pieces(p.history[t], words)
      BY <3>3, AbsentPattern
    <3>5. Len(Pieces(p.history[t], words)) \in 0..Len(p.history[t])
      BY <1>1, <3>1, PiecesLen
    <3>6. PICK n : n = Len(Pieces(p.history[t], words))
      OBVIOUS
    <3>7. n \in Int /\ f[t] = n - n
      BY <2>5, <3>1, <3>4, <3>5, <3>6
    <3>8. QED
      BY <3>7
  <2>7. SumFunctionOnSet(f, D) = SumFunctionOnSet(f, U)
    BY <2>3, <2>5, <2>6, SumOfZeros
  <2>8. SumFunctionOnSet(f, U) = SumFunctionOnSet(g, U)
    <3>1. \A t \in U : f[t] \in Int /\ g[t] = f[t]
      BY <2>3, <2>4, <2>5
    <3>2. QED
      BY <2>3, <3>1, SumOfSame
  <2>9. Saving(p, words, c, D) = SumFunctionOnSet(f, D) /\ Saving(p, words, c, U) = SumFunctionOnSet(g, U)
    <3>1. DOMAIN f = D /\ DOMAIN g = U
      BY <2>4
    <3>2. QED
      BY Zenon, <2>4, <3>1 DEF Saving, SumFunction
  <2>10. QED
    BY <2>2, <2>7, <2>8, <2>9
<1>5. [c \in eligible |-> Saving(p, words, c, Users(p, c) \cap DOMAIN p.history)] =
        [c \in eligible |-> Saving(p, words, c, DOMAIN p.history)]
  BY <1>4, Zenon
<1>6. QED
  BY <1>1, <1>2, <1>5, Zenon DEF LocalizedSaving, GrowthSaving

LEMMA GrowthAgrees ==
  ASSUME NEW p, NEW q, KnowledgeOK(p), KnowledgeOK(q), SameKnowledge(p, q),
         NEW cands, IsFiniteSet(cands), cands \subseteq NonemptySeq, \A c \in cands : Len(c) \in 2..5
  PROVE  SameKnowledge(MaybeGrow(p, cands), MaybeGrowLocalized(q, cands))
<1>1. PICK a : a = MaybeGrow(p, cands)
  OBVIOUS
<1>2. PICK b : b = MaybeGrowLocalized(q, cands)
  OBVIOUS
<1>3. /\ Leaves(p, a) /\ a.provisional = p.provisional /\ a.pcounter = p.pcounter
      /\ a.admitted_total = p.admitted_total /\ a.expired_total = p.expired_total
  BY <1>1, GrowthKeeps
<1>4. /\ Leaves(q, b) /\ b.provisional = q.provisional /\ b.pcounter = q.pcounter
      /\ b.admitted_total = q.admitted_total /\ b.expired_total = q.expired_total
  BY <1>2, GrowthKeeps
<1>5. PICK s : s = SavingsOf(p.derived, p.subseq_users, p.history, cands)
  OBVIOUS
<1>6. GrowthSaving(p, cands) = s /\ LocalizedSaving(q, cands) = s
  <2>1. GrowthSaving(p, cands) = s
    BY <1>5, GrowthSavingIs
  <2>2. LocalizedSaving(q, cands) = SavingsOf(q.derived, q.subseq_users, q.history, cands)
    BY GrowthSavingIs, LocalizedIsWhole
  <2>3. QED
    BY <1>5, <2>1, <2>2 DEF SameKnowledge
<1>7. a = Grown(p, Expansions(p.derived), s) /\ b = Grown(q, Expansions(q.derived), s)
  BY <1>1, <1>2, <1>6, GrowthIs
<1>8. IsPlanner(p) /\ IsPlanner(q)
  BY DEF KnowledgeOK
<1>9. /\ a.derived = GrownDict(p.derived, p.mdl_threshold, p.subseq_users, s)
      /\ b.derived = GrownDict(q.derived, q.mdl_threshold, q.subseq_users, s)
  BY <1>7, <1>8, GrownDictIs
<1>10. a.derived = b.derived
  BY <1>9 DEF SameKnowledge
<1>11. SameKnowledge(a, b)
  BY <1>3, <1>4, <1>10 DEF SameKnowledge, Leaves
<1>12. QED
  BY <1>1, <1>2, <1>11

LEMMA RemovalAgrees ==
  ASSUME NEW p, NEW q, KnowledgeOK(p), KnowledgeOK(q), SameKnowledge(p, q)
  PROVE  SameKnowledge(RemoveCommittedEquivalents(p), RemoveCommittedEquivalents(q))
<1>1. PICK a : a = RemoveCommittedEquivalents(p)
  OBVIOUS
<1>2. PICK b : b = RemoveCommittedEquivalents(q)
  OBVIOUS
<1>3. /\ Leaves(p, a) /\ a.provisional = TierLeft(p.provisional, p.derived) /\ a.derived = p.derived
      /\ a.pcounter = p.pcounter /\ a.admitted_total = p.admitted_total
      /\ a.expired_total = p.expired_total
  BY <1>1, RemovalIs
<1>4. /\ Leaves(q, b) /\ b.provisional = TierLeft(q.provisional, q.derived) /\ b.derived = q.derived
      /\ b.pcounter = q.pcounter /\ b.admitted_total = q.admitted_total
      /\ b.expired_total = q.expired_total
  BY <1>2, RemovalIs
<1>5. SameKnowledge(a, b)
  BY <1>3, <1>4 DEF SameKnowledge, Leaves
<1>6. QED
  BY <1>1, <1>2, <1>5

LEMMA ExpiryAgrees ==
  ASSUME NEW p, NEW q, KnowledgeOK(p), KnowledgeOK(q), SameKnowledge(p, q)
  PROVE  SameKnowledge(Expire(p), Expire(q))
<1>1. PICK a : a = Expire(p)
  OBVIOUS
<1>2. PICK b : b = Expire(q)
  OBVIOUS
<1>3. /\ Leaves(p, a) /\ a.provisional = TierFresh(p.provisional, p.struct_step, p.grace)
      /\ a.derived = p.derived
      /\ a.pcounter = p.pcounter /\ a.admitted_total = p.admitted_total
      /\ a.expired_total = p.expired_total + Cardinality(StaleIn(p.provisional, p.struct_step, p.grace))
  BY <1>1, ExpiryIs
<1>4. /\ Leaves(q, b) /\ b.provisional = TierFresh(q.provisional, q.struct_step, q.grace)
      /\ b.derived = q.derived
      /\ b.pcounter = q.pcounter /\ b.admitted_total = q.admitted_total
      /\ b.expired_total = q.expired_total + Cardinality(StaleIn(q.provisional, q.struct_step, q.grace))
  BY <1>2, ExpiryIs
<1>5. SameKnowledge(a, b)
  BY <1>3, <1>4 DEF SameKnowledge, Leaves
<1>6. QED
  BY <1>1, <1>2, <1>5

(* Admission, from what it reads.                                          *)
TierSavingOf(pstats, words, c) == Cardinality(pstats[c]) * (Len(c) - 1) - (Len(Pieces(c, words)) + 1)

ScoreOf(pstats, words, c) ==
  TierSavingOf(pstats, words, c) * 32 + Cardinality(pstats[c]) * 8 + Len(c) * 4

FitOf(dict, tier, pstats, cands) ==
  LET words == Expansions(dict)
      raws  == {tier[n].raw : n \in DOMAIN tier}
  IN  {c \in (cands \cap DOMAIN pstats) \ (words \cup raws) :
         /\ Len(Pieces(c, words \cup raws)) > 1
         /\ Cardinality(pstats[c]) >= IF Len(c) = 2 THEN 3 ELSE 2
         /\ Len(Pieces(c, words)) > 1
         /\ TierSavingOf(pstats, words, c) >= 0}

BestFitOf(dict, tier, pstats, cands) ==
  {c \in FitOf(dict, tier, pstats, cands) : \A d \in FitOf(dict, tier, pstats, cands) :
     ScoreOf(pstats, Expansions(dict), d) <= ScoreOf(pstats, Expansions(dict), c)}

LEMMA FitIs ==
  ASSUME NEW p, NEW cands
  PROVE  /\ Fit(p, cands) = FitOf(p.derived, p.provisional, p.pstats, cands)
         /\ BestFit(p, cands) = BestFitOf(p.derived, p.provisional, p.pstats, cands)
<1>1. Fit(p, cands) = FitOf(p.derived, p.provisional, p.pstats, cands)
  BY Zenon DEF Fit, FitOf, Admissible, Raws, TierSaving, TierSavingOf
<1>2. BestFitOf(p.derived, p.provisional, p.pstats, cands) =
        {c \in FitOf(p.derived, p.provisional, p.pstats, cands) :
           \A d \in FitOf(p.derived, p.provisional, p.pstats, cands) :
             Score(p, Expansions(p.derived), d) <= Score(p, Expansions(p.derived), c)}
  BY Zenon DEF BestFitOf, Score, ScoreOf, TierSaving, TierSavingOf
<1>3. QED
  BY <1>1, <1>2, Zenon DEF BestFit

AdmitsNone(p, cands) ==
  Cardinality(DOMAIN p.provisional) >= p.provisional_cap \/ Fit(p, cands) = {}

Newcomer(pstats, clock, c) == [raw |-> c, birth_tasks |-> pstats[c], last_transfer |-> clock]

LEMMA AdmissionIs ==
  ASSUME NEW p, KnowledgeOK(p), NEW cands, NEW c, c = First(BestFit(p, cands))
  PROVE  LET q == Admit(p, cands)
         IN  IF AdmitsNone(p, cands) THEN q = p
             ELSE /\ q.provisional = Put(p.provisional, p.pcounter + 1,
                                         Newcomer(p.pstats, p.struct_step, c))
                  /\ q.pcounter = p.pcounter + 1 /\ q.admitted_total = p.admitted_total + 1
                  /\ q.expired_total = p.expired_total
<1>1. PICK q : q = Admit(p, cands)
  OBVIOUS
<1>2. PICK tier : tier = Put(p.provisional, p.pcounter + 1, Newcomer(p.pstats, p.struct_step, c))
  OBVIOUS
<1>3. IsPlanner(p)
  BY DEF KnowledgeOK
<1>4. q = IF AdmitsNone(p, cands) THEN p ELSE Admitted(p, c)
  BY <1>1, AdmitIs DEF AdmitsNone
<1>5. Admitted(p, c) = [p EXCEPT !.provisional = tier, !.pcounter = p.pcounter + 1,
                                 !.admitted_total = p.admitted_total + 1]
  BY <1>2 DEF Admitted, Newcomer
<1>6. ~AdmitsNone(p, cands) =>
        /\ q.provisional = tier /\ q.pcounter = p.pcounter + 1
        /\ q.admitted_total = p.admitted_total + 1 /\ q.expired_total = p.expired_total
  BY <1>3, <1>4, <1>5 DEF IsPlanner, Fields
<1>7. QED
  BY <1>1, <1>2, <1>4, <1>6

LEMMA AdmissionAgrees ==
  ASSUME NEW p, NEW q, KnowledgeOK(p), KnowledgeOK(q), SameKnowledge(p, q),
         NEW cands, IsFiniteSet(cands), cands \subseteq NonemptySeq
  PROVE  SameKnowledge(Admit(p, cands), Admit(q, cands))
<1>1. PICK a : a = Admit(p, cands)
  OBVIOUS
<1>2. PICK b : b = Admit(q, cands)
  OBVIOUS
<1>3. Leaves(p, a) /\ a.derived = p.derived /\ Leaves(q, b) /\ b.derived = q.derived
  BY <1>1, <1>2, AdmissionKeeps
<1>4. Fit(q, cands) = Fit(p, cands) /\ BestFit(q, cands) = BestFit(p, cands)
  <2>1. /\ Fit(p, cands) = FitOf(p.derived, p.provisional, p.pstats, cands)
        /\ BestFit(p, cands) = BestFitOf(p.derived, p.provisional, p.pstats, cands)
    BY FitIs
  <2>2. /\ Fit(q, cands) = FitOf(q.derived, q.provisional, q.pstats, cands)
        /\ BestFit(q, cands) = BestFitOf(q.derived, q.provisional, q.pstats, cands)
    BY FitIs
  <2>3. QED
    BY <2>1, <2>2 DEF SameKnowledge
<1>5. AdmitsNone(q, cands) <=> AdmitsNone(p, cands)
  BY <1>4 DEF AdmitsNone, SameKnowledge
<1>6. PICK c : c = First(BestFit(p, cands))
  OBVIOUS
<1>7. CASE AdmitsNone(p, cands)
  <2>1. a = p /\ b = q
    BY <1>1, <1>2, <1>5, <1>7, AdmissionIs
  <2>2. QED
    BY <1>1, <1>2, <2>1
<1>8. CASE ~AdmitsNone(p, cands)
  <2>1. /\ a.provisional = Put(p.provisional, p.pcounter + 1, Newcomer(p.pstats, p.struct_step, c))
        /\ a.pcounter = p.pcounter + 1 /\ a.admitted_total = p.admitted_total + 1
        /\ a.expired_total = p.expired_total
    BY <1>1, <1>6, <1>8, AdmissionIs
  <2>2. c = First(BestFit(q, cands)) /\ ~AdmitsNone(q, cands)
    BY <1>4, <1>5, <1>6, <1>8
  <2>3. /\ b.provisional = Put(q.provisional, q.pcounter + 1, Newcomer(q.pstats, q.struct_step, c))
        /\ b.pcounter = q.pcounter + 1 /\ b.admitted_total = q.admitted_total + 1
        /\ b.expired_total = q.expired_total
    BY <1>2, <2>2, AdmissionIs
  <2>4. SameKnowledge(a, b)
    BY <1>3, <2>1, <2>3 DEF SameKnowledge, Leaves
  <2>5. QED
    BY <1>1, <1>2, <2>4
<1>9. QED
  BY <1>7, <1>8

LEMMA TieredAgrees ==
  ASSUME NEW p, NEW q, KnowledgeOK(p), KnowledgeOK(q), SameKnowledge(p, q),
         NEW cands, IsFiniteSet(cands), cands \subseteq NonemptySeq, \A c \in cands : Len(c) \in 2..5
  PROVE  SameKnowledge(Tiered(MaybeGrow(p, cands), cands), Tiered(MaybeGrowLocalized(q, cands), cands))
<1>1. PICK a1, b1 : a1 = MaybeGrow(p, cands) /\ b1 = MaybeGrowLocalized(q, cands)
  OBVIOUS
<1>2. KnowledgeOK(a1) /\ KnowledgeOK(b1)
  BY <1>1, GrowthKeeps
<1>3. SameKnowledge(a1, b1)
  BY <1>1, GrowthAgrees
<1>4. PICK a2, b2 : a2 = RemoveCommittedEquivalents(a1) /\ b2 = RemoveCommittedEquivalents(b1)
  OBVIOUS
<1>5. KnowledgeOK(a2) /\ KnowledgeOK(b2)
  BY <1>2, <1>4, RemovalIs
<1>6. SameKnowledge(a2, b2)
  BY <1>2, <1>3, <1>4, RemovalAgrees
<1>7. PICK a3, b3 : a3 = Admit(a2, cands) /\ b3 = Admit(b2, cands)
  OBVIOUS
<1>8. KnowledgeOK(a3) /\ KnowledgeOK(b3)
  BY <1>5, <1>7, AdmissionKeeps
<1>9. SameKnowledge(a3, b3)
  BY <1>5, <1>6, <1>7, AdmissionAgrees
<1>10. SameKnowledge(Expire(a3), Expire(b3))
  BY <1>8, <1>9, ExpiryAgrees
<1>11. QED
  BY <1>1, <1>4, <1>7, <1>10 DEF Tiered

(* A planner is what it knows, its working set and its queue.              *)
LEMMA SamePlanner ==
  ASSUME NEW p, NEW q, IsPlanner(p), IsPlanner(q), SameKnowledge(p, q),
         q.active = p.active, q.lru = p.lru, q.pending_touched = p.pending_touched,
         q.pending_touched_p = p.pending_touched_p, q.pending_consolidation = p.pending_consolidation
  PROVE  p = q
<1>1. \A f \in Fields : p[f] = q[f]
  BY DEF Fields, SameKnowledge
<1>2. [f \in Fields |-> p[f]] = [f \in Fields |-> q[f]]
  BY <1>1, Zenon
<1>3. QED
  BY <1>2 DEF IsPlanner

LEMMA DeferralAgrees ==
  ASSUME NEW p, KnowledgeOK(p), NEW ep, PlansOps(ep),
         p.pending_touched = {}, p.pending_touched_p = {}, p.pending_consolidation = FALSE
  PROVE  Consolidated(DeferredPlan(p, ep)) = InlinePlan(p, ep)
<1>1. PICK recorded : recorded = Recorded(p, ep)
  OBVIOUS
<1>2. /\ KnowledgeOK(recorded) /\ ep.task \in DOMAIN recorded.history
      /\ recorded.pending_touched = {} /\ recorded.pending_touched_p = {}
      /\ recorded.pending_consolidation = FALSE
  BY <1>1, RecordedIs
<1>3. CASE ~NewEvidence(p, ep)
  <2>1. PICK q : q = Touched(recorded, ep)
    OBVIOUS
  <2>2. DeferredPlan(p, ep) = q /\ InlinePlan(p, ep) = q
    BY <1>1, <1>3, <2>1 DEF DeferredPlan, InlinePlan
  <2>3. q.pending_consolidation = FALSE
    BY <1>2, <2>1, TouchedIs
  <2>4. Consolidated(q) = q
    BY <2>3 DEF Consolidated
  <2>5. QED
    BY <2>2, <2>4
<1>4. CASE NewEvidence(p, ep)
  <2>1. PICK noted : noted = Aged(recorded, ep)
    OBVIOUS
  <2>2. /\ KnowledgeOK(noted) /\ noted.pending_touched = {} /\ noted.pending_touched_p = {}
        /\ noted.pending_consolidation = FALSE
    BY <1>2, <2>1, AgedIs
  <2>3. PICK C : /\ C = Candidates(ep.ops) /\ IsFiniteSet(C) /\ C \subseteq NonemptySeq
                 /\ \A c \in C : Len(c) \in 2..5
    BY CandidatesOf
  <2>4. PICK whole : whole = Tiered(MaybeGrow(noted, C), C)
    OBVIOUS
  <2>5. KnowledgeOK(whole) /\ Leaves(noted, whole)
    BY <2>2, <2>3, <2>4, TieredLeaves
  <2>6. PICK inline : inline = Touched(whole, ep)
    OBVIOUS
  <2>7. InlinePlan(p, ep) = inline
    BY <1>1, <1>4, <2>1, <2>3, <2>4, <2>6 DEF InlinePlan, Tiered
  <2>8. /\ KnowledgeOK(inline) /\ SameKnowledge(whole, inline)
        /\ inline.lru = TouchedLru(whole.lru, whole.active_cap, ep.task)
        /\ inline.active = TouchedActive(whole.active, whole.lru, whole.active_cap, ep)
        /\ inline.pending_touched = whole.pending_touched
        /\ inline.pending_touched_p = whole.pending_touched_p
        /\ inline.pending_consolidation = whole.pending_consolidation
    BY <2>5, <2>6, TouchedIs
  <2>9. PICK b, queued : b = TRUE /\ queued = WithQueue(noted, C, b)
    OBVIOUS
  <2>10. /\ SameKnowledge(noted, queued) /\ queued.active = noted.active /\ queued.lru = noted.lru
         /\ queued.pending_touched = C /\ queued.pending_touched_p = C
         /\ queued.pending_consolidation = b
         /\ QueueOK(queued) => KnowledgeOK(queued)
    <3>1. queued = WithQueue(noted, C, b)
      BY <2>9
    <3>2. QED
      BY <2>2, <3>1, QueueIs
  <2>11. KnowledgeOK(queued)
    BY <2>3, <2>9, <2>10 DEF QueueOK
  <2>12. PICK deferred : deferred = Touched(queued, ep)
    OBVIOUS
  <2>13. DeferredPlan(p, ep) = deferred
    BY <1>1, <1>4, <2>1, <2>3, <2>9, <2>12 DEF DeferredPlan, WithQueue
  <2>14. /\ KnowledgeOK(deferred) /\ SameKnowledge(queued, deferred)
         /\ deferred.lru = TouchedLru(queued.lru, queued.active_cap, ep.task)
         /\ deferred.active = TouchedActive(queued.active, queued.lru, queued.active_cap, ep)
         /\ deferred.pending_touched = C /\ deferred.pending_touched_p = C
         /\ deferred.pending_consolidation = b
    <3>1. deferred.pending_consolidation = queued.pending_consolidation
      BY <2>11, <2>12, TouchedIs
    <3>2. QED
      BY <2>10, <2>11, <2>12, <3>1, TouchedIs
  <2>15. SameKnowledge(noted, deferred)
    BY <2>10, <2>14 DEF SameKnowledge
  <2>16. PICK learned : learned = Tiered(MaybeGrowLocalized(deferred, C), C)
    OBVIOUS
  <2>17. KnowledgeOK(learned) /\ Leaves(deferred, learned)
    BY <2>3, <2>14, <2>16, TieredLeaves
  <2>18. SameKnowledge(whole, learned)
    BY <2>2, <2>3, <2>4, <2>14, <2>15, <2>16, TieredAgrees
  <2>19. PICK e, f, final : e = {} /\ f = FALSE /\ final = WithQueue(learned, e, f)
    OBVIOUS
  <2>20. /\ SameKnowledge(learned, final) /\ final.active = learned.active /\ final.lru = learned.lru
         /\ final.pending_touched = e /\ final.pending_touched_p = e
         /\ final.pending_consolidation = f /\ IsPlanner(final)
    <3>1. final = WithQueue(learned, e, f)
      BY <2>19
    <3>2. QED
      BY <2>17, <3>1, QueueIs
  <2>21. Consolidated(deferred) = final
    BY <2>9, <2>14, <2>16, <2>19 DEF Consolidated, Tiered, WithQueue
  <2>22. SameKnowledge(inline, final)
    BY <2>8, <2>18, <2>20 DEF SameKnowledge
  <2>23. final.active = inline.active /\ final.lru = inline.lru
    <3>1. whole.active = noted.active /\ whole.lru = noted.lru /\ whole.active_cap = noted.active_cap
      BY <2>5 DEF Leaves
    <3>2. queued.active_cap = noted.active_cap
      BY <2>10 DEF SameKnowledge
    <3>3. deferred.active = inline.active /\ deferred.lru = inline.lru
      BY <2>8, <2>10, <2>14, <3>1, <3>2
    <3>4. QED
      BY <2>17, <2>20, <3>3 DEF Leaves
  <2>24. /\ inline.pending_touched = {} /\ inline.pending_touched_p = {}
         /\ inline.pending_consolidation = FALSE
    BY <2>2, <2>5, <2>8 DEF Leaves
  <2>25. inline = final
    BY <2>8, <2>19, <2>20, <2>22, <2>23, <2>24, SamePlanner DEF KnowledgeOK
  <2>26. QED
    BY <2>7, <2>13, <2>21, <2>25
<1>5. QED
  BY <1>3, <1>4

(* To plan now and consolidate behind the execution, rescoring only the    *)
(* users of each candidate, is to learn inside plan with the whole corpus  *)
(* rescored: sd::HybridPlanner::plan and consolidate_pending leave the     *)
(* planner hy::HybridPlanner::plan leaves, field by field, from every      *)
(* planner a program reaches.                                              *)
THEOREM DeferralChangesNothing == Spec => []DeferralIsInvisible
<1>1. RunsInv => DeferralIsInvisible
  <2>1. SUFFICES ASSUME RunsInv, program.kind = "deferred", pc = "plan", next <= Len(Stream)
                 PROVE  Consolidated(DeferredPlan(planner, Current)) = InlinePlan(planner, Current)
    BY DEF DeferralIsInvisible
  <2>2. Len(Stream) \in Nat /\ \A i \in 1..Len(Stream) : PlansOps(Stream[i])
    BY <2>1, StreamIs DEF RunsInv
  <2>3. PlansOps(Current)
    BY <2>1, <2>2 DEF RunsInv, Current
  <2>4. /\ KnowledgeOK(planner) /\ planner.pending_touched = {} /\ planner.pending_touched_p = {}
        /\ planner.pending_consolidation = FALSE
    BY <2>1 DEF RunsInv, Settled
  <2>5. QED
    BY <2>3, <2>4, DeferralAgrees
<1>2. QED
  BY <1>1, RunsAlways, PTL
=============================================================================
