------------------------ MODULE PlannerMemoryProofs ------------------------
(***************************************************************************)
(* Lemmas about the memory both planners keep: whatever Remember stores,   *)
(* its containers go on agreeing.  DrmPlannerProofs and DrmdServeProofs    *)
(* make theorems of their specifications of them.                          *)
(***************************************************************************)
EXTENDS PlannerMemory, VocabularyProofs

(* What is left of an order without its first n entries.                   *)
LEMMA DropProperties ==
  ASSUME NEW s \in Seq(Task), NEW n \in Nat, n <= Len(s)
  PROVE  /\ SubSeq(s, n + 1, Len(s)) \in Seq(Task)
         /\ Len(SubSeq(s, n + 1, Len(s))) = Len(s) - n
         /\ \A i \in 1..(Len(s) - n) : SubSeq(s, n + 1, Len(s))[i] = s[i + n]
OBVIOUS

(* How many entries an order of length n has too many.                     *)
LEMMA ExcessValue ==
  ASSUME NEW n \in Int
  PROVE  Max({0, n}) = IF n > 0 THEN n ELSE 0
BY DEF Max

(* Without cuts a task out of an order that lists it at most once: the     *)
(* rest keep their places relative to each other.                          *)
LEMMA WithoutProperties ==
  ASSUME NEW s \in Seq(Task), NEW task \in Task,
         \A i, j \in DOMAIN s : s[i] = s[j] => i = j
  PROVE  LET w == Without(s, task)
         IN  /\ w \in Seq(Task)
             /\ Len(w) = IF task \in Range(s) THEN Len(s) - 1 ELSE Len(s)
             /\ Range(w) = Range(s) \ {task}
             /\ \A i, j \in DOMAIN w : i < j =>
                  \E k, l \in DOMAIN s : k < l /\ w[i] = s[k] /\ w[j] = s[l]
<1> DEFINE w == Without(s, task)
<1>1. CASE \E i \in DOMAIN s : s[i] = task
  <2>1. PICK i \in DOMAIN s :
          s[i] = task /\ w = SubSeq(s, 1, i - 1) \o SubSeq(s, i + 1, Len(s))
    BY <1>1 DEF Without
  <2> DEFINE p == SubSeq(s, 1, i - 1)
             q == SubSeq(s, i + 1, Len(s))
  <2>2. i \in 1..Len(s) /\ Len(s) \in Nat /\ DOMAIN s = 1..Len(s)
    OBVIOUS
  <2>3. /\ p \in Seq(Task) /\ Len(p) = i - 1
        /\ \A k \in 1..(i - 1) : p[k] = s[k]
    BY <2>2, SubSeqProperties
  <2>4. /\ q \in Seq(Task) /\ Len(q) = Len(s) - i
        /\ \A k \in 1..(Len(s) - i) : q[k] = s[k + i]
    BY <2>2, SubSeqProperties
  <2>5. /\ w \in Seq(Task) /\ Len(w) = Len(s) - 1
        /\ \A k \in 1..(Len(s) - 1) : w[k] = IF k < i THEN s[k] ELSE s[k + 1]
    <3>1. w = p \o q
      BY <2>1
    <3> HIDE DEF w, p, q
    <3>2. /\ w \in Seq(Task) /\ Len(w) = Len(p) + Len(q)
          /\ \A k \in 1..(Len(p) + Len(q)) : w[k] = IF k <= Len(p) THEN p[k] ELSE q[k - Len(p)]
      <4>1. p \in Seq(Task) /\ q \in Seq(Task)
        BY <2>3, <2>4
      <4>2. QED
        BY <3>1, <4>1
    <3>3. Len(p) + Len(q) = Len(s) - 1
      BY <2>2, <2>3, <2>4
    <3>4. ASSUME NEW k \in 1..(Len(s) - 1)
          PROVE  w[k] = IF k < i THEN s[k] ELSE s[k + 1]
      <4>1. CASE k < i
        BY <2>2, <2>3, <3>2, <3>3, <3>4, <4>1
      <4>2. CASE k >= i
        <5>1. w[k] = q[k - (i - 1)] /\ k - (i - 1) \in 1..(Len(s) - i)
          BY SMTT(30), <2>2, <2>3, <3>2, <3>3, <3>4, <4>2
        <5>2. q[k - (i - 1)] = s[k - (i - 1) + i]
          BY <2>4, <5>1
        <5>3. k - (i - 1) + i = k + 1
          BY <2>2, <3>4
        <5>4. QED
          BY <2>2, <4>2, <5>1, <5>2, <5>3
      <4>3. QED
        BY <2>2, <4>1, <4>2
    <3>5. QED
      BY <3>2, <3>3, <3>4
  <2> HIDE DEF w
  <2>6. DOMAIN w = 1..(Len(s) - 1)
    BY <2>5
  <2>7. \A k \in DOMAIN s : k # i => s[k] # task /\ \E l \in DOMAIN w : w[l] = s[k]
    <3>1. SUFFICES ASSUME NEW k \in DOMAIN s, k # i
                   PROVE  s[k] # task /\ \E l \in DOMAIN w : w[l] = s[k]
      OBVIOUS
    <3>2. s[k] # task
      BY <2>1, <3>1
    <3>3. CASE k < i
      BY <2>2, <2>5, <2>6, <3>2, <3>3
    <3>4. CASE k > i
      <4>1. k - 1 \in DOMAIN w /\ w[k - 1] = s[k]
        BY <2>2, <2>5, <2>6, <3>4
      <4>2. QED
        BY <3>2, <4>1
    <3>5. QED
      BY <2>2, <3>1, <3>3, <3>4
  <2>8. \A l \in DOMAIN w : w[l] \in Range(s) \ {task}
    <3>1. SUFFICES ASSUME NEW l \in DOMAIN w
                   PROVE  w[l] \in Range(s) \ {task}
      OBVIOUS
    <3>2. PICK k \in DOMAIN s : k # i /\ w[l] = s[k]
      BY <2>2, <2>5, <2>6
    <3>3. QED
      BY <2>7, <3>2 DEF Range
  <2>9. Range(w) = Range(s) \ {task}
    <3>1. Range(w) \subseteq Range(s) \ {task}
      BY <2>8 DEF Range
    <3>2. ASSUME NEW u \in Range(s) \ {task}
          PROVE  u \in Range(w)
      <4>1. PICK k \in DOMAIN s : u = s[k]
        BY DEF Range
      <4>2. k # i
        BY <2>1, <4>1
      <4>3. QED
        BY <2>7, <4>1, <4>2 DEF Range
    <3>3. QED
      BY <3>1, <3>2
  <2>10. \A k, l \in DOMAIN w : k < l =>
            \E m, n \in DOMAIN s : m < n /\ w[k] = s[m] /\ w[l] = s[n]
    <3>1. SUFFICES ASSUME NEW k \in DOMAIN w, NEW l \in DOMAIN w, k < l
                   PROVE  \E m, n \in DOMAIN s : m < n /\ w[k] = s[m] /\ w[l] = s[n]
      OBVIOUS
    <3> DEFINE from(x) == IF x < i THEN x ELSE x + 1
    <3>2. from(k) \in DOMAIN s /\ from(l) \in DOMAIN s /\ from(k) < from(l)
      BY <2>2, <2>6, <3>1
    <3>3. w[k] = s[from(k)] /\ w[l] = s[from(l)]
      BY <2>5, <2>6
    <3>4. QED
      BY <3>2, <3>3
  <2>11. task \in Range(s)
    BY <2>1 DEF Range
  <2>12. QED
    BY <2>5, <2>9, <2>10, <2>11 DEF w
<1>2. CASE ~\E i \in DOMAIN s : s[i] = task
  <2>1. w = s /\ task \notin Range(s)
    BY <1>2 DEF Without, Range
  <2>2. QED
    BY <2>1
<1>3. QED
  BY <1>1, <1>2

(* The order touch leaves: the task at the recent end, before it the tasks *)
(* that were there in their order, the oldest dropped when they are more   *)
(* than ActiveCap - never more than one, since the order fitted before.    *)
LEMMA TouchProperties ==
  ASSUME NEW ep \in Episode, MemoryTypeOK, LruCoherent, Touch(ep)
  PROVE  \E old \in Seq(Task), excess \in {0, 1} :
           LET pushed == Append(old, ep.task)
           IN  /\ old = Without(lru, ep.task)
               /\ excess = (IF Len(pushed) > ActiveCap THEN 1 ELSE 0)
               /\ Len(pushed) - excess <= ActiveCap
               /\ lru' \in Seq(Task) /\ Len(lru') = Len(pushed) - excess
               /\ \A i \in 1..Len(lru') : lru'[i] = pushed[i + excess]
               /\ DOMAIN active' = (DOMAIN active \cup {ep.task})
                                      \ (IF excess = 1 THEN {pushed[1]} ELSE {})
               /\ \A t \in DOMAIN active' :
                    active'[t] = IF t = ep.task THEN ep.ops ELSE active[t]
<1> DEFINE old    == Without(lru, ep.task)
           pushed == Append(old, ep.task)
           excess == Max({0, Len(pushed) - ActiveCap})
<1>1. ep.task \in Task
  BY DEF Episode
<1>2. old \in Seq(Task) /\ Len(old) <= ActiveCap /\ Len(old) \in Nat
  <2>1. lru \in Seq(Task) /\ (\A i, j \in DOMAIN lru : lru[i] = lru[j] => i = j)
    BY DEF MemoryTypeOK, LruCoherent
  <2>2. old \in Seq(Task) /\ Len(old) = IF ep.task \in Range(lru) THEN Len(lru) - 1 ELSE Len(lru)
    BY <1>1, <2>1, WithoutProperties
  <2>3. Len(lru) \in Nat /\ Len(lru) <= ActiveCap /\ ActiveCap \in Nat
    BY <2>1, ConstantsAssumption DEF LruCoherent
  <2> HIDE DEF old
  <2>4. QED
    BY <2>2, <2>3
<1>3. /\ lru' = SubSeq(pushed, excess + 1, Len(pushed))
      /\ active' = Restrict(Put(active, ep.task, ep.ops),
                           (DOMAIN active \cup {ep.task}) \ {pushed[i] : i \in 1..excess})
  BY DEF Touch
<1> HIDE DEF old
<1>4. pushed \in Seq(Task) /\ Len(pushed) = Len(old) + 1
  BY <1>1, <1>2
<1> HIDE DEF pushed
<1>5. /\ excess \in {0, 1} /\ excess = (IF Len(pushed) > ActiveCap THEN 1 ELSE 0)
      /\ Len(pushed) - excess <= ActiveCap
  BY <1>2, <1>4, ExcessValue, ConstantsAssumption
<1> HIDE DEF excess
<1>6. /\ lru' \in Seq(Task) /\ Len(lru') = Len(pushed) - excess
      /\ \A i \in 1..Len(lru') : lru'[i] = pushed[i + excess]
  <2>1. /\ SubSeq(pushed, excess + 1, Len(pushed)) \in Seq(Task)
        /\ Len(SubSeq(pushed, excess + 1, Len(pushed))) = Len(pushed) - excess
        /\ \A i \in 1..(Len(pushed) - excess) :
             SubSeq(pushed, excess + 1, Len(pushed))[i] = pushed[i + excess]
    <3>1. pushed \in Seq(Task) /\ excess \in Nat /\ excess <= Len(pushed)
      BY <1>2, <1>4, <1>5
    <3>2. QED
      BY <3>1, DropProperties
  <2>2. QED
    BY <1>3, <2>1
<1>7. {pushed[i] : i \in 1..excess} = IF excess = 1 THEN {pushed[1]} ELSE {}
  BY <1>5
<1>8. /\ DOMAIN active' = (DOMAIN active \cup {ep.task})
                             \ (IF excess = 1 THEN {pushed[1]} ELSE {})
      /\ \A t \in DOMAIN active' : active'[t] = IF t = ep.task THEN ep.ops ELSE active[t]
  BY <1>3, <1>7 DEF Put, Restrict
<1>9. QED
  BY <1>2, <1>5, <1>6, <1>8 DEF old, pushed

LEMMA RememberTyped ==
  ASSUME NEW ep \in Episode, MemoryTypeOK, LruCoherent, Remember(ep)
  PROVE  MemoryTypeOK'
<1>1. ep.task \in Task /\ ep.ops \in Ops /\ ep.ops \in Seq(Symbol)
  BY ConstantsAssumption DEF Episode
<1>2. lru' \in Seq(Task) /\ DOMAIN active' \subseteq Task
      /\ \A t \in DOMAIN active' : active'[t] \in Ops
  <2>1. Touch(ep)
    BY DEF Remember
  <2>2. PICK old \in Seq(Task), excess \in {0, 1} :
          /\ lru' \in Seq(Task)
          /\ DOMAIN active' = (DOMAIN active \cup {ep.task})
                                 \ (IF excess = 1 THEN {Append(old, ep.task)[1]} ELSE {})
          /\ \A t \in DOMAIN active' : active'[t] = IF t = ep.task THEN ep.ops ELSE active[t]
    BY <2>1, TouchProperties
  <2>3. QED
    BY <1>1, <2>2 DEF MemoryTypeOK
<1>3. /\ DOMAIN history' = DOMAIN history \cup {ep.task}
      /\ \A t \in DOMAIN history' : history'[t] = IF t = ep.task THEN ep.ops ELSE history[t]
  BY DEF Remember, Put
<1>4. /\ DOMAIN history_version' = DOMAIN history_version \cup {ep.task}
      /\ \A t \in DOMAIN history_version' :
           history_version'[t] = IF t = ep.task THEN version + 1 ELSE history_version[t]
      /\ version \in Nat /\ version' = version + 1
  BY DEF Remember, Put, MemoryTypeOK
<1>5. subseq_users' \subseteq Seq(Symbol) \X Task
  BY <1>1, CandidateType DEF Remember, MemoryTypeOK
<1>6. /\ DOMAIN history' \subseteq Task /\ \A t \in DOMAIN history' : history'[t] \in Ops
      /\ DOMAIN history_version' = DOMAIN history'
  BY <1>1, <1>3, <1>4 DEF MemoryTypeOK
<1>7. \A t \in DOMAIN history' : history_version'[t] \in 1..version'
  BY <1>3, <1>4 DEF MemoryTypeOK
<1>8. QED
  BY <1>2, <1>4, <1>5, <1>6, <1>7 DEF MemoryTypeOK

LEMMA RememberCoherent ==
  ASSUME NEW ep \in Episode, MemoryTypeOK, LruCoherent, Remember(ep)
  PROVE  LruCoherent'
<1>1. ep.task \in Task /\ Touch(ep) /\ lru \in Seq(Task)
      /\ \A i, j \in DOMAIN lru : lru[i] = lru[j] => i = j
  BY DEF Episode, Remember, MemoryTypeOK, LruCoherent
<1>2. PICK old \in Seq(Task), excess \in {0, 1} :
        /\ old = Without(lru, ep.task)
        /\ excess = (IF Len(Append(old, ep.task)) > ActiveCap THEN 1 ELSE 0)
        /\ Len(Append(old, ep.task)) - excess <= ActiveCap
        /\ lru' \in Seq(Task) /\ Len(lru') = Len(Append(old, ep.task)) - excess
        /\ \A i \in 1..Len(lru') : lru'[i] = Append(old, ep.task)[i + excess]
        /\ DOMAIN active' = (DOMAIN active \cup {ep.task})
                               \ (IF excess = 1 THEN {Append(old, ep.task)[1]} ELSE {})
  BY <1>1, TouchProperties
<1> DEFINE pushed == Append(old, ep.task)
<1>3. /\ Range(old) = Range(lru) \ {ep.task}
      /\ \A i, j \in DOMAIN old : i < j =>
            \E k, l \in DOMAIN lru : k < l /\ old[i] = lru[k] /\ old[j] = lru[l]
  BY <1>1, <1>2, WithoutProperties
<1>4. \A i, j \in DOMAIN old : old[i] = old[j] => i = j
  <2>1. SUFFICES ASSUME NEW i \in DOMAIN old, NEW j \in DOMAIN old, i < j, old[i] = old[j]
                 PROVE  FALSE
    BY <1>2
  <2>2. PICK k, l \in DOMAIN lru : k < l /\ old[i] = lru[k] /\ old[j] = lru[l]
    BY <1>3, <2>1
  <2>3. k = l
    BY <1>1, <2>1, <2>2
  <2>4. QED
    BY <1>1, <2>2, <2>3
<1>5. /\ pushed \in Seq(Task) /\ Len(pushed) = Len(old) + 1
      /\ \A i \in 1..Len(old) : pushed[i] = old[i]
      /\ pushed[Len(old) + 1] = ep.task /\ Len(old) \in Nat
      /\ DOMAIN old = 1..Len(old) /\ DOMAIN lru' = 1..Len(lru')
  BY <1>1, <1>2
<1> HIDE DEF pushed
<1>6. \A i, j \in 1..Len(pushed) : pushed[i] = pushed[j] => i = j
  <2>1. \A i \in 1..Len(old) : pushed[i] # ep.task
    <3>1. \A i \in DOMAIN old : old[i] \in Range(old)
      BY DEF Range
    <3>2. QED
      BY <1>3, <1>5, <3>1
  <2>2. \A i, j \in 1..Len(old) : pushed[i] = pushed[j] => i = j
    BY <1>4, <1>5
  <2>3. \A i \in 1..Len(pushed) : i \in 1..Len(old) \/ i = Len(old) + 1
    BY <1>5
  <2>4. QED
    BY <1>5, <2>1, <2>2, <2>3
<1>7. \A i, j \in DOMAIN lru' : lru'[i] = lru'[j] => i = j
  <2>1. Len(lru') = Len(pushed) - excess /\ \A i \in 1..Len(lru') : lru'[i] = pushed[i + excess]
    BY <1>2 DEF pushed
  <2>2. \A i \in 1..Len(lru') : i + excess \in 1..Len(pushed)
    BY <1>2, <1>5, <2>1
  <2>3. ASSUME NEW i \in 1..Len(lru'), NEW j \in 1..Len(lru'), lru'[i] = lru'[j]
        PROVE  i = j
    <3>1. i + excess = j + excess
      BY <1>6, <2>1, <2>2, <2>3
    <3>2. QED
      BY <3>1
  <2>4. QED
    BY <1>5, <2>3
<1>8. Range(lru') = DOMAIN active'
  <2>1. Range(lru') = {pushed[i] : i \in (1 + excess)..Len(pushed)}
    <3>1. Len(lru') = Len(pushed) - excess /\ \A i \in 1..Len(lru') : lru'[i] = pushed[i + excess]
      BY <1>2 DEF pushed
    <3>2. \A i \in (1 + excess)..Len(pushed) : i - excess \in 1..Len(lru')
                                             /\ lru'[i - excess] = pushed[i]
      <4>1. CASE excess = 0
        BY <1>5, <3>1, <4>1
      <4>2. CASE excess = 1
        <5>1. \A i \in 2..Len(pushed) : i - 1 \in 1..(Len(pushed) - 1) /\ (i - 1) + 1 = i
          BY <1>5
        <5>2. QED
          BY <3>1, <4>2, <5>1
      <4>3. QED
        BY <4>1, <4>2
    <3>3. \A i \in 1..Len(lru') : i + excess \in (1 + excess)..Len(pushed)
      BY <1>2, <1>5, <3>1
    <3>4. DOMAIN lru' = 1..Len(lru')
      BY <1>2
    <3>5. QED
      BY <3>1, <3>2, <3>3, <3>4 DEF Range
  <2>2. {pushed[i] : i \in 1..Len(pushed)} = DOMAIN active \cup {ep.task}
    <3>1. Range(lru) = DOMAIN active
      BY DEF LruCoherent
    <3>2. Range(old) = {pushed[i] : i \in 1..Len(old)}
      BY <1>5 DEF Range
    <3>3. {pushed[i] : i \in 1..Len(pushed)} = {pushed[i] : i \in 1..Len(old)} \cup {ep.task}
      BY <1>5
    <3>4. QED
      BY <1>3, <3>1, <3>2, <3>3
  <2>3. {pushed[i] : i \in (1 + excess)..Len(pushed)}
          = {pushed[i] : i \in 1..Len(pushed)} \ (IF excess = 1 THEN {pushed[1]} ELSE {})
    <3>1. CASE excess = 0
      BY <3>1
    <3>2. CASE excess = 1
      <4>1. \A i \in 2..Len(pushed) : i \in 1..Len(pushed) /\ pushed[i] # pushed[1]
        BY <1>5, <1>6
      <4>2. \A i \in 1..Len(pushed) : pushed[i] # pushed[1] => i \in 2..Len(pushed)
        BY <1>5
      <4>3. QED
        BY <3>2, <4>1, <4>2
    <3>3. QED
      BY <3>1, <3>2
  <2>4. QED
    BY <1>2, <2>1, <2>2, <2>3 DEF pushed
<1>9. Len(lru') <= ActiveCap
  BY <1>2
<1>10. QED
  BY <1>7, <1>8, <1>9 DEF LruCoherent

LEMMA RememberCaches ==
  ASSUME NEW ep \in Episode, MemoryTypeOK, LruCoherent, ActiveIsHistory, Remember(ep)
  PROVE  ActiveIsHistory'
<1>1. Touch(ep)
  BY DEF Remember
<1>2. /\ DOMAIN active' \subseteq DOMAIN active \cup {ep.task}
      /\ \A t \in DOMAIN active' : active'[t] = IF t = ep.task THEN ep.ops ELSE active[t]
  <2>1. PICK old \in Seq(Task), excess \in {0, 1} :
          /\ DOMAIN active' = (DOMAIN active \cup {ep.task})
                                 \ (IF excess = 1 THEN {Append(old, ep.task)[1]} ELSE {})
          /\ \A t \in DOMAIN active' : active'[t] = IF t = ep.task THEN ep.ops ELSE active[t]
    BY <1>1, TouchProperties
  <2>2. QED
    BY <2>1
<1>3. /\ DOMAIN history' = DOMAIN history \cup {ep.task}
      /\ \A t \in DOMAIN history' : history'[t] = IF t = ep.task THEN ep.ops ELSE history[t]
  BY DEF Remember, Put
<1>4. QED
  BY <1>2, <1>3 DEF ActiveIsHistory

(* A drifted task keeps the users entries of what it was before, and that  *)
(* does no harm: only what history holds now must be there.                *)
LEMMA RememberEvidence ==
  ASSUME NEW ep \in Episode, EvidenceComplete, Remember(ep)
  PROVE  EvidenceComplete'
<1>1. /\ DOMAIN history' = DOMAIN history \cup {ep.task}
      /\ \A t \in DOMAIN history' : history'[t] = IF t = ep.task THEN ep.ops ELSE history[t]
  BY DEF Remember, Put
<1>2. subseq_users \subseteq subseq_users'
  BY DEF Remember
<1>3. \A c \in Candidates(ep.ops) : <<c, ep.task>> \in subseq_users'
  <2>1. CASE NewEvidence(ep)
    BY <2>1 DEF Remember
  <2>2. CASE ~NewEvidence(ep)
    BY <1>2, <2>2 DEF NewEvidence, EvidenceComplete
  <2>3. QED
    BY <2>1, <2>2
<1>4. QED
  BY <1>1, <1>2, <1>3 DEF EvidenceComplete

LEMMA RememberRecent ==
  ASSUME NEW ep \in Episode, MemoryTypeOK, LruCoherent, ActiveIsHistory, LruIsMostRecent,
         Remember(ep)
  PROVE  LruIsMostRecent'
<1>1. ep.task \in Task /\ Touch(ep) /\ lru \in Seq(Task)
      /\ (\A i, j \in DOMAIN lru : lru[i] = lru[j] => i = j)
      /\ Len(lru) <= ActiveCap /\ ActiveCap \in Nat
  BY ConstantsAssumption DEF Episode, Remember, MemoryTypeOK, LruCoherent
<1>2. PICK old \in Seq(Task), excess \in {0, 1} :
        /\ old = Without(lru, ep.task)
        /\ excess = (IF Len(Append(old, ep.task)) > ActiveCap THEN 1 ELSE 0)
        /\ Len(Append(old, ep.task)) - excess <= ActiveCap
        /\ lru' \in Seq(Task) /\ Len(lru') = Len(Append(old, ep.task)) - excess
        /\ \A i \in 1..Len(lru') : lru'[i] = Append(old, ep.task)[i + excess]
        /\ DOMAIN active' = (DOMAIN active \cup {ep.task})
                               \ (IF excess = 1 THEN {Append(old, ep.task)[1]} ELSE {})
  BY <1>1, TouchProperties
<1> DEFINE pushed == Append(old, ep.task)
           stamp(t) == IF t = ep.task THEN version + 1 ELSE history_version[t]
<1>3. /\ Len(old) = IF ep.task \in Range(lru) THEN Len(lru) - 1 ELSE Len(lru)
      /\ Range(old) = Range(lru) \ {ep.task}
      /\ \A i, j \in DOMAIN old : i < j =>
            \E k, l \in DOMAIN lru : k < l /\ old[i] = lru[k] /\ old[j] = lru[l]
  BY SMTT(30), <1>1, <1>2, WithoutProperties
<1>4. /\ pushed \in Seq(Task) /\ Len(pushed) = Len(old) + 1
      /\ \A i \in 1..Len(old) : pushed[i] = old[i]
      /\ pushed[Len(old) + 1] = ep.task /\ Len(old) \in Nat /\ Len(lru) \in Nat
      /\ DOMAIN old = 1..Len(old) /\ DOMAIN lru' = 1..Len(lru')
  BY <1>1, <1>2
<1>5. /\ excess = (IF Len(pushed) > ActiveCap THEN 1 ELSE 0)
      /\ Len(lru') = Len(pushed) - excess /\ Len(lru') <= ActiveCap
      /\ \A i \in 1..Len(lru') : lru'[i] = pushed[i + excess]
      /\ DOMAIN active' = (DOMAIN active \cup {ep.task})
                             \ (IF excess = 1 THEN {pushed[1]} ELSE {})
  BY <1>2
<1> HIDE DEF pushed
<1>6. /\ DOMAIN history' = DOMAIN history \cup {ep.task}
      /\ \A t \in DOMAIN history' : history_version'[t] = stamp(t)
      /\ version \in Nat /\ \A t \in DOMAIN history : history_version[t] \in 1..version
  BY DEF Remember, Put, MemoryTypeOK
(* The tasks the order kept were all stored before this episode.           *)
<1>7. \A i \in 1..Len(old) : /\ old[i] # ep.task /\ old[i] \in DOMAIN history
                             /\ \E k \in DOMAIN lru : old[i] = lru[k]
  <2>1. \A i \in DOMAIN old : old[i] \in Range(old)
    BY DEF Range
  <2>2. Range(lru) \subseteq DOMAIN history
    BY DEF LruCoherent, ActiveIsHistory
  <2>3. QED
    BY <1>3, <1>4, <2>1, <2>2 DEF Range
(* The stamps grow along the order before the excess is dropped.           *)
<1>8. \A i, j \in 1..Len(pushed) : i < j => stamp(pushed[i]) < stamp(pushed[j])
  <2>1. SUFFICES ASSUME NEW i \in 1..Len(pushed), NEW j \in 1..Len(pushed), i < j
                 PROVE  stamp(pushed[i]) < stamp(pushed[j])
    OBVIOUS
  <2>2. i \in 1..Len(old) /\ pushed[i] = old[i] /\ old[i] # ep.task /\ old[i] \in DOMAIN history
    BY <1>4, <1>7, <2>1
  <2>3. CASE j = Len(old) + 1
    BY <1>4, <1>6, <2>2, <2>3
  <2>4. CASE j \in 1..Len(old)
    <3>1. PICK k, l \in DOMAIN lru : k < l /\ old[i] = lru[k] /\ old[j] = lru[l]
      <4>1. i \in DOMAIN old /\ j \in DOMAIN old
        BY <1>4, <2>2, <2>4
      <4>2. QED
        BY <1>3, <2>1, <4>1
    <3>2. history_version[old[i]] < history_version[old[j]]
      BY <3>1 DEF LruIsMostRecent
    <3>3. QED
      BY <1>4, <1>7, <2>2, <2>4, <3>2
  <2>5. QED
    BY <1>4, <2>1, <2>3, <2>4
<1> HIDE DEF stamp
<1>9. \A i \in 1..Len(lru') : /\ i + excess \in 1..Len(pushed)
                              /\ lru'[i] = pushed[i + excess]
                              /\ pushed[i + excess] \in DOMAIN history'
  <2>1. \A i \in 1..Len(pushed) : pushed[i] \in DOMAIN history'
    <3>1. \A i \in 1..Len(pushed) : i \in 1..Len(old) \/ i = Len(old) + 1
      BY <1>4
    <3>2. QED
      BY <1>4, <1>6, <1>7, <3>1
  <2>2. QED
    BY <1>4, <1>5, <2>1
<1>10. \A i, j \in DOMAIN lru' : i < j => history_version'[lru'[i]] < history_version'[lru'[j]]
  <2>1. SUFFICES ASSUME NEW i \in 1..Len(lru'), NEW j \in 1..Len(lru'), i < j
                 PROVE  history_version'[lru'[i]] < history_version'[lru'[j]]
    BY <1>4
  <2>2. i + excess < j + excess
    BY <2>1
  <2>3. QED
    BY SMTT(30), <1>6, <1>8, <1>9, <2>2
<1>11. ASSUME NEW t \in DOMAIN history' \ DOMAIN active'
       PROVE  /\ Len(lru') = ActiveCap
              /\ \A i \in DOMAIN lru' : history_version'[t] < history_version'[lru'[i]]
  <2>1. CASE excess = 1 /\ t = pushed[1]
    <3>1. Len(lru') = ActiveCap
      BY <1>1, <1>4, <1>5, <2>1
    <3>2. \A i \in 1..Len(lru') : stamp(t) < stamp(lru'[i])
      <4>1. \A i \in 1..Len(lru') : 1 < i + 1 /\ 1 \in 1..Len(pushed)
        BY <1>4
      <4>2. QED
        BY <1>8, <1>9, <2>1, <4>1
    <3>3. QED
      BY <1>4, <1>6, <1>9, <3>1, <3>2
  <2>2. CASE ~(excess = 1 /\ t = pushed[1])
    <3>1. t \in DOMAIN history \ DOMAIN active /\ t # ep.task
      BY <1>5, <1>6, <2>2
    <3>2. Len(lru) = ActiveCap /\ \A i \in DOMAIN lru : history_version[t] < history_version[lru[i]]
      BY <3>1 DEF LruIsMostRecent
    <3>3. Len(lru') = ActiveCap
      BY <1>1, <1>3, <1>4, <1>5, <3>2
    <3>4. stamp(t) = history_version[t] /\ stamp(t) < version + 1
      BY <1>6, <3>1 DEF stamp
    <3>5. \A j \in 1..Len(pushed) : stamp(t) < stamp(pushed[j])
      <4>1. \A j \in 1..Len(old) : stamp(t) < stamp(old[j])
        BY <1>7, <3>2, <3>4 DEF stamp
      <4>2. stamp(t) < stamp(ep.task)
        BY <3>4 DEF stamp
      <4>3. \A j \in 1..Len(pushed) : j \in 1..Len(old) \/ j = Len(old) + 1
        BY <1>4
      <4>4. QED
        BY <1>4, <4>1, <4>2, <4>3
    <3>6. \A i \in 1..Len(lru') : stamp(t) < stamp(lru'[i])
      BY <1>9, <3>5
    <3>7. /\ history_version'[t] = stamp(t)
          /\ \A i \in 1..Len(lru') : history_version'[lru'[i]] = stamp(lru'[i])
      BY <1>6, <1>9
    <3>8. QED
      BY <1>4, <3>3, <3>6, <3>7
  <2>3. QED
    BY <2>1, <2>2
<1>12. QED
  BY <1>10, <1>11 DEF LruIsMostRecent

----------------------------------------------------------------------------
(* The invariant of the memory.  Each part is needed by the next: order    *)
(* and working set agree, so eviction by order is eviction by age.         *)

MemoryInv ==
  /\ MemoryTypeOK
  /\ LruCoherent
  /\ ActiveIsHistory
  /\ LruIsMostRecent
  /\ EvidenceComplete
  /\ IsFiniteSet(DOMAIN history)

LEMMA MemoryInitially == MemoryInit => MemoryInv
<1> SUFFICES ASSUME MemoryInit PROVE MemoryInv
  OBVIOUS
<1>1. IsFiniteSet({})
  BY FS_EmptySet
<1>2. Range(<<>>) = {} /\ ActiveCap \in Nat
  BY ConstantsAssumption DEF Range
<1>3. QED
  BY <1>1, <1>2 DEF MemoryInit, MemoryInv, MemoryTypeOK, LruCoherent, ActiveIsHistory,
                    LruIsMostRecent, EvidenceComplete

LEMMA RememberKeeps ==
  ASSUME NEW ep \in Episode, MemoryInv, Remember(ep)
  PROVE  MemoryInv'
<1>1. IsFiniteSet(DOMAIN history')
  <2>1. DOMAIN history' = DOMAIN history \cup {ep.task}
    BY DEF Remember, Put
  <2>2. QED
    BY <2>1, FS_AddElement DEF MemoryInv
<1>2. QED
  BY <1>1, RememberTyped, RememberCoherent, RememberCaches, RememberRecent, RememberEvidence
  DEF MemoryInv

LEMMA MemoryUntouched ==
  ASSUME MemoryInv, UNCHANGED memoryVars
  PROVE  MemoryInv'
BY DEF MemoryInv, memoryVars, MemoryTypeOK, LruCoherent, ActiveIsHistory, LruIsMostRecent,
       EvidenceComplete

----------------------------------------------------------------------------
(* The refinement: eviction by order computes the most recent tasks.       *)

(* The entries of the order behind place i are as many as their places.    *)
LEMMA EntriesAfter ==
  ASSUME LruCoherent, lru \in Seq(Task), NEW i \in 0..Len(lru)
  PROVE  /\ IsFiniteSet({lru[j] : j \in (i + 1)..Len(lru)})
         /\ Cardinality({lru[j] : j \in (i + 1)..Len(lru)}) = Len(lru) - i
<1> DEFINE S == (i + 1)..Len(lru)
           T == {lru[j] : j \in S}
           f == [j \in S |-> lru[j]]
<1>1. IsFiniteSet(S) /\ Cardinality(S) = Len(lru) - i
  <2>1. i + 1 \in Int /\ Len(lru) \in Int /\ i <= Len(lru)
    OBVIOUS
  <2>2. IsFiniteSet(S) /\ Cardinality(S) = IF i + 1 > Len(lru) THEN 0 ELSE Len(lru) - (i + 1) + 1
    BY <2>1, FS_Interval
  <2>3. QED
    BY <2>1, <2>2
<1>2. \A j, k \in S : lru[j] = lru[k] => j = k
  BY DEF LruCoherent
<1>3. f \in Bijection(S, T)
  BY <1>2 DEF Bijection, Injection, Surjection, IsInjective
<1>4. IsFiniteSet(T) /\ Cardinality(T) = Cardinality(S)
  BY <1>1, <1>3, FS_Bijection DEF ExistsBijection
<1>5. QED
  BY <1>1, <1>4

(* The instance counts as this module does.                                *)
LEMMA SameCount == \A S : Recency!Cardinality(S) = Cardinality(S)
BY DEF Recency!Cardinality, Cardinality

(* The working set is what the abstract one would have at hand.            *)
AtHand == Recency!MostRecent(history_version) = DOMAIN active

LEMMA AtHandIsMostRecent == MemoryInv => AtHand
<1> SUFFICES ASSUME MemoryInv
             PROVE  Recency!MostRecent(history_version) = DOMAIN active
  BY DEF AtHand
<1>1. /\ lru \in Seq(Task) /\ Len(lru) \in Nat /\ DOMAIN lru = 1..Len(lru)
      /\ Len(lru) <= ActiveCap /\ ActiveCap \in Nat
      /\ Range(lru) = DOMAIN active /\ DOMAIN active \subseteq DOMAIN history
      /\ DOMAIN history_version = DOMAIN history /\ IsFiniteSet(DOMAIN history)
      /\ \A t \in DOMAIN history : history_version[t] \in Int
  BY ConstantsAssumption DEF MemoryInv, MemoryTypeOK, LruCoherent, ActiveIsHistory
<1> DEFINE newer(t) == {u \in DOMAIN history_version : history_version[u] > history_version[t]}
<1>2. \A t \in DOMAIN history : Recency!Newer(history_version, t) = newer(t)
  BY DEF Recency!Newer
<1>3. ASSUME NEW t \in DOMAIN active
      PROVE  Cardinality(newer(t)) < ActiveCap
  <2>1. PICK i \in DOMAIN lru : lru[i] = t
    BY <1>1 DEF Range
  <2>2. newer(t) \subseteq {lru[j] : j \in (i + 1)..Len(lru)}
    <3>1. SUFFICES ASSUME NEW u \in newer(t)
                   PROVE  \E j \in (i + 1)..Len(lru) : u = lru[j]
      OBVIOUS
    <3>2. u \in DOMAIN active
      <4>1. CASE u \in DOMAIN history \ DOMAIN active
        <5>1. history_version[u] < history_version[lru[i]]
          BY <4>1 DEF MemoryInv, LruIsMostRecent
        <5>2. QED
          BY <1>1, <2>1, <3>1, <5>1
      <4>2. QED
        BY <1>1, <3>1, <4>1
    <3>3. PICK j \in DOMAIN lru : lru[j] = u
      BY <1>1, <3>2 DEF Range
    <3>4. ~(j < i)
      <4>1. j < i => history_version[lru[j]] < history_version[lru[i]]
        BY DEF MemoryInv, LruIsMostRecent
      <4>2. history_version[u] > history_version[t]
        BY <3>1
      <4>3. history_version[u] \in Int /\ history_version[t] \in Int
        BY <1>1, <3>2
      <4>4. QED
        BY <2>1, <3>3, <4>1, <4>2, <4>3
    <3>5. j # i
      <4>1. history_version[u] > history_version[t] /\ history_version[t] \in Int
        BY <1>1, <3>1
      <4>2. QED
        BY <2>1, <3>3, <4>1
    <3>6. QED
      BY <1>1, <3>3, <3>4, <3>5
  <2>3. /\ IsFiniteSet({lru[j] : j \in (i + 1)..Len(lru)})
        /\ Cardinality({lru[j] : j \in (i + 1)..Len(lru)}) = Len(lru) - i
    BY <1>1, EntriesAfter DEF MemoryInv
  <2>4. Cardinality(newer(t)) <= Len(lru) - i /\ Cardinality(newer(t)) \in Nat
    BY <2>2, <2>3, FS_Subset, FS_CardinalityType
  <2>5. QED
    BY <1>1, <2>4
<1>4. ASSUME NEW t \in DOMAIN history \ DOMAIN active
      PROVE  ~(Cardinality(newer(t)) < ActiveCap)
  <2>1. Len(lru) = ActiveCap /\ \A i \in DOMAIN lru : history_version[t] < history_version[lru[i]]
    BY DEF MemoryInv, LruIsMostRecent
  <2>2. {lru[j] : j \in (0 + 1)..Len(lru)} \subseteq newer(t)
    <3>1. SUFFICES ASSUME NEW j \in DOMAIN lru
                   PROVE  lru[j] \in newer(t)
      BY <1>1
    <3>2. lru[j] \in DOMAIN history
      BY <1>1 DEF Range
    <3>3. QED
      BY <1>1, <2>1, <3>2
  <2>3. Cardinality({lru[j] : j \in (0 + 1)..Len(lru)}) = Len(lru) - 0
    <3>1. 0 \in 0..Len(lru) /\ LruCoherent
      BY <1>1 DEF MemoryInv
    <3>2. QED
      BY <1>1, <3>1, EntriesAfter
  <2>4. IsFiniteSet(newer(t))
    BY <1>1, FS_Subset
  <2>5. Len(lru) <= Cardinality(newer(t)) /\ Cardinality(newer(t)) \in Nat
    BY <1>1, <2>2, <2>3, <2>4, FS_Subset, FS_CardinalityType
  <2>6. QED
    BY <1>1, <2>1, <2>5
<1> HIDE DEF newer
<1>5. Recency!MostRecent(history_version)
        = {t \in DOMAIN history_version : Cardinality(newer(t)) < ActiveCap}
  BY <1>1, <1>2, SameCount DEF Recency!MostRecent
<1>6. QED
  BY <1>1, <1>3, <1>4, <1>5

(* Storing an episode is storing its sequence in the abstract working set. *)
LEMMA RememberStores ==
  ASSUME NEW ep \in Episode, MemoryInv, Remember(ep)
  PROVE  Recency!Next
<1>1. ep.task \in Task /\ ep.ops \in Ops
  BY DEF Episode
<1>2. MemoryInv'
  BY RememberKeeps
<1>3. Recency!MostRecent(history_version') = DOMAIN active'
  <2>1. AtHand'
    BY <1>2, AtHandIsMostRecent, PTL
  <2>2. QED
    BY <2>1 DEF AtHand, Recency!MostRecent, Recency!Newer
<1>4. active' = [t \in DOMAIN active' |-> history'[t]]
  <2>1. active' = [t \in DOMAIN active' |-> active'[t]]
    BY DEF Remember, Touch, Restrict
  <2>2. \A t \in DOMAIN active' : active'[t] = history'[t]
    BY <1>2 DEF MemoryInv, ActiveIsHistory
  <2>3. QED
    BY <2>1, <2>2
<1>5. Recency!Store(ep.task, ep.ops)
  BY <1>3, <1>4 DEF Recency!Store, Remember, Put
<1>6. QED
  BY <1>1, <1>5 DEF Recency!Next
----------------------------------------------------------------------------
(* The repair.                                                             *)

LEMMA RepairAlwaysLeast ==
  ASSUME MemoryTypeOK
  PROVE  RepairIsLeast
<1>1. SUFFICES ASSUME NEW t \in DOMAIN history, NEW new \in Ops
               PROVE  LET old == history[t]
                          Kept(p, q) ==
                            /\ p + q <= Min({Len(old), Len(new)})
                            /\ SubSeq(old, 1, p) = SubSeq(new, 1, p)
                            /\ SubSeq(old, Len(old) - q + 1, Len(old))
                                 = SubSeq(new, Len(new) - q + 1, Len(new))
                          middles == {Len(new) - (x[1] + x[2]) :
                                        x \in {y \in (0..Len(new)) \X (0..Len(new)) :
                                                 Kept(y[1], y[2])}}
                      IN  Len(DiffMiddle(old, new)) = Min(middles)
  BY DEF RepairIsLeast
<1> DEFINE old == history[t]
           Kept(p, q) ==
             /\ p + q <= Min({Len(old), Len(new)})
             /\ SubSeq(old, 1, p) = SubSeq(new, 1, p)
             /\ SameEnd(old, new, q)
           Ways == {y \in (0..Len(new)) \X (0..Len(new)) : Kept(y[1], y[2])}
           middles == {Len(new) - (x[1] + x[2]) : x \in Ways}
<1>2. old \in Seq(Symbol) /\ new \in Seq(Symbol)
  BY ConstantsAssumption DEF MemoryTypeOK
<1>3. PICK n : n = Len(new)
  OBVIOUS
<1>4. n \in Nat
  BY <1>2, <1>3
<1>5. PICK p \in 0..n, q \in 0..n :
        /\ Kept(p, q)
        /\ Len(DiffMiddle(old, new)) = n - (p + q)
        /\ n - (p + q) \in Nat
        /\ \A x \in 0..n, y \in 0..n : Kept(x, y) => x + y <= p + q
  <2>1. \E p \in 0..n, q \in 0..n :
           /\ p + q <= Min({Len(old), n})
           /\ SubSeq(old, 1, p) = SubSeq(new, 1, p) /\ SameEnd(old, new, q)
           /\ Len(DiffMiddle(old, new)) = n - (p + q)
           /\ n - (p + q) \in Nat
           /\ \A x \in 0..n, y \in 0..n :
                /\ x + y <= Min({Len(old), n})
                /\ SubSeq(old, 1, x) = SubSeq(new, 1, x)
                /\ SameEnd(old, new, y)
                => x + y <= p + q
    <3> HIDE DEF old
    <3> QED
      BY Zenon, <1>2, <1>3, MiddleIsLeast
  <2> HIDE DEF old
  <2>2. QED
    BY Zenon, <1>3, <2>1
<1> HIDE DEF Kept
<1>6. \A x \in Ways : x[1] \in 0..n /\ x[2] \in 0..n /\ Kept(x[1], x[2])
  BY <1>3
<1>7. <<p, q>> \in Ways
  BY <1>3, <1>5
<1> HIDE DEF Ways
<1>8. n - (p + q) \in middles
  <2>1. <<p, q>>[1] = p /\ <<p, q>>[2] = q
    OBVIOUS
  <2>2. QED
    BY <1>3, <1>7, <2>1
<1>9. \A m \in middles : m \in Int /\ n - (p + q) <= m
  <2>1. SUFFICES ASSUME NEW x \in Ways
                 PROVE  n - (x[1] + x[2]) \in Int /\ n - (p + q) <= n - (x[1] + x[2])
    BY <1>3
  <2>2. x[1] \in 0..n /\ x[2] \in 0..n /\ x[1] + x[2] <= p + q
    BY <1>5, <1>6
  <2>3. QED
    BY <1>4, <1>5, <2>2
<1>10. middles \subseteq Nat
  <2>1. \A m \in Int : n - (p + q) <= m => m \in Nat
    BY <1>4, <1>5
  <2> HIDE DEF middles
  <2>2. QED
    BY <1>9, <2>1
<1> HIDE DEF middles
<1>11. Min(middles) = n - (p + q)
  BY <1>5, <1>8, <1>9, <1>10, MinIs
<1>12. Len(DiffMiddle(old, new)) = Min(middles)
  BY <1>5, <1>11
<1>13. QED
  BY <1>12 DEF middles, Ways, Kept, SameEnd
----------------------------------------------------------------------------
(* Growth.                                                                 *)

(* What growth may leave: the dictionary, or the dictionary and one word   *)
(* for an eligible candidate worth it.                                     *)
LEMMA GrownIs ==
  ASSUME NEW used, NEW gain, NEW grown \in Grown(used, gain)
  PROVE  \/ grown = derived
         \/ \E c \in DOMAIN gain : /\ Eligible(used, c)
                                   /\ gain[c] >= MdlThreshold
                                   /\ grown = Append(derived, Compress(derived, c))
<1> DEFINE key == [c \in {d \in DOMAIN gain : Eligible(used, d)} |->
                     <<gain[c], Cardinality(Users(used, c)), Len(c)>>]
           worth == {c \in DOMAIN key : key[c][1] >= MdlThreshold}
           best == {c \in worth : \A d \in worth : ~KeyBelow(key[c], key[d])}
<1>1. \A c \in worth : c \in DOMAIN gain /\ Eligible(used, c) /\ gain[c] >= MdlThreshold
  OBVIOUS
<1> HIDE DEF worth
<1>2. grown \in IF worth = {} THEN {derived}
                ELSE {Append(derived, Compress(derived, c)) : c \in best}
  BY DEF Grown, worth
<1>3. QED
  BY <1>1, <1>2

(* The instance compresses and expands as this module does.                *)
LEMMA SameVocabulary ==
  /\ \A s : Growth!Candidates(s) = Candidates(s)
  /\ \A d : Growth!Expansions(d) = Expansions(d)
  /\ \A d, s : Growth!Compress(d, s) = Compress(d, s)
<1>1. \A s : Growth!Candidates(s) = Candidates(s)
  BY DEF Growth!Candidates, Candidates, Growth!MinCandidate, MinCandidate,
         Growth!MaxCandidate, MaxCandidate
<1>3. Growth!NoExpansion = NoExpansion
  BY DEF Growth!NoExpansion, NoExpansion
<1>4. \A d, x : Growth!Expand(d, x) = Expand(d, x)
  BY DEF Growth!Expand, Expand, Growth!Flatten, Flatten, Growth!NoExpansion, NoExpansion,
         Growth!Symbol, Symbol, Growth!Range, Range
<1>5. \A d : Growth!Expansions(d) = Expansions(d)
  BY <1>3, <1>4 DEF Growth!Expansions, Expansions
<1>6. \A s, i, p : Growth!Piece(s, i, p) = Piece(s, i, p)
  BY DEF Growth!Piece, Piece, Growth!Matching, Matching, Growth!OccursAt, OccursAt
<1>7. \A at : Growth!Scan(at) = Scan(at)
  BY DEF Growth!Scan, Scan
<1>8. \A s, p : Growth!Pieces(s, p) = Pieces(s, p)
  BY <1>6, <1>7 DEF Growth!Pieces, Pieces
<1>9. \A S : Growth!Min(S) = Min(S)
  BY DEF Growth!Min, Min
<1>10. \A d, p : Growth!Name(d, p) = Name(d, p)
  BY <1>4, <1>9 DEF Growth!Name, Name
<1>11. \A d, s : Growth!Compress(d, s) = Compress(d, s)
  BY <1>5, <1>8, <1>10 DEF Growth!Compress, Compress
<1>12. QED
  BY <1>1, <1>5, <1>11

(* A word that gains so much, and comes to stand for what it was learned   *)
(* for, makes the corpus, with the dictionary that encodes it, so much     *)
(* shorter: what the trial word saves is what the word saves, and its      *)
(* definition costs what the gain took off for it.                         *)
LEMMA GrowthPays ==
  ASSUME NEW hist, IsFiniteSet(DOMAIN hist), \A t \in DOMAIN hist : hist[t] \in Seq(Symbol),
         IsDictionary(derived), NEW cand \in Seq(Symbol),
         Gain(hist, cand, DOMAIN hist) >= MdlThreshold,
         NEW grown, grown = Append(derived, Compress(derived, cand)),
         Expansions(grown) = Expansions(derived) \cup {cand}
  PROVE  SumFunction([t \in DOMAIN hist |-> Len(Compress(grown, hist[t]))])
           + SumFunction([w \in DOMAIN grown |-> Len(grown[w]) + 1]) + MdlThreshold
         <= SumFunction([t \in DOMAIN hist |-> Len(Compress(derived, hist[t]))])
              + SumFunction([w \in DOMAIN derived |-> Len(derived[w]) + 1])
<1>1. IsDictionary(grown)
  BY CompressType DEF IsDictionary
<1>2. PICK f, g, h :
        /\ f = [t \in DOMAIN hist |-> Len(Compress(derived, hist[t]))]
        /\ g = [t \in DOMAIN hist |-> Len(Compress(grown, hist[t]))]
        /\ h = [t \in DOMAIN hist |-> CompressedLen(derived, hist[t], {})
                                        - CompressedLen(derived, hist[t], {cand})]
  OBVIOUS
<1>3. \A t \in DOMAIN hist : f[t] \in Int /\ g[t] \in Int /\ h[t] = f[t] - g[t]
  <2>1. SUFFICES ASSUME NEW t \in DOMAIN hist
                 PROVE  f[t] \in Int /\ g[t] \in Int /\ h[t] = f[t] - g[t]
    OBVIOUS
  <2>2. Len(Compress(derived, hist[t])) = CompressedLen(derived, hist[t], {})
        /\ Len(Compress(derived, hist[t])) \in Nat
    <3>1. /\ Compress(derived, hist[t]) \in Seq(Symbol)
          /\ Len(Compress(derived, hist[t])) = Len(Pieces(hist[t], Expansions(derived)))
      BY CompressType
    <3>2. Expansions(derived) \cup {} = Expansions(derived)
      OBVIOUS
    <3>3. CompressedLen(derived, hist[t], {}) = Len(Pieces(hist[t], Expansions(derived)))
      BY Zenon, <3>2 DEF CompressedLen
    <3>4. QED
      BY <3>1, <3>3
  <2>3. Len(Compress(grown, hist[t])) = CompressedLen(derived, hist[t], {cand})
        /\ Len(Compress(grown, hist[t])) \in Nat
    <3>1. /\ Compress(grown, hist[t]) \in Seq(Symbol)
          /\ Len(Compress(grown, hist[t])) = Len(Pieces(hist[t], Expansions(grown)))
      BY <1>1, CompressType
    <3>2. CompressedLen(derived, hist[t], {cand}) = Len(Pieces(hist[t], Expansions(grown)))
      BY Zenon DEF CompressedLen
    <3>3. QED
      BY <3>1, <3>2
  <2>4. /\ f[t] = Len(Compress(derived, hist[t])) /\ g[t] = Len(Compress(grown, hist[t]))
        /\ h[t] = CompressedLen(derived, hist[t], {}) - CompressedLen(derived, hist[t], {cand})
    BY <1>2
  <2>5. QED
    BY <2>2, <2>3, <2>4
<1>4. SumFunctionOnSet(h, DOMAIN hist)
        = SumFunctionOnSet(f, DOMAIN hist) - SumFunctionOnSet(g, DOMAIN hist)
  BY <1>3, SumOfDifferences
<1>5. SumFunctionOnSet(f, DOMAIN hist) \in Int /\ SumFunctionOnSet(g, DOMAIN hist) \in Int
  BY <1>3, SumType
<1>6. /\ DOMAIN f = DOMAIN hist /\ DOMAIN g = DOMAIN hist /\ DOMAIN h = DOMAIN hist
  BY <1>2
<1>7. Saving(hist, cand, DOMAIN hist) = SumFunctionOnSet(h, DOMAIN hist)
  BY <1>2, <1>6 DEF Saving, SumFunction
<1>8. PICK n, u, v :
        /\ n = Len(derived)
        /\ u = [w \in DOMAIN derived |-> Len(derived[w]) + 1]
        /\ v = [w \in DOMAIN grown |-> Len(grown[w]) + 1]
  OBVIOUS
<1>9. PICK code \in Seq(Symbol) : code = Compress(derived, cand)
  BY CompressType
<1>10. /\ n \in Nat /\ derived \in Seq(Seq(Symbol)) /\ DOMAIN derived = 1..n
       /\ DOMAIN grown = 1..(n + 1)
       /\ \A w \in 1..n : grown[w] = derived[w] /\ Len(derived[w]) \in Nat
       /\ grown[n + 1] = code /\ Len(code) \in Nat
  <2>1. derived \in Seq(Seq(Symbol)) /\ grown = Append(derived, code)
    BY <1>9 DEF IsDictionary
  <2>2. n \in Nat /\ DOMAIN derived = 1..n /\ \A w \in 1..n : derived[w] \in Seq(Symbol)
    BY <1>8, <2>1
  <2>3. DOMAIN grown = 1..(n + 1) /\ grown[n + 1] = code /\ \A w \in 1..n : grown[w] = derived[w]
    BY <1>8, <2>1, <2>2
  <2>4. QED
    BY <2>1, <2>2, <2>3
<1>11. SumFunctionOnSet(v, 1..(n + 1)) = Len(code) + 1 + SumFunctionOnSet(u, 1..n)
  <2>1. IsFiniteSet(1..(n + 1)) /\ IsFiniteSet(1..n)
    BY <1>10, FS_Interval
  <2>2. \A w \in 1..(n + 1) : v[w] \in Int
    <3>1. \A w \in 1..(n + 1) : w \in 1..n \/ w = n + 1
      BY <1>10
    <3>2. QED
      BY <1>8, <1>10, <3>1
  <2>3. n + 1 \in 1..(n + 1) /\ (1..(n + 1)) \ {n + 1} = 1..n
    BY <1>10
  <2>4. SumFunctionOnSet(v, 1..(n + 1)) = v[n + 1] + SumFunctionOnSet(v, 1..n)
    <3>1. PICK S, e : S = 1..(n + 1) /\ e = n + 1
      OBVIOUS
    <3>2. IsFiniteSet(S) /\ e \in S /\ \A w \in S : v[w] \in Int
      BY Zenon, <2>1, <2>2, <2>3, <3>1
    <3>3. SumFunctionOnSet(v, S) = v[e] + SumFunctionOnSet(v, S \ {e})
      BY <3>2, SumTakesOut
    <3>4. S \ {e} = 1..n
      BY Zenon, <2>3, <3>1
    <3>5. QED
      BY Zenon, <3>1, <3>3, <3>4
  <2>5. v[n + 1] = Len(code) + 1
    BY <1>8, <1>10, <2>3
  <2>6. \A w \in 1..n : v[w] \in Int /\ u[w] = v[w]
    <3>1. \A w \in 1..n : w \in 1..(n + 1)
      BY <1>10
    <3>2. QED
      BY <1>8, <1>10, <2>2, <3>1
  <2>7. SumFunctionOnSet(v, 1..n) = SumFunctionOnSet(u, 1..n)
    BY <2>1, <2>6, SumOfSame
  <2>8. QED
    BY Zenon, <2>4, <2>5, <2>7
<1>12. SumFunctionOnSet(u, 1..n) \in Int
  <2>1. IsFiniteSet(1..n) /\ \A w \in 1..n : u[w] \in Int
    BY <1>8, <1>10, FS_Interval
  <2>2. QED
    BY <2>1, SumType
<1>13. /\ SumFunction([t \in DOMAIN hist |-> Len(Compress(derived, hist[t]))])
            = SumFunctionOnSet(f, DOMAIN hist)
       /\ SumFunction([t \in DOMAIN hist |-> Len(Compress(grown, hist[t]))])
            = SumFunctionOnSet(g, DOMAIN hist)
       /\ SumFunction([w \in DOMAIN derived |-> Len(derived[w]) + 1]) = SumFunctionOnSet(u, 1..n)
       /\ SumFunction([w \in DOMAIN grown |-> Len(grown[w]) + 1]) = SumFunctionOnSet(v, 1..(n + 1))
  <2>1. DOMAIN u = 1..n /\ DOMAIN v = 1..(n + 1)
    BY <1>8, <1>10
  <2>2. QED
    BY Zenon, <1>2, <1>6, <1>8, <2>1 DEF SumFunction
<1>14. Gain(hist, cand, DOMAIN hist) = SumFunctionOnSet(h, DOMAIN hist) - (Len(code) + 1)
  BY Zenon, <1>7, <1>9 DEF Gain
<1>15. PICK F, G, U, L : /\ F = SumFunctionOnSet(f, DOMAIN hist) /\ G = SumFunctionOnSet(g, DOMAIN hist)
                         /\ U = SumFunctionOnSet(u, 1..n) /\ L = Len(code)
  OBVIOUS
<1>16. /\ F \in Int /\ G \in Int /\ U \in Int /\ L \in Int /\ MdlThreshold \in Int
       /\ (F - G) - (L + 1) >= MdlThreshold
  BY <1>4, <1>5, <1>10, <1>12, <1>14, <1>15, ConstantsAssumption
<1>17. G + (L + 1 + U) + MdlThreshold <= F + U
  BY <1>16
<1>18. QED
  BY <1>11, <1>13, <1>15, <1>17
=============================================================================
