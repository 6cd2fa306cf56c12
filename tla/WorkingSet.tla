----------------------------- MODULE WorkingSet -----------------------------
(***************************************************************************)
(* What the planner's memory promises, without its containers: everything  *)
(* stored is remembered for ever, and the tasks at hand are the Capacity   *)
(* tasks stored most recently, each as it was last stored.                 *)
(***************************************************************************)
EXTENDS Integers, FiniteSets

CONSTANTS Task, Payload, Capacity

VARIABLES clock,    \* how many times anything was stored
          stored,   \* task -> the plan last stored for it
          stamp,    \* task -> the time it was last stored
          atHand    \* the working set: task -> plan

vars == <<clock, stored, stamp, atHand>>

Newer(when, t) == {u \in DOMAIN when : when[u] > when[t]}

MostRecent(when) == {t \in DOMAIN when : Cardinality(Newer(when, t)) < Capacity}

Init ==
  /\ clock = 0
  /\ stored = <<>>
  /\ stamp = <<>>
  /\ atHand = <<>>

Store(t, plan) ==
  /\ clock' = clock + 1
  /\ stored' = [u \in DOMAIN stored \cup {t} |-> IF u = t THEN plan ELSE stored[u]]
  /\ stamp' = [u \in DOMAIN stamp \cup {t} |-> IF u = t THEN clock + 1 ELSE stamp[u]]
  /\ atHand' = [u \in MostRecent(stamp') |-> stored'[u]]

Next == \E t \in Task, plan \in Payload : Store(t, plan)

Spec == Init /\ [][Next]_vars
=============================================================================
