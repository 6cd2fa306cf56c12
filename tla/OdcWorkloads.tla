---------------------------- MODULE OdcWorkloads ----------------------------
(***************************************************************************)
(* The episodes the archived C++ programs plan: the 99 of the reference    *)
(* engine (and of the learning path), the 708 of the staged deployment,    *)
(* the 81 of the cold week and the 60 of the mature week.  A task is a     *)
(* pair of a name and a number.  Sources, outputs and URLs are left out:   *)
(* no planner reads them.                                                  *)
(***************************************************************************)
EXTENDS OdcPlanner

CONSTANTS fs_read, fs_write, http_request, ipc_request, notify_send, proc_observe,
          process_run, state_read, state_write, timer_observe,
          transform_extract, transform_summarize

(* CAP_ROOT is a std::map: its keys in their order.                        *)
CapabilityOrder ==
  <<fs_read, fs_write, http_request, ipc_request, notify_send, proc_observe,
    process_run, state_read, state_write, timer_observe,
    transform_extract, transform_summarize>>

RankValue == [c \in Range(CapabilityOrder) |-> CHOOSE i \in 1..12 : CapabilityOrder[i] = c]

(* The keys of CAP_ROOT are the capabilities, and no two are the same.     *)
ASSUME CapabilitiesAssumption ==
  /\ Capability = Range(CapabilityOrder)
  /\ \A i, j \in 1..12 : CapabilityOrder[i] = CapabilityOrder[j] => i = j

(* CAP_ROOT: what a capability does to OBSERVE, DERIVE and COMMIT.         *)
CapRoot(cap) ==
  CASE cap \in {fs_read, state_read, proc_observe, timer_observe} -> <<"OBSERVE">>
    [] cap \in {http_request, ipc_request, process_run} -> <<"DERIVE", "COMMIT", "OBSERVE">>
    [] cap \in {transform_extract, transform_summarize} -> <<"DERIVE">>
    [] cap \in {fs_write, state_write, notify_send} -> <<"DERIVE", "COMMIT">>

----------------------------------------------------------------------------
Task(name) == <<name, 0>>

(* An episode of a window (a stage or a day).                              *)
Ep(window, task, ops) ==
  [window |-> window, task |-> task, ops |-> ops, ancestral |-> FALSE,
   expected_repeat |-> FALSE, post_recovery |-> FALSE, half_minutes |-> 0]

Repeat(ep)    == [ep EXCEPT !.expected_repeat = TRUE]
Ancestral(ep) == [ep EXCEPT !.ancestral = TRUE]

(* One episode, or several, for each n in from..to.                        *)
All(from, to, block(_)) == Flatten([i \in 1..(to - from + 1) |-> block(from + i - 1)])

FirstOf(episodes, task) ==
  episodes[Min({i \in DOMAIN episodes : episodes[i].task = task})]

(* The routines of every workload.                                         *)
File  == <<fs_read, transform_summarize, fs_write, notify_send>>
State == <<state_read, transform_summarize, state_write, notify_send>>
Proc  == <<proc_observe, transform_extract, transform_summarize, fs_write>>
Hash  == <<process_run, transform_summarize, fs_write, notify_send>>
Http  == <<http_request, transform_extract, transform_summarize, fs_write, notify_send>>
Ipc   == <<fs_read, transform_summarize, ipc_request, fs_write>>
Timer == <<timer_observe, state_read, transform_summarize, state_write>>

Motifs ==
  <<<<fs_read, transform_extract, transform_summarize, fs_write, notify_send>>,
    <<http_request, transform_extract, transform_summarize, state_write, notify_send>>,
    <<process_run, transform_extract, transform_summarize, fs_write>>,
    <<state_read, transform_extract, transform_summarize, fs_write, notify_send>>,
    <<fs_read, transform_summarize, ipc_request, state_write, notify_send>>,
    <<proc_observe, transform_extract, transform_summarize, ipc_request, fs_write>>,
    <<timer_observe, state_read, transform_summarize, fs_write, notify_send>>,
    <<http_request, transform_extract, ipc_request, transform_summarize, fs_write>>,
    <<process_run, transform_summarize, ipc_request, fs_write, notify_send>>,
    <<fs_read, transform_extract, ipc_request, transform_summarize, state_write>>,
    <<proc_observe, transform_summarize, state_write, notify_send>>,
    <<timer_observe, state_read, transform_extract, transform_summarize, state_write>>>>

Motif(n) == Motifs[(n % 12) + 1]

Daily == <<<<"daily_file", File>>, <<"daily_hash", Hash>>, <<"daily_http", Http>>,
           <<"daily_state", State>>, <<"daily_ipc", Ipc>>, <<"daily_proc", Proc>>,
           <<"daily_timer", Timer>>>>

Recovered == <<Task("daily_http"), Task("daily_file"), Task("daily_hash"), Task("daily_ipc")>>

----------------------------------------------------------------------------
(* The reference workload: warm-up, new tasks, repeats, drifts, enough     *)
(* other tasks to evict, recoveries with a plain repeat behind each.       *)
Combo(n) == Motifs[(n % 8) + 1]

ReferenceWorkload ==
  LET daily(j) == Ep(0, Task(Daily[j][1]), Daily[j][2])
      warmup   == All(1, 3, LAMBDA r : [j \in 1..7 |-> daily(j)])
      novel    == [n \in 1..40 |-> Ep(0, <<"novel", n - 1>>, Combo(n - 1))]
      drift    == <<Ep(0, Task("daily_file"), Motif(0)), Ep(0, Task("daily_http"), Motif(1)),
                    Ep(0, Task("daily_hash"), <<process_run, transform_summarize, ipc_request,
                                                state_write, notify_send>>),
                    Ep(0, Task("daily_ipc"), <<fs_read, transform_extract, transform_summarize,
                                               ipc_request, fs_write>>)>>
      tail     == [n \in 1..10 |-> Ep(0, <<"tail", n - 1>>, Combo(n - 1))]
      recover(n) == LET old == FirstOf(warmup, Recovered[n])
                    IN  <<Ancestral(old), [old EXCEPT !.post_recovery = TRUE]>>
  IN  warmup \o novel \o SubSeq(novel, 1, 16) \o drift \o tail \o All(1, 4, recover)

----------------------------------------------------------------------------
(* The staged workload, one definition for each stage.                     *)

Canary ==
  LET round(r) == <<Ep(0, Task("canary_file"), File), Ep(0, Task("canary_state"), State),
                    Ep(0, Task("canary_proc"), Proc)>>
  IN  round(0) \o All(1, 7, LAMBDA r : [j \in 1..3 |-> Repeat(round(r)[j])])

Alpha ==
  LET round == [j \in 1..7 |-> Ep(1, Task(Daily[j][1]), Daily[j][2])]
  IN  round \o All(1, 11, LAMBDA r : [j \in 1..7 |-> Repeat(round[j])])

(* New tasks, then the first half of them again.                           *)
ThenReplayHalf(new) == new \o [n \in 1..(Len(new) \div 2) |-> Repeat(new[n])]

Connected ==
  ThenReplayHalf([n \in 1..48 |-> Ep(2, <<"connected", n - 1>>, Motif(n - 1))])

Recombined(n) ==
  LET q == Motif(n * 5 + n \div 7)
      r == IF n % 3 = 0 /\ transform_extract \notin Range(q)
           THEN <<q[1], transform_extract>> \o Tail(q) ELSE q
  IN  IF n % 5 = 0 /\ r[Len(r)] # notify_send THEN Append(r, notify_send) ELSE r

Beta == ThenReplayHalf([n \in 1..96 |-> Ep(3, <<"beta", n - 1>>, Recombined(n - 1))])

Resilience ==
  LET drift == <<Ep(4, Task("daily_file"), Motif(0)), Ep(4, Task("daily_http"), Motif(1)),
                 Ep(4, Task("daily_hash"), Motif(8)), Ep(4, Task("daily_ipc"), Motif(9))>>
      evict == [n \in 1..48 |-> Ep(4, <<"evict", n - 1>>, Motif(n + 1))]
      recover(n) == LET old == [FirstOf(Alpha, Recovered[n]) EXCEPT !.window = 4]
                    IN  <<Ancestral(old), [Repeat(old) EXCEPT !.post_recovery = TRUE]>>
  IN  drift \o evict \o All(1, 4, recover)

ReleaseCandidate ==
  LET routine(j) == Repeat(Ep(5, Task(Daily[j][1]), Daily[j][2]))
      cycle(c) ==
        [j \in 1..5 |-> routine(j)]
        \o (IF c % 5 = 0 THEN <<Ep(5, <<"rc_novel", c \div 5>>, Motif((c \div 5) * 7 + 3))>> ELSE <<>>)
        \o (IF c % 10 = 0 THEN <<routine(6), routine(7)>> ELSE <<>>)
  IN  All(0, 59, cycle)

StagedWorkload == Canary \o Alpha \o Connected \o Beta \o Resilience \o ReleaseCandidate

----------------------------------------------------------------------------
(* The cold week and the mature week.  The manual minutes of a task are    *)
(* counted in halves.                                                      *)

Job(day, task, ops, half_minutes) ==
  [Ep(day, task, ops) EXCEPT !.half_minutes = half_minutes]

Morning   == <<http_request, transform_extract, transform_summarize, state_write, notify_send>>
Reports   == <<fs_read, transform_extract, transform_summarize, fs_write, notify_send>>
Health    == <<proc_observe, transform_extract, transform_summarize, state_write, notify_send>>
Backup    == <<process_run, transform_summarize, fs_write, notify_send>>
Sync      == <<fs_read, transform_summarize, ipc_request, state_write, notify_send>>
Reminders == <<timer_observe, state_read, transform_summarize, state_write, notify_send>>
Digest    == <<fs_read, transform_extract, transform_summarize, ipc_request, fs_write, notify_send>>
MorningDrift ==
  <<http_request, transform_extract, ipc_request, transform_summarize, state_write, notify_send>>
ReportsDrift ==
  <<fs_read, transform_extract, transform_summarize, ipc_request, fs_write, notify_send>>

MorningDigest(day, ops, minutes) == Job(day, Task("morning_digest"), ops, 2 * minutes)
ReportIntake(day, ops)   == Job(day, Task("report_intake"), ops, 16)
SystemHealth(day)        == Job(day, Task("system_health"), Health, IF day < 5 THEN 8 ELSE 6)
BackupVerify(day)        == Job(day, Task("backup_verify"), Backup, 6)
LocalSync(day)           == Job(day, Task("local_sync"), Sync, 6)
ReminderRefresh(day)     == Job(day, Task("reminder_refresh"), Reminders, 4)
Closeout(day)            == Job(day, Task("closeout"), Digest, 12)

Monday ==
  <<MorningDigest(0, Morning, 12), ReportIntake(0, Reports), SystemHealth(0), BackupVerify(0),
    LocalSync(0), ReminderRefresh(0), Job(0, Task("state_snapshot"), State, 4),
    Job(0, Task("project_alpha"), Motif(2), 18), Job(0, Task("project_beta"), Motif(7), 20),
    Job(0, Task("project_gamma"), Motif(9), 14), Job(0, Task("afternoon_digest"), Morning, 16),
    Closeout(0)>>

Tuesday ==
  LET rhythm == <<MorningDigest(1, Morning, 12), ReportIntake(1, Reports), SystemHealth(1),
                  LocalSync(1)>>
  IN  rhythm \o rhythm
      \o <<Job(1, Task("project_delta"), Motif(3), 16), Job(1, Task("project_epsilon"), Motif(10), 12),
           BackupVerify(1), ReminderRefresh(1), Closeout(1)>>

Wednesday ==
  LET ops(n) == IF n % 3 = 0 /\ Motif(n * 5 + 1)[Len(Motif(n * 5 + 1))] # notify_send
                THEN Append(Motif(n * 5 + 1), notify_send) ELSE Motif(n * 5 + 1)
  IN  <<MorningDigest(2, Morning, 12), ReportIntake(2, Reports), SystemHealth(2)>>
      \o [n \in 1..8 |-> Job(2, <<"client_job", n - 1>>, ops(n - 1), 10 + ((n - 1) % 4) * 3)]
      \o <<LocalSync(2), ReminderRefresh(2), Closeout(2)>>

Thursday ==
  <<MorningDigest(3, MorningDrift, 12), ReportIntake(3, ReportsDrift), SystemHealth(3),
    BackupVerify(3), LocalSync(3)>>
  \o [n \in 1..10 |-> Job(3, <<"ad_hoc", n - 1>>, Motif(n + 3), 8 + ((n - 1) % 3) * 4)]
  \o <<Closeout(3)>>

Friday ==
  LET alpha == Job(4, Task("project_alpha"), Motif(2), 18)
  IN  <<MorningDigest(4, MorningDrift, 12), ReportIntake(4, ReportsDrift), SystemHealth(4),
        Ancestral(alpha), [alpha EXCEPT !.post_recovery = TRUE]>>
      \o [n \in 1..8 |-> Job(4, <<"friday_job", n - 1>>, Motif((n - 1) * 7 + 2),
                               10 + 2 * ((n - 1) % 4))]
      \o <<Job(4, Task("weekly_work_summary"), Digest, 30), BackupVerify(4)>>

Weekend ==
  <<MorningDigest(5, MorningDrift, 8), SystemHealth(5), BackupVerify(5),
    Job(5, Task("weekend_cleanup"), Motif(4), 12), ReminderRefresh(5),
    MorningDigest(6, MorningDrift, 8), SystemHealth(6), BackupVerify(6),
    Job(6, Task("weekly_personal_summary"), Digest, 20),
    Job(6, Task("next_week_prepare"), Motif(11), 16), ReminderRefresh(6)>>

WeeklyWorkload == Monday \o Tuesday \o Wednesday \o Thursday \o Friday \o Weekend

(* The second week: the drifted routines, three new project jobs a day.    *)
MatureWorkload ==
  LET weekday(d) ==
        <<MorningDigest(d, MorningDrift, 12), ReportIntake(d, ReportsDrift), SystemHealth(d),
          LocalSync(d), BackupVerify(d), ReminderRefresh(d)>>
        \o All(3 * d, 3 * d + 2, LAMBDA n :
               <<Job(d, <<"wk2_project", n>>, Motif(n * 5 + 2), 12 + 2 * (n % 4))>>)
        \o <<Closeout(d)>>
      saturday == SelectSeq(Weekend, LAMBDA e : e.window = 5 /\ e.task # Task("reminder_refresh"))
      sunday   == SelectSeq(Weekend, LAMBDA e : e.window = 6)
  IN  All(0, 4, weekday) \o saturday \o sunday
=============================================================================
