------------------------------ MODULE DrmdServe ------------------------------
(***************************************************************************)
(* `drmd serve` (serve.rs): one thread per connection and one maintenance  *)
(* thread around a HybridPlanner and a LiveExecutor, which a single mutex  *)
(* guards.  The planner is the module this one extends, step for step; of  *)
(* the executor, whose steps LiveExecutor models, only the outcome is left.*)
(*                                                                         *)
(* A connection carries one line.  A request is what parse_request makes   *)
(* of it: an episode to submit, a status query, or an error; a line that   *)
(* is not UTF-8 never becomes a request.  A submission is silent if its    *)
(* execution calls the IPC fixture server with an empty payload, as one of *)
(* an unnamed task may: that call never returns (FixtureServers).          *)
(***************************************************************************)
EXTENDS HybridPlanner

CONSTANTS Client,        \* connections
          Line           \* the kinds of lines clients send

Submissions == {"submit", "silent"}

ASSUME LineAssumption == Line \subseteq Submissions \cup {"status", "malformed", "garbled"}

VARIABLES conn,             \* where each connection's handler is
          request,          \* connection -> [line, ep]
          reply,            \* connection -> the response, once composed
          holder,           \* who holds the mutex
          maintenance,      \* "asleep", "waiting" or "locked"
          next_idx,
          episodes_planned

planner   == vars
serveVars == <<conn, request, reply, holder, maintenance, next_idx, episodes_planned>>
allVars   == <<planner, serveVars>>

Nobody == "nobody"
Maintainer == "maintainer"

ASSUME ClientAssumption == {Nobody, Maintainer} \cap Client = {}

NoReply == [kind |-> "none"]

Requests == [line : Line, ep : Episode]
AnEpisode == CHOOSE ep \in Episode : TRUE

ServeInit ==
  /\ Init
  /\ conn = [c \in Client |-> "absent"]
  /\ request = [c \in Client |-> [line |-> "status", ep |-> AnEpisode]]
  /\ reply = [c \in Client |-> NoReply]
  /\ holder = Nobody
  /\ maintenance = "asleep"
  /\ next_idx = 0
  /\ episodes_planned = 0

----------------------------------------------------------------------------
(* Connections.  The handler reads the line before it takes the mutex, so  *)
(* a client that says nothing keeps only its own thread.                   *)

Connect(c) ==
  /\ conn[c] = "absent"
  /\ conn' = [conn EXCEPT ![c] = "reading"]
  /\ UNCHANGED <<planner, request, reply, holder, maintenance, next_idx, episodes_planned>>

(* A client that hangs up without a line gets nothing.                     *)
HangUp(c) ==
  /\ conn[c] = "reading"
  /\ conn' = [conn EXCEPT ![c] = "closed"]
  /\ UNCHANGED <<planner, request, reply, holder, maintenance, next_idx, episodes_planned>>

(* read_line fails on a line that is not UTF-8, and the handler returns.   *)
ReadLine(c, r) ==
  /\ conn[c] = "reading"
  /\ r.line \notin Submissions => r.ep = AnEpisode
  /\ request' = [request EXCEPT ![c] = r]
  /\ conn' = [conn EXCEPT ![c] = IF r.line = "garbled" THEN "closed" ELSE "waiting"]
  /\ UNCHANGED <<planner, reply, holder, maintenance, next_idx, episodes_planned>>

----------------------------------------------------------------------------
(* The handler, from lock() to drop(guard).                                *)

(* (Mutant: the mutex is not waited for.)                                  *)
LockAnyway(c) ==
  /\ conn[c] = "waiting"
  /\ holder' = c
  /\ conn' = [conn EXCEPT ![c] = "locked"]
  /\ next_idx' = next_idx + 1
  /\ UNCHANGED <<planner, request, reply, maintenance, episodes_planned>>

Lock(c) ==
  /\ conn[c] = "waiting" /\ holder = Nobody
  /\ holder' = c
  /\ conn' = [conn EXCEPT ![c] = "locked"]
  /\ next_idx' = next_idx + 1
  /\ UNCHANGED <<planner, request, reply, maintenance, episodes_planned>>

Respond(c, response) ==
  /\ reply' = [reply EXCEPT ![c] = response]
  /\ conn' = [conn EXCEPT ![c] = "replying"]
  /\ holder' = Nobody

StatusResponse ==
  [kind |-> "status", episodes_planned |-> episodes_planned,
   derived_words |-> Len(derived), provisional_words |-> Cardinality(DOMAIN provisional),
   active_tasks |-> Cardinality(DOMAIN active), history_tasks |-> Cardinality(DOMAIN history),
   uniform_vocabulary |-> Audit(derived), plans |-> version]

(* (Mutant: a status does not take the mutex.)                             *)
StatusUnlocked(c) ==
  /\ conn[c] \in {"waiting", "locked"} /\ request[c].line = "status"
  /\ reply' = [reply EXCEPT ![c] = StatusResponse]
  /\ conn' = [conn EXCEPT ![c] = "replying"]
  /\ holder' = IF holder = c THEN Nobody ELSE holder
  /\ UNCHANGED <<planner, request, maintenance, next_idx, episodes_planned>>

Status(c) ==
  /\ conn[c] = "locked" /\ request[c].line = "status"
  /\ Respond(c, StatusResponse)
  /\ UNCHANGED <<planner, request, maintenance, next_idx, episodes_planned>>

(* (Mutant: the parse error is returned with ? instead of answered.)       *)
MalformedReturns(c) ==
  /\ conn[c] = "locked" /\ request[c].line = "malformed"
  /\ conn' = [conn EXCEPT ![c] = "closed"]
  /\ holder' = Nobody
  /\ UNCHANGED <<planner, request, reply, maintenance, next_idx, episodes_planned>>

Malformed(c) ==
  /\ conn[c] = "locked" /\ request[c].line = "malformed"
  /\ Respond(c, [kind |-> "error"])
  /\ UNCHANGED <<planner, request, maintenance, next_idx, episodes_planned>>

(* (Mutant: the mutex is released before the episode executes.)            *)
PlanAndRelease(c) ==
  /\ conn[c] = "locked" /\ request[c].line \in Submissions
  /\ Plan(request[c].ep)
  /\ conn' = [conn EXCEPT ![c] = "planned"]
  /\ holder' = Nobody
  /\ UNCHANGED <<request, reply, maintenance, next_idx, episodes_planned>>

PlanEpisode(c) ==
  /\ conn[c] = "locked" /\ request[c].line \in Submissions
  /\ Plan(request[c].ep)
  /\ conn' = [conn EXCEPT ![c] = "planned"]
  /\ UNCHANGED <<request, reply, holder, maintenance, next_idx, episodes_planned>>

(* A silent call returns no result, but an operation before it may fail.   *)
Outcomes(c) == IF request[c].line = "silent" THEN {FALSE} ELSE BOOLEAN

(* (Mutant: only an execution that succeeds is counted.)                   *)
ExecuteCountsOk(c) ==
  /\ conn[c] = "planned"
  /\ \E ok \in Outcomes(c) :
       /\ episodes_planned' = episodes_planned + (IF ok THEN 1 ELSE 0)
       /\ Respond(c, [kind |-> "submit", ok |-> ok, episode |-> next_idx,
                      task |-> request[c].ep.task, metrics |-> metrics])
  /\ UNCHANGED <<planner, request, maintenance, next_idx>>

(* The execution may fail; the episode stays planned.  A silent one need   *)
(* not end: see Fairness.                                                  *)
ExecuteEpisode(c) ==
  /\ conn[c] = "planned"
  /\ episodes_planned' = episodes_planned + 1
  /\ \E ok \in Outcomes(c) :
       Respond(c, [kind |-> "submit", ok |-> ok, episode |-> next_idx,
                   task |-> request[c].ep.task, metrics |-> metrics])
  /\ UNCHANGED <<planner, request, maintenance, next_idx>>

(* The response is written after the mutex is released; the write fails if *)
(* the client has gone.                                                    *)
Answer(c) ==
  /\ conn[c] = "replying"
  /\ \E outcome \in {"answered", "lost"} : conn' = [conn EXCEPT ![c] = outcome]
  /\ UNCHANGED <<planner, request, reply, holder, maintenance, next_idx, episodes_planned>>

----------------------------------------------------------------------------
(* The maintenance thread: sleep, lock, consolidate, unlock.               *)

Wake ==
  /\ maintenance = "asleep"
  /\ maintenance' = "waiting"
  /\ UNCHANGED <<planner, conn, request, reply, holder, next_idx, episodes_planned>>

MaintenanceLock ==
  /\ maintenance = "waiting" /\ holder = Nobody
  /\ maintenance' = "locked"
  /\ holder' = Maintainer
  /\ UNCHANGED <<planner, conn, request, reply, next_idx, episodes_planned>>

Consolidate ==
  /\ maintenance = "locked"
  /\ IF pending_consolidation THEN ConsolidatePending ELSE UNCHANGED planner
  /\ maintenance' = "asleep"
  /\ holder' = Nobody
  /\ UNCHANGED <<conn, request, reply, next_idx, episodes_planned>>

Work(c) == Status(c) \/ Malformed(c) \/ PlanEpisode(c) \/ ExecuteEpisode(c) \/ Answer(c)

ServeNext ==
  \/ \E c \in Client : \/ Connect(c) \/ HangUp(c)
                       \/ \E r \in Requests : ReadLine(c, r)
                       \/ Lock(c) \/ Work(c)
  \/ Wake \/ MaintenanceLock \/ Consolidate

(* An execution is under way that need not end, with the mutex held.       *)
Stuck(c) == conn[c] = "planned" /\ request[c].line = "silent"
Wedged   == \E c \in Client : Stuck(c)

(* Threads that can run do, but for a silent call.  A std Mutex promises   *)
(* no order; that whoever keeps asking for a mutex that is released again  *)
(* and again gets it is the strong fairness assumed here.  No client is    *)
(* obliged to connect, to speak or to hang up.                             *)
Fairness ==
  /\ \A c \in Client : SF_allVars(Lock(c)) /\ WF_allVars(~Stuck(c) /\ Work(c))
  /\ WF_allVars(Wake) /\ SF_allVars(MaintenanceLock) /\ WF_allVars(Consolidate)

ServeSpec == ServeInit /\ [][ServeNext]_allVars /\ Fairness
----------------------------------------------------------------------------
(* One thread is in the critical section, and it is the holder: planning,  *)
(* executing and consolidating never overlap, although each is many steps  *)
(* and the handlers are as many as the connections (serve.rs:6-14, 109-123)*)
MutexHeld ==
  /\ \A c \in Client : conn[c] \in {"locked", "planned"} <=> holder = c
  /\ maintenance = "locked" <=> holder = Maintainer

(* No status ever shows an episode half done: the episodes it counts are   *)
(* the plans the planner has made, and the tasks, of which none is planned *)
(* before it is counted (serve.rs:113-120, 148-164).                       *)
StatusIsConsistent ==
  \A c \in Client : reply[c].kind = "status" =>
    /\ reply[c].episodes_planned = reply[c].plans
    /\ reply[c].history_tasks <= reply[c].episodes_planned
    /\ reply[c].active_tasks <= reply[c].history_tasks

(* Every submission that was answered was planned exactly once, and no two *)
(* carry the same episode number (serve.rs:110-120).                       *)
PlannedOnce ==
  LET done == {c \in Client : reply[c].kind = "submit"}
  IN  /\ episodes_planned = Cardinality(done)
      /\ version = Cardinality(done \cup {c \in Client : conn[c] = "planned"})
      /\ \A c, d \in done : reply[c].episode = reply[d].episode => c = d

(* While an episode executes, which takes as long as its child processes   *)
(* and sockets take, no maintenance changes the vocabulary: the counts its *)
(* response will report are still those of the planner (serve.rs:116-119). *)
MetricsAreCurrent ==
  \A c \in Client : conn[c] = "planned" =>
    /\ metrics.derived = Len(derived)
    /\ metrics.active = Cardinality(DOMAIN active)
    /\ metrics.uniform = Audit(derived)

(* A line that was read is answered, unless the client has gone or a call  *)
(* that never returns holds the mutex for good: submissions that fail and  *)
(* lines that make no sense stop nobody, one silent submission stops all   *)
(* ("one line in, one line out", protocol.rs:1-2; serve.rs:109-125).       *)
LinesAreAnswered ==
  \A c \in Client : conn[c] = "waiting" ~> (conn[c] \in {"answered", "lost"} \/ []Wedged)

(* Queued maintenance is applied between the handlers, whatever they leave *)
(* queued meanwhile, unless a call that never returns holds the mutex for  *)
(* good (serve.rs:61-73).                                                  *)
MaintenanceHappens == pending_consolidation ~> (~pending_consolidation \/ []Wedged)
=============================================================================
