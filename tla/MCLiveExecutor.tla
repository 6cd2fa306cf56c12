--------------------------- MODULE MCLiveExecutor ---------------------------
(* Bounded instances of LiveExecutor: up to MaxEpisodes episodes, with any *)
(* number of crashes and restarts between two of their system calls.       *)
EXTENDS LiveExecutor

CONSTANT MaxEpisodes

Reports  == {<<"fs.read", "transform.extract", "fs.write">>,
             <<"http.request", "transform.summarize", "fs.write", "notify.send">>}
Services == {<<"state.read", "ipc.request", "state.write">>,
             <<"process.run", "timer.observe", "proc.observe", "disk.format">>}
Programs == Reports \cup Services

Apart == [o \in {"r.txt"} |-> "r.candidate"]

MCNext == Start \/ (idx < MaxEpisodes /\ \E ep \in Episode : Begin(ep)) \/ Step \/ Crash
MCSpec == Init /\ [][MCNext]_vars
MCFairSpec == MCSpec /\ WF_vars(Step)
=============================================================================
