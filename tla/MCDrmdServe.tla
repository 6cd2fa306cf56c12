----------------------------- MODULE MCDrmdServe -----------------------------
(* Bounded instances of DrmdServe: each connection carries one line, so as *)
(* many episodes are planned as there are clients.                         *)
EXTENDS DrmdServe

CONSTANTS a, b, c

(* Two tasks with this workflow queue maintenance and grow the vocabulary. *)
Motif == {<<a, b, c>>}
=============================================================================
