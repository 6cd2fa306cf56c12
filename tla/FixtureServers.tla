--------------------------- MODULE FixtureServers ---------------------------
(***************************************************************************)
(* The loopback servers behind http.request and ipc.request (servers.rs):  *)
(* a thread that polls a non-blocking listener and serves one connection   *)
(* at a time with one blocking read and one reply, the client calls of     *)
(* the executor, and the shutdown of Drop.  The two servers differ in what *)
(* they say, not in what they do: TcpFixtureServer::get always sends a     *)
(* request line, UnixFixtureServer::roundtrip sends what it is given.      *)
(*                                                                         *)
(* Calls and shutdown are made by the owner of the server, one at a time.  *)
(***************************************************************************)
EXTENDS Integers, Sequences, Functions

CONSTANTS Payload,     \* what callers send: "text", or "empty" for no byte
          Connection,  \* names of connections
          NoConnection

ASSUME ConnectionAssumption == NoConnection \notin Connection

VARIABLES server,     \* "loop", "accept", "read", "reply" or "exited"
          serving,    \* the connection being served
          backlog,    \* connections waiting to be accepted
          stop,       \* the flag Drop sets
          owner,      \* "idle", "connected", "await", "waking", "joining", "gone"
          calling,    \* the connection of the call
          payload,    \* what the call sends
          sent,       \* connections the client has written bytes to
          hungup,     \* connections the client has closed
          replied,    \* connections the server has answered
          closed,     \* connections the server side has closed
          result      \* of the last call: "none", "ok" or "error"

vars == <<server, serving, backlog, stop, owner, calling, payload,
          sent, hungup, replied, closed, result>>
serverVars == <<server, serving>>
wireVars   == <<backlog, sent, hungup, replied, closed>>
ownerVars  == <<owner, calling, payload, result>>

Init ==
  /\ server = "loop" /\ serving = NoConnection
  /\ backlog = <<>>
  /\ stop = FALSE
  /\ owner = "idle" /\ calling = NoConnection /\ payload = "text" /\ result = "none"
  /\ sent = {} /\ hungup = {} /\ replied = {} /\ closed = {}

----------------------------------------------------------------------------
(* The server thread.  When it exits the listener goes with it, and so do  *)
(* the connections it never accepted.                                      *)

Exit ==
  /\ server' = "exited"
  /\ closed' = closed \cup Range(backlog)
  /\ backlog' = <<>>
  /\ UNCHANGED <<serving, stop, sent, hungup, replied, ownerVars>>

CheckStop ==
  /\ server = "loop"
  /\ \/ stop /\ Exit
     \/ /\ ~stop
        /\ server' = "accept"
        /\ UNCHANGED <<serving, stop, wireVars, ownerVars>>

(* WouldBlock: sleep and look at the flag again.                           *)
AcceptNone ==
  /\ server = "accept" /\ backlog = <<>>
  /\ server' = "loop"
  /\ UNCHANGED <<serving, stop, wireVars, ownerVars>>

Accept ==
  /\ server = "accept" /\ backlog # <<>>
  /\ server' = "read"
  /\ serving' = Head(backlog)
  /\ backlog' = Tail(backlog)
  /\ UNCHANGED <<stop, sent, hungup, replied, closed, ownerVars>>

(* Any other error of accept ends the thread for good.                     *)
AcceptFails == server = "accept" /\ Exit

(* (Mutant: the server reads to the end of the stream.)                    *)
ReadToEnd ==
  /\ server = "read" /\ serving \in hungup
  /\ server' = "reply"
  /\ UNCHANGED <<serving, stop, wireVars, ownerVars>>

(* The read blocks until the client has written or hung up.                *)
Read ==
  /\ server = "read" /\ serving \in sent \cup hungup
  /\ server' = "reply"
  /\ UNCHANGED <<serving, stop, wireVars, ownerVars>>

(* Errors of the write are ignored; the stream is dropped either way.      *)
Reply ==
  /\ server = "reply"
  /\ server' = "loop"
  /\ serving' = NoConnection
  /\ replied' = replied \cup ({serving} \ hungup)
  /\ closed' = closed \cup {serving}
  /\ UNCHANGED <<backlog, stop, sent, hungup, ownerVars>>

----------------------------------------------------------------------------
(* The owner: connect, write, wait for the answer.                         *)

(* The name of a connection neither side holds may be used again.          *)
Unused == Connection \ (Range(backlog) \cup {serving, calling})

Forget(c) ==
  sent' = sent \ {c} /\ replied' = replied \ {c} /\ closed' = closed \ {c}

Call(c, p) ==
  /\ owner = "idle"
  /\ payload' = p
  /\ Forget(c)
  /\ hungup' = hungup \ {c}
  /\ IF server = "exited"
     THEN result' = "error" /\ UNCHANGED <<owner, calling, backlog>>
     ELSE /\ owner' = "connected"
          /\ calling' = c
          /\ backlog' = Append(backlog, c)
          /\ result' = "none"
  /\ UNCHANGED <<serverVars, stop>>

Send ==
  /\ owner = "connected"
  /\ owner' = "await"
  /\ sent' = IF payload = "empty" THEN sent ELSE sent \cup {calling}
  /\ UNCHANGED <<serverVars, stop, backlog, hungup, replied, closed, calling, payload, result>>

(* The answer, or the reset of a connection the server never accepted; one *)
(* it accepted is always answered.  Then the client's end is dropped.      *)
Receive ==
  /\ owner = "await" /\ calling \in replied \cup closed
  /\ owner' = "idle"
  /\ result' = IF calling \in replied THEN "ok" ELSE "error"
  /\ hungup' = hungup \cup {calling}
  /\ calling' = NoConnection
  /\ UNCHANGED <<serverVars, stop, backlog, sent, replied, closed, payload>>

(* (Mutant: the flag is not raised.)                                       *)
StopForgetsFlag ==
  /\ owner = "idle"
  /\ owner' = "waking"
  /\ UNCHANGED <<serverVars, wireVars, stop, calling, payload, result>>

(* Drop: raise the flag, connect once to end the server's wait, join.      *)
Stop ==
  /\ owner = "idle"
  /\ owner' = "waking"
  /\ stop' = TRUE
  /\ UNCHANGED <<serverVars, wireVars, calling, payload, result>>

Wake(c) ==
  /\ owner = "waking"
  /\ owner' = "joining"
  /\ Forget(c)
  /\ IF server = "exited" THEN UNCHANGED <<backlog, hungup>>
     ELSE backlog' = Append(backlog, c) /\ hungup' = hungup \cup {c}
  /\ UNCHANGED <<serverVars, stop, calling, payload, result>>

Join ==
  /\ owner = "joining" /\ server = "exited"
  /\ owner' = "gone"
  /\ UNCHANGED <<serverVars, stop, wireVars, calling, payload, result>>

ServerStep == CheckStop \/ AcceptNone \/ Accept \/ Read \/ Reply
CallStep   == Send \/ Receive
DropStep   == (\E c \in Unused : Wake(c)) \/ Join

Next ==
  \/ ServerStep \/ AcceptFails
  \/ \E c \in Unused, p \in Payload : Call(c, p)
  \/ CallStep \/ Stop \/ DropStep

(* Both threads are scheduled; nobody is obliged to call or to stop, and   *)
(* accept is not obliged to fail.                                          *)
Spec == Init /\ [][Next]_vars /\ WF_vars(ServerStep) /\ WF_vars(CallStep) /\ WF_vars(DropStep)

----------------------------------------------------------------------------
(* A call comes back, answered or with an error, also when the server ends *)
(* while the call is in its backlog (servers.rs:69-76, 127-134).           *)
CallEnds == owner \in {"connected", "await"} ~> owner = "idle"

(* Dropping a server ends its thread: the flag, the wake-up connection and *)
(* the poll never leave the owner waiting in join (servers.rs:79-87,       *)
(* 136-145).                                                               *)
DropEnds == owner = "waking" ~> owner = "gone"
=============================================================================
