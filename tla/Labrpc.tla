------------------------------- MODULE Labrpc -------------------------------
(***************************************************************************)
(* labrpc: the simulated network that carries every RPC of the labs.  Each *)
(* Call is served by a goroutine of its own, processReq, which looks at    *)
(* the network when it starts, runs the server's handler in yet another    *)
(* goroutine, and looks at the network again before it answers.  The       *)
(* tester changes the network at any moment in between.                    *)
(*                                                                         *)
(* Delays are the time that passes between the steps; encoding is left     *)
(* out.  A server is a *Server: the instance of its name, from 1.          *)
(*                                                                         *)
(* An operator Op_fault is Op with a plausible mistake in it.  No          *)
(* specification uses it; put in the place of Op, it violates a property.  *)
(***************************************************************************)
EXTENDS Naturals, FiniteSets, Sequences

CONSTANTS End,          \* names of client ends
          ServerName,
          Call,         \* the calls that are made
          MaxInstance   \* bound on the instances of a server

ASSUME LabrpcAssumption == MaxInstance \in Nat

VARIABLES ends,         \* rn.ends: those that are "made"; a name is used only once
          enabled,      \* rn.enabled: the ends that are
          connections,  \* rn.connections: the servers an end is connected to
          servers,      \* rn.servers: the instances under a name, none or one
          reliable,     \* rn.reliable
          done,         \* rn.done is closed
          call,         \* how far each call is
          handler       \* the goroutine that runs a call's handler

netVars == <<ends, enabled, connections, servers, reliable, done>>
rpcVars == <<netVars, call, handler>>

Instance == 1..MaxInstance

\* A call that was sent names its end; once processReq has accepted it, also the
\* server it found and whether the network was reliable then.
AcceptedCall ==
    [pc : {"accepted", "waiting", "ok", "failed", "true", "false"}, end : End,
     name : ServerName, server : Instance, reliable : BOOLEAN]

CallState ==
    [pc : {"unused"}] \cup [pc : {"sent", "timeout", "false"}, end : End] \cup AcceptedCall

RpcTypeOK ==
    /\ ends \in [End -> {"new", "made", "deleted"}]
    /\ enabled \subseteq {e \in End : ends[e] = "made"}
    /\ connections \in [End -> SUBSET ServerName]
    /\ servers \in [ServerName -> SUBSET Instance]
    /\ reliable \in BOOLEAN /\ done \in BOOLEAN
    /\ call \in [Call -> CallState]
    /\ handler \in [Call -> {"none", "running", "done"}]

\* MakeNetwork.
RpcInit ==
    /\ ends = [e \in End |-> "new"]
    /\ enabled = {}
    /\ connections = [e \in End |-> {}]
    /\ servers = [n \in ServerName |-> {}]
    /\ reliable = TRUE
    /\ done = FALSE
    /\ call = [c \in Call |-> [pc |-> "unused"]]
    /\ handler = [c \in Call |-> "none"]

-----------------------------------------------------------------------------
(* The tester's hold on the network. *)

\* MakeEnd, and the Connect and Enable that clnts.go always calls next.
MakeEnd(e, n, on) ==
    /\ ends[e] = "new"
    /\ ends' = [ends EXCEPT ![e] = "made"]
    /\ connections' = [connections EXCEPT ![e] = {n}]
    /\ enabled' = IF on THEN enabled \cup {e} ELSE enabled
    /\ UNCHANGED <<servers, reliable, done, call, handler>>

\* DeleteEnd and Enable, for all ends of es.
DeleteEnd(es) ==
    /\ ends' = [e \in End |-> IF e \in es THEN "deleted" ELSE ends[e]]
    /\ enabled' = enabled \ es
    /\ connections' = [e \in End |-> IF e \in es THEN {} ELSE connections[e]]
    /\ UNCHANGED <<servers, reliable, done, call, handler>>

Enable(es, on) ==
    /\ enabled' = IF on THEN enabled \cup es ELSE enabled \ es
    /\ UNCHANGED <<ends, connections, servers, reliable, done, call, handler>>

AddServer(n, instance) ==
    /\ servers' = [servers EXCEPT ![n] = {instance}]
    /\ UNCHANGED <<ends, enabled, connections, reliable, done, call, handler>>

DeleteServer(n) ==
    /\ servers' = [servers EXCEPT ![n] = {}]
    /\ UNCHANGED <<ends, enabled, connections, reliable, done, call, handler>>

Reliable(yes) ==
    /\ reliable # yes
    /\ reliable' = yes
    /\ UNCHANGED <<ends, enabled, connections, servers, done, call, handler>>

Cleanup ==
    /\ ~done
    /\ done' = TRUE
    /\ UNCHANGED <<ends, enabled, connections, servers, reliable, call, handler>>

-----------------------------------------------------------------------------
(* A call. *)

SetPc(c, pc) == call' = [call EXCEPT ![c].pc = pc]

\* Call hands its request to the network's goroutine, or finds the network
\* destroyed; if both are possible, select picks one.
Send(c, e) ==
    /\ call[c].pc = "unused"
    /\ ends[e] # "new"
    /\ \E pc \in {"sent"} \cup (IF done THEN {"false"} ELSE {}) :
          call' = [call EXCEPT ![c] = [pc |-> pc, end |-> e]]
    /\ UNCHANGED <<netVars, handler>>

\* processReq begins: readEndnameInfo.
ReadEndnameInfo(c) ==
    LET e == call[c].end
        reached == {r \in ServerName \X Instance : r[1] \in connections[e] /\ r[2] \in servers[r[1]]}
    IN /\ call[c].pc = "sent"
       /\ \/ /\ e \in enabled
             /\ \E r \in reached :
                   call' = [call EXCEPT ![c] = [pc |-> "accepted", end |-> e, name |-> r[1],
                                                server |-> r[2], reliable |-> reliable]]
          \/ /\ e \notin enabled \/ reached = {}
             /\ SetPc(c, "timeout")
       /\ UNCHANGED <<netVars, handler>>

\* An unreliable network drops the request.
DropRequest(c) ==
    /\ call[c].pc = "accepted" /\ ~call[c].reliable
    /\ SetPc(c, "failed")
    /\ UNCHANGED <<netVars, handler>>

\* The goroutine of the handler is started.
Dispatch(c) ==
    /\ call[c].pc = "accepted"
    /\ SetPc(c, "waiting")
    /\ handler' = [handler EXCEPT ![c] = "running"]
    /\ UNCHANGED netVars

\* The handler runs; it does not care whether anyone still waits.
Handle(c) ==
    /\ handler[c] = "running"
    /\ handler' = [handler EXCEPT ![c] = "done"]
    /\ UNCHANGED <<netVars, call>>

isServerDead_EndOnly(c) == call[c].end \notin enabled

isServerDead(c) == call[c].end \notin enabled \/ call[c].server \notin servers[call[c].name]

StopWaiting_Never(c) == FALSE

\* Every 100 ms while the handler runs.
StopWaiting(c) ==
    /\ call[c].pc = "waiting" /\ handler[c] = "running"
    /\ isServerDead(c)
    /\ SetPc(c, "failed")
    /\ UNCHANGED <<netVars, handler>>

\* The handler has returned.  The reply that is on its way when the network
\* changes still arrives.
Answer(c) ==
    /\ call[c].pc = "waiting" /\ handler[c] = "done"
    /\ \/ isServerDead(c) /\ SetPc(c, "failed")
       \/ ~isServerDead(c) /\ ~call[c].reliable /\ SetPc(c, "failed")
       \/ ~isServerDead(c) /\ SetPc(c, "ok")
    /\ UNCHANGED <<netVars, handler>>

\* Call returns.
Return(c) ==
    /\ call[c].pc \in {"timeout", "failed", "ok"}
    /\ SetPc(c, IF call[c].pc = "ok" THEN "true" ELSE "false")
    /\ UNCHANGED <<netVars, handler>>

processReq(c) ==
    ReadEndnameInfo(c) \/ DropRequest(c) \/ Dispatch(c) \/ StopWaiting(c) \/ Answer(c)

Returned(c) == call[c].pc \in {"true", "false"}

=============================================================================
