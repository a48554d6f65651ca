------------------------------- MODULE Tester -------------------------------
(***************************************************************************)
(* The tester's servers on the simulated network: tester1/group.go starts  *)
(* and shuts down the instances of a server, and tester1/srv.go hands the  *)
(* Persister from one instance to the next.  An old instance is killed but *)
(* its handlers may go on, and go on saving into their Persister; so the   *)
(* tester copies the Persister, and labrpc answers no call of a deleted    *)
(* server.                                                                 *)
(*                                                                         *)
(* A service here saves what a call did before its handler returns, as a   *)
(* Raft peer or a durable k/v server does.                                 *)
(*                                                                         *)
(* An operator Op_fault is Op with a plausible mistake in it.  No          *)
(* specification uses it; put in the place of Op, it violates a property.  *)
(***************************************************************************)
EXTENDS Clnts

VARIABLES persisters,   \* the contents of all Persister objects of a server
          saved,        \* srv.saved: the object the tester holds
          objectOf,     \* the object an instance was started with
          up            \* how far the tester has started or shut down a server

testerVars == <<persisters, saved, objectOf, up>>
vars == <<rpcVars, clntVars, testerVars>>

\* Two objects for each instance: one made when it starts, one when it ends.
Object == 0..2 * MaxInstance

TypeOK ==
    /\ RpcTypeOK
    /\ ClntTypeOK
    /\ persisters \in [ServerName -> [Object -> SUBSET Call]]
    /\ saved \in [ServerName -> Object]
    /\ objectOf \in [ServerName -> [Instance -> Object]]
    /\ up \in [ServerName -> {"down", "up", "deleted"}]

\* makeSrvGrp.
Init ==
    /\ RpcInit
    /\ ClntInit
    /\ persisters = [n \in ServerName |-> [o \in Object |-> {}]]
    /\ saved = [n \in ServerName |-> 0]
    /\ objectOf = [n \in ServerName |-> [i \in Instance |-> 0]]
    /\ up = [n \in ServerName |-> "down"]

\* saved.Copy(): a fresh object with the old one's contents.
CopySaved(n) ==
    /\ persisters' = [persisters EXCEPT ![n][saved[n] + 1] = persisters[n][saved[n]]]
    /\ saved' = [saved EXCEPT ![n] = @ + 1]

\* The instance that runs, or else the one StartServer makes next.
CurInstance(n) == saved[n] \div 2 + 1

\* StartServer: startServer, the service's own start, and AddServer.
StartServer(n) ==
    /\ up[n] = "down"
    /\ CurInstance(n) \in Instance
    /\ CopySaved(n)
    /\ objectOf' = [objectOf EXCEPT ![n][CurInstance(n)] = saved[n] + 1]
    /\ AddServer(n, CurInstance(n))
    /\ up' = [up EXCEPT ![n] = "up"]
    /\ UNCHANGED clntVars

\* ShutdownServer: the server leaves the network first...
ShutdownServer(n) ==
    /\ up[n] = "up"
    /\ DeleteServer(n)
    /\ up' = [up EXCEPT ![n] = "deleted"]
    /\ UNCHANGED <<clntVars, persisters, saved, objectOf>>

shutdownServer_NoCopy(n) ==
    /\ up[n] = "deleted"
    /\ up' = [up EXCEPT ![n] = "down"]
    /\ UNCHANGED <<rpcVars, clntVars, persisters, saved, objectOf>>

\* ...and then its Persister is copied and it is killed.
shutdownServer(n) ==
    /\ up[n] = "deleted"
    /\ CopySaved(n)
    /\ up' = [up EXCEPT ![n] = "down"]
    /\ UNCHANGED <<rpcVars, clntVars, objectOf>>

\* A handler saves into the object of its instance.
HandleAndSave(c) ==
    LET n == call[c].name IN
    /\ Handle(c)
    /\ persisters' = [persisters EXCEPT ![n][objectOf[n][call[c].server]] = @ \cup {c}]
    /\ UNCHANGED <<clntVars, saved, objectOf, up>>

-----------------------------------------------------------------------------
\* What the tests do to the clients and the network, at any time; the network is
\* destroyed after the clients are gone (Config.Cleanup).
Configure ==
    /\ \/ ClntStep
       \/ /\ (\E yes \in BOOLEAN : Reliable(yes)) \/ (cleaned /\ Cleanup)
          /\ UNCHANGED clntVars
    /\ UNCHANGED testerVars

Lifecycle == \E n \in ServerName : StartServer(n) \/ ShutdownServer(n) \/ shutdownServer(n)

CallStep(c) == (processReq(c) \/ Return(c)) /\ UNCHANGED <<clntVars, testerVars>>

Next ==
    \/ Configure
    \/ Lifecycle
    \/ \E c \in Call, k \in Clnt, n \in ServerName : ClntCall(c, k, n) /\ UNCHANGED testerVars
    \/ \E c \in Call : CallStep(c)
    \/ \E c \in Call : HandleAndSave(c)

\* The goroutines of the network run; a handler may hang for ever.
Spec == Init /\ [][Next]_vars /\ \A c \in Call : WF_vars(CallStep(c))

-----------------------------------------------------------------------------
(* Properties. *)

\* What the comments of labrpc.go (processReq) and group.go (ShutdownServer)
\* are about: a client never gets a positive reply to a call whose effect went
\* into a Persister that the next instance will not see.  Whatever call was
\* answered is in the Persister the tester now holds.
AckedIsSaved ==
    \A c \in Call : call[c].pc \in {"ok", "true"} => c \in persisters[call[c].name][saved[call[c].name]]

\* An instance that is shut down cannot change what its successors start from:
\* the Persister the tester holds does not change while the server is down, nor
\* while it is not the one the running instance was given.
OldInstancesIsolated ==
    [][\A n \in ServerName :
         (persisters'[n][saved'[n]] # persisters[n][saved[n]]) =>
             /\ up[n] \in {"up", "deleted"}
             /\ objectOf[n][CurInstance(n)] = saved[n]]_vars

\* The comment on clnt.srvs: a client reaches the servers it may reach and no
\* other, whether its end to a server was made before the tests connected or
\* disconnected it, or is made later by its first call.  All variables keep
\* their types.
ReachAsAllowed ==
    /\ TypeOK
    /\ \A k \in Clnt : clnts[k] = "made" =>
          \A n \in ServerName : \A e \in clntEnds[k][n] :
              connections[e] = {n} /\ (e \in enabled <=> n \in srvs[k])

\* Every call returns, whatever happens to the network and even when the handler
\* of a deleted instance hangs; only the handler of a live server can keep its
\* caller waiting.
CallsReturn ==
    \A c \in Call :
        call[c].pc # "unused" ~>
            (Returned(c) \/ (handler[c] = "running" /\ call[c].server \in servers[call[c].name]))

-----------------------------------------------------------------------------
(* Inductive invariants. *)

\* A client's ends are its own and lead to one server each; while the client is
\* in use they are made.
EndsInv ==
    /\ ReachAsAllowed
    /\ \A k \in Clnt, n \in ServerName : \A e \in clntEnds[k][n] :
          /\ ends[e] # "new"
          /\ clnts[k] = "made" => ends[e] = "made"
          /\ \A l \in Clnt, m \in ServerName : e \in clntEnds[l][m] => l = k /\ m = n
    /\ \A k \in Clnt, n \in ServerName : clnts[k] = "new" => clntEnds[k][n] = {}

\* Instance i of a server writes to object 2i - 1 and to no other, from its start
\* on.  The network knows the instance of a server that is up, and no other.
InstancesInOrder ==
    \A n \in ServerName :
        /\ \E k \in 0..MaxInstance : saved[n] = IF up[n] = "down" THEN 2 * k ELSE 2 * k + 1
        /\ servers[n] = IF up[n] = "up" THEN {CurInstance(n)} ELSE {}
        /\ \A i \in Instance : 2 * i - 1 <= saved[n] => objectOf[n][i] = 2 * i - 1

\* A call was accepted by an instance that had been started, and once its handler
\* has returned it is in that instance's object.
CallsInObjects ==
    \A c \in Call :
        /\ handler[c] # "none" => call[c] \in AcceptedCall
        /\ call[c] \in AcceptedCall => 2 * call[c].server - 1 <= saved[call[c].name]
        /\ handler[c] = "done" => c \in persisters[call[c].name][2 * call[c].server - 1]

SavedInv == EndsInv /\ InstancesInOrder /\ CallsInObjects /\ AckedIsSaved

=============================================================================
