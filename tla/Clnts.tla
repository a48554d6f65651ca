------------------------------- MODULE Clnts -------------------------------
(***************************************************************************)
(* tester1/clnts.go: the clients of the tests.  A Clnt makes its end to a  *)
(* server lazily, when it first calls it; the tests connect and disconnect *)
(* a client, and delete it, while its calls are under way.                 *)
(*                                                                         *)
(* Each operation holds the client's mutex, and switches its ends one by   *)
(* one; a call uses a single end, so that the loop is one step here.       *)
(* ConnectTo and Disconnect, which nothing calls, are left out.            *)
(*                                                                         *)
(* An operator Op_fault is Op with a plausible mistake in it.  No          *)
(* specification uses it; put in the place of Op, it violates a property.  *)
(***************************************************************************)
EXTENDS Labrpc

CONSTANT Clnt

VARIABLES clnts,      \* the Clnt objects: those in clnts.clerks are "made"
          clntEnds,   \* clnt.ends: the end to a server, none or one
          srvs,       \* clnt.srvs: the servers a client may reach; nil is all of them
          cleaned     \* clnts.clerks is nil

clntVars == <<clnts, clntEnds, srvs, cleaned>>

ClntTypeOK ==
    /\ clnts \in [Clnt -> {"new", "made", "deleted"}]
    /\ clntEnds \in [Clnt -> [ServerName -> SUBSET End]]
    /\ srvs \in [Clnt -> SUBSET ServerName]
    /\ cleaned \in BOOLEAN

ClntInit ==
    /\ clnts = [k \in Clnt |-> "new"]
    /\ clntEnds = [k \in Clnt |-> [n \in ServerName |-> {}]]
    /\ srvs = [k \in Clnt |-> ServerName]
    /\ cleaned = FALSE

EndsOf(k) == UNION {clntEnds[k][n] : n \in ServerName}

\* MakeClient and MakeClientTo.
MakeClientTo(k, to) ==
    /\ clnts[k] = "new"
    /\ ~cleaned
    /\ clnts' = [clnts EXCEPT ![k] = "made"]
    /\ srvs' = [srvs EXCEPT ![k] = to]
    /\ UNCHANGED <<rpcVars, clntEnds, cleaned>>

makeEnd_Enabled(k, n, e) ==
    /\ clnts[k] # "new"
    /\ clntEnds[k][n] = {}
    /\ MakeEnd(e, n, TRUE)
    /\ clntEnds' = [clntEnds EXCEPT ![k][n] = {e}]
    /\ UNCHANGED <<clnts, srvs, cleaned>>

\* The first call to server n makes the end e, under a fresh name.
makeEnd(k, n, e) ==
    /\ clnts[k] # "new"
    /\ clntEnds[k][n] = {}
    /\ MakeEnd(e, n, n \in srvs[k])
    /\ clntEnds' = [clntEnds EXCEPT ![k][n] = {e}]
    /\ UNCHANGED <<clnts, srvs, cleaned>>

\* Clnt.Call goes on with the end that makeEnd has returned.
ClntCall(c, k, n) ==
    /\ \E e \in clntEnds[k][n] : Send(c, e)
    /\ UNCHANGED clntVars

ConnectAll(k) ==
    /\ clnts[k] = "made"
    /\ Enable(EndsOf(k), TRUE)
    /\ srvs' = [srvs EXCEPT ![k] = ServerName]
    /\ UNCHANGED <<clnts, clntEnds, cleaned>>

DisconnectAll(k) ==
    /\ clnts[k] = "made"
    /\ Enable(EndsOf(k), FALSE)
    /\ srvs' = [srvs EXCEPT ![k] = {}]
    /\ UNCHANGED <<clnts, clntEnds, cleaned>>

\* DeleteClient: remove deletes the ends, which stay in clnt.ends.
DeleteClient(k) ==
    /\ clnts[k] = "made"
    /\ DeleteEnd(EndsOf(k))
    /\ clnts' = [clnts EXCEPT ![k] = "deleted"]
    /\ UNCHANGED <<clntEnds, srvs, cleaned>>

\* Clnts.cleanup, at the end of a test: every client that is left is removed.
cleanup ==
    LET left == {k \in Clnt : clnts[k] = "made"}
    IN /\ ~cleaned
       /\ cleaned' = TRUE
       /\ DeleteEnd(UNION {EndsOf(k) : k \in left})
       /\ clnts' = [k \in Clnt |-> IF k \in left THEN "deleted" ELSE clnts[k]]
       /\ UNCHANGED <<clntEnds, srvs>>

ClntStep ==
    \/ \E k \in Clnt, to \in SUBSET ServerName : MakeClientTo(k, to)
    \/ \E k \in Clnt, n \in ServerName, e \in End : makeEnd(k, n, e)
    \/ \E k \in Clnt : ConnectAll(k) \/ DisconnectAll(k) \/ DeleteClient(k)
    \/ cleanup

=============================================================================
