---------------------------- MODULE TesterProofs ----------------------------
(***************************************************************************)
(* Proofs about the tester's servers and clients: for any number of them,  *)
(* of calls and of restarts, what a client was told is done is in the      *)
(* Persister of the next instance, no old instance writes there, and a     *)
(* client reaches the servers it may reach.                                *)
(***************************************************************************)
EXTENDS Tester, TLAPS

\* What a lemma about a step may not touch, as seen by the ends and the clients.
endVars == <<ends, enabled, connections, clntVars>>

\* What it may not touch, as seen by the instances, their objects and the calls.
objectVars == <<servers, call, handler, testerVars>>

\* Before anything starts there are no ends, no instances and no calls.
LEMMA SavedInit == Init => SavedInv
<1> SUFFICES ASSUME Init PROVE SavedInv
  OBVIOUS
<1> USE DEF Init, RpcInit, ClntInit
<1>1. RpcTypeOK
  BY LabrpcAssumption, Zenon DEF RpcTypeOK, CallState
<1>2. ClntTypeOK
  BY Zenon DEF ClntTypeOK
<1>3. TypeOK
  BY <1>1, <1>2, LabrpcAssumption DEF TypeOK, Object, Instance
<1>4. EndsInv
  BY <1>3 DEF EndsInv, ReachAsAllowed
<1>5. InstancesInOrder
  BY LabrpcAssumption DEF InstancesInOrder, Instance
<1>6. CallsInObjects
  BY DEF CallsInObjects, AcceptedCall
<1>7. AckedIsSaved
  BY DEF AckedIsSaved
<1> QED
  BY <1>4, <1>5, <1>6, <1>7 DEF SavedInv

-----------------------------------------------------------------------------
(* The clients. *)

\* The network's own types, for a step that changes ends and no call.
LEMMA NetType ==
    ASSUME TypeOK, UNCHANGED objectVars,
           ends' \in [End -> {"new", "made", "deleted"}],
           enabled' \subseteq {e \in End : ends'[e] = "made"},
           connections' \in [End -> SUBSET ServerName],
           reliable' \in BOOLEAN, done' \in BOOLEAN,
           ClntTypeOK'
    PROVE  TypeOK'
  BY DEF TypeOK, RpcTypeOK, objectVars, testerVars

\* A step that leaves the ends and the clients alone keeps what is known of them.
LEMMA EndsKept ==
    ASSUME EndsInv, UNCHANGED endVars, TypeOK'
    PROVE  EndsInv'
  BY DEF EndsInv, ReachAsAllowed, endVars, clntVars

\* MakeClientTo: a new client has no ends yet, so its srvs decides nothing.
LEMMA EndsMakeClientTo ==
    ASSUME EndsInv, NEW k \in Clnt, NEW to \in SUBSET ServerName, MakeClientTo(k, to), UNCHANGED testerVars
    PROVE  EndsInv'
<1> USE DEF MakeClientTo, rpcVars, netVars
<1>0. TypeOK /\ RpcTypeOK /\ ClntTypeOK
  BY Zenon DEF EndsInv, ReachAsAllowed, TypeOK
<1>1. ClntTypeOK'
  BY <1>0 DEF ClntTypeOK
<1>2. TypeOK'
  BY <1>0, <1>1, NetType DEF RpcTypeOK, objectVars
<1>3. ReachAsAllowed'
  BY <1>0, <1>2 DEF EndsInv, ReachAsAllowed, ClntTypeOK
<1> QED
  BY <1>0, <1>3 DEF EndsInv, ClntTypeOK

\* makeEnd: the name is fresh, so no other client has it.
LEMMA EndsMakeEnd ==
    ASSUME EndsInv, NEW k \in Clnt, NEW n \in ServerName, NEW e \in End, makeEnd(k, n, e), UNCHANGED testerVars
    PROVE  EndsInv'
<1> USE DEF makeEnd, MakeEnd
<1>0. TypeOK /\ RpcTypeOK /\ ClntTypeOK
  BY DEF EndsInv, ReachAsAllowed, TypeOK
<1>1. ClntTypeOK'
  BY <1>0 DEF ClntTypeOK
<1>2. TypeOK'
  BY <1>0, <1>1, NetType DEF RpcTypeOK, objectVars
<1>3. \A l \in Clnt, m \in ServerName : clntEnds'[l][m] = IF l = k /\ m = n THEN {e} ELSE clntEnds[l][m]
  BY <1>0 DEF ClntTypeOK
<1>4. \A l \in Clnt, m \in ServerName : e \notin clntEnds[l][m]
  BY DEF EndsInv
<1>5. \A f \in End : f # e => ends'[f] = ends[f] /\ connections'[f] = connections[f] /\ (f \in enabled' <=> f \in enabled)
  BY <1>0 DEF RpcTypeOK
<1>6. ends'[e] = "made" /\ connections'[e] = {n} /\ (e \in enabled' <=> n \in srvs[k])
  BY <1>0 DEF RpcTypeOK
<1>7. ReachAsAllowed'
  <2> SUFFICES ASSUME NEW l \in Clnt, clnts[l] = "made", NEW m \in ServerName, NEW f \in clntEnds'[l][m]
               PROVE  connections'[f] = {m} /\ (f \in enabled' <=> m \in srvs[l])
    BY <1>2 DEF ReachAsAllowed
  <2>1. CASE l = k /\ m = n
    BY <2>1, <1>3, <1>6
  <2>2. CASE ~(l = k /\ m = n)
    <3>1. f \in clntEnds[l][m] /\ f # e
      BY <2>2, <1>3, <1>4
    <3>2. f \in End
      BY <3>1, <1>0 DEF ClntTypeOK
    <3> QED
      BY <3>1, <3>2, <1>5 DEF EndsInv, ReachAsAllowed
  <2> QED
    BY <2>1, <2>2
<1>8. ASSUME NEW l \in Clnt, NEW m \in ServerName, NEW f \in clntEnds'[l][m]
      PROVE  /\ ends'[f] # "new"
             /\ clnts'[l] = "made" => ends'[f] = "made"
             /\ \A l2 \in Clnt, m2 \in ServerName : f \in clntEnds'[l2][m2] => l2 = l /\ m2 = m
  <2>1. CASE l = k /\ m = n
    BY <2>1, <1>3, <1>4, <1>6
  <2>2. CASE ~(l = k /\ m = n)
    <3>1. f \in clntEnds[l][m] /\ f # e
      BY <2>2, <1>3, <1>4, <1>8
    <3>2. f \in End
      BY <3>1, <1>0 DEF ClntTypeOK
    <3>3. ends'[f] = ends[f]
      BY <3>1, <3>2, <1>5
    <3> QED
      BY <3>1, <3>3, <1>3 DEF EndsInv
  <2> QED
    BY <2>1, <2>2, Zenon
<1>9. \A l \in Clnt, m \in ServerName : clnts'[l] = "new" => clntEnds'[l][m] = {}
  BY <1>3 DEF EndsInv
<1> QED
  BY <1>7, <1>8, <1>9, Zenon DEF EndsInv

\* ConnectAll and DisconnectAll: srvs says of every server what the ends of the
\* client now allow; other clients' ends are not among them.
LEMMA EndsSwitch ==
    ASSUME EndsInv, NEW k \in Clnt, ConnectAll(k) \/ DisconnectAll(k), UNCHANGED testerVars
    PROVE  EndsInv'
<1>0. TypeOK /\ RpcTypeOK /\ ClntTypeOK
  BY DEF EndsInv, ReachAsAllowed, TypeOK
<1>1. PICK on \in BOOLEAN : Enable(EndsOf(k), on) /\ srvs' = [srvs EXCEPT ![k] = IF on THEN ServerName ELSE {}]
  BY Zenon DEF ConnectAll, DisconnectAll
<1>2. clnts[k] = "made" /\ UNCHANGED <<clnts, clntEnds, cleaned>>
  BY Zenon DEF ConnectAll, DisconnectAll
<1>3. ClntTypeOK'
  BY <1>0, <1>1, <1>2 DEF ClntTypeOK
<1>4. \A e : e \in EndsOf(k) <=> \E n \in ServerName : e \in clntEnds[k][n]
  BY DEF EndsOf
<1>5. EndsOf(k) \subseteq {e \in End : ends[e] = "made"}
  BY <1>0, <1>2, <1>4 DEF EndsInv, ClntTypeOK
<1>6. UNCHANGED <<ends, connections, objectVars, reliable, done>>
  BY <1>1 DEF Enable, objectVars
<1>7. enabled' = IF on THEN enabled \cup EndsOf(k) ELSE enabled \ EndsOf(k)
  BY <1>1 DEF Enable
<1>8. TypeOK'
  <2>1. enabled' \subseteq {e \in End : ends'[e] = "made"}
    BY <1>0, <1>5, <1>6, <1>7 DEF RpcTypeOK
  <2> QED
    BY <2>1, <1>0, <1>3, <1>6, NetType DEF RpcTypeOK
<1>9. ReachAsAllowed'
  <2> SUFFICES ASSUME NEW l \in Clnt, clnts'[l] = "made", NEW m \in ServerName, NEW f \in clntEnds'[l][m]
               PROVE  connections'[f] = {m} /\ (f \in enabled' <=> m \in srvs'[l])
    BY <1>8 DEF ReachAsAllowed
  <2>1. connections[f] = {m} /\ (f \in enabled <=> m \in srvs[l])
    BY <1>2 DEF EndsInv, ReachAsAllowed
  <2>2. CASE l = k
    <3>1. f \in EndsOf(k)
      BY <2>2, <1>2, <1>4
    <3>2. srvs'[l] = IF on THEN ServerName ELSE {}
      BY <2>2, <1>0, <1>1 DEF ClntTypeOK
    <3> QED
      BY <3>1, <3>2, <2>1, <1>6, <1>7
  <2>3. CASE l # k
    <3>1. f \notin EndsOf(k)
      BY <2>3, <1>2, <1>4 DEF EndsInv
    <3>2. srvs'[l] = srvs[l]
      BY <2>3, <1>0, <1>1 DEF ClntTypeOK
    <3> QED
      BY <3>1, <3>2, <2>1, <1>6, <1>7
  <2> QED
    BY <2>2, <2>3
<1> QED
  BY <1>2, <1>6, <1>9 DEF EndsInv

\* DeleteClient and cleanup: the ends of the clients in gone go, and with them
\* the clients; the other clients keep theirs.
LEMMA EndsRemove ==
    ASSUME EndsInv, NEW gone \in SUBSET Clnt,
           DeleteEnd(UNION {EndsOf(k) : k \in gone}),
           clnts' = [k \in Clnt |-> IF k \in gone THEN "deleted" ELSE clnts[k]],
           UNCHANGED <<clntEnds, srvs, testerVars>>, cleaned' \in BOOLEAN
    PROVE  EndsInv'
<1> DEFINE es == UNION {EndsOf(k) : k \in gone}
<1>0. TypeOK /\ RpcTypeOK /\ ClntTypeOK
  BY DEF EndsInv, ReachAsAllowed, TypeOK
<1>1. ClntTypeOK'
  BY <1>0 DEF ClntTypeOK
<1>2. \A e : e \in es <=> \E k \in gone, n \in ServerName : e \in clntEnds[k][n]
  BY DEF EndsOf
<1>3. /\ ends' = [e \in End |-> IF e \in es THEN "deleted" ELSE ends[e]]
      /\ enabled' = enabled \ es
      /\ connections' = [e \in End |-> IF e \in es THEN {} ELSE connections[e]]
      /\ UNCHANGED <<objectVars, reliable, done>>
  BY DEF DeleteEnd, objectVars
<1> HIDE DEF es
<1>4. TypeOK'
  <2>1. ends' \in [End -> {"new", "made", "deleted"}]
    BY <1>0, <1>3 DEF RpcTypeOK
  <2>2. enabled' \subseteq {e \in End : ends'[e] = "made"}
    BY <1>0, <1>3 DEF RpcTypeOK
  <2>3. connections' \in [End -> SUBSET ServerName]
    BY <1>0, <1>3 DEF RpcTypeOK
  <2> QED
    BY <2>1, <2>2, <2>3, <1>0, <1>1, <1>3, NetType DEF RpcTypeOK
<1>5. ASSUME NEW l \in Clnt \ gone, NEW m \in ServerName, NEW f \in clntEnds[l][m]
      PROVE  f \in End /\ f \notin es
  BY <1>0, <1>2 DEF EndsInv, ClntTypeOK
<1>6. ReachAsAllowed'
  <2> SUFFICES ASSUME NEW l \in Clnt, clnts'[l] = "made", NEW m \in ServerName, NEW f \in clntEnds[l][m]
               PROVE  connections'[f] = {m} /\ (f \in enabled' <=> m \in srvs[l])
    BY <1>4 DEF ReachAsAllowed
  <2>1. l \notin gone /\ clnts[l] = "made"
    OBVIOUS
  <2>2. connections[f] = {m} /\ (f \in enabled <=> m \in srvs[l])
    BY <2>1 DEF EndsInv, ReachAsAllowed
  <2> QED
    BY <2>1, <2>2, <1>3, <1>5
<1>7. ASSUME NEW l \in Clnt, NEW m \in ServerName, NEW f \in clntEnds[l][m]
      PROVE  ends'[f] # "new" /\ (clnts'[l] = "made" => ends'[f] = "made")
  <2>1. f \in End
    BY <1>0, <1>7 DEF ClntTypeOK
  <2>2. ends[f] # "new" /\ (clnts[l] = "made" => ends[f] = "made")
    BY <1>7 DEF EndsInv
  <2>3. clnts'[l] = "made" => l \notin gone /\ clnts[l] = "made"
    OBVIOUS
  <2> QED
    BY <2>1, <2>2, <2>3, <1>3, <1>5, <1>7
<1>8. \A l \in Clnt : clnts'[l] = "new" => clnts[l] = "new"
  OBVIOUS
<1> QED
  BY <1>6, <1>7, <1>8 DEF EndsInv

\* Each step of a client keeps the invariant of the ends.
LEMMA EndsStep ==
    ASSUME EndsInv, ClntStep, UNCHANGED testerVars
    PROVE  EndsInv' /\ UNCHANGED objectVars
<1>0. ClntTypeOK
  BY DEF EndsInv, ReachAsAllowed, TypeOK
<1>1. ASSUME NEW k \in Clnt, NEW to \in SUBSET ServerName, MakeClientTo(k, to)
      PROVE  EndsInv' /\ UNCHANGED objectVars
  BY <1>1, EndsMakeClientTo, Zenon DEF MakeClientTo, rpcVars, netVars, objectVars
<1>2. ASSUME NEW k \in Clnt, NEW n \in ServerName, NEW e \in End, makeEnd(k, n, e)
      PROVE  EndsInv' /\ UNCHANGED objectVars
  BY <1>2, EndsMakeEnd, Zenon DEF makeEnd, MakeEnd, objectVars
<1>3. ASSUME NEW k \in Clnt, ConnectAll(k) \/ DisconnectAll(k)
      PROVE  EndsInv' /\ UNCHANGED objectVars
  BY <1>3, EndsSwitch DEF ConnectAll, DisconnectAll, Enable, objectVars
<1>4. ASSUME NEW k \in Clnt, DeleteClient(k)
      PROVE  EndsInv' /\ UNCHANGED objectVars
  <2>1. UNION {EndsOf(l) : l \in {k}} = EndsOf(k)
    OBVIOUS
  <2>2. clnts' = [l \in Clnt |-> IF l \in {k} THEN "deleted" ELSE clnts[l]]
    BY <1>0, <1>4, Zenon DEF DeleteClient, ClntTypeOK
  <2>3. /\ DeleteEnd(UNION {EndsOf(l) : l \in {k}})
        /\ UNCHANGED <<clntEnds, srvs, testerVars>>
        /\ cleaned' \in BOOLEAN
    BY <1>0, <1>4, <2>1, Zenon DEF DeleteClient, ClntTypeOK
  <2>4. {k} \in SUBSET Clnt
    OBVIOUS
  <2>5. EndsInv'
    BY <2>2, <2>3, <2>4, EndsRemove, Zenon
  <2> QED
    BY <2>5, <1>4 DEF DeleteClient, DeleteEnd, objectVars
<1>5. ASSUME cleanup
      PROVE  EndsInv' /\ UNCHANGED objectVars
  <2> DEFINE left == {k \in Clnt : clnts[k] = "made"}
  <2>1. /\ DeleteEnd(UNION {EndsOf(k) : k \in left})
        /\ clnts' = [k \in Clnt |-> IF k \in left THEN "deleted" ELSE clnts[k]]
        /\ UNCHANGED <<clntEnds, srvs, testerVars>>
        /\ cleaned' \in BOOLEAN
    BY <1>5 DEF cleanup
  <2>2. left \in SUBSET Clnt
    OBVIOUS
  <2>3. EndsInv'
    BY <2>1, <2>2, EndsRemove, Zenon
  <2> QED
    BY <2>1, <2>3 DEF DeleteEnd, objectVars
<1> QED
  BY <1>1, <1>2, <1>3, <1>4, <1>5 DEF ClntStep

-----------------------------------------------------------------------------
(* The calls. *)

\* A step that leaves instances, objects and calls alone keeps what is known of
\* them.
LEMMA ObjectsKept ==
    ASSUME InstancesInOrder, CallsInObjects, AckedIsSaved, UNCHANGED objectVars
    PROVE  InstancesInOrder' /\ CallsInObjects' /\ AckedIsSaved'
<1> USE DEF objectVars, testerVars
<1>1. InstancesInOrder'
  BY DEF InstancesInOrder, CurInstance
<1>2. CallsInObjects'
  BY Zenon DEF CallsInObjects
<1>3. AckedIsSaved'
  BY Zenon DEF AckedIsSaved
<1> QED
  BY <1>1, <1>2, <1>3

\* What a step of call c has to show of its new state s and of its handler h.
CallOK(c, s, h) ==
    /\ s \in CallState
    /\ h \in {"none", "running", "done"}
    /\ h # "none" => s \in AcceptedCall
    /\ s \in AcceptedCall => 2 * s.server - 1 <= saved[s.name]
    /\ h = "done" => c \in persisters[s.name][2 * s.server - 1]
    /\ s.pc \in {"ok", "true"} => c \in persisters[s.name][saved[s.name]]

\* A step of one call keeps the invariant when its new state is in order.
LEMMA CallChange ==
    ASSUME SavedInv, NEW c \in Call, NEW s, NEW h, CallOK(c, s, h),
           call' = [call EXCEPT ![c] = s],
           handler' = [handler EXCEPT ![c] = h],
           UNCHANGED <<netVars, clntVars, testerVars>>
    PROVE  SavedInv'
<1> USE DEF netVars, clntVars, testerVars
<1>0. TypeOK /\ RpcTypeOK /\ ClntTypeOK
  BY DEF SavedInv, EndsInv, ReachAsAllowed, TypeOK
<1>1. \A d \in Call : /\ call'[d] = IF d = c THEN s ELSE call[d]
                      /\ handler'[d] = IF d = c THEN h ELSE handler[d]
  BY <1>0 DEF RpcTypeOK
<1>2. RpcTypeOK'
  BY <1>0, Zenon DEF RpcTypeOK, CallOK
<1>3. TypeOK'
  BY <1>0, <1>2 DEF TypeOK, ClntTypeOK
<1>4. EndsInv'
  BY <1>3, EndsKept DEF SavedInv, endVars
<1>5. InstancesInOrder'
  BY Zenon DEF SavedInv, InstancesInOrder, CurInstance
<1>6. CallsInObjects'
  BY <1>1 DEF SavedInv, CallsInObjects, CallOK
<1>7. AckedIsSaved'
  BY <1>1 DEF SavedInv, AckedIsSaved, CallOK
<1> QED
  BY <1>4, <1>5, <1>6, <1>7 DEF SavedInv

\* What SetPc makes of a call that was accepted: only its pc changes.
LEMMA AcceptedPc ==
    ASSUME NEW s \in AcceptedCall, NEW pc \in {"accepted", "waiting", "ok", "failed", "true", "false"}
    PROVE  LET t == [s EXCEPT !.pc = pc]
           IN t \in AcceptedCall /\ t \in CallState /\ t.pc = pc /\ t.name = s.name /\ t.server = s.server
<1> DEFINE t == [s EXCEPT !.pc = pc]
<1>1. t \in AcceptedCall /\ t.pc = pc /\ t.name = s.name /\ t.server = s.server
  BY DEF AcceptedCall
<1> QED
  BY <1>1 DEF CallState

\* And of one that was not: it is still not accepted.
LEMMA UnservedPc ==
    ASSUME NEW s \in [pc : {"sent", "timeout", "false"}, end : End], NEW pc \in {"timeout", "false"}
    PROVE  LET t == [s EXCEPT !.pc = pc]
           IN t \in CallState /\ t \notin AcceptedCall /\ t.pc = pc
<1> DEFINE t == [s EXCEPT !.pc = pc]
<1>1. t \in [pc : {"sent", "timeout", "false"}, end : End] /\ t.pc = pc
  OBVIOUS
<1>2. t = [pc |-> pc, end |-> s.end]
  OBVIOUS
<1>3. t \notin AcceptedCall
  BY <1>2 DEF AcceptedCall
<1> QED
  BY <1>1, <1>3 DEF CallState

\* A call that is accepted, or has been, is so by its pc.
LEMMA AcceptedByPc ==
    ASSUME TypeOK, NEW c \in Call
    PROVE  /\ call[c].pc \in {"accepted", "waiting", "ok", "failed", "true"} => call[c] \in AcceptedCall
           /\ call[c].pc \in {"sent", "timeout"} =>
                 call[c] \in [pc : {"sent", "timeout", "false"}, end : End] /\ call[c] \notin AcceptedCall
<1>1. call[c] \in CallState
  BY DEF TypeOK, RpcTypeOK
<1> QED
  BY <1>1 DEF CallState, AcceptedCall

\* SetPc of an accepted call keeps the invariant, if an "ok" or "true" is of a
\* call that is saved.
LEMMA SetPcAccepted ==
    ASSUME SavedInv, NEW c \in Call, call[c] \in AcceptedCall,
           NEW pc \in {"accepted", "waiting", "ok", "failed", "true", "false"}, SetPc(c, pc),
           NEW h \in {"none", "running", "done"}, handler' = [handler EXCEPT ![c] = h],
           h = "done" => handler[c] = "done",
           pc \in {"ok", "true"} => c \in persisters[call[c].name][saved[call[c].name]],
           UNCHANGED <<netVars, clntVars, testerVars>>
    PROVE  SavedInv'
<1> DEFINE t == [call[c] EXCEPT !.pc = pc]
<1>1. t \in AcceptedCall /\ t \in CallState /\ t.pc = pc /\ t.name = call[c].name /\ t.server = call[c].server
  BY AcceptedPc, Zenon
<1>2. call' = [call EXCEPT ![c] = t]
  BY DEF SetPc
<1> HIDE DEF t
<1>3. CallOK(c, t, h)
  BY <1>1, Zenon DEF CallOK, SavedInv, CallsInObjects
<1> QED
  BY <1>2, <1>3, CallChange, Zenon

\* SetPc of a call that found no server keeps the invariant.
LEMMA SetPcUnserved ==
    ASSUME SavedInv, NEW c \in Call, call[c].pc \in {"sent", "timeout"},
           NEW pc \in {"timeout", "false"}, SetPc(c, pc), UNCHANGED <<netVars, handler, clntVars, testerVars>>
    PROVE  SavedInv'
<1> DEFINE t == [call[c] EXCEPT !.pc = pc]
<1>0. TypeOK /\ RpcTypeOK
  BY DEF SavedInv, EndsInv, ReachAsAllowed, TypeOK
<1>1. t \in CallState /\ t \notin AcceptedCall /\ t.pc = pc
  BY <1>0, AcceptedByPc, UnservedPc, Zenon
<1>2. call' = [call EXCEPT ![c] = t]
  BY DEF SetPc
<1>3. handler[c] = "none"
  BY <1>0, AcceptedByPc DEF SavedInv, CallsInObjects
<1>4. handler' = [handler EXCEPT ![c] = "none"]
  BY <1>0, <1>3 DEF RpcTypeOK
<1> HIDE DEF t
<1>5. CallOK(c, t, "none")
  BY <1>1 DEF CallOK
<1> QED
  BY <1>2, <1>4, <1>5, CallChange, Zenon

\* Clnt.Call hands its request over: the call is in no server's hands.
LEMMA SavedSend ==
    ASSUME SavedInv, NEW c \in Call, NEW k \in Clnt, NEW n \in ServerName, ClntCall(c, k, n), UNCHANGED testerVars
    PROVE  SavedInv'
<1>0. TypeOK /\ RpcTypeOK /\ ClntTypeOK
  BY DEF SavedInv, EndsInv, ReachAsAllowed, TypeOK
<1>1. PICK e \in clntEnds[k][n] : Send(c, e)
  BY DEF ClntCall
<1>2. e \in End
  BY <1>0 DEF ClntTypeOK
<1>3. PICK pc \in {"sent", "false"} : call' = [call EXCEPT ![c] = [pc |-> pc, end |-> e]]
  BY <1>1, Zenon DEF Send
<1> DEFINE t == [pc |-> pc, end |-> e]
<1>4. t \in CallState /\ t.pc = pc /\ t \notin AcceptedCall
  BY <1>2 DEF CallState, AcceptedCall
<1>5. call[c] \notin AcceptedCall
  BY <1>1 DEF Send, AcceptedCall
<1>6. handler[c] = "none"
  BY <1>5 DEF SavedInv, CallsInObjects
<1>7. handler' = [handler EXCEPT ![c] = "none"]
  BY <1>0, <1>1, <1>6 DEF RpcTypeOK, Send
<1>8. call' = [call EXCEPT ![c] = t]
  BY <1>3
<1>9. UNCHANGED <<netVars, clntVars, testerVars>>
  BY <1>1 DEF Send, ClntCall
<1> HIDE DEF t
<1>10. CallOK(c, t, "none")
  BY <1>4 DEF CallOK
<1> QED
  BY <1>7, <1>8, <1>9, <1>10, CallChange, Zenon

\* The instance the network knows is up, and its object is the one the tester
\* holds.
LEMMA InstanceUp ==
    ASSUME SavedInv, NEW n \in ServerName, NEW i \in servers[n]
    PROVE  up[n] = "up" /\ 2 * i - 1 = saved[n]
<1>1. servers[n] = IF up[n] = "up" THEN {CurInstance(n)} ELSE {}
  BY Zenon DEF SavedInv, InstancesInOrder
<1>2. up[n] = "up" /\ i = CurInstance(n)
  BY <1>1
<1>3. \E k \in 0..MaxInstance : saved[n] = IF up[n] = "down" THEN 2 * k ELSE 2 * k + 1
  BY Zenon DEF SavedInv, InstancesInOrder
<1>4. PICK k \in 0..MaxInstance : saved[n] = 2 * k + 1
  BY <1>2, <1>3
<1>5. CurInstance(n) = k + 1
  BY <1>4, LabrpcAssumption DEF CurInstance
<1> QED
  BY <1>2, <1>4, <1>5, LabrpcAssumption

\* readEndnameInfo: the server it finds is the instance that is up now.
LEMMA SavedReadEndnameInfo ==
    ASSUME SavedInv, NEW c \in Call, ReadEndnameInfo(c), UNCHANGED <<clntVars, testerVars>>
    PROVE  SavedInv'
<1>0. TypeOK /\ RpcTypeOK
  BY DEF SavedInv, EndsInv, ReachAsAllowed, TypeOK
<1>1. call[c].pc = "sent" /\ UNCHANGED <<netVars, handler>>
  BY DEF ReadEndnameInfo
<1>2. CASE SetPc(c, "timeout")
  BY <1>1, <1>2, SetPcUnserved
<1>3. ASSUME NEW r \in ServerName \X Instance, r[2] \in servers[r[1]],
             call' = [call EXCEPT ![c] = [pc |-> "accepted", end |-> call[c].end, name |-> r[1],
                                          server |-> r[2], reliable |-> reliable]]
      PROVE  SavedInv'
  <2> DEFINE t == [pc |-> "accepted", end |-> call[c].end, name |-> r[1],
                   server |-> r[2], reliable |-> reliable]
  <2>1. call[c] \in [pc : {"sent", "timeout", "false"}, end : End] /\ call[c] \notin AcceptedCall
    BY <1>0, <1>1, AcceptedByPc
  <2>2. reliable \in BOOLEAN /\ call[c].end \in End /\ r[1] \in ServerName /\ r[2] \in Instance
    BY <1>0, <2>1 DEF RpcTypeOK
  <2>3. t \in AcceptedCall /\ t.pc = "accepted" /\ t.name = r[1] /\ t.server = r[2]
    BY <2>2 DEF AcceptedCall
  <2>4. handler[c] = "none"
    BY <2>1 DEF SavedInv, CallsInObjects
  <2>5. handler' = [handler EXCEPT ![c] = "none"]
    BY <1>0, <1>1, <2>4 DEF RpcTypeOK
  <2>6. 2 * r[2] - 1 <= saved[r[1]]
    <3>1. saved[r[1]] = 2 * r[2] - 1
      BY <1>3, <2>2, InstanceUp
    <3>2. saved[r[1]] \in Nat
      BY <1>0, <2>2, LabrpcAssumption DEF TypeOK, Object
    <3> QED
      BY <3>1, <3>2
  <2>7. call' = [call EXCEPT ![c] = t]
    BY <1>3
  <2> HIDE DEF t
  <2>8. CallOK(c, t, "none")
    BY <2>3, <2>6 DEF CallOK, CallState
  <2> QED
    BY <1>1, <2>5, <2>7, <2>8, CallChange, Zenon
<1> QED
  BY <1>2, <1>3, Zenon DEF ReadEndnameInfo

\* The rest of processReq, and the return of Call.  A reply goes out only while
\* the instance that ran the handler is the one that is up, whose object is the
\* one the tester holds.
LEMMA SavedCallStep ==
    ASSUME SavedInv, NEW c \in Call, CallStep(c)
    PROVE  SavedInv'
<1>0. TypeOK /\ RpcTypeOK
  BY DEF SavedInv, EndsInv, ReachAsAllowed, TypeOK
<1>1. UNCHANGED <<clntVars, testerVars>>
  BY DEF CallStep
<1>2. handler[c] \in {"none", "running", "done"} /\ handler = [handler EXCEPT ![c] = handler[c]]
  BY <1>0 DEF RpcTypeOK
<1>3. CASE ReadEndnameInfo(c)
  BY <1>1, <1>3, SavedReadEndnameInfo
<1>4. CASE DropRequest(c)
  <2>1. call[c] \in AcceptedCall /\ SetPc(c, "failed") /\ UNCHANGED <<netVars, handler>>
    BY <1>0, <1>4, AcceptedByPc DEF DropRequest
  <2> QED
    BY <1>1, <1>2, <2>1, SetPcAccepted, Zenon
<1>5. CASE Dispatch(c)
  <2>1. call[c] \in AcceptedCall /\ SetPc(c, "waiting") /\ UNCHANGED netVars
        /\ handler' = [handler EXCEPT ![c] = "running"]
    BY <1>0, <1>5, AcceptedByPc DEF Dispatch
  <2> QED
    BY <1>1, <2>1, SetPcAccepted, Zenon
<1>6. CASE StopWaiting(c)
  <2>1. call[c] \in AcceptedCall /\ SetPc(c, "failed") /\ UNCHANGED <<netVars, handler>>
    BY <1>0, <1>6, AcceptedByPc DEF StopWaiting
  <2> QED
    BY <1>1, <1>2, <2>1, SetPcAccepted, Zenon
<1>7. CASE Answer(c)
  <2>1. call[c] \in AcceptedCall /\ handler[c] = "done" /\ UNCHANGED <<netVars, handler>>
    BY <1>0, <1>7, AcceptedByPc DEF Answer
  <2>2. CASE SetPc(c, "failed")
    BY <1>1, <1>2, <2>1, <2>2, SetPcAccepted, Zenon
  <2>3. CASE SetPc(c, "ok") /\ ~isServerDead(c)
    <3> DEFINE n == call[c].name
    <3>1. n \in ServerName /\ call[c].server \in Instance
      BY <2>1 DEF AcceptedCall
    <3>2. call[c].server \in servers[n]
      BY <2>3 DEF isServerDead
    <3>3. 2 * call[c].server - 1 = saved[n]
      BY <3>1, <3>2, InstanceUp
    <3>4. c \in persisters[n][saved[n]]
      BY <2>1, <3>3 DEF SavedInv, CallsInObjects
    <3> QED
      BY <1>1, <1>2, <2>1, <2>3, <3>4, SetPcAccepted, Zenon
  <2> QED
    BY <1>7, <2>2, <2>3 DEF Answer
<1>8. CASE Return(c)
  <2>1. UNCHANGED <<netVars, handler>>
    BY <1>8 DEF Return
  <2>2. CASE call[c].pc = "timeout"
    BY <1>1, <1>8, <2>1, <2>2, SetPcUnserved DEF Return
  <2>3. CASE call[c].pc = "failed"
    <3>1. call[c] \in AcceptedCall /\ SetPc(c, "false")
      BY <1>0, <1>8, <2>3, AcceptedByPc DEF Return
    <3> QED
      BY <1>1, <1>2, <2>1, <3>1, SetPcAccepted, Zenon
  <2>4. CASE call[c].pc = "ok"
    <3>1. call[c] \in AcceptedCall /\ SetPc(c, "true")
      BY <1>0, <1>8, <2>4, AcceptedByPc DEF Return
    <3>2. c \in persisters[call[c].name][saved[call[c].name]]
      BY <2>4 DEF SavedInv, AckedIsSaved
    <3> QED
      BY <1>1, <1>2, <2>1, <3>1, <3>2, SetPcAccepted, Zenon
  <2> QED
    BY <1>8, <2>2, <2>3, <2>4 DEF Return
<1> QED
  BY <1>3, <1>4, <1>5, <1>6, <1>7, <1>8, Zenon DEF CallStep, processReq

\* A call whose handler has been started, or that was answered, names a server,
\* and an instance of it that had been started.
LEMMA CallNames ==
    ASSUME SavedInv, NEW c \in Call, handler[c] # "none" \/ call[c].pc \in {"ok", "true"}
    PROVE  /\ call[c].name \in ServerName
           /\ call[c].server \in Instance
           /\ 2 * call[c].server - 1 \in Object
           /\ 2 * call[c].server - 1 <= saved[call[c].name]
<1>0. TypeOK
  BY DEF SavedInv, EndsInv, ReachAsAllowed
<1>1. call[c] \in AcceptedCall
  BY <1>0, AcceptedByPc DEF SavedInv, CallsInObjects
<1>2. call[c].name \in ServerName /\ call[c].server \in Instance
  BY <1>1 DEF AcceptedCall
<1>3. 2 * call[c].server - 1 <= saved[call[c].name]
  BY <1>1 DEF SavedInv, CallsInObjects
<1>4. 2 * call[c].server - 1 \in Object
  BY <1>2, LabrpcAssumption DEF Instance, Object
<1> QED
  BY <1>2, <1>3, <1>4

\* The handler saves into its own instance's object: no object loses anything.
LEMMA SavedHandle ==
    ASSUME SavedInv, NEW c \in Call, HandleAndSave(c)
    PROVE  SavedInv'
<1> DEFINE n == call[c].name
           o == 2 * call[c].server - 1
<1>0. TypeOK /\ RpcTypeOK
  BY DEF SavedInv, EndsInv, ReachAsAllowed, TypeOK
<1>1. handler[c] = "running" /\ handler' = [handler EXCEPT ![c] = "done"] /\ UNCHANGED <<netVars, call>>
  BY Zenon DEF HandleAndSave, Handle
<1>2. n \in ServerName /\ call[c].server \in Instance /\ o \in Object /\ o <= saved[n]
  BY <1>1, CallNames
<1>3. objectOf[n][call[c].server] = o
  BY <1>2, Zenon DEF SavedInv, InstancesInOrder
<1>4. persisters' = [persisters EXCEPT ![n][o] = @ \cup {c}] /\ UNCHANGED <<clntVars, saved, objectOf, up>>
  BY <1>3, Zenon DEF HandleAndSave
<1>5. persisters' \in [ServerName -> [Object -> SUBSET Call]]
  BY <1>0, <1>2, <1>4 DEF TypeOK
<1>6. /\ \A m \in ServerName, p \in Object : persisters[m][p] \subseteq persisters'[m][p]
      /\ c \in persisters'[n][o]
  BY <1>0, <1>2, <1>4, Zenon DEF TypeOK
<1>7. TypeOK'
  <2>1. RpcTypeOK'
    BY <1>0, <1>1 DEF RpcTypeOK, netVars
  <2>2. ClntTypeOK'
    BY <1>0, <1>4 DEF TypeOK, ClntTypeOK, clntVars
  <2> QED
    BY <2>1, <2>2, <1>0, <1>4, <1>5, Zenon DEF TypeOK
<1>8. EndsInv'
  BY <1>1, <1>4, <1>7, EndsKept, Zenon DEF SavedInv, endVars, netVars
<1>9. InstancesInOrder'
  BY <1>1, <1>4, Zenon DEF SavedInv, InstancesInOrder, CurInstance, netVars
<1>10. CallsInObjects'
  <2> SUFFICES ASSUME NEW d \in Call
               PROVE  /\ handler'[d] # "none" => call[d] \in AcceptedCall
                      /\ call[d] \in AcceptedCall => 2 * call[d].server - 1 <= saved[call[d].name]
                      /\ handler'[d] = "done" => d \in persisters'[call[d].name][2 * call[d].server - 1]
    BY <1>1, <1>4, Zenon DEF CallsInObjects
  <2>1. CASE d = c
    BY <2>1, <1>1, <1>6, Zenon DEF SavedInv, CallsInObjects
  <2>2. CASE d # c
    <3>1. handler'[d] = handler[d]
      BY <2>2, <1>0, <1>1 DEF RpcTypeOK
    <3>2. handler[d] = "done" => d \in persisters'[call[d].name][2 * call[d].server - 1]
      BY <1>6, CallNames, Zenon DEF SavedInv, CallsInObjects
    <3> QED
      BY <3>1, <3>2, Zenon DEF SavedInv, CallsInObjects
  <2> QED
    BY <2>1, <2>2, Zenon
<1>11. AckedIsSaved'
  <2> SUFFICES ASSUME NEW d \in Call, call[d].pc \in {"ok", "true"}
               PROVE  d \in persisters'[call[d].name][saved[call[d].name]]
    BY <1>1, <1>4, Zenon DEF AckedIsSaved
  <2>1. call[d].name \in ServerName
    BY CallNames
  <2>2. saved[call[d].name] \in Object
    BY <2>1, <1>0 DEF TypeOK
  <2>3. d \in persisters[call[d].name][saved[call[d].name]]
    BY Zenon DEF SavedInv, AckedIsSaved
  <2> QED
    BY <2>1, <2>2, <2>3, <1>6, Zenon
<1> QED
  BY <1>8, <1>9, <1>10, <1>11 DEF SavedInv

-----------------------------------------------------------------------------
(* The servers. *)

\* Copy of the Persister: what was saved is in the new object, and the objects
\* of the instances so far are as they were.
LEMMA SavedCopy ==
    ASSUME SavedInv, NEW n \in ServerName, saved[n] + 1 \in Object, CopySaved(n), UNCHANGED <<call, handler>>
    PROVE  /\ persisters' \in [ServerName -> [Object -> SUBSET Call]]
           /\ saved' \in [ServerName -> Object]
           /\ persisters'[n][saved'[n]] = persisters[n][saved[n]]
           /\ \A m \in ServerName : m # n => saved'[m] = saved[m] /\ persisters'[m] = persisters[m]
           /\ saved'[n] = saved[n] + 1
           /\ CallsInObjects' /\ AckedIsSaved'
<1>0. TypeOK
  BY DEF SavedInv, EndsInv, ReachAsAllowed
<1>1. /\ persisters \in [ServerName -> [Object -> SUBSET Call]]
      /\ saved \in [ServerName -> Object]
      /\ \A m \in ServerName : saved[m] \in Nat
  BY <1>0, LabrpcAssumption DEF TypeOK, Object
<1>2. /\ persisters' \in [ServerName -> [Object -> SUBSET Call]]
      /\ saved' \in [ServerName -> Object]
  BY <1>1 DEF CopySaved
<1>3. \A m \in ServerName : saved'[m] = IF m = n THEN saved[n] + 1 ELSE saved[m]
  BY <1>1 DEF CopySaved
<1>4. \A m \in ServerName, p \in Object :
         persisters'[m][p] = IF m = n /\ p = saved[n] + 1 THEN persisters[n][saved[n]] ELSE persisters[m][p]
  BY <1>1 DEF CopySaved
<1>5. \A m \in ServerName : m # n => persisters'[m] = persisters[m]
  BY <1>1 DEF CopySaved
<1>6. persisters'[n][saved'[n]] = persisters[n][saved[n]]
  BY <1>3, <1>4
<1>7. \A m \in ServerName : persisters'[m][saved'[m]] = persisters[m][saved[m]]
  BY <1>3, <1>5, <1>6
<1>8. CallsInObjects'
  <2> SUFFICES ASSUME NEW d \in Call
               PROVE  /\ handler[d] # "none" => call[d] \in AcceptedCall
                      /\ call[d] \in AcceptedCall => 2 * call[d].server - 1 <= saved'[call[d].name]
                      /\ handler[d] = "done" => d \in persisters'[call[d].name][2 * call[d].server - 1]
    BY Zenon DEF CallsInObjects
  <2>1. ASSUME call[d] \in AcceptedCall PROVE 2 * call[d].server - 1 <= saved'[call[d].name]
    <3>1. call[d].name \in ServerName /\ call[d].server \in Nat
      BY <2>1 DEF AcceptedCall, Instance
    <3>2. 2 * call[d].server - 1 <= saved[call[d].name]
      BY <2>1, Zenon DEF SavedInv, CallsInObjects
    <3> QED
      BY <3>1, <3>2, <1>1, <1>3
  <2>2. ASSUME handler[d] = "done" PROVE d \in persisters'[call[d].name][2 * call[d].server - 1]
    <3>1. /\ call[d].name \in ServerName
          /\ 2 * call[d].server - 1 \in Object
          /\ 2 * call[d].server - 1 <= saved[call[d].name]
      BY <2>2, CallNames
    <3>2. call[d].name = n => 2 * call[d].server - 1 # saved[n] + 1
      BY <3>1, <1>1 DEF Object
    <3>3. persisters'[call[d].name][2 * call[d].server - 1] = persisters[call[d].name][2 * call[d].server - 1]
      BY <3>1, <3>2, <1>4, Zenon
    <3> QED
      BY <2>2, <3>3, Zenon DEF SavedInv, CallsInObjects
  <2> QED
    BY <2>1, <2>2, Zenon DEF SavedInv, CallsInObjects
<1>9. AckedIsSaved'
  <2> SUFFICES ASSUME NEW d \in Call, call[d].pc \in {"ok", "true"}
               PROVE  d \in persisters'[call[d].name][saved'[call[d].name]]
    BY Zenon DEF AckedIsSaved
  <2>1. call[d].name \in ServerName
    BY CallNames
  <2> QED
    BY <2>1, <1>7, Zenon DEF SavedInv, AckedIsSaved
<1> QED
  BY <1>2, <1>3, <1>5, <1>6, <1>8, <1>9

\* StartServer: the new instance gets the next object, which is odd.
LEMMA SavedStart ==
    ASSUME SavedInv, NEW n \in ServerName, StartServer(n)
    PROVE  SavedInv' /\ saved[n] + 1 \in Object /\ CopySaved(n)
<1>0. TypeOK /\ RpcTypeOK
  BY Zenon DEF SavedInv, EndsInv, ReachAsAllowed, TypeOK
<1>1. /\ up[n] = "down" /\ CurInstance(n) \in Instance /\ CopySaved(n)
      /\ objectOf' = [objectOf EXCEPT ![n][CurInstance(n)] = saved[n] + 1]
      /\ up' = [up EXCEPT ![n] = "up"]
      /\ servers' = [servers EXCEPT ![n] = {CurInstance(n)}]
      /\ UNCHANGED <<ends, enabled, connections, reliable, done, call, handler, clntVars>>
  BY DEF StartServer, AddServer
<1>2. PICK k \in 0..MaxInstance : saved[n] = 2 * k
  <2>1. \E k \in 0..MaxInstance : saved[n] = IF up[n] = "down" THEN 2 * k ELSE 2 * k + 1
    BY Zenon DEF SavedInv, InstancesInOrder
  <2> QED
    BY <2>1, <1>1
<1>3. CurInstance(n) = k + 1
  BY <1>2, LabrpcAssumption DEF CurInstance
<1>4. k + 1 \in Instance /\ k \in Nat /\ k + 1 <= MaxInstance /\ saved[n] + 1 \in Object
  BY <1>1, <1>2, <1>3, LabrpcAssumption DEF Instance, Object
<1>5. /\ persisters' \in [ServerName -> [Object -> SUBSET Call]]
      /\ saved' \in [ServerName -> Object]
      /\ \A m \in ServerName : m # n => saved'[m] = saved[m]
      /\ saved'[n] = 2 * k + 1
      /\ CallsInObjects' /\ AckedIsSaved'
  BY <1>1, <1>2, <1>4, SavedCopy, Zenon
<1>6. TypeOK'
  <2>1. RpcTypeOK'
    BY <1>0, <1>1 DEF RpcTypeOK
  <2>2. ClntTypeOK'
    BY <1>0, <1>1 DEF TypeOK, ClntTypeOK, clntVars
  <2>3. objectOf' \in [ServerName -> [Instance -> Object]]
    BY <1>0, <1>1, <1>4 DEF TypeOK
  <2>4. up' \in [ServerName -> {"down", "up", "deleted"}]
    BY <1>0, <1>1 DEF TypeOK
  <2> QED
    BY <2>1, <2>2, <2>3, <2>4, <1>5 DEF TypeOK
<1>7. EndsInv'
  BY <1>1, <1>6, EndsKept DEF SavedInv, endVars
<1>8. InstancesInOrder'
  <2> SUFFICES ASSUME NEW m \in ServerName
               PROVE  /\ \E j \in 0..MaxInstance : saved'[m] = IF up'[m] = "down" THEN 2 * j ELSE 2 * j + 1
                      /\ servers'[m] = IF up'[m] = "up" THEN {CurInstance(m)'} ELSE {}
                      /\ \A i \in Instance : 2 * i - 1 <= saved'[m] => objectOf'[m][i] = 2 * i - 1
    BY DEF InstancesInOrder
  <2>1. CASE m = n
    <3>1. up'[n] = "up" /\ servers'[n] = {k + 1}
      BY <1>0, <1>1, <1>3, Zenon DEF TypeOK, RpcTypeOK
    <3>2. CurInstance(n)' = k + 1
      BY <1>4, <1>5 DEF CurInstance
    <3>3. \A i \in Instance : objectOf'[n][i] = IF i = k + 1 THEN 2 * k + 1 ELSE objectOf[n][i]
      BY <1>0, <1>1, <1>2, <1>3, <1>4 DEF TypeOK
    <3>4. ASSUME NEW i \in Instance, 2 * i - 1 <= 2 * k + 1 PROVE objectOf'[n][i] = 2 * i - 1
      <4>1. CASE i = k + 1
        BY <4>1, <3>3, <1>4
      <4>2. CASE i # k + 1
        <5>1. 2 * i - 1 <= saved[n]
          BY <3>4, <4>2, <1>2, <1>4 DEF Instance
        <5> QED
          BY <5>1, <4>2, <3>3, Zenon DEF SavedInv, InstancesInOrder
      <4> QED
        BY <4>1, <4>2
    <3> QED
      BY <2>1, <3>1, <3>2, <3>4, <1>5
  <2>2. CASE m # n
    <3>1. up'[m] = up[m] /\ servers'[m] = servers[m] /\ objectOf'[m] = objectOf[m] /\ saved'[m] = saved[m]
      BY <2>2, <1>0, <1>1, <1>5 DEF TypeOK, RpcTypeOK
    <3> QED
      BY <3>1, Zenon DEF SavedInv, InstancesInOrder, CurInstance
  <2> QED
    BY <2>1, <2>2
<1> QED
  BY <1>1, <1>4, <1>5, <1>7, <1>8 DEF SavedInv

\* ShutdownServer: the network forgets the instance.
LEMMA SavedShutdown ==
    ASSUME SavedInv, NEW n \in ServerName, ShutdownServer(n)
    PROVE  SavedInv'
<1>0. TypeOK /\ RpcTypeOK
  BY DEF SavedInv, EndsInv, ReachAsAllowed, TypeOK
<1>1. /\ up[n] = "up"
      /\ up' = [up EXCEPT ![n] = "deleted"]
      /\ servers' = [servers EXCEPT ![n] = {}]
      /\ UNCHANGED <<ends, enabled, connections, reliable, done, call, handler, clntVars, persisters, saved, objectOf>>
  BY DEF ShutdownServer, DeleteServer
<1>2. TypeOK'
  <2>1. RpcTypeOK'
    BY <1>0, <1>1 DEF RpcTypeOK
  <2>2. ClntTypeOK'
    BY <1>0, <1>1 DEF TypeOK, ClntTypeOK, clntVars
  <2> QED
    BY <2>1, <2>2, <1>0, <1>1 DEF TypeOK
<1>3. EndsInv'
  BY <1>1, <1>2, EndsKept DEF SavedInv, endVars
<1>4. InstancesInOrder'
  <2>1. \A m \in ServerName : /\ up'[m] = IF m = n THEN "deleted" ELSE up[m]
                              /\ servers'[m] = IF m = n THEN {} ELSE servers[m]
    BY <1>0, <1>1 DEF TypeOK, RpcTypeOK
  <2> SUFFICES ASSUME NEW m \in ServerName
               PROVE  /\ \E j \in 0..MaxInstance : saved[m] = IF up'[m] = "down" THEN 2 * j ELSE 2 * j + 1
                      /\ servers'[m] = IF up'[m] = "up" THEN {CurInstance(m)'} ELSE {}
                      /\ \A i \in Instance : 2 * i - 1 <= saved[m] => objectOf[m][i] = 2 * i - 1
    BY <1>1 DEF InstancesInOrder
  <2>2. \E j \in 0..MaxInstance : saved[m] = IF up'[m] = "down" THEN 2 * j ELSE 2 * j + 1
    <3>1. PICK j \in 0..MaxInstance : saved[m] = IF up[m] = "down" THEN 2 * j ELSE 2 * j + 1
      BY Zenon DEF SavedInv, InstancesInOrder
    <3>2. up'[m] = "down" <=> up[m] = "down"
      BY <2>1, <1>1
    <3> QED
      BY <3>1, <3>2
  <2>3. servers'[m] = IF up'[m] = "up" THEN {CurInstance(m)'} ELSE {}
    <3>1. CurInstance(m)' = CurInstance(m)
      BY <1>1 DEF CurInstance
    <3>2. servers[m] = IF up[m] = "up" THEN {CurInstance(m)} ELSE {}
      BY Zenon DEF SavedInv, InstancesInOrder
    <3> QED
      BY <2>1, <3>1, <3>2
  <2>4. \A i \in Instance : 2 * i - 1 <= saved[m] => objectOf[m][i] = 2 * i - 1
    BY Zenon DEF SavedInv, InstancesInOrder
  <2> QED
    BY <2>2, <2>3, <2>4
<1>5. CallsInObjects' /\ AckedIsSaved'
  BY <1>1, Zenon DEF SavedInv, CallsInObjects, AckedIsSaved
<1> QED
  BY <1>3, <1>4, <1>5, Zenon DEF SavedInv

\* shutdownServer: the tester's next object is even, and no instance writes to it.
LEMMA SavedKill ==
    ASSUME SavedInv, NEW n \in ServerName, shutdownServer(n)
    PROVE  SavedInv' /\ saved[n] + 1 \in Object /\ CopySaved(n)
<1>0. TypeOK /\ RpcTypeOK
  BY DEF SavedInv, EndsInv, ReachAsAllowed, TypeOK
<1>1. /\ up[n] = "deleted" /\ CopySaved(n)
      /\ up' = [up EXCEPT ![n] = "down"]
      /\ UNCHANGED <<ends, enabled, connections, servers, reliable, done, call, handler, clntVars, objectOf>>
  BY DEF shutdownServer, rpcVars, netVars
<1>2. PICK k \in 0..MaxInstance : saved[n] = 2 * k + 1
  <2>1. \E k \in 0..MaxInstance : saved[n] = IF up[n] = "down" THEN 2 * k ELSE 2 * k + 1
    BY Zenon DEF SavedInv, InstancesInOrder
  <2> QED
    BY <2>1, <1>1
<1>3. saved[n] + 1 \in Object /\ k + 1 \in 0..MaxInstance /\ k \in Nat
  BY <1>0, <1>2, LabrpcAssumption DEF TypeOK, Object
<1>4. /\ persisters' \in [ServerName -> [Object -> SUBSET Call]]
      /\ saved' \in [ServerName -> Object]
      /\ \A m \in ServerName : m # n => saved'[m] = saved[m]
      /\ saved'[n] = 2 * (k + 1)
      /\ CallsInObjects' /\ AckedIsSaved'
  <2>1. UNCHANGED <<call, handler>>
    BY <1>1, Zenon
  <2>2. /\ persisters' \in [ServerName -> [Object -> SUBSET Call]]
        /\ saved' \in [ServerName -> Object]
        /\ \A m \in ServerName : m # n => saved'[m] = saved[m]
        /\ saved'[n] = saved[n] + 1
        /\ CallsInObjects' /\ AckedIsSaved'
    BY <1>1, <1>3, <2>1, SavedCopy, Zenon
  <2>3. (2 * k + 1) + 1 = 2 * (k + 1)
    BY <1>3
  <2> QED
    BY <1>2, <2>2, <2>3, Zenon
<1>5. TypeOK'
  <2>1. RpcTypeOK'
    BY <1>0, <1>1 DEF RpcTypeOK
  <2>2. ClntTypeOK'
    BY <1>0, <1>1 DEF TypeOK, ClntTypeOK, clntVars
  <2> QED
    BY <2>1, <2>2, <1>0, <1>1, <1>4, Zenon DEF TypeOK
<1>6. EndsInv'
  BY <1>1, <1>5, EndsKept DEF SavedInv, endVars
<1>7. InstancesInOrder'
  <2> SUFFICES ASSUME NEW m \in ServerName
               PROVE  /\ \E j \in 0..MaxInstance : saved'[m] = IF up'[m] = "down" THEN 2 * j ELSE 2 * j + 1
                      /\ servers'[m] = IF up'[m] = "up" THEN {CurInstance(m)'} ELSE {}
                      /\ \A i \in Instance : 2 * i - 1 <= saved'[m] => objectOf'[m][i] = 2 * i - 1
    BY DEF InstancesInOrder
  <2>1. CASE m = n
    <3>1. up'[n] = "down" /\ servers'[n] = {} /\ objectOf'[n] = objectOf[n]
      BY <1>0, <1>1, Zenon DEF TypeOK, SavedInv, InstancesInOrder
    <3>2. ASSUME NEW i \in Instance, 2 * i - 1 <= 2 * (k + 1) PROVE objectOf[n][i] = 2 * i - 1
      <4>1. 2 * i - 1 <= saved[n]
        BY <3>2, <1>2, <1>3 DEF Instance
      <4> QED
        BY <4>1, Zenon DEF SavedInv, InstancesInOrder
    <3> QED
      BY <2>1, <3>1, <3>2, <1>3, <1>4
  <2>2. CASE m # n
    <3>1. up'[m] = up[m] /\ servers'[m] = servers[m] /\ objectOf'[m] = objectOf[m] /\ saved'[m] = saved[m]
      BY <2>2, <1>0, <1>1, <1>4 DEF TypeOK
    <3> QED
      BY <3>1, Zenon DEF SavedInv, InstancesInOrder, CurInstance
  <2> QED
    BY <2>1, <2>2
<1> QED
  BY <1>1, <1>3, <1>4, <1>6, <1>7, Zenon DEF SavedInv

-----------------------------------------------------------------------------
(* The theorems. *)

\* Every step keeps the invariant.
LEMMA SavedNext ==
    ASSUME SavedInv, [Next]_vars
    PROVE  SavedInv'
<1>1. CASE UNCHANGED vars
  <2>1. UNCHANGED objectVars /\ UNCHANGED endVars
    BY <1>1 DEF vars, rpcVars, netVars, objectVars, endVars
  <2>2. TypeOK /\ ClntTypeOK
    BY DEF SavedInv, EndsInv, ReachAsAllowed, TypeOK
  <2>3. TypeOK'
    BY <1>1, <2>2 DEF TypeOK, RpcTypeOK, ClntTypeOK, vars, rpcVars, netVars, clntVars, testerVars
  <2> QED
    BY <2>1, <2>3, EndsKept, ObjectsKept, Zenon DEF SavedInv
<1>2. CASE ClntStep /\ UNCHANGED testerVars
  BY <1>2, EndsStep, ObjectsKept DEF SavedInv
<1>3. CASE /\ (\E yes \in BOOLEAN : Reliable(yes)) \/ Cleanup
           /\ UNCHANGED <<clntVars, testerVars>>
  <2>0. TypeOK /\ RpcTypeOK /\ ClntTypeOK
    BY DEF SavedInv, EndsInv, ReachAsAllowed, TypeOK
  <2>1. UNCHANGED objectVars /\ UNCHANGED endVars /\ reliable' \in BOOLEAN /\ done' \in BOOLEAN
    BY <1>3, <2>0, Zenon DEF Reliable, Cleanup, objectVars, endVars, RpcTypeOK
  <2>2. TypeOK'
    BY <2>0, <2>1 DEF TypeOK, RpcTypeOK, ClntTypeOK, objectVars, endVars, clntVars, testerVars
  <2> QED
    BY <2>1, <2>2, EndsKept, ObjectsKept, Zenon DEF SavedInv
<1>4. CASE Lifecycle
  BY <1>4, SavedStart, SavedShutdown, SavedKill DEF Lifecycle
<1>5. ASSUME NEW c \in Call, NEW k \in Clnt, NEW n \in ServerName, ClntCall(c, k, n), UNCHANGED testerVars
      PROVE  SavedInv'
  BY <1>5, SavedSend, Zenon
<1>6. ASSUME NEW c \in Call, CallStep(c)
      PROVE  SavedInv'
  BY <1>6, SavedCallStep, Zenon
<1>7. ASSUME NEW c \in Call, HandleAndSave(c)
      PROVE  SavedInv'
  BY <1>7, SavedHandle, Zenon
<1> QED
  BY <1>1, <1>2, <1>3, <1>4, <1>5, <1>6, <1>7 DEF Next, Configure

\* The contents of the Persister the tester holds change by a handler of the
\* running instance only.
LEMMA IsolatedStep ==
    ASSUME SavedInv, Next, NEW n \in ServerName, persisters'[n][saved'[n]] # persisters[n][saved[n]]
    PROVE  up[n] \in {"up", "deleted"} /\ objectOf[n][CurInstance(n)] = saved[n]
<1>0. TypeOK
  BY DEF SavedInv, EndsInv, ReachAsAllowed
<1>1. ~Configure
  BY DEF Configure, testerVars
<1>2. ASSUME NEW m \in ServerName, StartServer(m) \/ ShutdownServer(m) \/ shutdownServer(m)
      PROVE  FALSE
  <2>1. CASE ShutdownServer(m)
    BY <2>1 DEF ShutdownServer
  <2>2. CASE StartServer(m) \/ shutdownServer(m)
    <3>1. saved[m] + 1 \in Object /\ CopySaved(m)
      BY <2>2, SavedStart, SavedKill
    <3>2. UNCHANGED <<call, handler>>
      BY <2>2 DEF StartServer, AddServer, shutdownServer, rpcVars
    <3> QED
      BY <3>1, <3>2, SavedCopy, Zenon
  <2> QED
    BY <1>2, <2>1, <2>2
<1>3. ~(\E c \in Call, k \in Clnt, m \in ServerName : ClntCall(c, k, m) /\ UNCHANGED testerVars)
  BY DEF testerVars
<1>4. ~(\E c \in Call : CallStep(c))
  BY DEF CallStep, testerVars
<1>5. PICK c \in Call : HandleAndSave(c)
  BY <1>1, <1>2, <1>3, <1>4 DEF Next, Lifecycle
<1> DEFINE i == call[c].server
<1>6. call[c].name \in ServerName /\ i \in Instance /\ 2 * i - 1 \in Object /\ 2 * i - 1 <= saved[call[c].name]
  BY <1>5, CallNames, Zenon DEF HandleAndSave, Handle
<1>7. objectOf[call[c].name][i] = 2 * i - 1
  BY <1>6, Zenon DEF SavedInv, InstancesInOrder
<1>8. persisters' = [persisters EXCEPT ![call[c].name][2 * i - 1] = @ \cup {c}] /\ saved' = saved
  BY <1>5, <1>7, Zenon DEF HandleAndSave
<1>9. call[c].name = n /\ 2 * i - 1 = saved[n]
  BY <1>0, <1>6, <1>8, Zenon DEF TypeOK
<1>10. PICK k \in 0..MaxInstance : saved[n] = IF up[n] = "down" THEN 2 * k ELSE 2 * k + 1
  BY Zenon DEF SavedInv, InstancesInOrder
<1>11. up[n] # "down"
  BY <1>6, <1>9, <1>10, LabrpcAssumption DEF Instance
<1>12. up[n] \in {"up", "deleted"}
  BY <1>0, <1>11 DEF TypeOK
<1>13. CurInstance(n) = i
  BY <1>6, <1>9, LabrpcAssumption DEF Instance, CurInstance
<1> QED
  BY <1>7, <1>9, <1>12, <1>13

\* The invariant holds in every run.
THEOREM TesterInvariant == Spec => []SavedInv
<1>1. SavedInv /\ [Next]_vars => SavedInv'
  BY SavedNext
<1> QED
  BY <1>1, SavedInit, PTL DEF Spec

\* For any number of servers, calls and restarts: a call that was answered is in
\* the Persister the next instance starts from.
THEOREM AckedCallsSaved == Spec => []AckedIsSaved
<1>1. SavedInv => AckedIsSaved
  BY DEF SavedInv
<1> QED
  BY <1>1, TesterInvariant, PTL

\* For any number of clients and ends: a client's ends are enabled exactly to the
\* servers it may reach.
THEOREM ClientsReachAllowed == Spec => []ReachAsAllowed
<1>1. SavedInv => ReachAsAllowed
  BY DEF SavedInv, EndsInv
<1> QED
  BY <1>1, TesterInvariant, PTL

\* An instance that was shut down never changes what its successors start from.
THEOREM InstancesIsolated == Spec => OldInstancesIsolated
<1>1. SavedInv /\ [Next]_vars =>
         [\A n \in ServerName :
             (persisters'[n][saved'[n]] # persisters[n][saved[n]]) =>
                 /\ up[n] \in {"up", "deleted"}
                 /\ objectOf[n][CurInstance(n)] = saved[n]]_vars
  BY IsolatedStep
<1> QED
  BY <1>1, TesterInvariant, PTL DEF Spec, OldInstancesIsolated

=============================================================================
