----------------------------- MODULE ServerGrp -----------------------------
(***************************************************************************)
(* tester1/group.go: which servers of a group can talk to each other.  The *)
(* tests cut servers off, partition the group, shut servers down and start *)
(* them again; the tester keeps a flag per server and enables or disables  *)
(* the end that each server has to each other one.                         *)
(*                                                                         *)
(* An operator Op_fault is Op with a plausible mistake in it.  No          *)
(* specification uses it; put in the place of Op, it violates a property.  *)
(***************************************************************************)
EXTENDS Naturals, FiniteSets, Sequences, Functions

CONSTANT N    \* number of servers in the group

ASSUME GroupAssumption == N \in Nat /\ N >= 2

VARIABLES net,          \* the connected servers and the ends that are enabled
          running,      \* the servers that are started
          partitioned,  \* history: Partition was used since the last ConnectAll
          cut           \* history: the parts of a partition and the leader, if it was made around one,
                        \* while nothing else happened

groupVars == <<net, running, partitioned, cut>>

Srv == 0..N - 1

all == [n \in 1..N |-> n - 1]

NoCut == <<{}, {}, {}>>

GroupTypeOK ==
    /\ net \in [connected : SUBSET Srv, link : SUBSET (Srv \X Srv)]
    /\ running \subseteq Srv
    /\ partitioned \in BOOLEAN
    /\ cut \in (SUBSET Srv) \X (SUBSET Srv) \X (SUBSET Srv)

\* A loop over servers, in order.
ForEach(servers, state, body(_, _)) ==
    LET after[n \in 0..Len(servers)] == IF n = 0 THEN state ELSE body(after[n - 1], servers[n])
    IN after[Len(servers)]

\* Both ends between server i and those of others.
Ends(i, others) == ({i} \X others) \cup (others \X {i})

\* connect enables the ends between i and the servers of to that are connected,
\* i itself included.
connect(state, i, to) ==
    LET connected == state.connected \cup {i}
    IN [connected |-> connected, link |-> state.link \cup Ends(i, to \cap connected)]

disconnect_Outgoing(state, i, from) ==
    [connected |-> state.connected \ {i}, link |-> state.link \ ({i} \X from)]

disconnect(state, i, from) ==
    [connected |-> state.connected \ {i}, link |-> state.link \ Ends(i, from)]

ConnectAllOf(state) == ForEach(all, state, LAMBDA st, i : connect(st, i, Srv))

DisconnectAllOf(state) == ForEach(all, state, LAMBDA st, i : disconnect(st, i, Srv))

\* A new instance of i has ends of its own, which are not enabled yet.
start(state, i) == [state EXCEPT !.link = @ \ ({i} \X Srv)]

StartAllOf(state) == ForEach(all, state, start)

\* makeSrvGrp and StartServers.
GroupInit ==
    /\ net = ConnectAllOf([connected |-> {}, link |-> {}])
    /\ running = Srv
    /\ partitioned = FALSE
    /\ cut = NoCut

\* The tests connect servers that run.  They shut the whole group down while all
\* its servers run, and start it when all are down; with some down, restart.
ConnectOne(i) ==
    /\ i \in running
    /\ net' = connect(net, i, Srv)
    /\ cut' = NoCut
    /\ UNCHANGED <<running, partitioned>>

ConnectAll ==
    /\ running = Srv
    /\ net' = ConnectAllOf(net)
    /\ partitioned' = FALSE
    /\ cut' = NoCut
    /\ UNCHANGED running

DisconnectAll(i) ==
    /\ net' = disconnect(net, i, Srv)
    /\ cut' = NoCut
    /\ UNCHANGED <<running, partitioned>>

ShutdownServer(i) ==
    /\ i \in running
    /\ net' = disconnect(net, i, Srv)
    /\ running' = running \ {i}
    /\ cut' = NoCut
    /\ UNCHANGED partitioned

Shutdown ==
    /\ running = Srv
    /\ net' = DisconnectAllOf(net)
    /\ running' = {}
    /\ cut' = NoCut
    /\ UNCHANGED partitioned

\* start and ConnectAll.
StartServers ==
    /\ running = {}
    /\ net' = ConnectAllOf(StartAllOf(net))
    /\ running' = Srv
    /\ partitioned' = FALSE
    /\ cut' = NoCut

\* restart (raft1/test.go): StartServer and ConnectAll, which also marks servers
\* as connected that are down.
restart(i) ==
    /\ i \notin running
    /\ net' = ConnectAllOf(start(net, i))
    /\ running' = running \cup {i}
    /\ partitioned' = FALSE
    /\ cut' = NoCut

\* The two parts that MakePartition makes: all servers but l, in order, fill the
\* first part of N \div 2 + 1 servers, then the second one of N \div 2, whose
\* last place is for l.  A place that is not filled holds server 0.
MakePartition(l) ==
    LET other == [j \in 1..N - 1 |-> IF j <= l THEN j - 1 ELSE j]
        size == N \div 2 + 1
        InPart(j) == IF j \in DOMAIN other THEN other[j] ELSE 0
    IN <<[j \in 1..size |-> InPart(j)],
         [j \in 1..N \div 2 |-> IF j = N \div 2 THEN l ELSE InPart(size + j)]>>

Partition_ConnectOnly(p1, p2) ==
    LET Connect(state, own) == ForEach(own, state, LAMBDA st, i : connect(st, i, Range(own)))
    IN net' = Connect(Connect(net, p1), p2)

\* One of Partition's two loops.
Side(state, own, other) ==
    ForEach(own, state, LAMBDA st, i : connect(disconnect(st, i, Range(other)), i, Range(own)))

Partition(p1, p2) == net' = Side(Side(net, p1, p2), p2, p1)

\* The tests partition a group whose servers all run, around its leader l.
PartitionAround(l) ==
    LET p == MakePartition(l)
    IN /\ running = Srv
       /\ Partition(p[1], p[2])
       /\ partitioned' = TRUE
       /\ cut' = <<Range(p[1]), Range(p[2]), {l}>>
       /\ UNCHANGED running

\* The servers of a part, appended in order.
Members(part) ==
    LET pa[n \in 0..N] == IF n = 0 THEN <<>>
                          ELSE IF n - 1 \in part THEN Append(pa[n - 1], n - 1)
                          ELSE pa[n - 1]
    IN pa[N]

\* Partitioner (kvtest1/kvtest.go) repartitions the group at random: every server
\* goes to one of the parts, and one of them may be empty.
Partitioner(part) ==
    /\ running = Srv
    /\ Partition(Members(part), Members(Srv \ part))
    /\ partitioned' = TRUE
    /\ cut' = <<part, Srv \ part, {}>>
    /\ UNCHANGED running

-----------------------------------------------------------------------------
(* Properties. *)

\* The flags and the network agree: an end is enabled only between servers that
\* are both connected, and in both directions, so that no server hears of one it
\* cannot answer.  The flags tell the network exactly unless Partition was used
\* ("The connected field of ServerGrp is precise if and only if
\* ServerGrp.Partition is not used", tester1/annotation.go), although restart
\* connects servers that are down.  All variables keep their types.
LinksMatchFlags ==
    /\ GroupTypeOK
    /\ \A i, j \in Srv : <<i, j>> \in net.link => {i, j} \subseteq net.connected /\ <<j, i>> \in net.link
    /\ ~partitioned => net.link = net.connected \X net.connected

\* After Partition the servers of each part reach each other and no server of
\* the other part, whatever was connected before.  The parts are disjoint and
\* cover the group, and those that MakePartition makes have the leader in the
\* minority, as its comment says.
PartitionExact ==
    cut # NoCut =>
        /\ net.link = (cut[1] \X cut[1]) \cup (cut[2] \X cut[2])
        /\ cut[1] \cap cut[2] = {} /\ cut[1] \cup cut[2] = Srv
        /\ cut[3] \subseteq cut[2]
        /\ cut[3] # {} => Cardinality(cut[1]) > Cardinality(cut[2])

=============================================================================
