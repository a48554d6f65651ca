------------------------- MODULE GenericTestProofs -------------------------
(***************************************************************************)
(* What the faults of a whole test do, for any number of servers and       *)
(* clients: the loops of ServerGrp over the servers of a group, and the    *)
(* invariants of GenericTest about links, annotations and visualisations.  *)
(***************************************************************************)
EXTENDS GenericTest, FiniteSetTheorems, TLAPS

-----------------------------------------------------------------------------
(* Induction, and loops. *)

\* A set of numbers that holds 0, and with each number the next one, up to a
\* bound, holds all numbers up to the bound.
LEMMA BoundedInduction ==
    ASSUME NEW n \in Nat, NEW T, 0 \in T, \A m \in 0..n : m \in T /\ m < n => m + 1 \in T
    PROVE  n \in T
<1> DEFINE W == {m \in 0..n : m \notin T}
           Less == OpToRel(<, Nat)
<1>1. W \subseteq Nat
  OBVIOUS
<1>2. \A x, y \in Nat : x < y => <<x, y>> \in Less
  BY Zenon DEF OpToRel
<1>3. IsWellFoundedOn(Less, Nat)
  BY NatLessThanWellFounded, Zenon
<1> HIDE DEF Less
<1>4. CASE W # {}
  <2>1. PICK m \in W : \A y \in W : ~(<<y, m>> \in Less)
    BY <1>1, <1>3, <1>4, WFMin, Zenon
  <2>2. m \in 0..n /\ m \notin T /\ m # 0
    BY <2>1
  <2>3. m - 1 \in 0..n /\ m - 1 < n /\ m - 1 < m /\ (m - 1) + 1 = m /\ m - 1 \in Nat /\ m \in Nat
    BY <2>2
  <2>4. m - 1 \notin W
    BY <1>2, <2>1, <2>3, Zenon
  <2> QED
    BY <2>2, <2>3, <2>4
<1> QED
  BY <1>4

\* Two loops that agree before each round agree in the end.
LEMMA LoopInduction ==
    ASSUME NEW n \in Nat, NEW f, NEW g, f[0] = g[0],
           \A m \in 1..n : f[m - 1] = g[m - 1] => f[m] = g[m]
    PROVE  f[n] = g[n]
<1> DEFINE T == {m \in 0..n : f[m] = g[m]}
<1>1. 0 \in T
  OBVIOUS
<1>2. ASSUME NEW m \in 0..n, m \in T, m < n PROVE m + 1 \in T
  <2>1. m + 1 \in 1..n /\ m + 1 \in 0..n /\ (m + 1) - 1 = m
    BY <1>2
  <2>2. f[m] = g[m] => f[m + 1] = g[m + 1]
    BY <2>1
  <2> QED
    BY <1>2, <2>1, <2>2, Zenon
<1> HIDE DEF T
<1>3. n \in T
  BY <1>1, <1>2, BoundedInduction, Zenon
<1> QED
  BY <1>3 DEF T

\* The states in A that a loop over q goes through, if h is one round of it.
Loops(n, A, base, q, h) ==
    \E f \in [0..n -> A] : f[0] = base /\ \A m \in 1..n : f[m] = h[<<f[m - 1], q[m]>>]

\* A loop whose rounds stay in A goes through states in A.
LEMMA LoopStays ==
    ASSUME NEW n \in Nat, NEW A, NEW D, NEW base \in A, NEW q \in [1..n -> D], NEW h \in [A \X D -> A]
    PROVE  Loops(n, A, base, q, h)
<1> DEFINE Ok(l) == \E f \in [0..l -> A] : f[0] = base /\ \A m \in 1..l : f[m] = h[<<f[m - 1], q[m]>>]
           T == {l \in 0..n : Ok(l)}
<1>1. Ok(0)
  <2> DEFINE f == [m \in 0..0 |-> base]
  <2>1. f \in [0..0 -> A] /\ f[0] = base /\ 1..0 = {}
    OBVIOUS
  <2> QED
    BY <2>1, Zenon
<1>2. ASSUME NEW l \in 0..n, Ok(l), l < n PROVE Ok(l + 1)
  <2>1. PICK f \in [0..l -> A] : f[0] = base /\ \A m \in 1..l : f[m] = h[<<f[m - 1], q[m]>>]
    BY <1>2, Zenon
  <2> DEFINE up == [m \in 0..l + 1 |-> IF m = l + 1 THEN h[<<f[l], q[l + 1]>>] ELSE f[m]]
  <2>2. l \in Nat /\ q[l + 1] \in D /\ f[l] \in A /\ 0 # l + 1
    BY <1>2
  <2>3. up \in [0..l + 1 -> A]
    BY <2>2
  <2>4. up[0] = base
    BY <2>1, <2>2
  <2>5. ASSUME NEW m \in 1..l + 1 PROVE up[m] = h[<<up[m - 1], q[m]>>]
    <3>1. CASE m = l + 1
      <4>1. l \in 0..l + 1 /\ l + 1 \in 0..l + 1 /\ l # l + 1 /\ (l + 1) - 1 = l
        BY <2>2
      <4>2. up[l + 1] = h[<<f[l], q[l + 1]>>] /\ up[l] = f[l]
        BY <4>1, Zenon
      <4> QED
        BY <3>1, <4>1, <4>2, Zenon
    <3>2. CASE m # l + 1
      <4>1. m \in 1..l /\ m \in 0..l + 1 /\ m - 1 \in 0..l + 1 /\ m - 1 # l + 1
        BY <2>2, <3>2
      <4> QED
        BY <2>1, <3>2, <4>1
    <3> QED
      BY <3>1, <3>2
  <2> QED
    BY <2>3, <2>4, <2>5, Zenon
<1>3. n \in T
  <2>1. 0 \in T /\ \A m \in 0..n : m \in T /\ m < n => m + 1 \in T
    <3> HIDE DEF Ok
    <3> QED
      BY <1>1, <1>2
  <2> HIDE DEF T
  <2> QED
    BY <2>1, BoundedInduction, Zenon
<1> QED
  BY <1>3 DEF Loops

-----------------------------------------------------------------------------
(* The loops over the servers of a group (ServerGrp). *)

Net == [connected : SUBSET Srv, link : SUBSET (Srv \X Srv)]

SamePairs(K, L) == \A a, b \in Srv : <<a, b>> \in K <=> <<a, b>> \in L

\* Sets of ends are equal when they hold the same pairs.
LEMMA SameEnds ==
    ASSUME NEW K \in SUBSET (Srv \X Srv), NEW L \in SUBSET (Srv \X Srv), SamePairs(K, L)
    PROVE  K = L
  BY DEF SamePairs

\* The servers in order: the n-th one has number n - 1.
LEMMA AllServers ==
    /\ N \in Nat /\ Len(all) = N /\ all \in [1..N -> Srv]
    /\ \A n \in 1..N : all[n] = n - 1 /\ n - 1 \in Srv /\ n \in 0..N /\ n - 1 \in 0..N /\ n # 0
    /\ Srv = 0..N - 1 /\ 0..0 - 1 = {} /\ 0 \in 0..N /\ N \in 0..N
    /\ \A n \in 1..N : 0..n - 1 = (0..(n - 1) - 1) \cup {n - 1}
    /\ \A n \in 0..N : 0..n - 1 \in SUBSET Srv
  BY GroupAssumption DEF all, Srv

\* The state after connect was called for the servers of to.
ConnectedBy(state, to) ==
    [connected |-> state.connected \cup to,
     link      |-> state.link \cup (to \X (state.connected \cup to)) \cup ((state.connected \cup to) \X to)]

LEMMA ConnectStep ==
    ASSUME NEW state \in Net, NEW to \in SUBSET Srv, NEW i \in Srv
    PROVE  connect(ConnectedBy(state, to), i, Srv) = ConnectedBy(state, to \cup {i})
<1> DEFINE st == ConnectedBy(state, to)
           c == state.connected \cup to \cup {i}
<1>1. state.connected \in SUBSET Srv /\ state.link \in SUBSET (Srv \X Srv)
  BY DEF Net
<1>2. st.connected = state.connected \cup to
  BY DEF ConnectedBy
<1>3. st.link = state.link \cup (to \X (state.connected \cup to)) \cup ((state.connected \cup to) \X to)
  BY DEF ConnectedBy
<1>4. Srv \cap c = c
  BY <1>1, Zenon
<1>5. connect(st, i, Srv) = [connected |-> c, link |-> st.link \cup ({i} \X c) \cup (c \X {i})]
  BY <1>2, <1>4, Zenon DEF connect, Ends
<1>6. st.link \cup ({i} \X c) \cup (c \X {i}) = state.link \cup ((to \cup {i}) \X c) \cup (c \X (to \cup {i}))
  <2> DEFINE K == st.link \cup ({i} \X c) \cup (c \X {i})
             L == state.link \cup ((to \cup {i}) \X c) \cup (c \X (to \cup {i}))
  <2>1. K \in SUBSET (Srv \X Srv) /\ L \in SUBSET (Srv \X Srv)
    BY <1>1, <1>3
  <2>2. \A a, b \in Srv : <<a, b>> \in K <=> <<a, b>> \in L
    BY <1>3
  <2> HIDE DEF K, L
  <2>3. K = L
    BY <2>1, <2>2, SameEnds, Zenon DEF SamePairs
  <2> QED
    BY <2>3 DEF K, L
<1> QED
  BY <1>5, <1>6 DEF ConnectedBy

\* ConnectAll connects every server to every other one, whatever was connected.
LEMMA ConnectAllOfIs ==
    ASSUME NEW state \in Net
    PROVE  ConnectAllOf(state) = [connected |-> Srv, link |-> Srv \X Srv]
<1> DEFINE Def(it) == [n \in 0..N |-> IF n = 0 THEN state ELSE connect(it[n - 1], all[n], Srv)]
           loop == CHOOSE it : it = Def(it)
           g == [n \in 0..N |-> ConnectedBy(state, 0..n - 1)]
<1>1. ConnectAllOf(state) = loop[N]
  BY AllServers DEF ConnectAllOf, ForEach
<1>2. g[0] = state
  <2>1. ConnectedBy(state, {}) = [connected |-> state.connected, link |-> state.link]
    BY Zenon DEF ConnectedBy
  <2>2. g[0] = ConnectedBy(state, {})
    BY AllServers, Zenon
  <2> QED
    BY <2>1, <2>2, Zenon DEF Net
<1>3. ASSUME NEW n \in 1..N PROVE g[n] = connect(g[n - 1], all[n], Srv)
  <2>1. g[n] = ConnectedBy(state, 0..n - 1) /\ g[n - 1] = ConnectedBy(state, 0..(n - 1) - 1)
    BY AllServers, Zenon
  <2> DEFINE to == 0..(n - 1) - 1
             i == n - 1
  <2>2. to \in SUBSET Srv /\ i \in Srv /\ all[n] = i /\ 0..n - 1 = to \cup {i}
    BY AllServers, Zenon
  <2> HIDE DEF to, i
  <2>3. connect(ConnectedBy(state, to), i, Srv) = ConnectedBy(state, to \cup {i})
    BY <2>2, ConnectStep, Zenon
  <2> HIDE DEF g
  <2> QED
    BY <2>1, <2>2, <2>3, Zenon DEF to
<1>4. g = Def(g)
  <2>1. g = [n \in 0..N |-> g[n]]
    BY Zenon
  <2> HIDE DEF g
  <2>2. \A n \in 0..N : g[n] = IF n = 0 THEN state ELSE connect(g[n - 1], all[n], Srv)
    <3>1. \A n \in 0..N : n # 0 => n \in 1..N
      BY AllServers
    <3> QED
      BY <1>2, <1>3, <3>1, Zenon
  <2> QED
    BY <2>1, <2>2, Zenon
<1>5. loop = Def(loop)
  <2> HIDE DEF g, Def
  <2> QED
    BY <1>4, Zenon
<1>6. loop[N] = g[N]
  <2> HIDE DEF g, loop
  <2>1. loop[0] = g[0]
    BY <1>2, <1>5, AllServers
  <2>2. ASSUME NEW n \in 1..N, loop[n - 1] = g[n - 1] PROVE loop[n] = g[n]
    BY <1>3, <1>5, <2>2, AllServers
  <2> QED
    BY <2>1, <2>2, LoopInduction, AllServers, Zenon
<1>7. g[N] = [connected |-> Srv, link |-> Srv \X Srv]
  <2>1. g[N] = ConnectedBy(state, Srv)
    BY AllServers, Zenon
  <2>2. state.connected \cup Srv = Srv /\ state.link \cup (Srv \X Srv) = Srv \X Srv
    BY Zenon DEF Net
  <2> QED
    BY <2>1, <2>2, Zenon DEF ConnectedBy
<1> QED
  BY <1>1, <1>6, <1>7, Zenon

\* The state after disconnect was called for the servers of from.
DisconnectedBy(state, from) ==
    [connected |-> state.connected \ from, link |-> state.link \ ((from \X Srv) \cup (Srv \X from))]

LEMMA DisconnectStep ==
    ASSUME NEW state \in Net, NEW from \in SUBSET Srv, NEW i \in Srv
    PROVE  disconnect(DisconnectedBy(state, from), i, Srv) = DisconnectedBy(state, from \cup {i})
<1> DEFINE st == DisconnectedBy(state, from)
           K == st.link \ (({i} \X Srv) \cup (Srv \X {i}))
           L == state.link \ (((from \cup {i}) \X Srv) \cup (Srv \X (from \cup {i})))
<1>1. state.link \in SUBSET (Srv \X Srv)
  BY DEF Net
<1>2. st.connected \ {i} = state.connected \ (from \cup {i})
  BY DEF DisconnectedBy
<1>3. st.link = state.link \ ((from \X Srv) \cup (Srv \X from))
  BY DEF DisconnectedBy
<1>4. disconnect(st, i, Srv) = [connected |-> st.connected \ {i}, link |-> K]
  BY Zenon DEF disconnect, Ends
<1>5. K \in SUBSET (Srv \X Srv) /\ L \in SUBSET (Srv \X Srv)
  BY <1>1, <1>3
<1>6. \A a, b \in Srv : <<a, b>> \in K <=> <<a, b>> \in L
  BY <1>3
<1>7. K = L
  <2> HIDE DEF K, L
  <2> QED
    BY <1>5, <1>6, SameEnds, Zenon DEF SamePairs
<1> HIDE DEF st, K
<1>8. disconnect(st, i, Srv) = DisconnectedBy(state, from \cup {i})
  BY <1>2, <1>4, <1>7, Zenon DEF DisconnectedBy
<1> QED
  BY <1>8 DEF st

\* Shutdown leaves nothing connected.
LEMMA DisconnectAllIs ==
    ASSUME NEW state \in Net
    PROVE  DisconnectAllOf(state) = [connected |-> {}, link |-> {}]
<1> DEFINE Def(it) == [n \in 0..N |-> IF n = 0 THEN state ELSE disconnect(it[n - 1], all[n], Srv)]
           loop == CHOOSE it : it = Def(it)
           g == [n \in 0..N |-> DisconnectedBy(state, 0..n - 1)]
<1>1. DisconnectAllOf(state) = loop[N]
  BY AllServers DEF DisconnectAllOf, ForEach
<1>2. g[0] = state
  <2>1. DisconnectedBy(state, {}) = [connected |-> state.connected, link |-> state.link]
    BY Zenon DEF DisconnectedBy
  <2>2. g[0] = DisconnectedBy(state, {})
    BY AllServers, Zenon
  <2> QED
    BY <2>1, <2>2, Zenon DEF Net
<1>3. ASSUME NEW n \in 1..N PROVE g[n] = disconnect(g[n - 1], all[n], Srv)
  <2>1. g[n] = DisconnectedBy(state, 0..n - 1) /\ g[n - 1] = DisconnectedBy(state, 0..(n - 1) - 1)
    BY AllServers, Zenon
  <2> DEFINE from == 0..(n - 1) - 1
             i == n - 1
  <2>2. from \in SUBSET Srv /\ i \in Srv /\ all[n] = i /\ 0..n - 1 = from \cup {i}
    BY AllServers, Zenon
  <2> HIDE DEF from, i
  <2>3. disconnect(DisconnectedBy(state, from), i, Srv) = DisconnectedBy(state, from \cup {i})
    BY <2>2, DisconnectStep, Zenon
  <2> HIDE DEF g
  <2> QED
    BY <2>1, <2>2, <2>3, Zenon DEF from
<1>4. g = Def(g)
  <2>1. g = [n \in 0..N |-> g[n]]
    BY Zenon
  <2> HIDE DEF g
  <2>2. \A n \in 0..N : g[n] = IF n = 0 THEN state ELSE disconnect(g[n - 1], all[n], Srv)
    <3>1. \A n \in 0..N : n # 0 => n \in 1..N
      BY AllServers
    <3> QED
      BY <1>2, <1>3, <3>1, Zenon
  <2> QED
    BY <2>1, <2>2, Zenon
<1>5. loop = Def(loop)
  <2> HIDE DEF g, Def
  <2> QED
    BY <1>4, Zenon
<1>6. loop[N] = g[N]
  <2> HIDE DEF g, loop
  <2>1. loop[0] = g[0]
    BY <1>2, <1>5, AllServers
  <2>2. ASSUME NEW n \in 1..N, loop[n - 1] = g[n - 1] PROVE loop[n] = g[n]
    BY <1>3, <1>5, <2>2, AllServers
  <2> QED
    BY <2>1, <2>2, LoopInduction, AllServers, Zenon
<1>7. g[N] = [connected |-> {}, link |-> {}]
  <2>1. g[N] = DisconnectedBy(state, Srv)
    BY AllServers, Zenon
  <2>2. state.connected \ Srv = {} /\ state.link \ ((Srv \X Srv) \cup (Srv \X Srv)) = {}
    BY Zenon DEF Net
  <2> QED
    BY <2>1, <2>2, Zenon DEF DisconnectedBy
<1> QED
  BY <1>1, <1>6, <1>7, Zenon

\* Starting the servers of a group keeps the flags and ends what they are.
LEMMA StartAllType ==
    ASSUME NEW state \in Net
    PROVE  StartAllOf(state) \in Net
<1> DEFINE Def(it) == [n \in 0..N |-> IF n = 0 THEN state ELSE start(it[n - 1], all[n])]
           loop == CHOOSE it : it = Def(it)
           h == [x \in Net \X Srv |-> start(x[1], x[2])]
<1>1. StartAllOf(state) = loop[N]
  BY AllServers DEF StartAllOf, ForEach
<1>2. \A st \in Net, i \in Srv : start(st, i) \in Net
  BY DEF start, Net
<1>3. h \in [Net \X Srv -> Net] /\ \A st \in Net, i \in Srv : h[<<st, i>>] = start(st, i)
  BY <1>2
<1>4. PICK g \in [0..N -> Net] : g[0] = state /\ \A n \in 1..N : g[n] = h[<<g[n - 1], all[n]>>]
  <2> HIDE DEF h
  <2>1. N \in Nat /\ all \in [1..N -> Srv] /\ h \in [Net \X Srv -> Net]
    BY <1>3, AllServers, Zenon
  <2>2. Loops(N, Net, state, all, h)
    BY <2>1, LoopStays, Zenon
  <2> QED
    BY <2>2, Zenon DEF Loops
<1>5. \A n \in 1..N : g[n] = start(g[n - 1], all[n])
  <2> HIDE DEF h
  <2>1. \A n \in 1..N : g[n - 1] \in Net /\ all[n] \in Srv
    BY AllServers
  <2> QED
    BY <1>3, <1>4, <2>1, Zenon
<1>6. g = Def(g)
  <2>1. \A n \in 0..N : n # 0 => n \in 1..N
    BY AllServers
  <2>2. \A n \in 0..N : g[n] = IF n = 0 THEN state ELSE start(g[n - 1], all[n])
    BY <1>4, <1>5, <2>1, Zenon
  <2> QED
    BY <2>2, Zenon
<1>7. loop = Def(loop)
  <2> HIDE DEF Def
  <2> QED
    BY <1>6, Zenon
<1>8. loop[N] = g[N]
  <2> HIDE DEF loop
  <2>1. loop[0] = g[0]
    BY <1>4, <1>7, AllServers
  <2>2. ASSUME NEW n \in 1..N, loop[n - 1] = g[n - 1] PROVE loop[n] = g[n]
    BY <1>5, <1>7, <2>2, AllServers
  <2> QED
    BY <2>1, <2>2, LoopInduction, AllServers, Zenon
<1>9. g[N] \in Net
  BY AllServers
<1> HIDE DEF loop
<1> QED
  BY <1>1, <1>8, <1>9, Zenon

-----------------------------------------------------------------------------
(* Partition (ServerGrp). *)

\* One round of Partition's loops: server i is disconnected from the servers of
\* O and connected to those of P.
Switch(st, i, P, O) == connect(disconnect(st, i, O), i, P)

LEMMA SwitchIs ==
    ASSUME NEW st \in Net, NEW i \in Srv, NEW P, NEW O
    PROVE  LET c == st.connected \cup {i}
           IN Switch(st, i, P, O) = [connected |-> c, link |-> (st.link \ Ends(i, O)) \cup Ends(i, P \cap c)]
<1> DEFINE c == st.connected \cup {i}
           d == disconnect(st, i, O)
<1>1. d.connected = st.connected \ {i} /\ d.link = st.link \ Ends(i, O)
  BY DEF disconnect
<1>2. d.connected \cup {i} = c
  BY <1>1, Zenon
<1>3. Switch(st, i, P, O) = [connected |-> d.connected \cup {i}, link |-> d.link \cup Ends(i, P \cap (d.connected \cup {i}))]
  BY Zenon DEF connect, Switch
<1> HIDE DEF d, c
<1>4. Switch(st, i, P, O) = [connected |-> c, link |-> (st.link \ Ends(i, O)) \cup Ends(i, P \cap c)]
  BY <1>1, <1>2, <1>3, Zenon
<1> QED
  BY <1>4 DEF c

\* The states in which every enabled end has one in the other direction, and
\* both its servers are connected.
Mutual ==
    {st \in Net : \A a, b \in Srv : <<a, b>> \in st.link => a \in st.connected /\ b \in st.connected /\ <<b, a>> \in st.link}

LEMMA SwitchMutual ==
    ASSUME NEW st \in Mutual, NEW i \in Srv, NEW P \in SUBSET Srv, NEW O \in SUBSET Srv
    PROVE  Switch(st, i, P, O) \in Mutual
<1> DEFINE c == st.connected \cup {i}
           l == (st.link \ Ends(i, O)) \cup Ends(i, P \cap c)
           n == Switch(st, i, P, O)
<1>1. /\ st \in Net /\ st.connected \in SUBSET Srv /\ st.link \in SUBSET (Srv \X Srv)
      /\ \A a, b \in Srv : <<a, b>> \in st.link => a \in st.connected /\ b \in st.connected /\ <<b, a>> \in st.link
  BY DEF Mutual, Net
<1>2. n = [connected |-> c, link |-> l]
  BY <1>1, SwitchIs, Zenon
<1>3. c \in SUBSET Srv /\ l \in SUBSET (Srv \X Srv)
  BY <1>1 DEF Ends
<1>4. ASSUME NEW a \in Srv, NEW b \in Srv
      PROVE  <<a, b>> \in l <=> \/ <<a, b>> \in st.link /\ ~(a = i /\ b \in O) /\ ~(a \in O /\ b = i)
                                \/ a = i /\ b \in P \cap c
                                \/ a \in P \cap c /\ b = i
  <2>1. <<a, b>> \in Ends(i, O) <=> (a = i /\ b \in O) \/ (a \in O /\ b = i)
    BY DEF Ends
  <2>2. <<a, b>> \in Ends(i, P \cap c) <=> (a = i /\ b \in P \cap c) \/ (a \in P \cap c /\ b = i)
    <3> HIDE DEF c
    <3> QED
      BY DEF Ends
  <2> QED
    BY <2>1, <2>2, Zenon
<1> HIDE DEF l, n
<1>5. ASSUME NEW a \in Srv, NEW b \in Srv, <<a, b>> \in l
      PROVE  a \in c /\ b \in c /\ <<b, a>> \in l
  <2>1. /\ <<a, b>> \in l <=> \/ <<a, b>> \in st.link /\ ~(a = i /\ b \in O) /\ ~(a \in O /\ b = i)
                              \/ a = i /\ b \in P \cap c
                              \/ a \in P \cap c /\ b = i
        /\ <<b, a>> \in l <=> \/ <<b, a>> \in st.link /\ ~(b = i /\ a \in O) /\ ~(b \in O /\ a = i)
                              \/ b = i /\ a \in P \cap c
                              \/ b \in P \cap c /\ a = i
    BY <1>4
  <2>2. <<a, b>> \in st.link => a \in st.connected /\ b \in st.connected /\ <<b, a>> \in st.link
    BY <1>1, Zenon
  <2> QED
    BY <1>5, <2>1, <2>2
<1> HIDE DEF c
<1>6. n \in Net /\ n.connected = c /\ n.link = l
  <2>1. n.connected = c /\ n.link = l
    BY <1>2, Zenon
  <2>2. n \in Net
    BY <1>2, <1>3, Zenon DEF Net
  <2> QED
    BY <2>1, <2>2, Zenon
<1>7. n \in Mutual
  BY <1>5, <1>6, Zenon DEF Mutual
<1> QED
  BY <1>7 DEF n

\* One loop of Partition keeps ends mutual, whatever the parts.
LEMMA SideMutual ==
    ASSUME NEW state \in Mutual, NEW own \in Seq(Srv), NEW other \in Seq(Srv)
    PROVE  Side(state, own, other) \in Mutual
<1> DEFINE len == Len(own)
           P == Range(own)
           O == Range(other)
           Def(it) == [n \in 0..len |-> IF n = 0 THEN state ELSE Switch(it[n - 1], own[n], P, O)]
           loop == CHOOSE it : it = Def(it)
           h == [x \in Mutual \X Srv |-> Switch(x[1], x[2], P, O)]
<1>1. Side(state, own, other) = loop[len]
  BY DEF Side, ForEach, Switch
<1>2. len \in Nat /\ own \in [1..len -> Srv]
  OBVIOUS
<1>10. P \in SUBSET Srv /\ O \in SUBSET Srv
  BY DEF Range
<1> HIDE DEF len, P, O
<1>3. h \in [Mutual \X Srv -> Mutual] /\ \A st \in Mutual, i \in Srv : h[<<st, i>>] = Switch(st, i, P, O)
  BY <1>10, SwitchMutual
<1>4. PICK g \in [0..len -> Mutual] : g[0] = state /\ \A n \in 1..len : g[n] = h[<<g[n - 1], own[n]>>]
  <2> HIDE DEF h
  <2>1. Loops(len, Mutual, state, own, h)
    BY <1>2, <1>3, LoopStays, Zenon
  <2> QED
    BY <2>1, Zenon DEF Loops
<1>5. \A n \in 1..len : g[n] = Switch(g[n - 1], own[n], P, O)
  <2> HIDE DEF h
  <2>1. \A n \in 1..len : g[n - 1] \in Mutual /\ own[n] \in Srv
    BY <1>2
  <2> QED
    BY <1>3, <1>4, <2>1, Zenon
<1>6. g = Def(g)
  <2>1. \A n \in 0..len : n # 0 => n \in 1..len
    BY <1>2
  <2>2. \A n \in 0..len : g[n] = IF n = 0 THEN state ELSE Switch(g[n - 1], own[n], P, O)
    BY <1>4, <1>5, <2>1, Zenon
  <2> QED
    BY <2>2, Zenon
<1>7. loop = Def(loop)
  <2> HIDE DEF Def
  <2> QED
    BY <1>6, Zenon
<1> HIDE DEF loop
<1>8. loop[len] = g[len]
  <2>1. loop[0] = g[0]
    BY <1>2, <1>4, <1>7
  <2>2. ASSUME NEW n \in 1..len, loop[n - 1] = g[n - 1] PROVE loop[n] = g[n]
    BY <1>2, <1>5, <1>7, <2>2
  <2> QED
    BY <1>2, <2>1, <2>2, LoopInduction, Zenon
<1>9. g[len] \in Mutual
  BY <1>2
<1> QED
  BY <1>1, <1>8, <1>9, Zenon

\* The state after a loop of Partition has gone through the servers of S.
SwitchedBy(state, S, P, O) ==
    LET c == state.connected \cup S
    IN [connected |-> c,
        link      |-> (state.link \ ((S \X O) \cup (O \X S))) \cup (S \X (P \cap c)) \cup ((P \cap c) \X S)]

LEMMA SwitchStep ==
    ASSUME NEW state \in Net, NEW P \in SUBSET Srv, NEW O \in SUBSET Srv, P \cap O = {},
           NEW S \in SUBSET P, NEW i \in P
    PROVE  Switch(SwitchedBy(state, S, P, O), i, P, O) = SwitchedBy(state, S \cup {i}, P, O)
<1> DEFINE st == SwitchedBy(state, S, P, O)
           b == state.connected \cup S
           l == (state.link \ ((S \X O) \cup (O \X S))) \cup (S \X (P \cap b)) \cup ((P \cap b) \X S)
           R == S \cup {i}
           c == state.connected \cup R
           K == (l \ Ends(i, O)) \cup Ends(i, P \cap c)
           L == (state.link \ ((R \X O) \cup (O \X R))) \cup (R \X (P \cap c)) \cup ((P \cap c) \X R)
<1>1. state.connected \in SUBSET Srv /\ state.link \in SUBSET (Srv \X Srv) /\ i \in Srv
  BY DEF Net
<1>2. st = [connected |-> b, link |-> l] /\ SwitchedBy(state, R, P, O) = [connected |-> c, link |-> L]
  BY Zenon DEF SwitchedBy
<1>3. b \cup {i} = c
  OBVIOUS
<1>4. b \in SUBSET Srv /\ l \in SUBSET (Srv \X Srv) /\ K \in SUBSET (Srv \X Srv) /\ L \in SUBSET (Srv \X Srv)
  <2>1. b \in SUBSET Srv /\ c \in SUBSET Srv /\ S \in SUBSET Srv /\ R \in SUBSET Srv
    BY <1>1
  <2> HIDE DEF b, c, R
  <2>2. l \in SUBSET (Srv \X Srv)
    BY <1>1, <2>1
  <2>3. L \in SUBSET (Srv \X Srv)
    BY <1>1, <2>1
  <2> HIDE DEF l
  <2>4. K \in SUBSET (Srv \X Srv)
    BY <1>1, <2>1, <2>2 DEF Ends
  <2> QED
    BY <2>1, <2>2, <2>3, <2>4
<1>5. ASSUME NEW x \in Srv, NEW y \in Srv PROVE <<x, y>> \in K <=> <<x, y>> \in L
  <2>1. <<x, y>> \in l <=> \/ <<x, y>> \in state.link /\ ~(x \in S /\ y \in O) /\ ~(x \in O /\ y \in S)
                           \/ x \in S /\ y \in P \cap b
                           \/ x \in P \cap b /\ y \in S
    <3> HIDE DEF b
    <3> QED
      OBVIOUS
  <2>2. <<x, y>> \in L <=> \/ <<x, y>> \in state.link /\ ~(x \in R /\ y \in O) /\ ~(x \in O /\ y \in R)
                           \/ x \in R /\ y \in P \cap c
                           \/ x \in P \cap c /\ y \in R
    <3> HIDE DEF c, R
    <3> QED
      OBVIOUS
  <2>3. <<x, y>> \in K <=> \/ <<x, y>> \in l /\ ~(x = i /\ y \in O) /\ ~(x \in O /\ y = i)
                           \/ x = i /\ y \in P \cap c
                           \/ x \in P \cap c /\ y = i
    <3> HIDE DEF c, l
    <3> QED
      BY DEF Ends
  <2> HIDE DEF K, L, l
  <2> QED
    BY <2>1, <2>2, <2>3
<1>6. K = L
  <2> HIDE DEF K, L, l, b, c, R
  <2> QED
    BY <1>4, <1>5, SameEnds, Zenon DEF SamePairs
<1>7. Switch(st, i, P, O) = [connected |-> c, link |-> K]
  <2>1. st \in Net /\ st.connected = b /\ st.link = l
    <3> HIDE DEF b, l, st
    <3>1. st.connected = b /\ st.link = l
      BY <1>2, Zenon
    <3>2. st \in Net
      BY <1>2, <1>4, Zenon DEF Net
    <3> QED
      BY <3>1, <3>2
  <2> HIDE DEF b, l, st, c
  <2>2. Switch(st, i, P, O) = [connected |-> b \cup {i}, link |-> (l \ Ends(i, O)) \cup Ends(i, P \cap (b \cup {i}))]
    BY <1>1, <2>1, SwitchIs, Zenon
  <2> QED
    BY <1>3, <2>2, Zenon
<1> HIDE DEF st, c, K, L
<1>8. Switch(st, i, P, O) = SwitchedBy(state, R, P, O)
  BY <1>2, <1>6, <1>7, Zenon
<1> QED
  BY <1>8 DEF st

\* One loop of Partition, over disjoint parts: the servers of the part reach each
\* other and none of the other part.
LEMMA SideIs ==
    ASSUME NEW state \in Net, NEW own \in Seq(Srv), NEW other \in Seq(Srv),
           NEW P, P = Range(own), NEW O, O = Range(other), P \cap O = {}
    PROVE  Side(state, own, other) = SwitchedBy(state, P, P, O)
<1> DEFINE len == Len(own)
           Def(it) == [n \in 0..len |-> IF n = 0 THEN state ELSE Switch(it[n - 1], own[n], P, O)]
           loop == CHOOSE it : it = Def(it)
           S(n) == {own[m] : m \in 1..n}
           g == [n \in 0..len |-> SwitchedBy(state, S(n), P, O)]
<1>1. Side(state, own, other) = loop[len]
  BY DEF Side, ForEach, Switch
<1>2. len \in Nat /\ own \in [1..len -> Srv] /\ P = S(len) /\ P \in SUBSET Srv /\ O \in SUBSET Srv
  BY DEF Range
<1>3. \A n \in 0..len : S(n) \in SUBSET P /\ n \in Nat
  BY <1>2
<1>4. \A n \in 1..len : S(n) = S(n - 1) \cup {own[n]} /\ own[n] \in P /\ n \in 0..len /\ n - 1 \in 0..len /\ n # 0
  BY <1>2
<1>5. S(0) = {} /\ 0 \in 0..len /\ len \in 0..len
  BY <1>2
<1> HIDE DEF len, S
<1>6. g[0] = state
  <2>1. SwitchedBy(state, {}, P, O) = [connected |-> state.connected, link |-> state.link]
    BY Zenon DEF SwitchedBy
  <2>2. g[0] = SwitchedBy(state, {}, P, O)
    BY <1>5, Zenon
  <2> QED
    BY <2>1, <2>2, Zenon DEF Net
<1>7. ASSUME NEW n \in 1..len PROVE g[n] = Switch(g[n - 1], own[n], P, O)
  <2>1. g[n] = SwitchedBy(state, S(n), P, O) /\ g[n - 1] = SwitchedBy(state, S(n - 1), P, O)
    BY <1>4, Zenon
  <2>2. S(n - 1) \in SUBSET P /\ own[n] \in P /\ S(n) = S(n - 1) \cup {own[n]}
    BY <1>3, <1>4, Zenon
  <2>3. Switch(SwitchedBy(state, S(n - 1), P, O), own[n], P, O) = SwitchedBy(state, S(n - 1) \cup {own[n]}, P, O)
    <3> DEFINE R == S(n - 1)
               i == own[n]
    <3>1. P \in SUBSET Srv /\ O \in SUBSET Srv /\ R \in SUBSET P /\ i \in P
      BY <1>2, <2>2, Zenon
    <3> HIDE DEF R, i
    <3>2. Switch(SwitchedBy(state, R, P, O), i, P, O) = SwitchedBy(state, R \cup {i}, P, O)
      BY <3>1, SwitchStep
    <3> QED
      BY <3>2 DEF R, i
  <2> HIDE DEF g
  <2> QED
    BY <2>1, <2>2, <2>3, Zenon
<1>8. g = Def(g)
  <2>1. g = [n \in 0..len |-> g[n]]
    BY Zenon
  <2> HIDE DEF g
  <2>2. \A n \in 0..len : g[n] = IF n = 0 THEN state ELSE Switch(g[n - 1], own[n], P, O)
    <3>1. \A n \in 0..len : n # 0 => n \in 1..len
      BY <1>2
    <3> QED
      BY <1>6, <1>7, <3>1, Zenon
  <2> QED
    BY <2>1, <2>2, Zenon
<1>9. loop = Def(loop)
  <2> HIDE DEF g, Def
  <2> QED
    BY <1>8, Zenon
<1> HIDE DEF loop
<1>10. loop[len] = g[len]
  <2> HIDE DEF g
  <2>1. loop[0] = g[0]
    BY <1>5, <1>6, <1>9
  <2>2. ASSUME NEW n \in 1..len, loop[n - 1] = g[n - 1] PROVE loop[n] = g[n]
    BY <1>4, <1>7, <1>9, <2>2
  <2> QED
    BY <1>2, <2>1, <2>2, LoopInduction, Zenon
<1>11. g[len] = SwitchedBy(state, P, P, O)
  BY <1>2, <1>5, Zenon
<1> QED
  BY <1>1, <1>10, <1>11, Zenon

\* The two loops of Partition keep ends mutual, whatever the parts.
LEMMA PartitionMutual ==
    ASSUME net \in Mutual, NEW p1 \in Seq(Srv), NEW p2 \in Seq(Srv), Partition(p1, p2)
    PROVE  net' \in Mutual
<1>1. Side(net, p1, p2) \in Mutual
  BY SideMutual
<1>2. Side(Side(net, p1, p2), p2, p1) \in Mutual
  BY <1>1, SideMutual
<1> QED
  BY <1>2 DEF Partition

\* Partition is called with the lists p1 and p2 of the servers of two parts.
Cuts(p1, p2, P1, P2) ==
    /\ p1 \in Seq(Srv) /\ p2 \in Seq(Srv) /\ Partition(p1, p2)
    /\ P1 = Range(p1) /\ P2 = Range(p2) /\ P1 \cap P2 = {} /\ P1 \cup P2 = Srv

\* Partition into disjoint parts that cover the group connects the servers of
\* each part, and nothing else, whatever was connected before.
LEMMA PartitionIs ==
    ASSUME net \in Net, NEW p1, NEW p2, NEW P1, NEW P2, Cuts(p1, p2, P1, P2)
    PROVE  net' = [connected |-> Srv, link |-> (P1 \X P1) \cup (P2 \X P2)]
<1> SUFFICES ASSUME p1 \in Seq(Srv), p2 \in Seq(Srv), Partition(p1, p2),
                    P1 = Range(p1), P2 = Range(p2), P1 \cap P2 = {}, P1 \cup P2 = Srv
             PROVE  net' = [connected |-> Srv, link |-> (P1 \X P1) \cup (P2 \X P2)]
  BY Zenon DEF Cuts
<1> DEFINE mid == Side(net, p1, p2)
           end == Side(mid, p2, p1)
           l1 == (net.link \ ((P1 \X P2) \cup (P2 \X P1))) \cup (P1 \X P1)
           l2 == (l1 \ ((P2 \X P1) \cup (P1 \X P2))) \cup (P2 \X P2)
           c1 == net.connected \cup P1
<1>1. net' = end
  BY DEF Partition
<1>2. P1 \in SUBSET Srv /\ P2 \in SUBSET Srv /\ P2 \cap P1 = {}
  BY Zenon
<1>3. net.connected \in SUBSET Srv /\ net.link \in SUBSET (Srv \X Srv)
  BY DEF Net
<1>4. mid = SwitchedBy(net, P1, P1, P2)
  BY <1>2, SideIs
<1>5. mid = [connected |-> c1, link |-> l1]
  <2>1. P1 \cap c1 = P1
    BY Zenon
  <2>2. mid = [connected |-> c1, link |-> (net.link \ ((P1 \X P2) \cup (P2 \X P1))) \cup (P1 \X (P1 \cap c1)) \cup ((P1 \cap c1) \X P1)]
    BY <1>4, Zenon DEF SwitchedBy
  <2> HIDE DEF c1, mid
  <2> QED
    BY <2>1, <2>2, Zenon
<1>6. c1 \in SUBSET Srv /\ l1 \in SUBSET (Srv \X Srv)
  BY <1>2, <1>3
<1> HIDE DEF mid, l1, c1
<1>7. mid \in Net /\ mid.connected = c1 /\ mid.link = l1
  <2>1. mid.connected = c1 /\ mid.link = l1
    BY <1>5, Zenon
  <2>2. mid \in Net
    BY <1>5, <1>6, Zenon DEF Net
  <2> QED
    BY <2>1, <2>2
<1>8. end = SwitchedBy(mid, P2, P2, P1)
  BY <1>2, <1>7, SideIs
<1>9. end = [connected |-> Srv, link |-> l2]
  <2>1. P2 \cap (c1 \cup P2) = P2 /\ c1 \cup P2 = Srv
    BY <1>3, Zenon DEF c1
  <2>2. end = [connected |-> c1 \cup P2,
               link |-> (l1 \ ((P2 \X P1) \cup (P1 \X P2))) \cup (P2 \X (P2 \cap (c1 \cup P2))) \cup ((P2 \cap (c1 \cup P2)) \X P2)]
    BY <1>7, <1>8, Zenon DEF SwitchedBy
  <2> HIDE DEF end
  <2> QED
    BY <2>1, <2>2, Zenon
<1>10. l2 = (P1 \X P1) \cup (P2 \X P2)
  <2> DEFINE L == (P1 \X P1) \cup (P2 \X P2)
  <2>1. l2 \in SUBSET (Srv \X Srv) /\ L \in SUBSET (Srv \X Srv)
    BY <1>2, <1>6
  <2>2. ASSUME NEW x \in Srv, NEW y \in Srv PROVE <<x, y>> \in l2 <=> <<x, y>> \in L
    <3>1. <<x, y>> \in l1 <=> \/ <<x, y>> \in net.link /\ ~(x \in P1 /\ y \in P2) /\ ~(x \in P2 /\ y \in P1)
                              \/ x \in P1 /\ y \in P1
      BY DEF l1
    <3>2. <<x, y>> \in l2 <=> \/ <<x, y>> \in l1 /\ ~(x \in P1 /\ y \in P2) /\ ~(x \in P2 /\ y \in P1)
                              \/ x \in P2 /\ y \in P2
      OBVIOUS
    <3>3. <<x, y>> \in L <=> (x \in P1 /\ y \in P1) \/ (x \in P2 /\ y \in P2)
      OBVIOUS
    <3>4. (x \in P1 <=> x \notin P2) /\ (y \in P1 <=> y \notin P2)
      BY Zenon
    <3> HIDE DEF l2, L
    <3> QED
      BY <3>1, <3>2, <3>3, <3>4
  <2> HIDE DEF l2, L
  <2>3. SamePairs(l2, L)
    BY <2>2, Zenon DEF SamePairs
  <2>4. l2 = L
    BY <2>1, <2>3, SameEnds
  <2> QED
    BY <2>4 DEF L
<1> HIDE DEF end, l2
<1> QED
  BY <1>1, <1>9, <1>10, Zenon

\* The Partitioner lists every server of a part (kvtest.go, pa[i] = append(...)).
LEMMA MembersAre ==
    ASSUME NEW part \in SUBSET Srv
    PROVE  Members(part) \in Seq(Srv) /\ Range(Members(part)) = part
<1> DEFINE Keep(list, i) == IF i \in part THEN Append(list, i) ELSE list
           Def(it) == [n \in 0..N |-> IF n = 0 THEN <<>> ELSE Keep(it[n - 1], n - 1)]
           loop == CHOOSE it : it = Def(it)
           h == [x \in Seq(Srv) \X Srv |-> Keep(x[1], x[2])]
<1>1. Members(part) = loop[N]
  <2>1. \A it : Def(it) = [n \in 0..N |-> IF n = 0 THEN <<>>
                                         ELSE IF n - 1 \in part THEN Append(it[n - 1], n - 1) ELSE it[n - 1]]
    OBVIOUS
  <2> QED
    BY DEF Members
<1>2. h \in [Seq(Srv) \X Srv -> Seq(Srv)] /\ \A list \in Seq(Srv), i \in Srv : h[<<list, i>>] = Keep(list, i)
  <2>1. \A list \in Seq(Srv), i \in Srv : Keep(list, i) \in Seq(Srv)
    OBVIOUS
  <2> HIDE DEF Keep
  <2> QED
    BY <2>1
<1>3. PICK g \in [0..N -> Seq(Srv)] : g[0] = <<>> /\ \A n \in 1..N : g[n] = h[<<g[n - 1], all[n]>>]
  <2>1. <<>> \in Seq(Srv)
    OBVIOUS
  <2> HIDE DEF h
  <2>2. N \in Nat /\ all \in [1..N -> Srv] /\ h \in [Seq(Srv) \X Srv -> Seq(Srv)]
    BY <1>2, AllServers, Zenon
  <2>3. Loops(N, Seq(Srv), <<>>, all, h)
    BY <2>1, <2>2, LoopStays, Zenon
  <2> QED
    BY <2>3, Zenon DEF Loops
<1>4. \A n \in 1..N : g[n - 1] \in Seq(Srv) /\ g[n] = Keep(g[n - 1], n - 1)
  <2> HIDE DEF h, Keep
  <2>1. \A n \in 1..N : g[n - 1] \in Seq(Srv) /\ all[n] \in Srv /\ all[n] = n - 1
    BY AllServers, Zenon
  <2> QED
    BY <1>2, <1>3, <2>1, Zenon
<1>5. g = Def(g)
  <2> HIDE DEF h, Keep
  <2>1. \A n \in 0..N : n # 0 => n \in 1..N
    BY AllServers
  <2>2. \A n \in 0..N : g[n] = IF n = 0 THEN <<>> ELSE Keep(g[n - 1], n - 1)
    BY <1>3, <1>4, <2>1, Zenon
  <2> QED
    BY <2>2, Zenon
<1>6. loop = Def(loop)
  <2> HIDE DEF Def
  <2> QED
    BY <1>5, Zenon
<1> HIDE DEF loop
<1>7. loop[N] = g[N]
  <2> HIDE DEF Keep
  <2>1. loop[0] = g[0]
    BY <1>3, <1>6, AllServers
  <2>2. ASSUME NEW n \in 1..N, loop[n - 1] = g[n - 1] PROVE loop[n] = g[n]
    BY <1>4, <1>6, <2>2, AllServers
  <2> QED
    BY <2>1, <2>2, LoopInduction, AllServers, Zenon
<1>8. Range(g[N]) = part
  <2> DEFINE T == {n \in 0..N : Range(g[n]) = part \cap (0..n - 1)}
  <2>1. 0 \in T
    BY <1>3, AllServers DEF Range
  <2>2. ASSUME NEW n \in 0..N, n \in T, n < N PROVE n + 1 \in T
    <3>1. n \in Nat /\ n + 1 \in 0..N /\ n \in Srv /\ 0..(n + 1) - 1 = (0..n - 1) \cup {n}
      BY <2>2, AllServers
    <3>2. g[n] \in Seq(Srv) /\ g[n + 1] = Keep(g[n], n)
      <4>1. n + 1 \in 1..N /\ (n + 1) - 1 = n
        BY <2>2, AllServers
      <4> HIDE DEF Keep
      <4> QED
        BY <1>4, <4>1
    <3>3. CASE n \in part
      <4>1. g[n + 1] = Append(g[n], n)
        BY <3>2, <3>3
      <4>2. Range(g[n + 1]) = Range(g[n]) \cup {n}
        BY <3>1, <3>2, <4>1 DEF Range
      <4> QED
        BY <2>2, <3>1, <3>3, <4>2
    <3>4. CASE n \notin part
      <4>1. g[n + 1] = g[n]
        BY <3>2, <3>4
      <4> QED
        BY <2>2, <3>1, <3>4, <4>1
    <3> QED
      BY <3>3, <3>4
  <2>3. N \in T
    <3> HIDE DEF T
    <3> QED
      BY <2>1, <2>2, BoundedInduction, AllServers, Zenon
  <2> QED
    BY <2>3, AllServers, Zenon
<1>9. g[N] \in Seq(Srv)
  BY AllServers
<1> QED
  BY <1>1, <1>7, <1>8, <1>9, Zenon

\* The parts that MakePartition makes are lists of servers.
LEMMA PartsType ==
    ASSUME NEW l \in Srv
    PROVE  MakePartition(l)[1] \in Seq(Srv) /\ MakePartition(l)[2] \in Seq(Srv)
<1> DEFINE other == [j \in 1..N - 1 |-> IF j <= l THEN j - 1 ELSE j]
           size == N \div 2 + 1
           InPart(j) == IF j \in DOMAIN other THEN other[j] ELSE 0
           p1 == [j \in 1..size |-> InPart(j)]
           p2 == [j \in 1..N \div 2 |-> IF j = N \div 2 THEN l ELSE InPart(size + j)]
<1>1. MakePartition(l)[1] = p1 /\ MakePartition(l)[2] = p2
  BY DEF MakePartition
<1>2. N \in Nat /\ N \div 2 \in Nat /\ size \in Nat /\ l \in Nat /\ 0 \in Srv
  BY GroupAssumption DEF Srv
<1>3. \A j : InPart(j) \in Srv
  BY GroupAssumption DEF Srv
<1> HIDE DEF InPart, size
<1>4. p1 \in [1..size -> Srv] /\ p2 \in [1..N \div 2 -> Srv]
  BY <1>3, Zenon
<1> HIDE DEF p1, p2
<1>5. \A n \in Nat : \A p \in [1..n -> Srv] : p \in Seq(Srv)
  OBVIOUS
<1> QED
  BY <1>1, <1>2, <1>4, <1>5, Zenon

\* Disjoint parts that cover the group, with server l in the minority.
Parted(P1, P2, l) ==
    P1 \cap P2 = {} /\ P1 \cup P2 = Srv /\ l \in P2 /\ Cardinality(P1) > Cardinality(P2)

\* In a group of an odd number of servers MakePartition makes such parts ("put
\* leader in minority").
LEMMA PartsExact ==
    ASSUME NEW l \in Srv, N % 2 = 1, NEW P1, P1 = Range(MakePartition(l)[1]), NEW P2, P2 = Range(MakePartition(l)[2])
    PROVE  Parted(P1, P2, l)
<1> DEFINE half == N \div 2
           Other(j) == IF j <= l THEN j - 1 ELSE j
           InPart(j) == IF j \in 1..N - 1 THEN Other(j) ELSE 0
           p1 == [j \in 1..half + 1 |-> InPart(j)]
           p2 == [j \in 1..half |-> IF j = half THEN l ELSE InPart(half + 1 + j)]
<1>1. MakePartition(l)[1] = p1 /\ MakePartition(l)[2] = p2
  BY DEF MakePartition
<1>2. half \in Nat /\ half >= 1 /\ N = half + half + 1 /\ l \in 0..half + half /\ Srv = 0..half + half
  BY GroupAssumption DEF Srv
<1> HIDE DEF half
<1>3. P1 = {Other(j) : j \in 1..half + 1}
  <2>1. \A j \in 1..half + 1 : j \in 1..N - 1
    BY <1>2
  <2> HIDE DEF Other
  <2>2. P1 = {p1[j] : j \in 1..half + 1}
    <3>1. DOMAIN p1 = 1..half + 1
      BY Zenon
    <3> HIDE DEF p1
    <3> QED
      BY <1>1, <3>1, Zenon DEF Range
  <2>3. \A j \in 1..half + 1 : p1[j] = Other(j)
    BY <2>1, Zenon
  <2> HIDE DEF p1
  <2> QED
    BY <2>2, <2>3
<1>4. P2 = {Other(j) : j \in half + 2..half + half} \cup {l}
  <2>1. \A j \in 1..half : j # half => half + 1 + j \in 1..N - 1 /\ half + 1 + j \in half + 2..half + half
    BY <1>2
  <2>2. \A j \in half + 2..half + half : \E i \in 1..half : i # half /\ j = half + 1 + i
    <3> SUFFICES ASSUME NEW j \in half + 2..half + half PROVE \E i \in 1..half : i # half /\ j = half + 1 + i
      OBVIOUS
    <3>1. j - half - 1 \in 1..half /\ j - half - 1 # half /\ j = half + 1 + (j - half - 1)
      BY <1>2
    <3> QED
      BY <3>1, Zenon
  <2>3. half \in 1..half
    BY <1>2
  <2>4. P2 = {p2[j] : j \in 1..half}
    BY <1>1, Zenon DEF Range
  <2> HIDE DEF Other
  <2>5. p2[half] = l /\ \A j \in 1..half : j # half => p2[j] = Other(half + 1 + j)
    BY <2>1, <2>3, Zenon
  <2> HIDE DEF p2
  <2>6. \A x \in P2 : x \in {Other(j) : j \in half + 2..half + half} \cup {l}
    BY <2>1, <2>4, <2>5, Zenon
  <2>7. \A j \in half + 2..half + half : Other(j) \in P2
    BY <2>2, <2>4, <2>5, Zenon
  <2>8. l \in P2
    BY <2>3, <2>4, <2>5, Zenon
  <2> QED
    BY <2>6, <2>7, <2>8, Zenon
<1>5. P1 \cap P2 = {} /\ l \in P2 /\ P1 \subseteq Srv /\ P2 \subseteq Srv
  BY <1>2, <1>3, <1>4
<1>6. ASSUME NEW i \in Srv PROVE i \in P1 \cup P2
  <2>1. i < l => i + 1 \in 1..half + half /\ Other(i + 1) = i
    BY <1>2
  <2>2. i > l => i \in 1..half + half /\ Other(i) = i
    BY <1>2
  <2>3. \A j \in 1..half + half : j \in 1..half + 1 \/ j \in half + 2..half + half
    BY <1>2
  <2>4. i < l \/ i = l \/ i > l
    BY <1>2
  <2> HIDE DEF Other
  <2> QED
    BY <1>3, <1>4, <2>1, <2>2, <2>3, <2>4
<1>7. IsFiniteSet(Srv) /\ Cardinality(Srv) = half + half + 1
  BY <1>2, FS_Interval
<1>8. IsFiniteSet(1..half) /\ Cardinality(1..half) = half
  <2>1. 1 \in Int /\ half \in Int /\ ~(1 > half) /\ half - 1 + 1 = half
    BY <1>2
  <2> QED
    BY <2>1, FS_Interval, Zenon
<1>9. IsFiniteSet(P1) /\ IsFiniteSet(P2)
  BY <1>5, <1>7, FS_Subset
<1>12. Cardinality(P1) \in Nat /\ Cardinality(P2) \in Nat
  BY <1>9, FS_CardinalityType, Zenon
<1>10. Cardinality(P2) <= half
  <2>1. p2 \in Surjection(1..half, P2)
    <3>1. P2 = {p2[j] : j \in 1..half}
      BY <1>1, Zenon DEF Range
    <3> HIDE DEF InPart
    <3> QED
      BY <3>1 DEF Surjection
  <2> QED
    BY <1>8, <2>1, FS_Surjection
<1>11. Cardinality(P1) + Cardinality(P2) = half + half + 1
  <2>1. P1 \cup P2 = Srv
    BY <1>5, <1>6
  <2>2. Cardinality(P1 \cup P2) = Cardinality(P1) + Cardinality(P2) - Cardinality(P1 \cap P2)
    BY <1>9, FS_Union, Zenon
  <2>3. Cardinality(P1 \cap P2) = 0
    BY <1>5, FS_EmptySet, Zenon
  <2>4. Cardinality(Srv) = Cardinality(P1) + Cardinality(P2) - 0
    BY <2>1, <2>2, <2>3, Zenon
  <2>5. \A a, b \in Nat : a + b - 0 = a + b
    OBVIOUS
  <2>6. Cardinality(P1) + Cardinality(P2) - 0 = Cardinality(P1) + Cardinality(P2)
    BY <1>12, <2>5, Zenon
  <2> QED
    BY <1>7, <2>4, <2>6, Zenon
<1>13. Cardinality(P1) > Cardinality(P2)
  BY <1>2, <1>10, <1>11, <1>12
<1> HIDE DEF Other
<1> QED
  BY <1>5, <1>6, <1>13, Zenon DEF Parted

-----------------------------------------------------------------------------
(* Links and flags. *)

\* The states whose flags tell the network exactly.
Precise == {st \in Net : st.link = st.connected \X st.connected}

LEMMA PreciseMutual ==
    Precise \subseteq Mutual
<1> SUFFICES ASSUME NEW st \in Precise PROVE st \in Mutual
  OBVIOUS
<1>1. st \in Net /\ st.link = st.connected \X st.connected
  BY Zenon DEF Precise
<1>2. \A a, b \in Srv : <<a, b>> \in st.link => a \in st.connected /\ b \in st.connected /\ <<b, a>> \in st.link
  BY <1>1
<1> QED
  BY <1>1, <1>2, Zenon DEF Mutual

\* The state in which the servers of c reach each other is precise.
LEMMA FullPrecise ==
    ASSUME NEW c \in SUBSET Srv
    PROVE  [connected |-> c, link |-> c \X c] \in Precise
<1> DEFINE st == [connected |-> c, link |-> c \X c]
<1>1. c \X c \in SUBSET (Srv \X Srv)
  OBVIOUS
<1>2. st \in Net /\ st.connected = c /\ st.link = c \X c
  BY <1>1 DEF Net
<1> HIDE DEF st
<1>3. st \in Precise
  BY <1>2, Zenon DEF Precise
<1> QED
  BY <1>3 DEF st

\* Connecting one server to all keeps ends mutual.
LEMMA ConnectMutual ==
    ASSUME NEW st \in Mutual, NEW i \in Srv
    PROVE  connect(st, i, Srv) \in Mutual
<1> DEFINE d == disconnect(st, i, {})
           c == st.connected \cup {i}
           l == st.link \cup Ends(i, Srv \cap c)
<1>1. Switch(st, i, Srv, {}) \in Mutual
  BY SwitchMutual, Zenon
<1>2. Switch(st, i, Srv, {}) = [connected |-> c, link |-> (st.link \ Ends(i, {})) \cup Ends(i, Srv \cap c)]
  BY SwitchIs, Zenon DEF Mutual
<1>3. Ends(i, {}) = {}
  BY DEF Ends
<1>4. (st.link \ {}) \cup Ends(i, Srv \cap c) = l
  BY Zenon
<1>5. connect(st, i, Srv) = [connected |-> c, link |-> l]
  BY Zenon DEF connect
<1> HIDE DEF c, l
<1> QED
  BY <1>1, <1>2, <1>3, <1>4, <1>5, Zenon

\* Connecting one server to all keeps flags precise.
LEMMA ConnectPrecise ==
    ASSUME NEW st \in Precise, NEW i \in Srv
    PROVE  connect(st, i, Srv) \in Precise
<1> DEFINE c == st.connected \cup {i}
           l == st.link \cup Ends(i, Srv \cap c)
<1>1. st.connected \in SUBSET Srv /\ st.link = st.connected \X st.connected
  BY DEF Precise, Net
<1>2. c \in SUBSET Srv /\ Srv \cap c = c
  BY <1>1
<1>3. connect(st, i, Srv) = [connected |-> c, link |-> l]
  BY Zenon DEF connect
<1>4. l = c \X c
  <2>1. l \in SUBSET (Srv \X Srv) /\ c \X c \in SUBSET (Srv \X Srv)
    BY <1>1, <1>2 DEF Ends
  <2>2. \A a, b \in Srv : <<a, b>> \in l <=> <<a, b>> \in c \X c
    BY <1>1, <1>2 DEF Ends
  <2> HIDE DEF l
  <2> QED
    BY <2>1, <2>2, SameEnds, Zenon DEF SamePairs
<1> QED
  BY <1>2, <1>3, <1>4, FullPrecise, Zenon

\* Disconnecting one server from all keeps ends mutual and flags precise.
LEMMA DisconnectMutual ==
    ASSUME NEW st \in Mutual, NEW i \in Srv
    PROVE  disconnect(st, i, Srv) \in Mutual /\ (st \in Precise => disconnect(st, i, Srv) \in Precise)
<1> DEFINE c == st.connected \ {i}
           l == st.link \ Ends(i, Srv)
           n == disconnect(st, i, Srv)
<1>1. /\ st.connected \in SUBSET Srv /\ st.link \in SUBSET (Srv \X Srv)
      /\ \A a, b \in Srv : <<a, b>> \in st.link => a \in st.connected /\ b \in st.connected /\ <<b, a>> \in st.link
  BY DEF Mutual, Net
<1>2. c \in SUBSET Srv /\ l \in SUBSET (Srv \X Srv)
  BY <1>1
<1>3. n.connected = c /\ n.link = l /\ n \in Net
  BY <1>2 DEF disconnect, Net
<1>4. \A a, b \in Srv : <<a, b>> \in l <=> <<a, b>> \in st.link /\ a # i /\ b # i
  BY DEF Ends
<1> HIDE DEF n, l
<1>5. \A a, b \in Srv : <<a, b>> \in l => a \in c /\ b \in c /\ <<b, a>> \in l
  BY <1>1, <1>4, Zenon
<1>6. n \in Mutual
  BY <1>3, <1>5, Zenon DEF Mutual
<1>7. ASSUME st \in Precise PROVE n \in Precise
  <2>0. st.link = st.connected \X st.connected
    BY <1>7, Zenon DEF Precise
  <2>4. \A a, b \in Srv : <<a, b>> \in st.link <=> a \in st.connected /\ b \in st.connected
    BY <2>0
  <2>5. \A C : \A a, b \in Srv : <<a, b>> \in C \X C <=> a \in C /\ b \in C
    OBVIOUS
  <2>1. \A a, b \in Srv : <<a, b>> \in l <=> <<a, b>> \in c \X c
    BY <1>4, <2>4, <2>5, Zenon
  <2>2. c \X c \in SUBSET (Srv \X Srv)
    BY <1>2
  <2>3. l = c \X c
    <3> HIDE DEF c
    <3> QED
      BY <1>2, <2>1, <2>2, SameEnds, Zenon DEF SamePairs
  <2> QED
    BY <1>3, <2>3, Zenon DEF Precise
<1> QED
  BY <1>6, <1>7 DEF n

\* The inductive invariant behind LinksMatchFlags.
GroupInv ==
    /\ net \in Mutual
    /\ ~partitioned => net \in Precise
    /\ running \in SUBSET Srv
    /\ partitioned \in BOOLEAN
    /\ cut \in (SUBSET Srv) \X (SUBSET Srv) \X (SUBSET Srv)

\* What a step of a test does to its group.
GroupStep ==
    \/ \E i \in Srv : DisconnectAll(i) \/ ConnectOne(i) \/ ShutdownServer(i) \/ restart(i) \/ PartitionAround(i)
    \/ Shutdown \/ StartServers \/ ConnectAll
    \/ \E part \in SUBSET Srv : Partitioner(part)
    \/ UNCHANGED groupVars

LEMMA NextGroup ==
    ASSUME [Next]_vars
    PROVE  GroupStep
<1>1. ASSUME MainStep PROVE GroupStep
  <2>1. CASE JoinPartitioner
    BY <2>1, Zenon DEF JoinPartitioner, GroupStep
  <2>2. CASE ShutdownAll
    BY <2>2, Zenon DEF ShutdownAll, GroupStep
  <2>3. CASE RestartAll
    BY <2>3, Zenon DEF RestartAll, GroupStep
  <2>4. CASE StartIteration \/ JoinClients \/ StopPartitioner \/ NoCrash \/ EndIteration \/ Cleanup
    <3>1. UNCHANGED groupVars
      BY <2>4, Zenon DEF StartIteration, JoinClients, StopPartitioner, NoCrash, EndIteration, Cleanup
    <3> QED
      BY <3>1, Zenon DEF GroupStep
  <2> QED
    BY <1>1, <2>1, <2>2, <2>3, <2>4, Zenon DEF MainStep
<1>2. ASSUME Repartition PROVE GroupStep
  BY <1>2, GenericAssumption, Zenon DEF Repartition, GroupStep
<1>3. ASSUME OthersUnchanged PROVE GroupStep
  BY <1>3, Zenon DEF OthersUnchanged, GroupStep
<1>4. ASSUME FaultStep PROVE GroupStep
  BY <1>4, Zenon DEF FaultStep, GroupStep
<1>5. ASSUME UNCHANGED vars PROVE GroupStep
  BY <1>5, Zenon DEF vars, GroupStep
<1> QED
  BY <1>1, <1>2, <1>3, <1>4, <1>5, Zenon DEF Next, Finished

LEMMA GroupStarts ==
    ASSUME GroupInit
    PROVE  GroupInv
<1>1. [connected |-> {}, link |-> {}] \in Net
  BY DEF Net
<1>2. net = [connected |-> Srv, link |-> Srv \X Srv]
  BY <1>1, ConnectAllOfIs, Zenon DEF GroupInit
<1>3. net \in Precise /\ net \in Mutual
  BY <1>2, FullPrecise, PreciseMutual, Zenon
<1>4. running \in SUBSET Srv /\ partitioned \in BOOLEAN
  BY Zenon DEF GroupInit
<1>5. cut \in (SUBSET Srv) \X (SUBSET Srv) \X (SUBSET Srv)
  BY DEF GroupInit, NoCut
<1> QED
  BY <1>3, <1>4, <1>5, Zenon DEF GroupInv

LEMMA NoCutType ==
    NoCut \in (SUBSET Srv) \X (SUBSET Srv) \X (SUBSET Srv)
  BY DEF NoCut

\* Whatever a step does to the group, its ends stay mutual, and its flags
\* precise unless Partition was used.
LEMMA GroupStays ==
    ASSUME GroupInv, GroupStep
    PROVE  GroupInv'
<1>1. /\ net \in Mutual /\ running \in SUBSET Srv /\ partitioned \in BOOLEAN
      /\ ~partitioned => net \in Precise
  BY Zenon DEF GroupInv
<1>2. net \in Net
  BY <1>1, Zenon DEF Mutual
<1>3. [connected |-> Srv, link |-> Srv \X Srv] \in Precise /\ [connected |-> {}, link |-> {}] \in Precise
  <2>1. {} \X {} = {}
    OBVIOUS
  <2> QED
    BY <2>1, FullPrecise, Zenon
<1>4. ASSUME net' \in Precise, running' \in SUBSET Srv, partitioned' \in BOOLEAN, cut' = NoCut PROVE GroupInv'
  BY <1>4, NoCutType, PreciseMutual, Zenon DEF GroupInv
<1>5. ASSUME NEW i \in Srv, ConnectOne(i) \/ DisconnectAll(i) \/ ShutdownServer(i) PROVE GroupInv'
  <2>1. net' = connect(net, i, Srv) \/ net' = disconnect(net, i, Srv)
    BY <1>5, Zenon DEF ConnectOne, DisconnectAll, ShutdownServer
  <2>2. running' \in SUBSET Srv /\ partitioned' = partitioned /\ cut' = NoCut
    BY <1>1, <1>5 DEF ConnectOne, DisconnectAll, ShutdownServer
  <2>3. net' \in Mutual /\ (~partitioned => net' \in Precise)
    BY <1>1, <2>1, ConnectMutual, ConnectPrecise, DisconnectMutual, Zenon
  <2> QED
    BY <1>1, <2>2, <2>3, NoCutType, Zenon DEF GroupInv
<1>6. ASSUME NEW i \in Srv, restart(i) PROVE GroupInv'
  <2>1. start(net, i) \in Net
    BY <1>2 DEF start, Net
  <2>2. net' = [connected |-> Srv, link |-> Srv \X Srv]
    BY <1>6, <2>1, ConnectAllOfIs, Zenon DEF restart
  <2>3. running' \in SUBSET Srv /\ partitioned' \in BOOLEAN /\ cut' = NoCut
    BY <1>1, <1>6, Zenon DEF restart
  <2> QED
    BY <1>3, <1>4, <2>2, <2>3, Zenon
<1>7. ASSUME Shutdown PROVE GroupInv'
  <2>1. net' = [connected |-> {}, link |-> {}]
    BY <1>2, <1>7, DisconnectAllIs, Zenon DEF Shutdown
  <2>2. running' \in SUBSET Srv /\ partitioned' \in BOOLEAN /\ cut' = NoCut
    BY <1>1, <1>7 DEF Shutdown
  <2> QED
    BY <1>3, <1>4, <2>1, <2>2, Zenon
<1>8. ASSUME StartServers \/ ConnectAll PROVE GroupInv'
  <2>1. net' = [connected |-> Srv, link |-> Srv \X Srv]
    BY <1>2, <1>8, StartAllType, ConnectAllOfIs, Zenon DEF StartServers, ConnectAll
  <2>2. running' \in SUBSET Srv /\ partitioned' \in BOOLEAN /\ cut' = NoCut
    BY <1>1, <1>8, Zenon DEF StartServers, ConnectAll
  <2> QED
    BY <1>3, <1>4, <2>1, <2>2, Zenon
<1>9. ASSUME NEW i \in Srv, PartitionAround(i) PROVE GroupInv'
  <2> DEFINE p == MakePartition(i)
  <2>1. p[1] \in Seq(Srv) /\ p[2] \in Seq(Srv)
    BY PartsType, Zenon
  <2>2. Partition(p[1], p[2]) /\ partitioned' = TRUE /\ cut' = <<Range(p[1]), Range(p[2]), {i}>> /\ running' = running
    BY <1>9, Zenon DEF PartitionAround
  <2> HIDE DEF p
  <2>3. net' \in Mutual
    BY <1>1, <2>1, <2>2, PartitionMutual, Zenon
  <2>4. Range(p[1]) \in SUBSET Srv /\ Range(p[2]) \in SUBSET Srv
    BY <2>1 DEF Range
  <2>5. cut' \in (SUBSET Srv) \X (SUBSET Srv) \X (SUBSET Srv)
    BY <2>2, <2>4
  <2> QED
    BY <1>1, <2>2, <2>3, <2>5, Zenon DEF GroupInv
<1>10. ASSUME NEW part \in SUBSET Srv, Partitioner(part) PROVE GroupInv'
  <2> DEFINE rest == Srv \ part
  <2>1. Members(part) \in Seq(Srv) /\ Members(rest) \in Seq(Srv)
    BY MembersAre, Zenon
  <2>2. Partition(Members(part), Members(rest)) /\ partitioned' = TRUE /\ cut' = <<part, rest, {}>> /\ running' = running
    BY <1>10, Zenon DEF Partitioner
  <2>3. net' \in Mutual
    BY <1>1, <2>1, <2>2, PartitionMutual, Zenon
  <2>4. cut' \in (SUBSET Srv) \X (SUBSET Srv) \X (SUBSET Srv)
    BY <2>2
  <2> QED
    BY <1>1, <2>2, <2>3, <2>4, Zenon DEF GroupInv
<1>11. ASSUME UNCHANGED groupVars PROVE GroupInv'
  BY <1>11, Zenon DEF groupVars, GroupInv
<1> QED
  BY <1>5, <1>6, <1>7, <1>8, <1>9, <1>10, <1>11, Zenon DEF GroupStep

\* The flags of the servers and the ends between them agree throughout a test,
\* whatever faults it makes and however many servers it has.
THEOREM LinksHold ==
    FairSpec => []LinksMatchFlags
<1>1. Init => GroupInv
  BY GroupStarts, Zenon DEF Init
<1>2. GroupInv /\ [Next]_vars => GroupInv'
  BY NextGroup, GroupStays, Zenon
<1>3. ASSUME GroupInv PROVE LinksMatchFlags
  <2>1. /\ net \in Net
        /\ \A a, b \in Srv : <<a, b>> \in net.link => a \in net.connected /\ b \in net.connected /\ <<b, a>> \in net.link
    BY <1>3, Zenon DEF GroupInv, Mutual
  <2>2. GroupTypeOK
    BY <1>3, <2>1, Zenon DEF GroupInv, GroupTypeOK, Net
  <2>3. ~partitioned => net.link = net.connected \X net.connected
    BY <1>3, Zenon DEF GroupInv, Precise
  <2> QED
    BY <2>1, <2>2, <2>3, Zenon DEF LinksMatchFlags
<1> QED
  BY <1>1, <1>2, <1>3, PTL DEF FairSpec

\* Partition does what it promises: with an odd number of servers, as in the
\* tests, the network is cut exactly in the two parts, whatever was connected
\* before, and the leader is in the minority.  (With an even number a place of
\* the first part may be unfilled and server 0 stand in both.)
THEOREM PartitionsExact ==
    ASSUME N % 2 = 1
    PROVE  FairSpec => []PartitionExact
<1>1. Init => GroupInv /\ PartitionExact
  BY GroupStarts, Zenon DEF Init, GroupInit, PartitionExact
<1>2. ASSUME GroupInv, PartitionExact, [Next]_vars PROVE GroupInv' /\ PartitionExact'
  <2>1. GroupInv' /\ GroupStep
    BY <1>2, NextGroup, GroupStays, Zenon
  <2>2. net \in Net
    BY <1>2, Zenon DEF GroupInv, Mutual
  <2>3. ASSUME cut' = NoCut PROVE PartitionExact'
    BY <2>3, Zenon DEF PartitionExact
  <2>4. ASSUME NEW P1, NEW P2, NEW L, cut' = <<P1, P2, L>>, P1 \cap P2 = {}, P1 \cup P2 = Srv, L \subseteq P2,
               L # {} => Cardinality(P1) > Cardinality(P2),
               net' = [connected |-> Srv, link |-> (P1 \X P1) \cup (P2 \X P2)]
        PROVE  PartitionExact'
    <3>1. cut'[1] = P1 /\ cut'[2] = P2 /\ cut'[3] = L
      BY <2>4
    <3>2. net'.link = (P1 \X P1) \cup (P2 \X P2)
      BY <2>4, Zenon
    <3> QED
      BY <2>4, <3>1, <3>2, Zenon DEF PartitionExact
  <2>5. ASSUME NEW i \in Srv, PartitionAround(i) PROVE PartitionExact'
    <3> DEFINE p == MakePartition(i)
               P1 == Range(p[1])
               P2 == Range(p[2])
    <3>1. p[1] \in Seq(Srv) /\ p[2] \in Seq(Srv)
      BY PartsType, Zenon
    <3>2. Partition(p[1], p[2]) /\ cut' = <<P1, P2, {i}>>
      BY <2>5, Zenon DEF PartitionAround
    <3>6. P1 = Range(p[1]) /\ P2 = Range(p[2])
      OBVIOUS
    <3> HIDE DEF P1, P2
    <3>7. Parted(P1, P2, i)
      BY <3>6, PartsExact, Zenon
    <3>3. P1 \cap P2 = {} /\ P1 \cup P2 = Srv /\ i \in P2 /\ Cardinality(P1) > Cardinality(P2)
      BY <3>7, Zenon DEF Parted
    <3> HIDE DEF p
    <3>4. net' = [connected |-> Srv, link |-> (P1 \X P1) \cup (P2 \X P2)]
      <4> DEFINE p1 == p[1]
                 p2 == p[2]
      <4>1. Cuts(p1, p2, P1, P2)
        BY <3>1, <3>2, <3>3, <3>6, Zenon DEF Cuts
      <4> HIDE DEF p1, p2
      <4> QED
        BY <2>2, <4>1, PartitionIs, Zenon
    <3> DEFINE L == {i}
    <3>5. cut' = <<P1, P2, L>> /\ L \subseteq P2
      BY <3>2, <3>3, Zenon
    <3>8. L # {} => Cardinality(P1) > Cardinality(P2)
      BY <3>3, Zenon
    <3> HIDE DEF L
    <3> QED
      BY <2>4, <3>3, <3>4, <3>5, <3>8, Zenon
  <2>6. ASSUME NEW part \in SUBSET Srv, Partitioner(part) PROVE PartitionExact'
    <3> DEFINE rest == Srv \ part
    <3>1. /\ Members(part) \in Seq(Srv) /\ Range(Members(part)) = part
          /\ Members(rest) \in Seq(Srv) /\ Range(Members(rest)) = rest
      BY MembersAre, Zenon
    <3>2. Partition(Members(part), Members(rest)) /\ cut' = <<part, rest, {}>>
      BY <2>6, Zenon DEF Partitioner
    <3>3. part \cap rest = {} /\ part \cup rest = Srv
      OBVIOUS
    <3> DEFINE p1 == Members(part)
               p2 == Members(rest)
    <3> HIDE DEF rest
    <3>5. Cuts(p1, p2, part, rest)
      BY <3>1, <3>2, <3>3, Zenon DEF Cuts
    <3> HIDE DEF p1, p2
    <3>4. net' = [connected |-> Srv, link |-> (part \X part) \cup (rest \X rest)]
      BY <2>2, <3>5, PartitionIs, Zenon
    <3> QED
      BY <2>4, <3>2, <3>3, <3>4, Zenon
  <2>7. ASSUME UNCHANGED groupVars PROVE PartitionExact'
    BY <1>2, <2>7, Zenon DEF groupVars, PartitionExact
  <2>8. ASSUME GroupStep, ~UNCHANGED groupVars
        PROVE  cut' = NoCut \/ (\E i \in Srv : PartitionAround(i)) \/ (\E part \in SUBSET Srv : Partitioner(part))
    BY <2>8, Zenon DEF GroupStep, ConnectOne, DisconnectAll, ShutdownServer, restart, Shutdown, StartServers, ConnectAll
  <2> QED
    BY <2>1, <2>3, <2>5, <2>6, <2>7, <2>8, Zenon
<1> QED
  BY <1>1, <1>2, PTL DEF FairSpec

-----------------------------------------------------------------------------
(* Annotations. *)

Info == [connected : SUBSET Srv, crashed : SUBSET Srv]

Notes == [fault : Fault, noted : BOOLEAN, finalized : BOOLEAN]

\* The annotations become b from a, and no visualisation is written meanwhile.
Goes(a, b) == b \in Notes /\ b.finalized = a.finalized /\ (a.noted => b.noted)

LEMMA NoFaultType ==
    NoFault \in Fault /\ NoFault.kind = "none"
  BY DEF NoFault, Fault

Noting(a, text, w) == [a EXCEPT !.fault = text, !.noted = w]

LEMMA NotesGo ==
    ASSUME NEW a \in Notes, NEW text \in Fault, NEW w \in BOOLEAN, a.noted => w
    PROVE  Goes(a, Noting(a, text, w)) /\ Noting(a, text, w).fault = text
<1> DEFINE b == Noting(a, text, w)
<1>1. b \in Notes
  BY Zenon DEF Notes, Noting
<1>2. b.fault = text
  BY DEF Notes, Noting
<1>3. b.noted = w
  BY DEF Notes, Noting
<1>4. b.finalized = a.finalized
  BY DEF Notes, Noting
<1> HIDE DEF b
<1>5. Goes(a, b) /\ b.fault = text
  BY <1>1, <1>2, <1>3, <1>4, Zenon DEF Goes
<1> QED
  BY <1>5 DEF b

LEMMA ColorGoes ==
    ASSUME NEW a \in Notes, NEW text \in Fault
    PROVE  Goes(a, annotateContinuousColor(a, text)) /\ annotateContinuousColor(a, text).fault = text
<1> DEFINE w == a.noted \/ a.fault # NoFault
<1>1. annotateContinuousColor(a, text) = Noting(a, text, w)
  BY Zenon DEF annotateContinuousColor, Noting
<1>2. w \in BOOLEAN /\ (a.noted => w)
  BY Zenon
<1> HIDE DEF w
<1> QED
  BY <1>1, <1>2, NotesGo, Zenon

LEMMA EndGoes ==
    ASSUME NEW a \in Notes
    PROVE  Goes(a, annotateContinuousEnd(a)) /\ annotateContinuousEnd(a).fault = NoFault
<1>1. annotateContinuousEnd(a) = Noting(a, NoFault, TRUE)
  BY Zenon DEF annotateContinuousEnd, Noting
<1> QED
  BY <1>1, NotesGo, NoFaultType, Zenon

\* annotateFault shows every fault that it is told of.
LEMMA FaultGoes ==
    ASSUME NEW a \in Notes, NEW info \in Info
    PROVE  /\ Goes(a, annotateFault(a, info))
           /\ annotateFault(a, info).fault = NoFault => info.connected = Srv /\ info.crashed = {}
<1>1. CASE info.connected = Srv /\ info.crashed = {}
  BY <1>1, EndGoes, GenericAssumption, Zenon DEF annotateFault
<1>2. CASE ~(info.connected = Srv /\ info.crashed = {})
  <2> DEFINE text == [kind |-> "flags", p1 |-> Srv \ (info.connected \cup info.crashed), p2 |-> info.crashed]
  <2>1. annotateFault(a, info) = annotateContinuousColor(a, text)
    BY <1>2, GenericAssumption, Zenon DEF annotateFault
  <2>2. text \in Fault /\ text.kind = "flags"
    <3>1. Srv \ (info.connected \cup info.crashed) \in SUBSET Srv /\ info.crashed \in SUBSET Srv
      BY DEF Info
    <3> QED
      BY <3>1, GenericAssumption DEF Fault
  <2> HIDE DEF text
  <2>3. text # NoFault
    BY <2>2, NoFaultType
  <2> QED
    BY <2>1, <2>2, <2>3, ColorGoes, Zenon
<1> QED
  BY <1>1, <1>2

\* All that is known of faults is shown: a test that has not ended has an open
\* annotation, unless the tester was told that all servers run and are connected.
Shown(info, an, at) == an.fault = NoFault /\ at # "done" => info.connected = Srv /\ info.crashed = {}

\* Whatever the tester is told, it shows the faults.
LEMMA LearnShows ==
    ASSUME annotation \in Notes, NEW info \in Info, Learn(info), Shown(finfo, annotation, main), main = "done" => main' = "done"
    PROVE  finfo' = info /\ Goes(annotation, annotation') /\ Shown(finfo', annotation', main')
<1>1. finfo' = info /\ annotation' = IF info = finfo THEN annotation ELSE annotateFault(annotation, info)
  BY Zenon DEF Learn
<1>2. CASE info = finfo
  BY <1>1, <1>2, Zenon DEF Goes, Shown
<1>3. CASE info # finfo
  <2> DEFINE b == annotateFault(annotation, info)
  <2>1. annotation' = b
    BY <1>1, <1>3, Zenon
  <2>2. Goes(annotation, b) /\ (b.fault = NoFault => info.connected = Srv /\ info.crashed = {})
    BY FaultGoes, Zenon
  <2> HIDE DEF b
  <2> QED
    BY <1>1, <2>1, <2>2, Zenon DEF Shown
<1> QED
  BY <1>2, <1>3, Zenon

\* A fault, or its end, and what the tester is told of it.
Told ==
    \/ \E i \in Srv : \/ (DisconnectAll(i) \/ ConnectOne(i)) /\ AnnotateConnection(net'.connected)
                      \/ ShutdownServer(i) /\ AnnotateShutdown({i})
                      \/ restart(i) /\ AnnotateRestart({i})
    \/ Shutdown /\ AnnotateShutdown(Srv)
    \/ StartServers /\ (AnnotateRestart(Srv) \/ AnnotateClearFailure)
    \/ ConnectAll /\ AnnotateClearFailure
    \/ \E p1, p2 \in SUBSET Srv : partitioned' = TRUE /\ running' = running /\ AnnotateTwoPartitions(p1, p2)

\* The tester is told of every fault in the step that makes it.
LEMMA NextTold ==
    ASSUME [Next]_vars, GroupInv'
    PROVE  /\ Told \/ (UNCHANGED groupVars /\ (UNCHANGED annotationVars \/ JoinClients \/ Cleanup))
           /\ main = "done" => main' = "done"
<1> DEFINE Goal == /\ Told \/ (UNCHANGED groupVars /\ (UNCHANGED annotationVars \/ JoinClients \/ Cleanup))
                   /\ main = "done" => main' = "done"
<1>1. ASSUME MainStep PROVE Goal
  <2>1. main # "done"
    BY <1>1, Zenon DEF MainStep, StartIteration, JoinClients, StopPartitioner, JoinPartitioner, ShutdownAll, RestartAll,
                       NoCrash, EndIteration, Cleanup, Main
  <2>2. CASE JoinPartitioner \/ ShutdownAll \/ RestartAll
    BY <2>1, <2>2, Zenon DEF JoinPartitioner, ShutdownAll, RestartAll, Told
  <2>3. CASE StartIteration \/ StopPartitioner \/ NoCrash \/ EndIteration
    BY <2>1, <2>3, Zenon DEF StartIteration, StopPartitioner, NoCrash, EndIteration
  <2>4. CASE JoinClients \/ Cleanup
    <3>1. UNCHANGED groupVars
      BY <2>4, Zenon DEF JoinClients, Cleanup
    <3> QED
      BY <2>1, <2>4, <3>1, Zenon
  <2> QED
    BY <1>1, <2>2, <2>3, <2>4, Zenon DEF MainStep
<1>2. ASSUME NEW part \in SUBSET Srv, Partitioner(part), AnnotateTwoPartitions(part, Srv \ part) PROVE Told
  <2>1. Srv \ part \in SUBSET Srv /\ partitioned' = TRUE /\ running' = running
    BY <1>2, Zenon DEF Partitioner
  <2> QED
    BY <1>2, <2>1, Zenon DEF Told
<1>3. ASSUME NEW i \in Srv, PartitionAround(i), AnnotateTwoPartitions(cut'[1], cut'[2]) PROVE Told
  <2>1. cut' \in (SUBSET Srv) \X (SUBSET Srv) \X (SUBSET Srv)
    BY Zenon DEF GroupInv
  <2>2. cut'[1] \in SUBSET Srv /\ cut'[2] \in SUBSET Srv
    BY <2>1
  <2>3. partitioned' = TRUE /\ running' = running
    BY <1>3, Zenon DEF PartitionAround
  <2> QED
    BY <1>3, <2>2, <2>3, Zenon DEF Told
<1>4. ASSUME Repartition PROVE Goal
  <2>1. PICK part \in Drawn : Partitioner(part) /\ AnnotateTwoPartitions(part, Srv \ part)
    BY <1>4, Zenon DEF Repartition
  <2>2. part \in SUBSET Srv
    BY <2>1, GenericAssumption, Zenon
  <2>3. Told
    BY <1>2, <2>1, <2>2, Zenon
  <2>4. main' = main
    BY <1>4, Zenon DEF Repartition, mainVars
  <2> QED
    BY <2>3, <2>4, Zenon
<1>5. ASSUME OthersUnchanged PROVE Goal
  BY <1>5, Zenon DEF OthersUnchanged, mainVars
<1>6. ASSUME FaultStep PROVE Goal
  <2>1. main = "faults"
    BY <1>6, Zenon DEF FaultStep
  <2>2. Told
    BY <1>2, <1>3, <1>6, Zenon DEF FaultStep, Told
  <2> QED
    BY <2>1, <2>2
<1>7. ASSUME UNCHANGED vars PROVE Goal
  BY <1>7, Zenon DEF vars, mainVars
<1>8. Goal
  <2> HIDE DEF Goal
  <2> QED
    BY <1>1, <1>4, <1>5, <1>6, <1>7, Zenon DEF Next, Finished
<1> QED
  BY <1>8

\* The inductive invariant behind FaultsAnnotated: the tester knows which servers
\* are down, knows no server as connected that runs and is cut off (unless
\* Partition was used), and shows what it knows.
TellInv ==
    /\ finfo \in Info
    /\ annotation \in Notes
    /\ Shown(finfo, annotation, main)
    /\ finfo.crashed = Srv \ running
    /\ ~partitioned => finfo.connected \cap running \subseteq net.connected

LEMMA ToldStays ==
    ASSUME GroupInv, GroupInv', TellInv, Told, main = "done" => main' = "done"
    PROVE  TellInv' /\ Goes(annotation, annotation')
<1>1. /\ finfo \in Info /\ annotation \in Notes /\ Shown(finfo, annotation, main) /\ finfo.crashed = Srv \ running
      /\ ~partitioned => finfo.connected \cap running \subseteq net.connected
  BY Zenon DEF TellInv
<1>2. finfo = [connected |-> finfo.connected, crashed |-> finfo.crashed] /\ finfo.connected \in SUBSET Srv /\ finfo.crashed \in SUBSET Srv
  BY <1>1 DEF Info
<1>3. net \in Net /\ net' \in Net /\ net'.connected \in SUBSET Srv /\ running \in SUBSET Srv
  <2>1. net \in Net /\ net' \in Net /\ running \in SUBSET Srv
    BY Zenon DEF GroupInv, Mutual
  <2> QED
    BY <2>1 DEF Net
<1>4. ASSUME NEW c \in SUBSET Srv, NEW d \in SUBSET Srv, Learn([connected |-> c, crashed |-> d]),
             d = Srv \ running', ~partitioned' => c \cap running' \subseteq net'.connected
      PROVE  TellInv' /\ Goes(annotation, annotation')
  <2> DEFINE info == [connected |-> c, crashed |-> d]
  <2>1. info \in Info /\ info.connected = c /\ info.crashed = d
    BY DEF Info
  <2>2. Learn(info)
    BY <1>4, Zenon
  <2> HIDE DEF info
  <2>3. finfo' = info /\ Goes(annotation, annotation') /\ Shown(finfo', annotation', main')
    BY <1>1, <2>1, <2>2, LearnShows, Zenon
  <2> QED
    BY <1>4, <2>1, <2>3, Zenon DEF TellInv, Goes
<1>5. ASSUME NEW i \in Srv, DisconnectAll(i) \/ ConnectOne(i), AnnotateConnection(net'.connected)
      PROVE  TellInv' /\ Goes(annotation, annotation')
  <2>1. Learn([connected |-> net'.connected, crashed |-> finfo.crashed])
    BY <1>2, <1>5 DEF AnnotateConnection
  <2>2. running' = running
    BY <1>5, Zenon DEF DisconnectAll, ConnectOne
  <2> QED
    BY <1>1, <1>2, <1>3, <1>4, <2>1, <2>2, Zenon
<1>6. ASSUME NEW S \in SUBSET Srv, AnnotateShutdown(S), running' = running \ S, partitioned' = partitioned,
             ~partitioned => running' \cap net.connected \subseteq net'.connected
      PROVE  TellInv' /\ Goes(annotation, annotation')
  <2>1. Learn([connected |-> finfo.connected, crashed |-> finfo.crashed \cup S])
    BY <1>2, <1>6 DEF AnnotateShutdown
  <2>2. finfo.crashed \cup S = Srv \ running' /\ finfo.crashed \cup S \in SUBSET Srv
    BY <1>1, <1>3, <1>6
  <2>3. ~partitioned' => finfo.connected \cap running' \subseteq net'.connected
    BY <1>1, <1>6
  <2> QED
    BY <1>2, <1>4, <2>1, <2>2, <2>3, Zenon
<1>7. ASSUME NEW S \in SUBSET Srv, AnnotateRestart(S), running' = running \cup S, net'.connected = Srv
      PROVE  TellInv' /\ Goes(annotation, annotation')
  <2>1. Learn([connected |-> finfo.connected, crashed |-> finfo.crashed \ S])
    BY <1>2, <1>7 DEF AnnotateRestart
  <2>2. finfo.crashed \ S = Srv \ running' /\ finfo.crashed \ S \in SUBSET Srv
    BY <1>1, <1>3, <1>7
  <2>3. finfo.connected \cap running' \subseteq net'.connected
    BY <1>2, <1>7
  <2> QED
    BY <1>2, <1>4, <2>1, <2>2, <2>3, Zenon
<1>8. ASSUME AnnotateClearFailure, running' = Srv, net'.connected = Srv
      PROVE  TellInv' /\ Goes(annotation, annotation')
  <2>1. finfo' = [connected |-> Srv, crashed |-> {}] /\ annotation' = annotateContinuousEnd(annotation)
    BY <1>8, GenericAssumption, Zenon DEF AnnotateClearFailure
  <2>2. finfo' \in Info /\ finfo'.connected = Srv /\ finfo'.crashed = {}
    BY <2>1 DEF Info
  <2>3. Goes(annotation, annotation')
    BY <1>1, <2>1, EndGoes, Zenon
  <2>4. finfo'.crashed = Srv \ running' /\ finfo'.connected \cap running' \subseteq net'.connected
    BY <1>8, <2>2
  <2> QED
    BY <2>2, <2>3, <2>4, Zenon DEF TellInv, Goes, Shown
<1>9. ASSUME NEW i \in Srv, ShutdownServer(i), AnnotateShutdown({i}) PROVE TellInv' /\ Goes(annotation, annotation')
  <2>1. running' = running \ {i} /\ partitioned' = partitioned /\ net'.connected = net.connected \ {i}
    BY <1>9 DEF ShutdownServer, disconnect
  <2>2. running' \cap net.connected \subseteq net'.connected /\ {i} \in SUBSET Srv
    BY <2>1
  <2> QED
    BY <1>6, <1>9, <2>1, <2>2, Zenon
<1>10. ASSUME NEW i \in Srv, restart(i), AnnotateRestart({i}) PROVE TellInv' /\ Goes(annotation, annotation')
  <2>1. start(net, i) \in Net
    BY <1>3 DEF start, Net
  <2>2. net' = [connected |-> Srv, link |-> Srv \X Srv] /\ running' = running \cup {i}
    BY <1>10, <2>1, ConnectAllOfIs, Zenon DEF restart
  <2>3. net'.connected = Srv /\ {i} \in SUBSET Srv
    BY <2>2
  <2> QED
    BY <1>7, <1>10, <2>2, <2>3, Zenon
<1>11. ASSUME Shutdown, AnnotateShutdown(Srv) PROVE TellInv' /\ Goes(annotation, annotation')
  <2>1. running' = {} /\ partitioned' = partitioned
    BY <1>11, Zenon DEF Shutdown
  <2>2. Srv \in SUBSET Srv /\ running' = running \ Srv /\ running' \cap net.connected \subseteq net'.connected
    BY <1>3, <2>1
  <2> QED
    BY <1>6, <1>11, <2>1, <2>2, Zenon
<1>12. ASSUME StartServers \/ ConnectAll PROVE running' = Srv /\ running' = running \cup Srv /\ net'.connected = Srv
  <2>1. running' = Srv
    BY <1>12, Zenon DEF StartServers, ConnectAll
  <2>2. net' = [connected |-> Srv, link |-> Srv \X Srv]
    BY <1>3, <1>12, StartAllType, ConnectAllOfIs, Zenon DEF StartServers, ConnectAll
  <2>3. net'.connected = Srv
    BY <2>2
  <2> QED
    BY <1>3, <2>1, <2>3, Zenon
<1>13. ASSUME NEW p1 \in SUBSET Srv, NEW p2 \in SUBSET Srv, partitioned' = TRUE, running' = running, AnnotateTwoPartitions(p1, p2)
       PROVE  TellInv' /\ Goes(annotation, annotation')
  <2> DEFINE text == [kind |-> "two", p1 |-> p1, p2 |-> p2]
  <2>1. text \in Fault /\ text.kind = "two"
    BY GenericAssumption DEF Fault
  <2>2. annotation' = annotateContinuousColor(annotation, text) /\ finfo' = finfo
    BY <1>13, Zenon DEF AnnotateTwoPartitions
  <2> HIDE DEF text
  <2>3. text # NoFault
    BY <2>1, NoFaultType
  <2>4. Goes(annotation, annotation') /\ annotation'.fault # NoFault
    BY <1>1, <2>1, <2>2, <2>3, ColorGoes, Zenon
  <2> QED
    BY <1>1, <1>13, <2>2, <2>4, Zenon DEF TellInv, Goes, Shown
<1>14. Srv \in SUBSET Srv
  OBVIOUS
<1> QED
  BY <1>5, <1>7, <1>8, <1>9, <1>10, <1>11, <1>12, <1>13, <1>14, Zenon DEF Told

LEMMA ToldFiles ==
    ASSUME Told
    PROVE  enabled' = enabled /\ files' = files /\ ioError' = ioError
  BY Zenon DEF Told, AnnotateConnection, AnnotateShutdown, AnnotateRestart, AnnotateTwoPartitions, AnnotateClearFailure, Learn

LEMMA FinalizeNotes ==
    ASSUME NEW a \in Notes
    PROVE  /\ finalize(a) \in Notes /\ finalize(a).fault = a.fault /\ finalize(a).noted = a.noted /\ finalize(a).finalized = TRUE
           /\ SetAnnotationFinalized(a) = finalize(a) /\ finalize(finalize(a)) = finalize(a)
<1> DEFINE b == finalize(a)
<1>1. b \in Notes
  BY Zenon DEF Notes, finalize
<1>2. b.fault = a.fault /\ b.noted = a.noted /\ b.finalized = TRUE
  BY DEF Notes, finalize
<1>3. SetAnnotationFinalized(a) = b
  BY Zenon DEF SetAnnotationFinalized, finalize
<1>4. finalize(b) = b
  BY Zenon DEF Notes, finalize
<1> QED
  BY <1>1, <1>2, <1>3, <1>4, Zenon

\* When CheckPorcupine opens a file.
CheckOpens(last, v) == v = "Illegal" \/ (enabled = "always" /\ (last \/ annotation.finalized))

\* What CheckPorcupine does to annotations and files.  They are final if this is
\* the last check, or if the file for the operations is opened; and if no file
\* fails, that file is written unless VIS_ENABLE is "never".
LEMMA CheckPorcupineIs ==
    ASSUME annotation \in Notes, NEW last, NEW v, NEW outcome \in VisOutcome, CheckPorcupine(last, v, outcome)
    PROVE  /\ finfo' = finfo /\ enabled' = enabled
           /\ annotation' \in Notes /\ annotation'.fault = annotation.fault /\ annotation'.noted = annotation.noted
           /\ annotation'.finalized => last \/ annotation.finalized \/ CheckOpens(last, v)
           /\ ~ioError' => ~ioError
           /\ ~CheckOpens(last, v) => files' = files /\ annotation' = IF last THEN finalize(annotation) ELSE annotation
           /\ CheckOpens(last, v) =>
                 /\ files' \in {files, Append(files, "operations"), Append(files, "empty")}
                 /\ enabled = "never" => files' \in {files, Append(files, "empty")}
                 /\ enabled # "never" => files' = files \/ annotation'.finalized
                 /\ enabled # "never" /\ ~ioError' => files' = Append(files, "operations") /\ annotation'.finalized
<1> DEFINE an == IF last THEN SetAnnotationFinalized(annotation) ELSE annotation
           open == v = "Illegal" \/ (enabled = "always" /\ an.finalized)
           write == open /\ outcome # "notOpened" /\ enabled # "never"
<1>1. /\ annotation' = (IF write THEN finalize(an) ELSE an)
      /\ finfo' = finfo /\ enabled' = enabled
  BY Zenon DEF CheckPorcupine
<1>2. /\ open => Visualize(IF write THEN "operations" ELSE "empty", outcome)
      /\ ~open => NoVisualization
  BY Zenon DEF CheckPorcupine
<1>3. /\ an \in Notes /\ an.fault = annotation.fault /\ an.noted = annotation.noted /\ finalize(an) \in Notes
      /\ finalize(an).fault = annotation.fault /\ finalize(an).noted = annotation.noted /\ finalize(an).finalized = TRUE
      /\ an = IF last THEN finalize(annotation) ELSE annotation
  BY FinalizeNotes, Zenon
<1>4. an.finalized <=> last \/ annotation.finalized
  BY FinalizeNotes, Zenon
<1> HIDE DEF an
<1>5. open <=> CheckOpens(last, v)
  BY <1>4, Zenon DEF CheckOpens
<1> HIDE DEF open
<1>6. ~ioError' => ~ioError /\ (open => outcome = "written")
  BY <1>2, Zenon DEF Visualize, NoVisualization
<1>7. outcome = "written" => outcome # "notOpened"
  BY Zenon
<1>8. ASSUME open
      PROVE  /\ outcome = "notOpened" => files' = files
             /\ outcome # "notOpened" => \/ files' = Append(files, IF write THEN "operations" ELSE "empty")
                                         \/ files' = Append(files, "empty") /\ outcome # "written"
  <2> DEFINE content == IF write THEN "operations" ELSE "empty"
  <2>1. Visualize(content, outcome)
    BY <1>2, <1>8, Zenon
  <2> HIDE DEF content
  <2>2. /\ outcome = "notOpened" => files' = files
        /\ outcome # "notOpened" => \/ files' = Append(files, content)
                                    \/ files' = Append(files, "empty") /\ outcome # "written"
    <3> DEFINE left == IF outcome = "written" THEN content ELSE "empty"
    <3>1. files' = IF outcome = "notOpened" THEN files ELSE Append(files, left)
      BY <2>1, Zenon DEF Visualize
    <3>2. left = content \/ (left = "empty" /\ outcome # "written")
      BY Zenon
    <3> HIDE DEF left
    <3> QED
      BY <3>1, <3>2, Zenon
  <2> QED
    BY <2>2, Zenon DEF content
<1>9. ASSUME ~open PROVE files' = files
  BY <1>2, <1>9, Zenon DEF NoVisualization
<1> QED
  BY <1>1, <1>3, <1>4, <1>5, <1>6, <1>7, <1>8, <1>9, Zenon

LEMMA CleanupIs ==
    ASSUME annotation \in Notes, NEW outcome \in VisOutcome, cleanup(failed, outcome)
    PROVE  /\ finfo' = finfo /\ enabled' = enabled /\ annotation' \in Notes
           /\ ~ioError' => ~ioError
           /\ \/ (enabled = "never" \/ (~failed /\ enabled # "always") \/ annotation.finalized) /\ files' = files
              \/ /\ ~(enabled = "never" \/ (~failed /\ enabled # "always") \/ annotation.finalized)
                 /\ files' \in {files, Append(files, "plain"), Append(files, "empty")}
                 /\ annotation.noted /\ ~ioError' => files' = Append(files, "plain")
<1>1. clear \in Notes
  BY NoFaultType DEF clear, Notes
<1>2. finalize(annotation) \in Notes
  BY FinalizeNotes, Zenon
<1>3. outcome = "written" => outcome # "notOpened"
  BY Zenon
<1> QED
  BY <1>1, <1>2, <1>3, Zenon DEF cleanup, Visualize, NoVisualization

\* Where the goroutines are, and how far the test is.
Control ==
    /\ test \in [clients : BOOLEAN, partitions : BOOLEAN, crash : BOOLEAN]
    /\ main \in {"faults", "spawn", "wait", "stop", "join", "crash", "restart", "trimmed", "cleanup", "done"}
    /\ iter \in 0..NITER
    /\ main \notin {"faults", "cleanup", "done"} => iter < NITER
    /\ partitioner \in {"off", "select", "leaving"}
    /\ verdict \in {"Ok", "Illegal"}
    /\ failed \in BOOLEAN

LEMMA ControlStarts ==
    ASSUME Init
    PROVE  Control
<1>1. iter \in 0..NITER /\ iter < NITER
  <2>1. iter = 0
    BY Zenon DEF Init
  <2> QED
    BY <2>1, GenericAssumption
<1>2. test \in [clients : BOOLEAN, partitions : BOOLEAN, crash : BOOLEAN]
  <2>1. \/ test \in [clients : {TRUE}, partitions : BOOLEAN, crash : BOOLEAN]
        \/ test = [clients |-> TRUE, partitions |-> FALSE, crash |-> FALSE]
        \/ test = [clients |-> FALSE, partitions |-> FALSE, crash |-> FALSE]
    BY Zenon DEF Init
  <2>2. \A t \in [clients : {TRUE}, partitions : BOOLEAN, crash : BOOLEAN] :
           t \in [clients : BOOLEAN, partitions : BOOLEAN, crash : BOOLEAN]
    BY Zenon
  <2> DEFINE T == [clients : BOOLEAN, partitions : BOOLEAN, crash : BOOLEAN]
  <2>3. [clients |-> TRUE, partitions |-> FALSE, crash |-> FALSE] \in T
    BY Zenon
  <2>4. [clients |-> FALSE, partitions |-> FALSE, crash |-> FALSE] \in T
    BY Zenon
  <2>5. test \in T
    BY <2>1, <2>2, <2>3, <2>4, Zenon
  <2> QED
    BY <2>5
<1>3. main \in {"faults", "spawn"} /\ partitioner = "off" /\ verdict = "Ok" /\ failed = FALSE
  BY Zenon DEF Init
<1> QED
  BY <1>1, <1>2, <1>3, Zenon DEF Control

LEMMA ControlStays ==
    ASSUME Control, [Next]_vars
    PROVE  Control'
<1>1. ASSUME UNCHANGED mainVars PROVE Control'
  BY <1>1, Zenon DEF Control, mainVars
<1>2. ASSUME JoinClients PROVE Control'
  <2>1. PICK v \in {"Ok", "Illegal"} : /\ verdict' = v /\ failed' = (v = "Illegal")
                                      /\ Main("wait", IF v = "Ok" THEN AfterCheck ELSE "cleanup")
    BY <1>2, Zenon DEF JoinClients
  <2>2. UNCHANGED <<test, iter, partitioner>>
    BY <1>2, Zenon DEF JoinClients
  <2>3. main = "wait" /\ main' \in {"stop", "crash", "cleanup"}
    BY <2>1, Zenon DEF Main, AfterCheck
  <2>4. failed' \in BOOLEAN /\ verdict' \in {"Ok", "Illegal"}
    BY <2>1, Zenon
  <2> QED
    BY <2>2, <2>3, <2>4, Zenon DEF Control
<1>3. ASSUME EndIteration PROVE Control'
  <2>1. PICK ok \in BOOLEAN : /\ failed' = ~ok /\ iter' = iter + 1
                              /\ Main("trimmed", IF ok /\ Running("put") /\ iter + 1 < NITER THEN "spawn" ELSE "cleanup")
    BY <1>3, Zenon DEF EndIteration
  <2>2. UNCHANGED <<test, partitioner, verdict>>
    BY <1>3, Zenon DEF EndIteration
  <2>3. main = "trimmed" /\ (main' = "cleanup" \/ (main' = "spawn" /\ iter + 1 < NITER))
    BY <2>1, Zenon DEF Main
  <2>4. iter \in 0..NITER /\ iter < NITER
    BY <2>3, Zenon DEF Control
  <2>5. iter' \in 0..NITER /\ (main' = "spawn" => iter' < NITER)
    BY <2>1, <2>3, <2>4, GenericAssumption
  <2>6. failed' \in BOOLEAN
    BY <2>1, Zenon
  <2> QED
    BY <2>2, <2>3, <2>5, <2>6, Zenon DEF Control
<1>4. ASSUME StartIteration \/ StopPartitioner \/ JoinPartitioner \/ ShutdownAll \/ RestartAll \/ NoCrash \/ Cleanup
      PROVE  Control'
  <2>1. UNCHANGED <<test, iter, verdict, failed>>
    BY <1>4, Zenon DEF StartIteration, StopPartitioner, JoinPartitioner, ShutdownAll, RestartAll, NoCrash, Cleanup
  <2>2. partitioner' \in {"select", "off", "leaving"}
    BY <1>4, Zenon DEF StartIteration, StopPartitioner, JoinPartitioner, ShutdownAll, RestartAll, NoCrash, Cleanup, Control
  <2>3. /\ main \notin {"faults", "cleanup", "done"} \/ main' = "done"
        /\ main' \in {"wait", "join", "crash", "restart", "trimmed", "done"}
    BY <1>4, Zenon DEF StartIteration, StopPartitioner, JoinPartitioner, ShutdownAll, RestartAll, NoCrash, Cleanup, Main
  <2> QED
    BY <2>1, <2>2, <2>3, Zenon DEF Control
<1>5. ASSUME Repartition \/ FaultStep \/ OthersUnchanged \/ UNCHANGED vars PROVE Control'
  BY <1>1, <1>5, Zenon DEF Repartition, FaultStep, OthersUnchanged, vars
<1> QED
  BY <1>2, <1>3, <1>4, <1>5, Zenon DEF Next, Finished, MainStep

FilesType == enabled \in {"", "always", "never"} /\ ioError \in BOOLEAN /\ files \in Seq({"operations", "plain", "empty"})

FaultInv == GroupInv /\ Control /\ TellInv /\ FilesType

LEMMA FaultStarts ==
    ASSUME Init
    PROVE  FaultInv
<1>1. GroupInv /\ Control /\ FilesType
  <2>1. enabled \in {"", "always", "never"} /\ ioError \in BOOLEAN /\ files = <<>>
    BY Zenon DEF Init, AnnotationInit
  <2>2. <<>> \in Seq({"operations", "plain", "empty"})
    OBVIOUS
  <2> QED
    BY <2>1, <2>2, GroupStarts, ControlStarts, Zenon DEF Init, FilesType
<1>2. finfo = [connected |-> Srv, crashed |-> {}] /\ annotation = [fault |-> NoFault, noted |-> TRUE, finalized |-> FALSE]
  BY GenericAssumption, Zenon DEF Init, AnnotationInit
<1>3. finfo \in Info /\ finfo.connected = Srv /\ finfo.crashed = {}
  BY <1>2 DEF Info
<1>4. annotation \in Notes
  BY <1>2, NoFaultType, Zenon DEF Notes
<1>5. running = Srv /\ ~partitioned /\ net.connected = Srv
  <2>1. [connected |-> {}, link |-> {}] \in Net
    BY DEF Net
  <2>2. net = [connected |-> Srv, link |-> Srv \X Srv]
    BY <2>1, ConnectAllOfIs, Zenon DEF Init, GroupInit
  <2>3. net.connected = Srv
    BY <2>2
  <2> QED
    BY <2>3, Zenon DEF Init, GroupInit
<1>6. finfo.crashed = Srv \ running /\ finfo.connected \cap running \subseteq net.connected
  BY <1>3, <1>5
<1>7. TellInv
  BY <1>3, <1>4, <1>6, Zenon DEF TellInv, Shown
<1> QED
  BY <1>1, <1>7, Zenon DEF FaultInv

LEMMA FaultStays ==
    ASSUME FaultInv, [Next]_vars
    PROVE  FaultInv'
<1>0. GroupInv /\ Control /\ TellInv /\ enabled \in {"", "always", "never"} /\ ioError \in BOOLEAN
  BY Zenon DEF FaultInv, FilesType
<1>1. GroupInv' /\ Control'
  BY <1>0, NextGroup, GroupStays, ControlStays, Zenon
<1>2. /\ Told \/ (UNCHANGED groupVars /\ (UNCHANGED annotationVars \/ JoinClients \/ Cleanup))
      /\ main = "done" => main' = "done"
  BY <1>1, NextTold, Zenon
<1>4. annotation \in Notes /\ files \in Seq({"operations", "plain", "empty"})
  BY Zenon DEF FaultInv, TellInv, FilesType
<1>10. ASSUME TellInv', enabled' = enabled, ioError' \in BOOLEAN, files' \in Seq({"operations", "plain", "empty"}) PROVE FaultInv'
  BY <1>0, <1>1, <1>10, Zenon DEF FaultInv, FilesType
<1>3. CASE Told
  BY <1>0, <1>1, <1>2, <1>3, <1>4, <1>10, ToldStays, ToldFiles, Zenon
<1>9. \A f \in Seq({"operations", "plain", "empty"}) :
         \A content \in {"operations", "plain", "empty"} : Append(f, content) \in Seq({"operations", "plain", "empty"})
  OBVIOUS
<1>5. ASSUME UNCHANGED groupVars, finfo' = finfo, annotation' \in Notes, main' = "done" \/ annotation'.fault = annotation.fault
      PROVE  TellInv'
  BY <1>0, <1>2, <1>5, Zenon DEF TellInv, Shown, groupVars
<1>6. CASE UNCHANGED groupVars /\ UNCHANGED annotationVars
  BY <1>0, <1>4, <1>5, <1>6, <1>10, Zenon DEF annotationVars
<1>7. CASE UNCHANGED groupVars /\ JoinClients
  <2>1. PICK v \in {"Ok", "Illegal"}, outcome \in VisOutcome :
           CheckPorcupine(Running("put") /\ iter = NITER - 1, v, outcome)
    BY <1>7, Zenon DEF JoinClients
  <2> DEFINE last == Running("put") /\ iter = NITER - 1
  <2>2. CheckPorcupine(last, v, outcome)
    BY <2>1
  <2> HIDE DEF last
  <2>5. ioError' \in BOOLEAN
    BY <1>0, <2>2, Zenon DEF CheckPorcupine, Visualize, NoVisualization
  <2>3. /\ finfo' = finfo /\ enabled' = enabled /\ annotation' \in Notes /\ annotation'.fault = annotation.fault
        /\ files' = files \/ files' = Append(files, "operations") \/ files' = Append(files, "empty")
    BY <1>4, <2>2, CheckPorcupineIs, Zenon
  <2>4. files' \in Seq({"operations", "plain", "empty"})
    BY <1>4, <1>9, <2>3, Zenon
  <2> QED
    BY <1>5, <1>7, <1>10, <2>3, <2>4, <2>5, Zenon
<1>8. CASE UNCHANGED groupVars /\ Cleanup
  <2>1. PICK outcome \in VisOutcome : main' = "done" /\ cleanup(failed, outcome)
    BY <1>8, Zenon DEF Cleanup, Main
  <2>4. ioError' \in BOOLEAN
    BY <1>0, <2>1, Zenon DEF cleanup, Visualize, NoVisualization
  <2>2. /\ finfo' = finfo /\ enabled' = enabled /\ annotation' \in Notes
        /\ files' = files \/ files' = Append(files, "plain") \/ files' = Append(files, "empty")
    BY <1>4, <2>1, CleanupIs, Zenon
  <2>3. files' \in Seq({"operations", "plain", "empty"})
    BY <1>4, <1>9, <2>2, Zenon
  <2> QED
    BY <1>5, <1>8, <1>10, <2>1, <2>2, <2>3, <2>4, Zenon
<1> QED
  BY <1>2, <1>3, <1>6, <1>7, <1>8, Zenon

\* The tester knows of every fault and shows it: while no failure annotation is
\* open, every server runs and reaches every other one, for any number of
\* servers, clients and iterations and any sequence of faults.
THEOREM FaultsShown ==
    FairSpec => []FaultsAnnotated
<1>1. ASSUME FaultInv PROVE FaultsAnnotated
  <2>0. GroupInv /\ TellInv /\ Control /\ FilesType
    BY <1>1, Zenon DEF FaultInv
  <2>1. TypeOK
    BY <2>0, GenericAssumption, Zenon DEF TypeOK, AnnotationTypeOK, Control, FilesType, TellInv, Info, Notes
  <2>2. ASSUME annotation.fault = NoFault, ~partitioned, main # "done" PROVE running = Srv /\ net.link = Srv \X Srv
    <3>1. finfo.connected = Srv /\ finfo.crashed = {} /\ Srv \ running = {} /\ running \in SUBSET Srv
      BY <2>0, <2>2, Zenon DEF TellInv, Shown, GroupInv
    <3>2. running = Srv /\ Srv \subseteq net.connected
      BY <2>0, <2>2, <3>1, Zenon DEF TellInv
    <3>3. net \in Net /\ net.link = net.connected \X net.connected
      BY <2>0, <2>2, Zenon DEF GroupInv, Precise
    <3>4. net.connected = Srv
      BY <3>2, <3>3 DEF Net
    <3> QED
      BY <3>2, <3>3, <3>4, Zenon
  <2> QED
    BY <2>1, <2>2, Zenon DEF FaultsAnnotated
<1> QED
  BY <1>1, FaultStarts, FaultStays, PTL DEF FairSpec

-----------------------------------------------------------------------------
(* Visualisations. *)

\* The inductive invariant behind OneVisFile: no check follows the one that makes
\* the annotations final, a file that a check opens makes them final unless
\* VIS_ENABLE is "never", and cleanup writes none when they are.
VisInv ==
    /\ annotation \in Notes
    /\ enabled = "never" => files \in {<<>>, <<"empty">>}
    /\ verdict = "Illegal" => failed /\ main \in {"cleanup", "done"}
    /\ main \in {"spawn", "wait"} => ~annotation.finalized
    /\ main \notin {"spawn", "wait", "faults", "cleanup", "done"} /\ annotation.finalized =>
          Running("put") /\ iter = NITER - 1
    /\ main = "cleanup" /\ annotation.finalized => verdict = "Illegal" \/ (Running("put") /\ iter = NITER)
    /\ main # "done" =>
          /\ annotation.noted
          /\ files \in {<<>>, <<"operations">>, <<"empty">>}
          /\ files = <<>> \/ annotation.finalized \/ enabled = "never"
          /\ enabled # "always" /\ verdict # "Illegal" => files = <<>>
          /\ ~ioError => /\ enabled = "always" /\ annotation.finalized => files = <<"operations">>
                         /\ enabled # "never" /\ verdict = "Illegal" => files = <<"operations">> /\ annotation.finalized
    /\ main = "done" =>
          /\ files \in {<<>>, <<"operations">>, <<"plain">>, <<"empty">>}
          /\ ~failed /\ enabled # "always" => files = <<>>
          /\ ~ioError => /\ enabled = "always" => files \in {<<"operations">>, <<"plain">>}
                         /\ verdict = "Illegal" /\ enabled # "never" => files = <<"operations">>
                         /\ failed /\ enabled = "" =>
                               files # <<>> \/ (verdict # "Illegal" /\ Running("put") /\ iter = NITER)

LEMMA VisStarts ==
    ASSUME Init
    PROVE  VisInv
<1>1. annotation = [fault |-> NoFault, noted |-> TRUE, finalized |-> FALSE] /\ files = <<>>
  BY Zenon DEF Init, AnnotationInit
<1>2. annotation \in Notes
  BY <1>1, NoFaultType, Zenon DEF Notes
<1>3. annotation.noted = TRUE /\ annotation.finalized = FALSE
  BY <1>1, Zenon
<1>4. main \in {"spawn", "faults"} /\ verdict = "Ok"
  BY Zenon DEF Init
<1> QED
  BY <1>1, <1>2, <1>3, <1>4, Zenon DEF VisInv

\* A step that neither checks nor cleans up.
LEMMA VisQuiet ==
    ASSUME VisInv, Goes(annotation, annotation'),
           UNCHANGED <<enabled, files, ioError, verdict, failed, iter, program>>,
           main' = main \/ {main, main'} \cap {"spawn", "wait", "faults", "cleanup", "done"} = {}
             \/ (main \in {"spawn", "wait"} /\ main' \in {"spawn", "wait"})
    PROVE  VisInv'
<1>1. annotation' \in Notes /\ annotation'.finalized = annotation.finalized /\ (annotation.noted => annotation'.noted)
  BY Zenon DEF Goes
<1>2. Running("put")' = Running("put")
  BY Zenon DEF Running
<1> HIDE DEF Running
<1> QED
  BY <1>1, <1>2, Zenon DEF VisInv

LEMMA ProgramStays ==
    ASSUME [Next]_vars
    PROVE  program' = program
<1>1. ASSUME MainStep \/ Repartition \/ FaultStep \/ UNCHANGED vars PROVE program' = program
  BY <1>1, Zenon DEF MainStep, StartIteration, JoinClients, StopPartitioner, JoinPartitioner, ShutdownAll, RestartAll,
     NoCrash, EndIteration, Cleanup, Repartition, FaultStep, Spawn, testVars, vars
<1>2. ASSUME SpawnerStep PROVE program' = program
  BY <1>2, Zenon DEF SpawnerStep, Wake, TakeDone, Collect, Check
<1>3. ASSUME NEW c \in Client, ClientStep(c) PROVE program' = program
  <2>1. ASSUME NEW reply, Returns(c, reply) PROVE program' = program
    BY <2>1, Zenon DEF Returns
  <2>2. Continue(c) => \E reply \in Answers(pending[c]) : Returns(c, reply)
    BY Zenon DEF Continue, OnePut, OneClientAppend, PutAtLeastOnce, CheckGet
  <2>3. Continue(c) => program' = program
    BY <2>1, <2>2, Zenon
  <2>4. Call(c) => program' = program
    BY Zenon DEF Call, testVars
  <2>5. Serve(c) => program' = program
    BY Zenon DEF Serve, testVars
  <2>6. Select(c) => program' = program
    BY Zenon DEF Select
  <2> QED
    BY <1>3, <2>3, <2>4, <2>5, <2>6, Zenon DEF ClientStep
<1> QED
  BY <1>1, <1>2, <1>3, Zenon DEF Next, Finished

LEMMA VisStays ==
    ASSUME FaultInv, FaultInv', VisInv, [Next]_vars
    PROVE  VisInv'
<1>1. GroupInv /\ GroupInv' /\ TellInv /\ Control /\ annotation \in Notes
  BY Zenon DEF FaultInv, TellInv
<1>2. /\ Told \/ (UNCHANGED groupVars /\ (UNCHANGED annotationVars \/ JoinClients \/ Cleanup))
      /\ main = "done" => main' = "done"
  BY <1>1, NextTold, Zenon
<1>3. ASSUME ~JoinClients, ~Cleanup
      PROVE  Goes(annotation, annotation') /\ enabled' = enabled /\ files' = files /\ ioError' = ioError
  BY <1>1, <1>2, <1>3, ToldStays, ToldFiles, Zenon DEF annotationVars, Goes
<1>8. program' = program
  BY ProgramStays, Zenon
<1>9. Running("put")' = Running("put")
  BY <1>8, Zenon DEF Running
<1>4. CASE JoinClients
  <2>1. PICK v \in {"Ok", "Illegal"}, outcome \in VisOutcome :
           /\ verdict' = v /\ failed' = (v = "Illegal")
           /\ Main("wait", IF v = "Ok" THEN AfterCheck ELSE "cleanup")
           /\ CheckPorcupine(Running("put") /\ iter = NITER - 1, v, outcome)
    BY <1>4, Zenon DEF JoinClients
  <2>2. iter' = iter
    BY <1>4, Zenon DEF JoinClients
  <2>3. PICK last \in BOOLEAN : CheckPorcupine(last, v, outcome) /\ (last => Running("put") /\ iter = NITER - 1)
    BY <2>1, Zenon
  <2>4. main = "wait" /\ IF v = "Ok" THEN main' \in {"stop", "crash"} ELSE main' = "cleanup"
    BY <2>1, Zenon DEF Main, AfterCheck
  <2>5. ~annotation.finalized /\ annotation.noted /\ files = <<>> /\ verdict # "Illegal"
    <3>1. verdict # "Illegal" /\ ~annotation.finalized /\ annotation.noted
      BY <2>4, Zenon DEF VisInv
    <3>2. files = <<>> \/ enabled = "never"
      BY <2>4, <3>1, Zenon DEF VisInv
    <3>3. enabled # "always" => files = <<>>
      BY <2>4, <3>1, Zenon DEF VisInv
    <3> QED
      BY <3>1, <3>2, <3>3, Zenon
  <2>6. Append(<<>>, "operations") = <<"operations">> /\ Append(<<>>, "empty") = <<"empty">>
    OBVIOUS
  <2>7. /\ enabled' = enabled /\ annotation' \in Notes /\ annotation'.noted = annotation.noted
        /\ annotation'.finalized => last \/ annotation.finalized \/ CheckOpens(last, v)
        /\ ~CheckOpens(last, v) => files' = files /\ annotation' = IF last THEN finalize(annotation) ELSE annotation
        /\ CheckOpens(last, v) =>
              /\ files' \in {files, Append(files, "operations"), Append(files, "empty")}
              /\ enabled = "never" => files' \in {files, Append(files, "empty")}
              /\ enabled # "never" => files' = files \/ annotation'.finalized
              /\ enabled # "never" /\ ~ioError' => files' = Append(files, "operations") /\ annotation'.finalized
    BY <1>1, <2>3, CheckPorcupineIs, Zenon
  <2> HIDE DEF Running
  <2>8. CASE v = "Illegal"
    <3>1. CheckOpens(last, v) /\ main' = "cleanup" /\ verdict' = "Illegal" /\ failed'
      BY <2>1, <2>4, <2>8, Zenon DEF CheckOpens
    <3>2. /\ files' \in {<<>>, <<"operations">>, <<"empty">>}
          /\ enabled = "never" => files' \in {<<>>, <<"empty">>}
          /\ files' = <<>> \/ annotation'.finalized \/ enabled = "never"
          /\ enabled # "never" /\ ~ioError' => files' = <<"operations">> /\ annotation'.finalized
      BY <2>5, <2>6, <2>7, <3>1, Zenon
    <3> QED
      BY <2>5, <2>7, <3>1, <3>2, Zenon DEF VisInv
  <2>9. CASE v = "Ok"
    <3>1. CheckOpens(last, v) <=> enabled = "always" /\ last
      BY <2>5, <2>9, Zenon DEF CheckOpens
    <3>2. main' \in {"stop", "crash"} /\ verdict' = "Ok" /\ (annotation'.finalized => Running("put") /\ iter = NITER - 1)
      BY <2>1, <2>3, <2>4, <2>5, <2>7, <2>9, <3>1, Zenon
    <3>3. /\ files' \in {<<>>, <<"operations">>, <<"empty">>}
          /\ enabled # "always" => files' = <<>>
          /\ files' = <<>> \/ annotation'.finalized
      BY <2>5, <2>6, <2>7, <3>1, Zenon
    <3>4. enabled = "always" /\ annotation'.finalized /\ ~ioError' => files' = <<"operations">>
      BY <2>5, <2>6, <2>7, <3>1, Zenon
    <3> QED
      BY <1>9, <2>2, <2>5, <2>7, <3>2, <3>3, <3>4, Zenon DEF VisInv
  <2> QED
    BY <2>8, <2>9, Zenon
<1>5. CASE Cleanup
  <2>1. PICK outcome \in VisOutcome :
           main = "cleanup" /\ main' = "done" /\ cleanup(failed, outcome) /\ UNCHANGED <<verdict, failed, iter>>
    BY <1>5, Zenon DEF Cleanup, Main
  <2>2. /\ enabled' = enabled /\ annotation' \in Notes
        /\ ~ioError' => ~ioError
        /\ \/ (enabled = "never" \/ (~failed /\ enabled # "always") \/ annotation.finalized) /\ files' = files
           \/ /\ ~(enabled = "never" \/ (~failed /\ enabled # "always") \/ annotation.finalized)
              /\ files' \in {files, Append(files, "plain"), Append(files, "empty")}
              /\ annotation.noted /\ ~ioError' => files' = Append(files, "plain")
    BY <1>1, <2>1, CleanupIs, Zenon
  <2>3. /\ Append(<<>>, "plain") = <<"plain">> /\ Append(<<>>, "empty") = <<"empty">>
        /\ <<"plain">> # <<>> /\ <<"operations">> # <<>>
    OBVIOUS
  <2> HIDE DEF Running
  <2>4. CASE (enabled = "never" \/ (~failed /\ enabled # "always") \/ annotation.finalized) /\ files' = files
    BY <1>9, <2>1, <2>2, <2>3, <2>4, Zenon DEF VisInv
  <2>5. CASE /\ ~(enabled = "never" \/ (~failed /\ enabled # "always") \/ annotation.finalized)
             /\ files' \in {files, Append(files, "plain"), Append(files, "empty")}
             /\ annotation.noted /\ ~ioError' => files' = Append(files, "plain")
    <3>1. files = <<>> /\ annotation.noted
      BY <2>1, <2>5, Zenon DEF VisInv
    <3>2. files' \in {<<>>, <<"plain">>, <<"empty">>} /\ (~ioError' => files' = <<"plain">>)
      BY <2>3, <2>5, <3>1, Zenon
    <3>3. verdict = "Illegal" => ioError
      BY <2>1, <2>5, Zenon DEF VisInv
    <3> QED
      BY <2>1, <2>2, <2>3, <2>5, <3>2, <3>3, Zenon DEF VisInv
  <2> QED
    BY <2>2, <2>4, <2>5, Zenon
<1>6. CASE EndIteration
  <2>1. PICK ok \in BOOLEAN : /\ iter' = iter + 1
                              /\ Main("trimmed", IF ok /\ Running("put") /\ iter + 1 < NITER THEN "spawn" ELSE "cleanup")
    BY <1>6, Zenon DEF EndIteration
  <2>2. main = "trimmed" /\ (main' = "cleanup" \/ (main' = "spawn" /\ iter + 1 < NITER)) /\ verdict' = verdict
    BY <1>6, <2>1, Zenon DEF Main, EndIteration
  <2>3. iter \in 0..NITER /\ NITER \in Nat
    BY <1>1, GenericAssumption, Zenon DEF Control
  <2>4. (iter + 1 < NITER => iter # NITER - 1) /\ (iter = NITER - 1 => iter' = NITER)
    BY <2>1, <2>3
  <2>5. annotation' = annotation /\ enabled' = enabled /\ files' = files /\ ioError' = ioError
    BY <1>6, Zenon DEF EndIteration, annotationVars
  <2>6. verdict # "Illegal"
    BY <2>2, Zenon DEF VisInv
  <2> HIDE DEF Running
  <2> QED
    BY <1>9, <2>2, <2>4, <2>5, <2>6, Zenon DEF VisInv
<1>7. CASE ~JoinClients /\ ~Cleanup /\ ~EndIteration
  <2>1. iter' = iter /\ verdict' = verdict /\ failed' = failed
    BY <1>7, Zenon DEF Next, MainStep, StartIteration, StopPartitioner, JoinPartitioner, ShutdownAll, RestartAll, NoCrash,
                       Repartition, FaultStep, OthersUnchanged, Finished, vars, mainVars
  <2>2. \/ main' = main
        \/ main = "spawn" /\ main' = "wait"
        \/ main \in {"stop", "join", "crash", "restart"} /\ main' \in {"join", "crash", "restart", "trimmed"}
    BY <1>7, Zenon DEF Next, MainStep, StartIteration, StopPartitioner, JoinPartitioner, ShutdownAll, RestartAll, NoCrash,
                       Repartition, FaultStep, OthersUnchanged, Finished, vars, mainVars, Main
  <2>3. main' = main \/ {main, main'} \cap {"spawn", "wait", "faults", "cleanup", "done"} = {}
             \/ (main \in {"spawn", "wait"} /\ main' \in {"spawn", "wait"})
    BY <2>2, Zenon
  <2> QED
    BY <1>3, <1>7, <1>8, <2>1, <2>3, VisQuiet, Zenon
<1> QED
  BY <1>4, <1>5, <1>6, <1>7, Zenon

\* Whatever the verdicts of the checks and whichever files fail, a test opens at
\* most one visualisation, none if it passes and is not asked for one, and none
\* with anything in it if VIS_ENABLE is "never".  If no file fails, "always" leaves
\* a written one, a history that is not linearizable has its operations, and a test
\* that fails has a file unless its last check made the annotations final.
THEOREM OneFile ==
    FairSpec => []OneVisFile
<1>1. ASSUME VisInv, Control PROVE OneVisFile
  <2>1. Len(<<>>) = 0 /\ Len(<<"operations">>) = 1 /\ Len(<<"plain">>) = 1 /\ Len(<<"empty">>) = 1 /\ 0 <= 1 /\ 1 <= 1
    OBVIOUS
  <2>2. files \in {<<>>, <<"operations">>, <<"plain">>, <<"empty">>}
    BY <1>1, Zenon DEF VisInv
  <2>3. Len(files) <= 1
    BY <2>1, <2>2, Zenon
  <2>4. verdict # "Illegal" => verdict = "Ok"
    BY <1>1, Zenon DEF Control
  <2> HIDE DEF Running
  <2> QED
    BY <1>1, <2>3, <2>4, Zenon DEF VisInv, OneVisFile
<1>2. FaultInv => Control
  BY Zenon DEF FaultInv
<1> QED
  BY <1>1, <1>2, FaultStarts, FaultStays, VisStarts, VisStays, PTL DEF FairSpec

=============================================================================
