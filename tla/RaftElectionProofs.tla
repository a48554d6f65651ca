------------------------ MODULE RaftElectionProofs ------------------------
(***************************************************************************)
(* Election safety, for every set of peers, every number of terms and of   *)
(* lost messages: by the accounting of votes in VoteAccounting and the     *)
(* intersection of majorities.  And elections and heartbeats in time: the  *)
(* bounds of RaftTicker.                                                   *)
(***************************************************************************)
EXTENDS RaftProofs, RaftTicker

\* Two majorities of the peers have a peer in common.
LEMMA MajoritiesIntersect ==
    ASSUME NEW P \in SUBSET Server, NEW Q \in SUBSET Server,
           IsMajority(Cardinality(P)), IsMajority(Cardinality(Q))
    PROVE  P \cap Q # {}
<1>1. IsFiniteSet(P) /\ IsFiniteSet(Q) /\ IsFiniteSet(Server)
  BY ServerAssumption, FS_Subset
<1>2. /\ Cardinality(P) \in Nat /\ Cardinality(Q) \in Nat /\ Cardinality(Server) \in Nat
  BY <1>1, FS_CardinalityType
<1>3. Cardinality(P \cup Q) <= Cardinality(Server)
  <2>1. P \cup Q \in SUBSET Server
    OBVIOUS
  <2> QED BY <1>1, <2>1, FS_Subset
<1>4. Cardinality(P \cup Q) = Cardinality(P) + Cardinality(Q) - Cardinality(P \cap Q)
  BY <1>1, FS_Union
<1> SUFFICES ASSUME P \cap Q = {} PROVE FALSE
  OBVIOUS
<1>5. Cardinality(P \cap Q) = 0
  BY FS_EmptySet
<1>6. Cardinality(P) + Cardinality(Q) <= Cardinality(Server)
  BY <1>2, <1>3, <1>4, <1>5
<1> QED BY <1>2, <1>6 DEF IsMajority

\* Election safety follows from the accounting of votes.
LEMMA AccountingSafe == TypeOK /\ VoteAccounting => ElectionSafety
<1> SUFFICES ASSUME TypeOK, VoteAccounting,
                    NEW e \in elections, NEW f \in elections, e[2] = f[2]
             PROVE  e[1] = f[1]
  BY DEF ElectionSafety
<1> DEFINE t == e[2]
<1>1. e[1] \in Server /\ f[1] \in Server /\ t \in Term
  BY DEF TypeOK
<1>2. counted[e[1]][t] \in SUBSET Server /\ counted[f[1]][t] \in SUBSET Server
  BY <1>1 DEF TypeOK
<1>3. IsMajority(Cardinality(counted[e[1]][t])) /\ IsMajority(Cardinality(counted[f[1]][t]))
  BY DEF VoteAccounting, ElectedByMajority
<1>4. PICK v \in Server : v \in counted[e[1]][t] /\ v \in counted[f[1]][t]
  BY <1>2, <1>3, MajoritiesIntersect, Zenon
<1>5. <<v, t, e[1]>> \in ballots /\ <<v, t, f[1]>> \in ballots
  BY <1>1, <1>4 DEF VoteAccounting, CountersExact
<1> QED BY <1>5 DEF VoteAccounting, OneVotePerTerm

\* Nothing has been voted on in the initial state.
LEMMA InitAccounting == Init => VoteAccounting
<1> SUFFICES ASSUME Init PROVE VoteAccounting
  OBVIOUS
<1>1. CountersExact
  BY FS_EmptySet DEF Init, CountersExact
<1> QED BY <1>1, Zenon DEF Init, VoteAccounting, VotesRemembered, OneVotePerTerm, RequestsFresh, RepliesFresh,
                    ElectedByMajority, Requests, Replies

\* A step that casts and counts no vote, sends no vote request and no answer,
\* and changes votedFor only together with the term, keeps the accounting.
LEMMA QuietStep ==
    ASSUME TypeOK, TypeOK', VoteAccounting,
           Requests' \subseteq Requests, Replies' \subseteq Replies,
           UNCHANGED <<ballots, counted, votesReceived, elections>>,
           \A i \in Server : /\ currentTerm[i] <= currentTerm'[i]
                             /\ currentTerm'[i] = currentTerm[i] => votedFor'[i] = votedFor[i]
    PROVE  VoteAccounting'
<1>0. \A i \in Server : currentTerm[i] \in Nat /\ currentTerm'[i] \in Nat
  BY BoundAssumption DEF TypeOK, Term
<1>1. VotesRemembered'
  <2> SUFFICES ASSUME NEW b \in ballots
               PROVE  b[2] <= currentTerm'[b[1]] /\ (b[2] = currentTerm'[b[1]] => votedFor'[b[1]] = b[3])
    BY DEF VotesRemembered
  <2>1. b[1] \in Server /\ b[2] \in Nat
    <3>1. b \in Server \X Term \X Server
      BY Zenon DEF TypeOK
    <3> QED BY <3>1, TermNat, Zenon
  <2> QED BY <1>0, <2>1 DEF VoteAccounting, VotesRemembered
<1>2. OneVotePerTerm' /\ CountersExact'
  BY DEF VoteAccounting, OneVotePerTerm, CountersExact
<1>3. RequestsFresh'
  <2> SUFFICES ASSUME NEW m \in Requests'
               PROVE  /\ m.from # m.to
                      /\ m.term <= currentTerm'[m.from]
                      /\ m.to \notin counted'[m.from][m.term]
                      /\ \A n \in Requests' : n.from = m.from /\ n.to = m.to /\ n.term = m.term => n = m
                      /\ \A n \in Replies' : ~(n.to = m.from /\ n.from = m.to /\ n.argsTerm = m.term)
    BY Zenon DEF RequestsFresh
  <2>1. m \in Requests /\ m.from \in Server /\ m.term \in Nat
    BY RequestType, TermNat, Zenon
  <2> QED BY <1>0, <2>1 DEF VoteAccounting, RequestsFresh
<1>4. RepliesFresh'
  <2> SUFFICES ASSUME NEW m \in Replies'
               PROVE  /\ m.argsTerm <= currentTerm'[m.to]
                      /\ m.from \notin counted'[m.to][m.argsTerm]
                      /\ m.voteGranted => <<m.from, m.argsTerm, m.to>> \in ballots'
                      /\ \A n \in Replies' : n.from = m.from /\ n.to = m.to /\ n.argsTerm = m.argsTerm => n = m
    BY Zenon DEF RepliesFresh
  <2>1. m \in Replies /\ m.to \in Server /\ m.argsTerm \in Nat
    BY ReplyType, TermNat, Zenon
  <2> QED BY <1>0, <2>1 DEF VoteAccounting, RepliesFresh
<1>5. ElectedByMajority'
  <2> SUFFICES ASSUME NEW e \in elections
               PROVE  e[2] <= currentTerm'[e[1]] /\ IsMajority(Cardinality(counted[e[1]][e[2]]))
    BY DEF ElectedByMajority, IsMajority
  <2>1. e[1] \in Server /\ e[2] \in Nat
    <3>1. e \in Server \X Term
      BY Zenon DEF TypeOK
    <3> QED BY <3>1, TermNat, Zenon
  <2> QED BY <1>0, <2>1 DEF VoteAccounting, ElectedByMajority
<1> QED BY <1>1, <1>2, <1>3, <1>4, <1>5 DEF VoteAccounting

\* A candidate starts an election in a term that is new to it.
LEMMA StartElectionAccounting ==
    ASSUME TypeOK, VoteAccounting, NEW i \in Server, StartElection(i)
    PROVE  VoteAccounting'
<1> DEFINE t == currentTerm[i] + 1
           args(j) == [type |-> "RequestVote", from |-> i, to |-> j,
                       incarnation |-> incarnation[i], term |-> t,
                       lastLogIndex |-> LogLen(i), lastLogTerm |-> LastLogTerm(i)]
<1>1. /\ currentTerm' = [currentTerm EXCEPT ![i] = t]
      /\ votedFor' = [votedFor EXCEPT ![i] = i]
      /\ votesReceived' = [votesReceived EXCEPT ![i][t] = 1]
      /\ rpcs' = rpcs \cup {args(j) : j \in Peers(i)}
      /\ ballots' = ballots \cup {<<i, t, i>>}
      /\ counted' = [counted EXCEPT ![i][t] = {i}]
      /\ elections' = elections
  BY Zenon DEF StartElection, SendAll
<1>2. \A p \in Server : currentTerm[p] \in Nat
  BY TermNat, Zenon DEF TypeOK
<1>3. t \in Term /\ t \in Nat /\ t > currentTerm[i]
  <2>1. t \in Term
    BY <1>2, BoundAssumption DEF StartElection, Term
  <2> QED BY <1>2, <2>1
<1>4. \A b \in ballots : b[1] \in Server /\ b[2] \in Nat /\ (b[1] = i => b[2] < t)
  <2> TAKE b \in ballots
  <2>1. b \in Server \X Term \X Server
    BY Zenon DEF TypeOK
  <2>2. b[2] <= currentTerm[b[1]]
    BY DEF VoteAccounting, VotesRemembered
  <2>3. b[1] \in Server /\ b[2] \in Nat
    BY <2>1, TermNat, Zenon
  <2>4. b[1] = i => b[2] < t
    BY <1>2, <2>2, <2>3
  <2> QED BY <2>3, <2>4
<1>5. /\ \A m \in Requests : m.from = i => m.term < t
      /\ \A m \in Replies : m.to = i => m.argsTerm < t
  <2>1. \A m \in Requests : m.term <= currentTerm[m.from]
    BY DEF VoteAccounting, RequestsFresh
  <2>2. \A m \in Replies : m.argsTerm <= currentTerm[m.to]
    BY Zenon DEF VoteAccounting, RepliesFresh
  <2>3. ASSUME NEW m \in Requests, m.from = i PROVE m.term < t
    <3>1. m.term \in Nat /\ m.term <= currentTerm[i]
      BY <2>1, <2>3, RequestType, TermNat, Zenon
    <3> QED BY <1>2, <3>1
  <2>4. ASSUME NEW m \in Replies, m.to = i PROVE m.argsTerm < t
    <3>1. m.argsTerm \in Nat /\ m.argsTerm <= currentTerm[i]
      BY <2>2, <2>4, ReplyType, TermNat, Zenon
    <3> QED BY <1>2, <3>1
  <2> QED BY <2>3, <2>4
<1>6. Requests' = Requests \cup {args(j) : j \in Peers(i)} /\ Replies' = Replies
  BY <1>1 DEF Requests, Replies
<1>7. \A p \in Server : \A u \in Term :
        /\ <<p, u>> = <<i, t>> => counted'[p][u] = {i} /\ votesReceived'[p][u] = 1
        /\ <<p, u>> # <<i, t>> => counted'[p][u] = counted[p][u] /\ votesReceived'[p][u] = votesReceived[p][u]
  <2> TAKE p \in Server
  <2> TAKE u \in Term
  <2>1. /\ counted \in [Server -> [Term -> SUBSET Server]] /\ counted[p] \in [Term -> SUBSET Server]
        /\ votesReceived \in [Server -> [Term -> Nat]] /\ votesReceived[p] \in [Term -> Nat]
    BY DEF TypeOK
  <2> HIDE DEF t
  <2>2. CASE p # i
    BY <1>1, <2>1, <2>2, Zenon
  <2>3. CASE p = i
    BY <1>1, <1>3, <2>1, <2>3
  <2> QED BY <2>2, <2>3, Zenon
<1>8. \A p \in Server : currentTerm'[p] = (IF p = i THEN t ELSE currentTerm[p])
                       /\ votedFor'[p] = (IF p = i THEN i ELSE votedFor[p])
  <2>1. currentTerm \in [Server -> Term] /\ votedFor \in [Server -> Server \cup {NoVote}]
    BY Zenon DEF TypeOK
  <2> HIDE DEF t
  <2> QED BY <1>1, <2>1
<1> HIDE DEF t
<1>9. VotesRemembered'
  <2> SUFFICES ASSUME NEW b \in ballots'
               PROVE  b[2] <= currentTerm'[b[1]] /\ (b[2] = currentTerm'[b[1]] => votedFor'[b[1]] = b[3])
    BY DEF VotesRemembered
  <2>1. CASE b = <<i, t, i>>
    BY <1>3, <1>8, <2>1
  <2>2. CASE b \in ballots
    BY <1>2, <1>3, <1>4, <1>8, <2>2 DEF VoteAccounting, VotesRemembered
  <2> QED BY <1>1, <2>1, <2>2
<1>10. OneVotePerTerm'
  BY <1>1, <1>3, <1>4 DEF VoteAccounting, OneVotePerTerm
<1>11. RequestsFresh'
  <2> SUFFICES ASSUME NEW m \in Requests'
               PROVE  /\ m.from # m.to
                      /\ m.term <= currentTerm'[m.from]
                      /\ m.to \notin counted'[m.from][m.term]
                      /\ \A n \in Requests' : n.from = m.from /\ n.to = m.to /\ n.term = m.term => n = m
                      /\ \A n \in Replies' : ~(n.to = m.from /\ n.from = m.to /\ n.argsTerm = m.term)
    BY Zenon DEF RequestsFresh
  <2>1. CASE m \in Requests
    <3>1. m.from \in Server /\ m.to \in Server /\ m.term \in Term /\ m.term \in Nat
      BY <2>1, RequestType, TermNat, Zenon
    <3>2. <<m.from, m.term>> # <<i, t>>
      BY <1>3, <1>5, <2>1, <3>1
    <3>3. m.term <= currentTerm'[m.from]
      BY <1>2, <1>3, <1>5, <1>8, <2>1, <3>1 DEF VoteAccounting, RequestsFresh
    <3> QED BY <1>6, <1>7, <2>1, <3>1, <3>2, <3>3 DEF VoteAccounting, RequestsFresh
  <2>2. CASE \E j \in Peers(i) : m = args(j)
    <3>1. PICK j \in Peers(i) : m = args(j)
      BY <2>2
    <3>2. m.from = i /\ m.to = j /\ m.term = t /\ j # i /\ j \in Server
      BY <3>1 DEF Peers
    <3>3. \A n \in Requests : ~(n.from = i /\ n.term = t)
      BY <1>3, <1>5, RequestType, TermNat
    <3>4. \A n \in Replies : ~(n.to = i /\ n.argsTerm = t)
      BY <1>3, <1>5, ReplyType, TermNat
    <3>5. \A n \in Requests' : n.from = i /\ n.to = j /\ n.term = t => n = m
      BY <1>6, <3>1, <3>3
    <3>6. m.term <= currentTerm'[m.from]
      BY <1>3, <1>8, <3>2
    <3>7. m.to \notin counted'[m.from][m.term]
      BY <1>3, <1>7, <3>2
    <3> QED BY <1>6, <3>2, <3>4, <3>5, <3>6, <3>7, Zenon
  <2> QED BY <1>6, <2>1, <2>2
<1>12. RepliesFresh'
  <2> SUFFICES ASSUME NEW m \in Replies
               PROVE  /\ m.argsTerm <= currentTerm'[m.to]
                      /\ m.from \notin counted'[m.to][m.argsTerm]
                      /\ m.voteGranted => <<m.from, m.argsTerm, m.to>> \in ballots'
                      /\ \A n \in Replies : n.from = m.from /\ n.to = m.to /\ n.argsTerm = m.argsTerm => n = m
    BY <1>6, Zenon DEF RepliesFresh
  <2>1. m.from \in Server /\ m.to \in Server /\ m.argsTerm \in Term /\ m.argsTerm \in Nat
    BY ReplyType, TermNat, Zenon
  <2>2. <<m.to, m.argsTerm>> # <<i, t>>
    BY <1>3, <1>5, <2>1
  <2>3. m.argsTerm <= currentTerm'[m.to]
    <3>1. m.argsTerm <= currentTerm[m.to]
      BY Zenon DEF VoteAccounting, RepliesFresh
    <3> QED BY <1>2, <1>3, <1>5, <1>8, <2>1, <3>1
  <2> QED BY <1>1, <1>7, <2>1, <2>2, <2>3 DEF VoteAccounting, RepliesFresh
<1>13. CountersExact'
  <2> SUFFICES ASSUME NEW p \in Server, NEW u \in Term
               PROVE  /\ votesReceived'[p][u] = Cardinality(counted'[p][u])
                      /\ \A j \in counted'[p][u] : <<j, u, p>> \in ballots'
    BY DEF CountersExact
  <2>1. CASE <<p, u>> = <<i, t>>
    <3>1. p = i /\ u = t /\ Cardinality({i}) = 1
      BY <2>1, FS_Singleton, Zenon
    <3>2. counted'[p][u] = {i} /\ votesReceived'[p][u] = 1
      BY <1>7, <2>1
    <3> QED BY <1>1, <3>1, <3>2, Zenon
  <2>2. CASE <<p, u>> # <<i, t>>
    BY <1>1, <1>7, <2>2 DEF VoteAccounting, CountersExact
  <2> QED BY <2>1, <2>2
<1>14. ElectedByMajority'
  <2> SUFFICES ASSUME NEW e \in elections
               PROVE  e[2] <= currentTerm'[e[1]] /\ IsMajority(Cardinality(counted'[e[1]][e[2]]))
    BY <1>1, Zenon DEF ElectedByMajority, IsMajority
  <2>1. e[1] \in Server /\ e[2] \in Term /\ e[2] \in Nat
    BY TermNat, Zenon DEF TypeOK
  <2>2. e[2] <= currentTerm[e[1]] /\ IsMajority(Cardinality(counted[e[1]][e[2]]))
    BY DEF VoteAccounting, ElectedByMajority
  <2>3. <<e[1], e[2]>> # <<i, t>>
    BY <1>2, <1>3, <2>1, <2>2
  <2>4. counted'[e[1]][e[2]] = counted[e[1]][e[2]]
    BY <1>7, <2>1, <2>3
  <2> QED BY <1>2, <1>3, <1>8, <2>1, <2>2, <2>4
<1> QED BY <1>9, <1>10, <1>11, <1>12, <1>13, <1>14 DEF VoteAccounting

\* A peer answers a vote request: a granted answer stands for a new vote, the
\* only one of that peer in that term.
LEMMA RequestVoteAccounting ==
    ASSUME TypeOK, VoteAccounting, NEW m \in rpcs, RequestVote(m)
    PROVE  VoteAccounting'
<1>1. m \in Requests
  BY DEF RequestVote, Requests
<1> SUFFICES ASSUME NEW i \in Server, NEW c \in Server, NEW t \in Term, NEW g \in BOOLEAN,
                    i = m.to, c = m.from, t = m.term, g = CanVote(m)
             PROVE  VoteAccounting'
  <2>1. CanVote(m) \in BOOLEAN
    BY Zenon DEF CanVote, isLogUpToDate
  <2> QED BY <1>1, <2>1, RequestType
<1> DEFINE reply == [type |-> "RequestVoteReply", from |-> i, to |-> c,
                     incarnation |-> m.incarnation, argsTerm |-> t,
                     term |-> IF t > currentTerm[i] THEN t ELSE currentTerm[i],
                     voteGranted |-> g]
<1>2. /\ rpcs' = (rpcs \ {m}) \cup {reply}
      /\ currentTerm' = [currentTerm EXCEPT ![i] = IF t > currentTerm[i] THEN t ELSE currentTerm[i]]
      /\ votedFor' = [votedFor EXCEPT ![i] = IF g THEN c ELSE VoteIn(i, t)]
      /\ ballots' = IF g THEN ballots \cup {<<i, t, c>>} ELSE ballots
      /\ UNCHANGED <<votesReceived, counted, elections>>
  BY Zenon DEF RequestVote, leaderVars
<1>3. \A p \in Server : currentTerm[p] \in Nat /\ votedFor[p] \in Server \cup {NoVote}
  BY TermNat DEF TypeOK
<1>4. t \in Nat
  BY TermNat
<1>5. /\ \A p \in Server \ {i} : currentTerm'[p] = currentTerm[p] /\ votedFor'[p] = votedFor[p]
      /\ currentTerm'[i] = IF t > currentTerm[i] THEN t ELSE currentTerm[i]
      /\ votedFor'[i] = IF g THEN c ELSE VoteIn(i, t)
  BY <1>2, Zenon DEF TypeOK
<1>6. g => t >= currentTerm[i] /\ VoteIn(i, t) \in {NoVote, c}
  BY Zenon DEF CanVote
<1>7. Requests' = Requests \ {m} /\ Replies' = Replies \cup {reply}
  <2>1. m.type = "RequestVote" /\ reply.type = "RequestVoteReply"
    BY <1>1, Zenon DEF Requests
  <2> QED BY <1>2, <2>1 DEF Requests, Replies
<1>r. reply.from = i /\ reply.to = c /\ reply.argsTerm = t /\ reply.voteGranted = g
  BY Zenon
<1> HIDE DEF reply
<1>8. \A b \in ballots : /\ b[1] \in Server /\ b[2] \in Nat /\ b[3] \in Server
                         /\ b[2] <= currentTerm[b[1]]
                         /\ b[2] = currentTerm[b[1]] => votedFor[b[1]] = b[3]
  <2> TAKE b \in ballots
  <2>1. b \in Server \X Term \X Server
    BY DEF TypeOK
  <2>2. b[1] \in Server /\ b[2] \in Nat /\ b[3] \in Server
    BY <2>1, TermNat
  <2> QED BY <2>2 DEF VoteAccounting, VotesRemembered
<1>9. /\ c # i
      /\ t <= currentTerm[c]
      /\ i \notin counted[c][t]
      /\ \A n \in Requests : n.from = c /\ n.to = i /\ n.term = t => n = m
      /\ \A n \in Replies : ~(n.to = c /\ n.from = i /\ n.argsTerm = t)
  BY <1>1 DEF VoteAccounting, RequestsFresh
<1>10. \A b \in ballots : g /\ b[1] = i /\ b[2] = t => b[3] = c
  BY <1>3, <1>4, <1>6, <1>8, ServerAssumption DEF VoteIn
<1>11. \A p \in Server : currentTerm[p] <= currentTerm'[p]
  BY <1>3, <1>4, <1>5
<1>12. VotesRemembered'
  <2> SUFFICES ASSUME NEW b \in ballots'
               PROVE  b[2] <= currentTerm'[b[1]] /\ (b[2] = currentTerm'[b[1]] => votedFor'[b[1]] = b[3])
    BY DEF VotesRemembered
  <2>1. CASE g /\ b = <<i, t, c>>
    BY <1>3, <1>4, <1>5, <1>6, <2>1
  <2>2. CASE b \in ballots /\ b[1] # i
    BY <1>5, <1>8, <2>2
  <2>3. CASE b \in ballots /\ b[1] = i
    <3>1. b[2] <= currentTerm'[i]
      BY <1>3, <1>4, <1>5, <1>8, <2>3
    <3>2. ASSUME b[2] = currentTerm'[i] PROVE votedFor'[i] = b[3]
      <4>1. b[2] = currentTerm[i] /\ ~(t > currentTerm[i]) /\ votedFor[i] = b[3]
        BY <1>3, <1>4, <1>5, <1>8, <2>3, <3>2
      <4>2. g => t = b[2]
        BY <1>3, <1>4, <1>6, <4>1
      <4> QED BY <1>5, <1>10, <2>3, <4>1, <4>2 DEF VoteIn
    <3> QED BY <2>3, <3>1, <3>2
  <2> QED BY <1>2, <2>1, <2>2, <2>3, Zenon
<1>13. OneVotePerTerm'
  BY <1>2, <1>10 DEF VoteAccounting, OneVotePerTerm
<1>14. RequestsFresh'
  <2> SUFFICES ASSUME NEW n \in Requests'
               PROVE  /\ n.from # n.to
                      /\ n.term <= currentTerm'[n.from]
                      /\ n.to \notin counted[n.from][n.term]
                      /\ \A q \in Requests' : q.from = n.from /\ q.to = n.to /\ q.term = n.term => q = n
                      /\ \A q \in Replies' : ~(q.to = n.from /\ q.from = n.to /\ q.argsTerm = n.term)
    BY <1>2, Zenon DEF RequestsFresh
  <2>1. n \in Requests /\ n # m
    BY <1>7
  <2>2. n.from \in Server /\ n.term \in Nat
    BY <2>1, RequestType, TermNat
  <2>3. n.term <= currentTerm[n.from]
    BY <2>1 DEF VoteAccounting, RequestsFresh
  <2>4. n.term <= currentTerm'[n.from]
    BY <1>3, <1>4, <1>5, <2>2, <2>3
  <2>5. ~(reply.to = n.from /\ reply.from = n.to /\ reply.argsTerm = n.term)
    BY <1>r, <1>9, <2>1
  <2> QED BY <1>7, <2>1, <2>4, <2>5, Zenon DEF VoteAccounting, RequestsFresh
<1>15. RepliesFresh'
  <2> SUFFICES ASSUME NEW n \in Replies'
               PROVE  /\ n.argsTerm <= currentTerm'[n.to]
                      /\ n.from \notin counted[n.to][n.argsTerm]
                      /\ n.voteGranted => <<n.from, n.argsTerm, n.to>> \in ballots'
                      /\ \A q \in Replies' : q.from = n.from /\ q.to = n.to /\ q.argsTerm = n.argsTerm => q = n
    BY <1>2, Zenon DEF RepliesFresh
  <2>1. CASE n = reply
    <3>1. n.argsTerm = t /\ n.to = c /\ n.from = i /\ n.voteGranted = g
      BY <1>r, <2>1
    <3>2. t <= currentTerm'[c]
      BY <1>5, <1>9
    <3>3. g => <<i, t, c>> \in ballots'
      BY <1>2
    <3> QED BY <1>7, <1>9, <2>1, <3>1, <3>2, <3>3
  <2>2. CASE n \in Replies
    <3>1. n.to \in Server /\ n.argsTerm \in Nat
      BY <2>2, ReplyType, TermNat
    <3>2. n.argsTerm <= currentTerm[n.to]
      BY <2>2, Zenon DEF VoteAccounting, RepliesFresh
    <3>3. n.argsTerm <= currentTerm'[n.to]
      <4>1. currentTerm[n.to] <= currentTerm'[n.to] /\ currentTerm[n.to] \in Nat /\ currentTerm'[n.to] \in Nat
        BY <1>3, <1>4, <1>5, <1>11, <3>1
      <4> QED BY <3>1, <3>2, <4>1
    <3>4. ~(reply.from = n.from /\ reply.to = n.to /\ reply.argsTerm = n.argsTerm)
      BY <1>r, <1>9, <2>2
    <3>5. ballots \subseteq ballots'
      BY <1>2
    <3> QED BY <1>7, <2>2, <3>3, <3>4, <3>5, Zenon DEF VoteAccounting, RepliesFresh
  <2> QED BY <1>7, <2>1, <2>2, Zenon
<1>16. CountersExact'
  BY <1>2 DEF VoteAccounting, CountersExact
<1>17. ElectedByMajority'
  <2> SUFFICES ASSUME NEW e \in elections
               PROVE  e[2] <= currentTerm'[e[1]] /\ IsMajority(Cardinality(counted[e[1]][e[2]]))
    BY <1>2, Zenon DEF ElectedByMajority, IsMajority
  <2>1. e[1] \in Server /\ e[2] \in Nat
    BY TermNat, Zenon DEF TypeOK
  <2>2. e[2] <= currentTerm[e[1]] /\ IsMajority(Cardinality(counted[e[1]][e[2]]))
    BY DEF VoteAccounting, ElectedByMajority
  <2> QED BY <1>3, <1>4, <1>5, <2>1, <2>2
<1> QED BY <1>12, <1>13, <1>14, <1>15, <1>16, <1>17 DEF VoteAccounting

\* A candidate counts a granted answer: a peer it had not counted before, so
\* the counter and the set of counted peers grow by one.
LEMMA CountVoteAccounting ==
    ASSUME TypeOK, VoteAccounting, NEW m \in rpcs,
           HandleVoteReply(m), ~StaleVoteReply(m), m.voteGranted, CountVote(m)
    PROVE  VoteAccounting'
<1>1. m \in Replies
  BY DEF HandleVoteReply, Replies
<1> SUFFICES ASSUME NEW i \in Server, NEW v \in Server, NEW t \in Term,
                    i = m.to, v = m.from, t = m.argsTerm
             PROVE  VoteAccounting'
  BY <1>1, ReplyType
<1>2. currentTerm[i] = t
  BY DEF StaleVoteReply
<1>3. /\ votesReceived' = [votesReceived EXCEPT ![i][t] = @ + 1]
      /\ counted' = [counted EXCEPT ![i][t] = @ \cup {v}]
      /\ elections' = IF IsMajority(votesReceived[i][t] + 1) THEN elections \cup {<<i, t>>} ELSE elections
      /\ UNCHANGED <<currentTerm, votedFor, ballots>>
      /\ rpcs' = rpcs \ {m}
  BY <1>2, Zenon DEF CountVote, HandleVoteReply
<1>4. Requests' \subseteq Requests /\ Replies' = Replies \ {m}
  BY <1>3, Zenon DEF Requests, Replies
<1>5. /\ v \notin counted[i][t]
      /\ <<v, t, i>> \in ballots
      /\ \A n \in Replies : n.from = v /\ n.to = i /\ n.argsTerm = t => n = m
  BY <1>1 DEF VoteAccounting, RepliesFresh
<1>6. \A p \in Server, u \in Term :
        /\ <<p, u>> = <<i, t>> => /\ counted'[p][u] = counted[i][t] \cup {v}
                                 /\ votesReceived'[p][u] = votesReceived[i][t] + 1
        /\ <<p, u>> # <<i, t>> => counted'[p][u] = counted[p][u] /\ votesReceived'[p][u] = votesReceived[p][u]
  <2> TAKE p \in Server, u \in Term
  <2>1. /\ counted[p] \in [Term -> SUBSET Server] /\ votesReceived[p] \in [Term -> Nat]
        /\ counted \in [Server -> [Term -> SUBSET Server]]
        /\ votesReceived \in [Server -> [Term -> Nat]]
    BY Zenon DEF TypeOK
  <2>2. CASE p # i
    BY <1>3, <2>1, <2>2, Zenon
  <2>3. CASE p = i
    BY <1>3, <2>1, <2>3, Zenon
  <2> QED BY <2>2, <2>3, Zenon
<1>7. /\ votesReceived[i][t] = Cardinality(counted[i][t])
      /\ Cardinality(counted[i][t] \cup {v}) = Cardinality(counted[i][t]) + 1
      /\ Cardinality(counted[i][t]) \in Nat
  <2>1. votesReceived[i][t] = Cardinality(counted[i][t])
    BY Zenon DEF VoteAccounting, CountersExact
  <2>2. counted[i][t] \in SUBSET Server
    <3>1. counted \in [Server -> [Term -> SUBSET Server]]
      BY DEF TypeOK
    <3> QED BY <3>1
  <2>3. IsFiniteSet(counted[i][t])
    BY <2>2, ServerAssumption, FS_Subset
  <2>4. Cardinality(counted[i][t] \cup {v}) = Cardinality(counted[i][t]) + 1
    BY <1>5, <2>3, FS_AddElement, Zenon
  <2>5. Cardinality(counted[i][t]) \in Nat
    BY <2>3, FS_CardinalityType
  <2> QED BY <2>1, <2>4, <2>5, Zenon
<1>8. VotesRemembered' /\ OneVotePerTerm'
  BY <1>3, Zenon DEF VoteAccounting, VotesRemembered, OneVotePerTerm
<1>9. RequestsFresh'
  <2> SUFFICES ASSUME NEW n \in Requests'
               PROVE  /\ n.from # n.to
                      /\ n.term <= currentTerm'[n.from]
                      /\ n.to \notin counted'[n.from][n.term]
                      /\ \A q \in Requests' : q.from = n.from /\ q.to = n.to /\ q.term = n.term => q = n
                      /\ \A q \in Replies' : ~(q.to = n.from /\ q.from = n.to /\ q.argsTerm = n.term)
    BY Zenon DEF RequestsFresh
  <2>1. n \in Requests /\ n.from \in Server /\ n.to \in Server /\ n.term \in Term
    BY <1>4, RequestType
  <2>2. ~(n.from = i /\ n.to = v /\ n.term = t)
    BY <1>1, <2>1, Zenon DEF VoteAccounting, RequestsFresh
  <2>3. n.to \notin counted[n.from][n.term]
    BY <2>1 DEF VoteAccounting, RequestsFresh
  <2>4. n.to \notin counted'[n.from][n.term]
    BY <1>6, <2>1, <2>2, <2>3
  <2> QED BY <1>3, <1>4, <2>1, <2>4, Zenon DEF VoteAccounting, RequestsFresh
<1>10. RepliesFresh'
  <2> SUFFICES ASSUME NEW n \in Replies'
               PROVE  /\ n.argsTerm <= currentTerm'[n.to]
                      /\ n.from \notin counted'[n.to][n.argsTerm]
                      /\ n.voteGranted => <<n.from, n.argsTerm, n.to>> \in ballots'
                      /\ \A q \in Replies' : q.from = n.from /\ q.to = n.to /\ q.argsTerm = n.argsTerm => q = n
    BY Zenon DEF RepliesFresh
  <2>1. n \in Replies /\ n # m /\ n.from \in Server /\ n.to \in Server /\ n.argsTerm \in Term
    BY <1>4, ReplyType
  <2>2. ~(n.from = v /\ n.to = i /\ n.argsTerm = t)
    BY <1>5, <2>1
  <2>3. n.from \notin counted[n.to][n.argsTerm]
    BY <2>1, Zenon DEF VoteAccounting, RepliesFresh
  <2>4. n.from \notin counted'[n.to][n.argsTerm]
    BY <1>6, <2>1, <2>2, <2>3
  <2> QED BY <1>3, <1>4, <2>1, <2>4, Zenon DEF VoteAccounting, RepliesFresh
<1>11. CountersExact'
  <2> SUFFICES ASSUME NEW p \in Server, NEW u \in Term
               PROVE  /\ votesReceived'[p][u] = Cardinality(counted'[p][u])
                      /\ \A j \in counted'[p][u] : <<j, u, p>> \in ballots
    BY <1>3, Zenon DEF CountersExact
  <2>1. CASE <<p, u>> = <<i, t>>
    <3>1. p = i /\ u = t /\ counted'[p][u] = counted[i][t] \cup {v}
      BY <1>6, <2>1
    <3>2. votesReceived'[p][u] = Cardinality(counted'[p][u])
      <4>1. votesReceived'[p][u] = votesReceived[i][t] + 1
        BY <1>6, <2>1, Zenon
      <4> QED BY <1>7, <3>1, <4>1, Zenon
    <3>3. \A j \in counted[i][t] : <<j, t, i>> \in ballots
      BY DEF VoteAccounting, CountersExact
    <3> QED BY <1>5, <3>1, <3>2, <3>3, Zenon
  <2>2. CASE <<p, u>> # <<i, t>>
    <3>1. votesReceived[p][u] = Cardinality(counted[p][u]) /\ \A j \in counted[p][u] : <<j, u, p>> \in ballots
      BY Zenon DEF VoteAccounting, CountersExact
    <3>2. counted'[p][u] = counted[p][u] /\ votesReceived'[p][u] = votesReceived[p][u]
      BY <1>6, <2>2, Zenon
    <3> QED BY <3>1, <3>2
  <2> QED BY <2>1, <2>2
<1>12. ElectedByMajority'
  <2> SUFFICES ASSUME NEW e \in elections'
               PROVE  e[2] <= currentTerm[e[1]] /\ IsMajority(Cardinality(counted'[e[1]][e[2]]))
    BY <1>3, Zenon DEF ElectedByMajority, IsMajority
  <2>1. CASE e \in elections
    <3>1. e[1] \in Server /\ e[2] \in Term
      BY <2>1, Zenon DEF TypeOK
    <3>2. e[2] <= currentTerm[e[1]] /\ IsMajority(Cardinality(counted[e[1]][e[2]]))
      BY <2>1 DEF VoteAccounting, ElectedByMajority
    <3>3. CASE <<e[1], e[2]>> = <<i, t>>
      <4>1. Cardinality(counted'[e[1]][e[2]]) = Cardinality(counted[e[1]][e[2]]) + 1
        BY <1>6, <1>7, <3>1, <3>3, Zenon
      <4>2. Cardinality(counted[e[1]][e[2]]) \in Nat /\ Cardinality(Server) \in Nat
        BY <1>7, <3>3, ServerAssumption, FS_CardinalityType, Zenon
      <4> QED BY <3>2, <4>1, <4>2 DEF IsMajority
    <3>4. CASE <<e[1], e[2]>> # <<i, t>>
      <4>1. counted'[e[1]][e[2]] = counted[e[1]][e[2]]
        BY <1>6, <3>1, <3>4, Zenon
      <4> QED BY <3>2, <4>1, Zenon
    <3> QED BY <3>3, <3>4, Zenon
  <2>2. CASE e = <<i, t>> /\ IsMajority(votesReceived[i][t] + 1)
    <3>1. Cardinality(counted'[i][t]) = votesReceived[i][t] + 1
      BY <1>6, <1>7, Zenon
    <3>2. t <= currentTerm[i]
      BY <1>2, TermNat
    <3> QED BY <2>2, <3>1, <3>2, Zenon
  <2> QED BY <1>3, <2>1, <2>2, Zenon
<1> QED BY <1>8, <1>9, <1>10, <1>11, <1>12 DEF VoteAccounting

\* Every step keeps the accounting of votes.
LEMMA NextAccounting ==
    ASSUME TypeOK, TypeOK', VoteAccounting, [Next]_vars
    PROVE  VoteAccounting'
<1> DEFINE Quiet == /\ Requests' \subseteq Requests /\ Replies' \subseteq Replies
                    /\ UNCHANGED <<ballots, counted, votesReceived, elections>>
                    /\ \A i \in Server : /\ currentTerm[i] <= currentTerm'[i]
                                         /\ currentTerm'[i] = currentTerm[i] => votedFor'[i] = votedFor[i]
<1>0. Quiet => VoteAccounting'
  BY QuietStep, Zenon
<1>a. ASSUME UNCHANGED peerVars
      PROVE  \A i \in Server : /\ currentTerm[i] <= currentTerm'[i]
                               /\ currentTerm'[i] = currentTerm[i] => votedFor'[i] = votedFor[i]
  <2>1. \A i \in Server : currentTerm[i] \in Nat
    BY TermNat, Zenon DEF TypeOK
  <2>2. currentTerm' = currentTerm /\ votedFor' = votedFor
    BY <1>a DEF peerVars
  <2> QED BY <2>1, <2>2
<1>1. ASSUME NEW i \in Server, StartElection(i) PROVE VoteAccounting'
  BY <1>1, StartElectionAccounting
<1>2. ASSUME NEW i \in Server, SendHeartbeats(i) PROVE VoteAccounting'
  <2>1. Requests' = Requests /\ Replies' = Replies
    <3>1. \A m \in rpcs' : m.type # "AppendEntries" => m \in rpcs
      BY <1>2 DEF SendHeartbeats, SendAll
    <3>2. rpcs \subseteq rpcs'
      BY <1>2 DEF SendHeartbeats, SendAll
    <3> QED BY <3>1, <3>2 DEF Requests, Replies
  <2>2. UNCHANGED <<peerVars, votesReceived, ballots, counted, elections>>
    BY <1>2 DEF SendHeartbeats, leaderVars, historyVars
  <2> QED BY <1>0, <1>a, <2>1, <2>2
<1>3. ASSUME NEW i \in Server, Start(i) PROVE VoteAccounting'
  BY <1>0, <1>a, <1>3 DEF Start, leaderVars, historyVars, Requests, Replies
<1>4. ASSUME NEW m \in rpcs, RequestVote(m) PROVE VoteAccounting'
  BY <1>4, RequestVoteAccounting
<1>5. ASSUME NEW m \in rpcs, HandleVoteReply(m) PROVE VoteAccounting'
  <2>1. Requests' \subseteq Requests /\ Replies' \subseteq Replies
    BY <1>5 DEF HandleVoteReply, Requests, Replies
  <2>2. CASE UNCHANGED <<peerVars, leaderVars, historyVars>>
    BY <1>0, <1>a, <2>1, <2>2 DEF leaderVars, historyVars
  <2>3. CASE m.term > currentTerm[m.to] /\ StepDown(m.to, m.term) /\ UNCHANGED <<leaderVars, historyVars>>
    <3>1. m.to \in Server /\ m.term \in Term
      BY <1>5, ReplyType DEF HandleVoteReply, Replies
    <3> QED BY <1>0, <2>1, <2>3, <3>1, StepDownTerms, Zenon DEF leaderVars, historyVars
  <2>4. CASE ~StaleVoteReply(m) /\ m.voteGranted /\ CountVote(m)
    BY <1>5, <2>4, CountVoteAccounting
  <2> QED BY <1>5, <2>2, <2>3, <2>4 DEF HandleVoteReply
<1>6. ASSUME NEW m \in rpcs, AppendEntries(m) PROVE VoteAccounting'
  <2>1. Requests' \subseteq Requests /\ Replies' \subseteq Replies
    BY <1>6 DEF AppendEntries, Requests, Replies
  <2>2. m.to \in Server /\ m.term \in Term
    <3>1. m \in AppendEntriesArgs
      BY <1>6, Zenon DEF AppendEntries, TypeOK, Message, RequestVoteArgs, RequestVoteReply, AppendEntriesReply
    <3> QED BY <3>1 DEF AppendEntriesArgs
  <2>3. CASE m.term > currentTerm[m.to] /\ StepDown(m.to, m.term)
    BY <1>0, <1>6, <2>1, <2>2, <2>3, StepDownTerms, Zenon DEF AppendEntries, leaderVars, historyVars
  <2>4. CASE UNCHANGED peerVars
    BY <1>0, <1>a, <1>6, <2>1, <2>4, Zenon DEF AppendEntries, leaderVars, historyVars
  <2> QED BY <1>6, <2>3, <2>4 DEF AppendEntries
<1>7. ASSUME NEW m \in rpcs, HandleHeartbeatReply(m) PROVE VoteAccounting'
  <2>1. Requests' \subseteq Requests /\ Replies' \subseteq Replies
    BY <1>7 DEF HandleHeartbeatReply, Requests, Replies
  <2>2. m.to \in Server /\ m.term \in Term
    <3>1. m \in AppendEntriesReply
      BY <1>7, Zenon DEF HandleHeartbeatReply, TypeOK, Message, RequestVoteArgs, RequestVoteReply, AppendEntriesArgs
    <3> QED BY <3>1 DEF AppendEntriesReply
  <2>3. CASE m.term > currentTerm[m.to] /\ StepDown(m.to, m.term)
    BY <1>0, <1>7, <2>1, <2>2, <2>3, StepDownTerms, Zenon DEF HandleHeartbeatReply, leaderVars, historyVars
  <2>4. CASE UNCHANGED peerVars
    BY <1>0, <1>a, <1>7, <2>1, <2>4 DEF HandleHeartbeatReply, leaderVars, historyVars
  <2> QED BY <1>7, <2>3, <2>4 DEF HandleHeartbeatReply
<1>8. ASSUME NEW m \in rpcs, Lose(m) PROVE VoteAccounting'
  <2>1. Requests' \subseteq Requests /\ Replies' \subseteq Replies
    BY <1>8 DEF Lose, Requests, Replies
  <2> QED BY <1>0, <1>a, <1>8, <2>1 DEF Lose, leaderVars, historyVars
<1>9. ASSUME UNCHANGED vars PROVE VoteAccounting'
  <2>1. UNCHANGED <<peerVars, votesReceived, rpcs, ballots, counted, elections>>
    BY <1>9, Zenon DEF vars, leaderVars, historyVars
  <2>2. Requests' = Requests /\ Replies' = Replies
    BY <2>1 DEF Requests, Replies
  <2> QED BY <1>0, <1>a, <2>1, <2>2
<1> QED BY <1>1, <1>2, <1>3, <1>4, <1>5, <1>6, <1>7, <1>8, <1>9 DEF Next, PeerStep, Deliver

\* In every run without restarts, for any number of peers, the votes add up:
\* each election's counter is backed by that many distinct votes.
THEOREM AccountingHolds == Spec => []VoteAccounting
<1>1. TypeOK /\ HeartbeatsOnly /\ VoteAccounting /\ [Next]_vars => TypeOK' /\ HeartbeatsOnly' /\ VoteAccounting'
  BY NextTypeOK, NextAccounting
<1> QED BY <1>1, InitTypeOK, InitAccounting, PTL DEF Spec

\* At most one leader is elected in a term, for any number of peers.
THEOREM ElectionSafe == Spec => []ElectionSafety
<1> QED BY TypeCorrect, AccountingHolds, AccountingSafe, PTL

-----------------------------------------------------------------------------
(* The timing of one peer, for all timeouts and pauses. *)

\* Make starts the peer within its bounds.
LEMMA InitTickerInv == TickerInit => TickerInv
<1>1. MaxTime \in Nat /\ MaxSleep \in Nat /\ MaxTimeout \in Nat
    BY TickerAssumption
<1>2. TickerInit => TickerTypeOK
  <2>1. TickerInit => killed \in BOOLEAN
    BY Zenon DEF TickerInit
  <2>2. TickerInit => sleep \in 0..MaxSleep /\ {sinceElection, sinceHeartbeat, sinceSent} \subseteq 0..MaxTime
    BY <1>1 DEF TickerInit
  <2>3. QED
    BY <2>1, <2>2 DEF TickerInit, TickerTypeOK, Clock
<1>3. TickerInit => sinceElection + sleep <= MaxTimeout + MaxSleep /\ role # "Leader"
    BY <1>1 DEF TickerInit
<1>4. QED
    BY <1>2, <1>3 DEF TickerInv

\* Every step of the peer, of the clock and of the other peers keeps them.
LEMMA TickerStep == TickerInv /\ [TickerNext]_tickerVars => TickerInv'
<1> SUFFICES ASSUME TickerInv, [TickerNext]_tickerVars
             PROVE  TickerInv'
    OBVIOUS
<1> USE TickerAssumption DEF TickerInv, TickerTypeOK, Clock
<1>1. CASE Round
    BY <1>1 DEF Round, TimedOut
<1>2. CASE TimePasses
    BY <1>2 DEF TimePasses, Later
<1>3. CASE WinElection
    BY <1>3 DEF WinElection
<1>4. CASE SeeHigherTerm
    BY <1>4 DEF SeeHigherTerm
<1>5. CASE ReceiveHeartbeat
    BY <1>5 DEF ReceiveHeartbeat
<1>6. CASE Kill
    BY <1>6 DEF Kill
<1>7. CASE UNCHANGED tickerVars
    BY <1>7 DEF tickerVars
<1>8. QED
    BY <1>1, <1>2, <1>3, <1>4, <1>5, <1>6, <1>7, Zenon DEF TickerNext

\* The timing invariant of ticker, for every timeout and pause.
THEOREM TickerInvariant == TickerSpec => []TickerInv
BY InitTickerInv, TickerStep, PTL DEF TickerSpec

\* ticker starts an election in time when the leader is silent.
THEOREM SilenceNoticed == TickerSpec => []SilenceEndsInElection
<1>1. TickerInv => SilenceEndsInElection
    BY TickerAssumption DEF TickerInv, TickerTypeOK, Clock, SilenceEndsInElection
<1>2. QED
    BY <1>1, TickerInvariant, PTL

\* A leader's ticker sends its heartbeats in time.
THEOREM HeartbeatsTimely == TickerSpec => []HeartbeatsInTime
<1>1. TickerInv => HeartbeatsInTime
    BY TickerAssumption DEF TickerInv, TickerTypeOK, Clock, HeartbeatsInTime
<1>2. QED
    BY <1>1, TickerInvariant, PTL

=============================================================================
