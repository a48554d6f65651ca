----------------------------- MODULE RaftProofs -----------------------------
(***************************************************************************)
(* Proofs about module Raft, for every set of peers and every value of the *)
(* bounds: type correctness, and what lasts.  Terms, votes and leaderships *)
(* are not taken back.  The entries of a log come from elected leaders,    *)
(* and a leader's log only grows: only Start changes a log, since a        *)
(* heartbeat carries no entries.                                           *)
(***************************************************************************)
EXTENDS Raft, FiniteSetTheorems, TLAPS

\* A log maps a set of indices, 0 among them, to terms.
LEMMA LogType ==
    ASSUME NEW log
    PROVE  log \in Log <=> /\ DOMAIN log \in SUBSET (0..(MaxEntries + 1))
                           /\ 0 \in DOMAIN log
                           /\ log \in [DOMAIN log -> Term]
  BY Zenon DEF Log

\* len(rf.logs) is a natural number: the keys of a log are finitely many.
LEMMA LogLenNat ==
    ASSUME TypeOK, NEW i \in Server
    PROVE  LogLen(i) \in Nat /\ LastLogTerm(i) \in Term
<1>1. IsFiniteSet(0..(MaxEntries + 1))
  BY BoundAssumption, FS_Interval
<1>2. logs[i] \in Log
  BY DEF TypeOK
<1>3. IsFiniteSet(DOMAIN logs[i])
  BY <1>1, <1>2, LogType, FS_Subset, Zenon
<1>4. LogLen(i) \in Nat
  BY <1>3, FS_CardinalityType DEF LogLen
<1>5. LastLogTerm(i) \in Term
  BY <1>2, LogType, BoundAssumption DEF LastLogTerm, Term
<1> QED BY <1>4, <1>5

\* A heartbeat leaves the log of its receiver as it is.
LEMMA HeartbeatKeepsLog ==
    ASSUME NEW D, NEW R, NEW log \in [D -> R]
    PROVE  AppendedLog(log, 0, <<>>) = log
<1>1. Len(<<>>) = 0 /\ (0 + 1)..(0 + Len(<<>>)) = {}
  OBVIOUS
<1> QED BY <1>1 DEF AppendedLog

\* The handler of AppendEntries changes no log, as all calls are heartbeats.
LEMMA HeartbeatsKeepLogs ==
    ASSUME TypeOK, HeartbeatsOnly, NEW m \in rpcs, AppendEntries(m)
    PROVE  logs' = logs
<1>1. m \in AppendEntriesArgs
  BY Zenon DEF AppendEntries, TypeOK, Message, RequestVoteArgs, RequestVoteReply, AppendEntriesReply
<1>2. m.prevLogIndex = 0 /\ m.entries = <<>> /\ m.to \in Server
  BY <1>1 DEF AppendEntries, HeartbeatsOnly, AppendEntriesArgs
<1>3. AppendedLog(logs[m.to], 0, <<>>) = logs[m.to]
  <2>1. logs[m.to] \in Log
    BY <1>2 DEF TypeOK
  <2> QED BY <2>1, LogType, HeartbeatKeepsLog, Zenon
<1>4. logs' = [logs EXCEPT ![m.to] = AppendedLog(logs[m.to], 0, <<>>)] \/ logs' = logs
  BY <1>2 DEF AppendEntries, logVars
<1>5. logs = [j \in Server |-> logs[j]]
  BY DEF TypeOK
<1> QED BY <1>2, <1>3, <1>4, <1>5

\* The initial term.
LEMMA ZeroTerm == 0 \in Term
  BY BoundAssumption DEF Term

\* The initial state is well typed.
LEMMA InitTypeOK == Init => TypeOK /\ HeartbeatsOnly
<1> SUFFICES ASSUME Init PROVE TypeOK /\ HeartbeatsOnly
  OBVIOUS
<1>1. [k \in {0} |-> 0] \in Log
  BY LogType, ZeroTerm, BoundAssumption
<1>2. logs \in [Server -> Log]
  BY <1>1 DEF Init
<1>3. counted \in [Server -> [Term -> SUBSET Server]] /\ votesReceived \in [Server -> [Term -> Nat]]
  BY DEF Init
<1> QED BY <1>2, <1>3, ZeroTerm DEF Init, TypeOK, HeartbeatsOnly

\* A peer that adopts a term, or does not, has well-typed term, vote and role.
LEMMA StepDownType ==
    ASSUME TypeOK, NEW i \in Server, NEW t \in Term, UNCHANGED peerVars \/ StepDown(i, t)
    PROVE  /\ state' \in [Server -> {"Follower", "Candidate", "Leader"}]
           /\ currentTerm' \in [Server -> Term]
           /\ votedFor' \in [Server -> Server \cup {NoVote}]
<1>1. /\ state \in [Server -> {"Follower", "Candidate", "Leader"}]
      /\ currentTerm \in [Server -> Term]
      /\ votedFor \in [Server -> Server \cup {NoVote}]
  BY DEF TypeOK
<1>2. CASE UNCHANGED peerVars
  BY <1>1, <1>2, Zenon DEF peerVars
<1>3. CASE StepDown(i, t)
  BY <1>1, <1>3 DEF StepDown
<1> QED BY <1>2, <1>3

\* Every step of a peer and every delivery or loss of a message preserves the
\* types; a heartbeat carries no entries, so it cannot lengthen a log.
LEMMA NextTypeOK ==
    ASSUME TypeOK, HeartbeatsOnly, [Next]_vars
    PROVE  TypeOK' /\ HeartbeatsOnly'
<1>1. ASSUME NEW i \in Server, StartElection(i)
      PROVE  TypeOK' /\ HeartbeatsOnly'
  <2>1. LogLen(i) \in Nat /\ LastLogTerm(i) \in Term
    BY LogLenNat
  <2>2. currentTerm[i] + 1 \in Term
    BY <1>1, BoundAssumption DEF StartElection, TypeOK, Term
  <2>3. rpcs' \subseteq Message
    <3> DEFINE args(j) == [type |-> "RequestVote", from |-> i, to |-> j,
                           incarnation |-> incarnation[i], term |-> currentTerm[i] + 1,
                           lastLogIndex |-> LogLen(i), lastLogTerm |-> LastLogTerm(i)]
    <3>1. \A j \in Peers(i) : args(j) \in RequestVoteArgs
      BY <2>1, <2>2 DEF Peers, TypeOK, RequestVoteArgs
    <3>2. rpcs' = rpcs \cup {args(j) : j \in Peers(i)}
      BY <1>1 DEF StartElection, SendAll
    <3> QED BY <3>1, <3>2 DEF TypeOK, Message
  <2>4. HeartbeatsOnly'
    BY <1>1 DEF StartElection, SendAll, HeartbeatsOnly
  <2>5. /\ state' \in [Server -> {"Follower", "Candidate", "Leader"}]
        /\ currentTerm' \in [Server -> Term]
        /\ votedFor' \in [Server -> Server \cup {NoVote}]
    BY <1>1, <2>2 DEF StartElection, TypeOK
  <2>6. votesReceived' \in [Server -> [Term -> Nat]]
    BY <1>1, <2>2 DEF StartElection, TypeOK
  <2>7. counted' \in [Server -> [Term -> SUBSET Server]]
    BY <1>1, <2>2 DEF StartElection, TypeOK
  <2>8. ballots' \subseteq Server \X Term \X Server
    BY <1>1, <2>2 DEF StartElection, TypeOK
  <2>9. UNCHANGED <<logs, commitIndex, nextIndex, matchIndex, incarnation, elections>>
    BY <1>1 DEF StartElection, logVars
  <2> QED BY <2>3, <2>4, <2>5, <2>6, <2>7, <2>8, <2>9, Zenon DEF TypeOK
<1>2. ASSUME NEW i \in Server, SendHeartbeats(i)
      PROVE  TypeOK' /\ HeartbeatsOnly'
  <2>1. rpcs' \subseteq Message
    <3> DEFINE args(j) == [type |-> "AppendEntries", from |-> i, to |-> j,
                           incarnation |-> incarnation[i], term |-> currentTerm[i],
                           prevLogIndex |-> 0, prevLogTerm |-> 0, entries |-> <<>>,
                           leaderCommit |-> commitIndex[i]]
    <3>1. <<>> \in Seq(Term)
      OBVIOUS
    <3>2. \A j \in Peers(i) : args(j) \in AppendEntriesArgs
      BY <3>1, ZeroTerm DEF Peers, TypeOK, AppendEntriesArgs
    <3>3. rpcs' = rpcs \cup {args(j) : j \in Peers(i)}
      BY <1>2 DEF SendHeartbeats, SendAll
    <3> QED BY <3>2, <3>3 DEF TypeOK, Message
  <2>2. HeartbeatsOnly'
    BY <1>2 DEF SendHeartbeats, SendAll, HeartbeatsOnly
  <2> QED BY <1>2, <2>1, <2>2, Zenon DEF SendHeartbeats, TypeOK, peerVars, logVars, leaderVars, historyVars
<1>3. ASSUME NEW i \in Server, Start(i)
      PROVE  TypeOK' /\ HeartbeatsOnly'
  <2>1. LogLen(i) \in Nat
    BY LogLenNat
  <2> DEFINE log == [k \in DOMAIN logs[i] \cup {LogLen(i) + 1} |->
                        IF k = LogLen(i) + 1 THEN currentTerm[i] ELSE logs[i][k]]
  <2>2. logs' = [logs EXCEPT ![i] = log]
    BY <1>3 DEF Start
  <2>3. /\ DOMAIN log \in SUBSET (0..(MaxEntries + 1))
        /\ 0 \in DOMAIN log
        /\ log \in [DOMAIN log -> Term]
    <3>1. logs[i] \in Log /\ currentTerm[i] \in Term
      BY DEF TypeOK
    <3> QED BY <1>3, <2>1, <3>1, LogType, BoundAssumption DEF Start
  <2> HIDE DEF log
  <2>4. log \in Log
    BY <2>3, LogType
  <2>5. logs' \in [Server -> Log]
    BY <2>2, <2>4 DEF TypeOK
  <2> QED BY <1>3, <2>5, Zenon DEF Start, TypeOK, HeartbeatsOnly, peerVars, leaderVars, historyVars
<1>4. ASSUME NEW m \in rpcs, RequestVote(m)
      PROVE  TypeOK' /\ HeartbeatsOnly'
  <2>1. m \in RequestVoteArgs
    BY <1>4, Zenon DEF RequestVote, TypeOK, Message, RequestVoteReply, AppendEntriesArgs, AppendEntriesReply
  <2>2. CanVote(m) \in BOOLEAN
    BY DEF CanVote, isLogUpToDate
  <2>3. rpcs' \subseteq Message
    <3> DEFINE reply == [type |-> "RequestVoteReply", from |-> m.to, to |-> m.from,
                         incarnation |-> m.incarnation, argsTerm |-> m.term,
                         term |-> IF m.term > currentTerm[m.to] THEN m.term ELSE currentTerm[m.to],
                         voteGranted |-> CanVote(m)]
    <3>1. reply \in RequestVoteReply
      BY <2>1, <2>2 DEF TypeOK, RequestVoteArgs, RequestVoteReply
    <3>2. rpcs' = (rpcs \ {m}) \cup {reply}
      BY <1>4 DEF RequestVote
    <3> QED BY <3>1, <3>2 DEF TypeOK, Message
  <2>4. HeartbeatsOnly'
    BY <1>4 DEF RequestVote, HeartbeatsOnly
  <2>5. m.to \in Server /\ m.from \in Server /\ m.term \in Term
    BY <2>1 DEF RequestVoteArgs
  <2>6. state' \in [Server -> {"Follower", "Candidate", "Leader"}] /\ currentTerm' \in [Server -> Term]
    BY <1>4, <2>5, Zenon DEF RequestVote, TypeOK
  <2>7. votedFor' \in [Server -> Server \cup {NoVote}]
    BY <1>4, <2>5, Zenon DEF RequestVote, VoteIn, TypeOK
  <2>8. ballots' \subseteq Server \X Term \X Server
    <3>1. ballots' = ballots \/ ballots' = ballots \cup {<<m.to, m.term, m.from>>}
      BY <1>4, <2>2 DEF RequestVote
    <3>2. <<m.to, m.term, m.from>> \in Server \X Term \X Server
      BY <2>5
    <3> QED BY <3>1, <3>2 DEF TypeOK
  <2>9. UNCHANGED <<logs, commitIndex, nextIndex, matchIndex, votesReceived, incarnation, counted, elections>>
    BY <1>4 DEF RequestVote, logVars, leaderVars
  <2> QED BY <2>3, <2>4, <2>6, <2>7, <2>8, <2>9 DEF TypeOK
<1>5. ASSUME NEW m \in rpcs, HandleVoteReply(m)
      PROVE  TypeOK' /\ HeartbeatsOnly'
  <2>1. m \in RequestVoteReply
    BY <1>5, Zenon DEF HandleVoteReply, TypeOK, Message, RequestVoteArgs, AppendEntriesArgs, AppendEntriesReply
  <2>2. HeartbeatsOnly'
    BY <1>5 DEF HandleVoteReply, HeartbeatsOnly
  <2>3. CASE UNCHANGED <<peerVars, leaderVars, historyVars>>
    BY <1>5, <2>2, <2>3 DEF HandleVoteReply, TypeOK, peerVars, logVars, leaderVars, historyVars
  <2>4. CASE StepDown(m.to, m.term) /\ UNCHANGED <<leaderVars, historyVars>>
    BY <1>5, <2>1, <2>2, <2>4, Zenon
       DEF HandleVoteReply, StepDown, RequestVoteReply, TypeOK, logVars, leaderVars, historyVars
  <2>5. CASE CountVote(m)
    <3>1. LogLen(m.to) \in Nat
      BY <2>1, LogLenNat DEF RequestVoteReply
    <3>2. currentTerm[m.to] \in Term /\ m.to \in Server /\ m.from \in Server /\ m.argsTerm \in Term
      BY <2>1 DEF RequestVoteReply, TypeOK
    <3> SUFFICES ASSUME NEW i \in Server, NEW j \in Server, NEW t \in Term,
                        i = m.to, j = m.from, t = m.argsTerm
                 PROVE  TypeOK' /\ HeartbeatsOnly'
      BY <3>2
    <3> DEFINE won == IsMajority(votesReceived[i][t] + 1)
    <3>a. /\ votesReceived' = [votesReceived EXCEPT ![i][t] = @ + 1]
          /\ counted' = [counted EXCEPT ![i][t] = @ \cup {j}]
          /\ state' = [state EXCEPT ![i] = IF won THEN "Leader" ELSE @]
      BY <2>5, Zenon DEF CountVote
    <3>b. /\ nextIndex' = [nextIndex EXCEPT ![i] =
                              [p \in Server |-> IF won /\ p # i THEN LogLen(i) + 1 ELSE nextIndex[i][p]]]
          /\ matchIndex' = [matchIndex EXCEPT ![i] =
                              [p \in Server |-> IF won /\ p # i THEN 0 ELSE matchIndex[i][p]]]
      BY <2>5, Zenon DEF CountVote
    <3>c. elections' = elections \/ elections' = elections \cup {<<i, currentTerm[i]>>}
      BY <2>5, Zenon DEF CountVote, IsMajority
    <3>d. won \in BOOLEAN
      BY DEF IsMajority
    <3> HIDE DEF won
    <3>3. state' \in [Server -> {"Follower", "Candidate", "Leader"}]
      BY <3>a, <3>d, Zenon DEF TypeOK
    <3>e. votesReceived \in [Server -> [Term -> Nat]] /\ counted \in [Server -> [Term -> SUBSET Server]]
      BY DEF TypeOK
    <3>4. votesReceived' \in [Server -> [Term -> Nat]]
      BY <3>a, <3>e
    <3>5. counted' \in [Server -> [Term -> SUBSET Server]]
      BY <3>2, <3>a, <3>e
    <3>6. nextIndex' \in [Server -> [Server -> Nat]]
      BY <3>1, <3>b, <3>d DEF TypeOK
    <3>7. matchIndex' \in [Server -> [Server -> Nat]]
      BY <3>b, <3>d DEF TypeOK
    <3>8. elections' \subseteq Server \X Term
      BY <3>2, <3>c DEF TypeOK
    <3>9. rpcs' \subseteq Message /\ UNCHANGED <<currentTerm, votedFor, logs, commitIndex, incarnation, ballots>>
      BY <1>5, <2>5, Zenon DEF HandleVoteReply, CountVote, TypeOK, logVars
    <3> QED BY <2>2, <3>3, <3>4, <3>5, <3>6, <3>7, <3>8, <3>9, Zenon DEF TypeOK
  <2> QED BY <1>5, <2>3, <2>4, <2>5 DEF HandleVoteReply
<1>6. ASSUME NEW m \in rpcs, AppendEntries(m)
      PROVE  TypeOK' /\ HeartbeatsOnly'
  <2>1. m \in AppendEntriesArgs
    BY <1>6, Zenon DEF AppendEntries, TypeOK, Message, RequestVoteArgs, RequestVoteReply, AppendEntriesReply
  <2>2. /\ m.prevLogIndex = 0 /\ m.entries = <<>> /\ m.to \in Server /\ m.from \in Server
        /\ m.term \in Term /\ m.leaderCommit \in Nat /\ m.incarnation \in Nat
    BY <1>6, <2>1, Zenon DEF AppendEntries, HeartbeatsOnly, AppendEntriesArgs
  <2>4. logs' = logs
    BY <1>6, HeartbeatsKeepLogs
  <2>5. commitIndex' \in [Server -> Nat]
    <3>1. Len(<<>>) = 0
      OBVIOUS
    <3>2. \/ commitIndex' = commitIndex
          \/ commitIndex' = [commitIndex EXCEPT ![m.to] = MinOf(m.leaderCommit, m.prevLogIndex + Len(m.entries))]
      BY <1>6, Zenon DEF AppendEntries, logVars, TypeOK
    <3>3. MinOf(m.leaderCommit, m.prevLogIndex + Len(m.entries)) \in Nat
      BY <2>2, <3>1 DEF MinOf
    <3> HIDE DEF MinOf
    <3>4. commitIndex \in [Server -> Nat]
      BY DEF TypeOK
    <3> QED BY <2>2, <3>2, <3>3, <3>4
  <2>6. rpcs' \subseteq Message
    <3> DEFINE success == m.term >= currentTerm[m.to] /\ PrevMatches(m.to, m.prevLogIndex, m.prevLogTerm)
               reply == [type |-> "AppendEntriesReply", from |-> m.to, to |-> m.from,
                         incarnation |-> m.incarnation, success |-> success,
                         term |-> IF m.term > currentTerm[m.to] THEN m.term ELSE currentTerm[m.to]]
    <3>1. success \in BOOLEAN
      OBVIOUS
    <3>2. rpcs' = (rpcs \ {m}) \cup {reply}
      BY <1>6 DEF AppendEntries
    <3> HIDE DEF success
    <3>3. reply \in AppendEntriesReply
      BY <2>2, <3>1, Zenon DEF TypeOK, AppendEntriesReply
    <3> QED BY <3>2, <3>3 DEF TypeOK, Message
  <2>7. HeartbeatsOnly'
    BY <1>6 DEF AppendEntries, HeartbeatsOnly
  <2>8. /\ state' \in [Server -> {"Follower", "Candidate", "Leader"}]
        /\ currentTerm' \in [Server -> Term]
        /\ votedFor' \in [Server -> Server \cup {NoVote}]
    <3>1. UNCHANGED peerVars \/ StepDown(m.to, m.term)
      BY <1>6, Zenon DEF AppendEntries
    <3> QED BY <2>2, <3>1, StepDownType, Zenon
  <2>9. UNCHANGED <<nextIndex, matchIndex, votesReceived, incarnation, ballots, counted, elections>>
    BY <1>6 DEF AppendEntries, leaderVars, historyVars
  <2> QED BY <2>4, <2>5, <2>6, <2>7, <2>8, <2>9 DEF TypeOK
<1>7. ASSUME NEW m \in rpcs, HandleHeartbeatReply(m)
      PROVE  TypeOK' /\ HeartbeatsOnly'
  <2>1. m \in AppendEntriesReply
    BY <1>7, Zenon DEF HandleHeartbeatReply, TypeOK, Message, RequestVoteArgs, RequestVoteReply, AppendEntriesArgs
  <2>2. m.to \in Server /\ m.term \in Term
    BY <2>1 DEF AppendEntriesReply
  <2>3. rpcs' \subseteq rpcs
    BY <1>7 DEF HandleHeartbeatReply
  <2>4. rpcs' \subseteq Message /\ HeartbeatsOnly'
    BY <2>3 DEF TypeOK, HeartbeatsOnly
  <2>5. /\ state' \in [Server -> {"Follower", "Candidate", "Leader"}]
        /\ currentTerm' \in [Server -> Term]
        /\ votedFor' \in [Server -> Server \cup {NoVote}]
    <3>1. UNCHANGED peerVars \/ StepDown(m.to, m.term)
      BY <1>7, Zenon DEF HandleHeartbeatReply
    <3> QED BY <2>2, <3>1, StepDownType, Zenon
  <2>6. UNCHANGED <<logVars, leaderVars, incarnation, historyVars>>
    BY <1>7 DEF HandleHeartbeatReply
  <2> QED BY <2>4, <2>5, <2>6 DEF TypeOK, logVars, leaderVars, historyVars
<1>8. ASSUME NEW m \in rpcs, Lose(m)
      PROVE  TypeOK' /\ HeartbeatsOnly'
  BY <1>8, Zenon DEF Lose, HeartbeatsOnly, TypeOK, peerVars, logVars, leaderVars, historyVars
<1>9. ASSUME UNCHANGED vars
      PROVE  TypeOK' /\ HeartbeatsOnly'
  BY <1>9, Zenon DEF vars, HeartbeatsOnly, TypeOK, peerVars, logVars, leaderVars, historyVars
<1> QED BY <1>1, <1>2, <1>3, <1>4, <1>5, <1>6, <1>7, <1>8, <1>9 DEF Next, PeerStep, Deliver

\* Type correctness of the peers and of every message in flight.
THEOREM TypeCorrect == Spec => []TypeOK
<1>1. TypeOK /\ HeartbeatsOnly /\ [Next]_vars => TypeOK' /\ HeartbeatsOnly'
  BY NextTypeOK
<1> QED BY <1>1, InitTypeOK, PTL DEF Spec

-----------------------------------------------------------------------------
(* Terms, votes and leaderships. *)

\* Terms are natural numbers.
LEMMA TermNat == Term \subseteq Nat
  BY BoundAssumption DEF Term

\* The fields of a vote request in flight.
LEMMA RequestType ==
    ASSUME TypeOK, NEW m \in Requests
    PROVE  m.from \in Server /\ m.to \in Server /\ m.term \in Term
<1>1. m \in Message /\ m.type = "RequestVote"
  BY DEF TypeOK, Requests
<1>2. m \in RequestVoteArgs
  BY <1>1 DEF Message, RequestVoteReply, AppendEntriesArgs, AppendEntriesReply
<1> QED BY <1>2 DEF RequestVoteArgs

\* The fields of an answer to a vote request in flight.
LEMMA ReplyType ==
    ASSUME TypeOK, NEW m \in Replies
    PROVE  m.from \in Server /\ m.to \in Server /\ m.argsTerm \in Term /\ m.term \in Term
<1>1. m \in Message /\ m.type = "RequestVoteReply"
  BY DEF TypeOK, Replies
<1>2. m \in RequestVoteReply
  BY <1>1 DEF Message, RequestVoteArgs, AppendEntriesArgs, AppendEntriesReply
<1> QED BY <1>2 DEF RequestVoteReply

\* A peer that adopts a higher term: its term grows, and no other peer changes.
LEMMA StepDownTerms ==
    ASSUME TypeOK, NEW i \in Server, NEW t \in Term, t > currentTerm[i], StepDown(i, t)
    PROVE  \A p \in Server : /\ currentTerm[p] <= currentTerm'[p]
                             /\ currentTerm'[p] = currentTerm[p] =>
                                  votedFor'[p] = votedFor[p] /\ state'[p] = state[p]
<1>1. \A p \in Server : currentTerm[p] \in Nat
  BY TermNat, Zenon DEF TypeOK
<1>2. t \in Nat
  BY TermNat
<1> QED BY <1>1, <1>2 DEF StepDown, TypeOK

\* A step that leaves the three variables of every peer alone is stable.
LEMMA StableStutter ==
    ASSUME TypeOK, UNCHANGED peerVars
    PROVE  StablePeers
<1>1. \A i \in Server : currentTerm[i] \in Nat
  BY TermNat, Zenon DEF TypeOK
<1> QED BY <1>1 DEF peerVars, StablePeers, StablePeer

\* No step takes a term, a vote or a leadership back.
LEMMA NextStable ==
    ASSUME TypeOK, [Next]_vars
    PROVE  StablePeers
<1>0. /\ \A p \in Server : currentTerm[p] \in Nat
      /\ \A p \in Server : votedFor[p] \in Server \cup {NoVote}
  BY TermNat, Zenon DEF TypeOK
<1>1. ASSUME NEW i \in Server, StartElection(i) PROVE StablePeers
  <2>1. currentTerm' = [currentTerm EXCEPT ![i] = currentTerm[i] + 1]
    BY <1>1 DEF StartElection
  <2>2. state' = [state EXCEPT ![i] = "Candidate"] /\ votedFor' = [votedFor EXCEPT ![i] = i]
    BY <1>1 DEF StartElection
  <2>3. currentTerm'[i] = currentTerm[i] + 1
    BY <2>1 DEF TypeOK
  <2>4. ASSUME NEW p \in Server, p # i PROVE StablePeer(p)
    <3>1. currentTerm'[p] = currentTerm[p] /\ state'[p] = state[p] /\ votedFor'[p] = votedFor[p]
      BY <2>1, <2>2, <2>4 DEF TypeOK
    <3> QED BY <1>0, <3>1 DEF StablePeer
  <2>5. StablePeer(i)
    BY <1>0, <2>3 DEF StablePeer
  <2> QED BY <2>4, <2>5 DEF StablePeers
<1>2. ASSUME NEW i \in Server, SendHeartbeats(i) \/ Start(i) PROVE StablePeers
  BY <1>2, StableStutter DEF SendHeartbeats, Start
<1>3. ASSUME NEW m \in rpcs, RequestVote(m) PROVE StablePeers
  <2>1. m \in Requests
    BY <1>3, Zenon DEF RequestVote, Requests
  <2> SUFFICES ASSUME NEW i \in Server, NEW c \in Server, NEW t \in Term,
                      i = m.to, c = m.from, t = m.term
               PROVE  StablePeers
    BY <2>1, RequestType
  <2>2. /\ currentTerm' = [currentTerm EXCEPT ![i] = IF t > currentTerm[i] THEN t ELSE currentTerm[i]]
        /\ state' = [state EXCEPT ![i] = IF t > currentTerm[i] THEN "Follower" ELSE @]
        /\ votedFor' = [votedFor EXCEPT ![i] = IF CanVote(m) THEN c ELSE VoteIn(i, t)]
    BY <1>3, Zenon DEF RequestVote
  <2>3. CanVote(m) => VoteIn(i, t) \in {NoVote, c}
    BY DEF CanVote
  <2>4. t \in Nat
    BY TermNat
  <2>5. \A p \in Server \ {i} : StablePeer(p)
    BY <1>0, <2>2 DEF StablePeer, TypeOK
  <2>6. /\ currentTerm'[i] = IF t > currentTerm[i] THEN t ELSE currentTerm[i]
        /\ state'[i] = IF t > currentTerm[i] THEN "Follower" ELSE state[i]
        /\ votedFor'[i] = IF CanVote(m) THEN c ELSE VoteIn(i, t)
    BY <2>2, Zenon DEF TypeOK
  <2>7. StablePeer(i)
    BY <1>0, <2>3, <2>4, <2>6 DEF StablePeer, VoteIn
  <2> QED BY <2>5, <2>7 DEF StablePeers
<1>4. ASSUME NEW m \in rpcs, HandleVoteReply(m) PROVE StablePeers
  <2>1. m.to \in Server /\ m.term \in Term
    BY <1>4, ReplyType, Zenon DEF HandleVoteReply, Replies
  <2>2. CASE UNCHANGED peerVars
    BY <2>2, StableStutter
  <2>3. CASE m.term > currentTerm[m.to] /\ StepDown(m.to, m.term)
    BY <2>1, <2>3, StepDownTerms, Zenon DEF StablePeers, StablePeer
  <2>4. CASE ~StaleVoteReply(m) /\ CountVote(m)
    <3>1. state[m.to] = "Candidate"
      BY <2>4 DEF StaleVoteReply
    <3>2. /\ currentTerm' = currentTerm /\ votedFor' = votedFor
          /\ state' = [state EXCEPT ![m.to] = IF IsMajority(votesReceived[m.to][m.argsTerm] + 1) THEN "Leader" ELSE @]
      BY <2>4, Zenon DEF CountVote
    <3>3. \A p \in Server : p # m.to => state'[p] = state[p]
      BY <3>2, Zenon DEF TypeOK
    <3> QED BY <1>0, <3>1, <3>2, <3>3 DEF StablePeers, StablePeer
  <2> QED BY <1>4, <2>2, <2>3, <2>4 DEF HandleVoteReply
<1>5. ASSUME NEW m \in rpcs, AppendEntries(m) PROVE StablePeers
  <2>1. m \in AppendEntriesArgs
    BY <1>5, Zenon DEF AppendEntries, TypeOK, Message, RequestVoteArgs, RequestVoteReply, AppendEntriesReply
  <2>2. m.to \in Server /\ m.term \in Term
    BY <2>1 DEF AppendEntriesArgs
  <2>3. \/ UNCHANGED peerVars
        \/ m.term > currentTerm[m.to] /\ StepDown(m.to, m.term)
    BY <1>5, Zenon DEF AppendEntries
  <2> QED BY <2>2, <2>3, StableStutter, StepDownTerms, Zenon DEF StablePeers, StablePeer
<1>6. ASSUME NEW m \in rpcs, HandleHeartbeatReply(m) PROVE StablePeers
  <2>1. m \in AppendEntriesReply
    BY <1>6, Zenon DEF HandleHeartbeatReply, TypeOK, Message, RequestVoteArgs, RequestVoteReply, AppendEntriesArgs
  <2>2. m.to \in Server /\ m.term \in Term
    BY <2>1 DEF AppendEntriesReply
  <2>3. \/ UNCHANGED peerVars
        \/ m.term > currentTerm[m.to] /\ StepDown(m.to, m.term)
    BY <1>6 DEF HandleHeartbeatReply
  <2> QED BY <2>2, <2>3, StableStutter, StepDownTerms, Zenon DEF StablePeers, StablePeer
<1>7. ASSUME NEW m \in rpcs, Lose(m) PROVE StablePeers
  BY <1>7, StableStutter DEF Lose
<1>8. ASSUME UNCHANGED vars PROVE StablePeers
  BY <1>8, StableStutter DEF vars
<1> QED BY <1>1, <1>2, <1>3, <1>4, <1>5, <1>6, <1>7, <1>8 DEF Next, PeerStep, Deliver

\* Terms grow, votes and leaderships last for their term.
THEOREM TermsStable == Spec => TermsAndVotesStable
<1>1. TypeOK /\ [Next]_vars => [StablePeers]_vars
  BY NextStable
<1> QED BY <1>1, TypeCorrect, PTL DEF Spec, TermsAndVotesStable

-----------------------------------------------------------------------------
(* Logs. *)

\* The types the proofs below need, without the definition of a log.
LEMMA LogFacts ==
    ASSUME TypeOK, NEW i \in Server
    PROVE  /\ DOMAIN logs[i] \subseteq Nat
           /\ 0 \in DOMAIN logs[i]
           /\ IsFiniteSet(DOMAIN logs[i])
           /\ \A k \in DOMAIN logs[i] : logs[i][k] \in Nat
           /\ currentTerm[i] \in Nat
           /\ LogLen(i) \in Nat
<1>1. logs[i] \in Log /\ currentTerm[i] \in Term
  BY DEF TypeOK
<1>2. IsFiniteSet(0..(MaxEntries + 1))
  BY BoundAssumption, FS_Interval
<1>3. IsFiniteSet(DOMAIN logs[i])
  BY <1>1, <1>2, LogType, FS_Subset, Zenon
<1>4. DOMAIN logs[i] \subseteq Nat
  BY <1>1, LogType, BoundAssumption
<1>5. \A k \in DOMAIN logs[i] : logs[i][k] \in Nat
  BY <1>1, LogType, TermNat
<1> QED BY <1>1, <1>3, <1>4, <1>5, LogType, LogLenNat, TermNat

\* A step that changes no log, takes no term back and forgets no election keeps
\* the invariant, provided that whoever leads after it led the same term before
\* or has just been elected.
LEMMA LogsKept ==
    ASSUME TypeOK, TypeOK', LogInv, StablePeers,
           logs' = logs, elections \subseteq elections',
           \A i \in Server : state'[i] = "Leader" =>
               \/ state[i] = "Leader" /\ currentTerm'[i] = currentTerm[i]
               \/ <<i, currentTerm'[i]>> \in elections'
    PROVE  LogInv'
<1>1. LogProvenance'
  <2> SUFFICES ASSUME NEW i \in Server, NEW k \in DOMAIN logs[i] \ {0}
               PROVE  /\ <<i, logs[i][k]>> \in elections'
                      /\ logs[i][k] <= currentTerm'[i]
                      /\ \A l \in DOMAIN logs[i] : l <= k => logs[i][l] <= logs[i][k]
    BY Zenon DEF LogProvenance
  <2>1. /\ <<i, logs[i][k]>> \in elections
        /\ logs[i][k] <= currentTerm[i]
        /\ \A l \in DOMAIN logs[i] : l <= k => logs[i][l] <= logs[i][k]
    BY Zenon DEF LogInv, LogProvenance
  <2>2. logs[i][k] \in Nat /\ currentTerm[i] \in Nat
    BY LogFacts
  <2>3. currentTerm'[i] \in Nat
    BY TermNat, Zenon DEF TypeOK
  <2>4. currentTerm[i] <= currentTerm'[i]
    BY DEF StablePeers, StablePeer
  <2> QED BY <2>1, <2>2, <2>3, <2>4
<1>2. KeysBelowLength'
  BY DEF LogInv, KeysBelowLength, LogLen
<1>3. LeadersElected'
  BY DEF LogInv, LeadersElected
<1> QED BY <1>1, <1>2, <1>3 DEF LogInv

\* Start leaves the entries alone and adds one of the current term behind them.
LEMMA StartEffect ==
    ASSUME TypeOK, KeysBelowLength, NEW i \in Server, Start(i)
    PROVE  LET n == LogLen(i) + 1
           IN /\ n \notin DOMAIN logs[i]
              /\ DOMAIN logs'[i] = DOMAIN logs[i] \cup {n}
              /\ logs'[i][n] = currentTerm[i]
              /\ \A k \in DOMAIN logs[i] : logs'[i][k] = logs[i][k]
              /\ \A j \in Server \ {i} : logs'[j] = logs[j]
              /\ LogLen(i)' = n
<1> DEFINE n == LogLen(i) + 1
           log == [k \in DOMAIN logs[i] \cup {n} |-> IF k = n THEN currentTerm[i] ELSE logs[i][k]]
<1>1. n \notin DOMAIN logs[i]
  BY LogFacts DEF KeysBelowLength
<1>2. logs' = [logs EXCEPT ![i] = log]
  BY DEF Start
<1>3. logs'[i] = log /\ \A j \in Server \ {i} : logs'[j] = logs[j]
  BY <1>2 DEF TypeOK
<1>4. /\ DOMAIN log = DOMAIN logs[i] \cup {n}
      /\ log[n] = currentTerm[i]
      /\ \A k \in DOMAIN logs[i] : log[k] = logs[i][k]
  BY <1>1, Zenon
<1>5. Cardinality(DOMAIN logs[i] \cup {n}) = Cardinality(DOMAIN logs[i]) + 1
  BY <1>1, LogFacts, FS_AddElement, Zenon
<1>6. LogLen(i)' = n
  BY <1>3, <1>4, <1>5, Zenon DEF LogLen
<1> QED BY <1>1, <1>3, <1>4, <1>6, Zenon

\* Start keeps the invariant: its peer is the elected leader of the new entry's
\* term, which no term in the log exceeds.
LEMMA StartKeepsLogInv ==
    ASSUME TypeOK, LogInv, NEW i \in Server, Start(i)
    PROVE  LogInv'
<1> DEFINE n == LogLen(i) + 1
<1>1. /\ n \notin DOMAIN logs[i]
      /\ DOMAIN logs'[i] = DOMAIN logs[i] \cup {n}
      /\ logs'[i][n] = currentTerm[i]
      /\ \A k \in DOMAIN logs[i] : logs'[i][k] = logs[i][k]
      /\ \A j \in Server \ {i} : logs'[j] = logs[j]
      /\ LogLen(i)' = n
  BY StartEffect, Zenon DEF LogInv
<1>2. UNCHANGED <<state, currentTerm, elections>> /\ state[i] = "Leader"
  BY DEF Start, peerVars, historyVars
<1>3. \A k \in DOMAIN logs[i] : k <= LogLen(i) /\ k \in Nat /\ logs[i][k] \in Nat
  BY LogFacts DEF LogInv, KeysBelowLength
<1>4. LogLen(i) \in Nat /\ currentTerm[i] \in Nat /\ 0 \in DOMAIN logs[i]
  BY LogFacts
<1>5. \A k \in DOMAIN logs[i] : logs[i][k] <= currentTerm[i]
  <2>1. logs[i][0] = 0
    BY DEF LogInv, KeysBelowLength
  <2>2. \A k \in DOMAIN logs[i] \ {0} : logs[i][k] <= currentTerm[i]
    BY Zenon DEF LogInv, LogProvenance
  <2>3. 0 <= currentTerm[i]
    BY <1>4
  <2> QED BY <2>1, <2>2, <2>3
<1> HIDE DEF n
<1>6. LogProvenance'
  <2>1. ASSUME NEW j \in Server \ {i}, NEW k \in DOMAIN logs'[j] \ {0}
        PROVE  /\ <<j, logs'[j][k]>> \in elections'
               /\ logs'[j][k] <= currentTerm'[j]
               /\ \A l \in DOMAIN logs'[j] : l <= k => logs'[j][l] <= logs'[j][k]
    BY <1>1, <1>2, Zenon DEF LogInv, LogProvenance
  <2>2. ASSUME NEW k \in DOMAIN logs[i] \ {0}
        PROVE  /\ <<i, logs'[i][k]>> \in elections'
               /\ logs'[i][k] <= currentTerm'[i]
               /\ \A l \in DOMAIN logs'[i] : l <= k => logs'[i][l] <= logs'[i][k]
    <3>1. ~(n <= k)
      BY <1>3, <1>4 DEF n
    <3> QED BY <1>1, <1>2, <3>1, Zenon DEF LogInv, LogProvenance
  <2>3. /\ <<i, logs'[i][n]>> \in elections'
        /\ logs'[i][n] <= currentTerm'[i]
        /\ \A l \in DOMAIN logs'[i] : l <= n => logs'[i][l] <= logs'[i][n]
    <3>1. <<i, currentTerm[i]>> \in elections
      BY <1>2 DEF LogInv, LeadersElected
    <3> QED BY <1>1, <1>2, <1>4, <1>5, <3>1
  <2> QED BY <1>1, <2>1, <2>2, <2>3, Zenon DEF LogProvenance
<1>7. KeysBelowLength'
  <2>1. ASSUME NEW j \in Server \ {i}
        PROVE  logs'[j][0] = 0 /\ \A k \in DOMAIN logs'[j] : k <= LogLen(j)'
    BY <1>1 DEF LogInv, KeysBelowLength, LogLen
  <2>2. logs'[i][0] = 0
    BY <1>1, <1>4, Zenon DEF LogInv, KeysBelowLength
  <2>3. \A k \in DOMAIN logs'[i] : k <= LogLen(i)'
    BY <1>1, <1>3, <1>4 DEF n
  <2> QED BY <2>1, <2>2, <2>3 DEF KeysBelowLength
<1>8. LeadersElected'
  BY <1>2 DEF LogInv, LeadersElected
<1> QED BY <1>6, <1>7, <1>8 DEF LogInv

\* Every other step changes no log, and makes a leader only by an election.
LEMMA NextLogInv ==
    ASSUME TypeOK, TypeOK', HeartbeatsOnly, LogInv, StablePeers, [Next]_vars
    PROVE  LogInv'
<1> DEFINE Lead(i) == state'[i] = "Leader" =>
                         \/ state[i] = "Leader" /\ currentTerm'[i] = currentTerm[i]
                         \/ <<i, currentTerm'[i]>> \in elections'
<1>1. ASSUME logs' = logs, UNCHANGED <<peerVars, historyVars>> PROVE LogInv'
  BY <1>1, LogsKept DEF peerVars, historyVars
<1>2. ASSUME NEW m \in rpcs, m.to \in Server, StepDown(m.to, m.term), logs' = logs, UNCHANGED historyVars
      PROVE  LogInv'
  <2>1. elections' = elections /\ \A i \in Server : Lead(i)
    BY <1>2, Zenon DEF StepDown, historyVars, TypeOK
  <2> QED BY <1>2, <2>1, LogsKept, Zenon
<1>3. ASSUME NEW i \in Server, StartElection(i) PROVE LogInv'
  <2>1. logs' = logs /\ elections' = elections
    BY <1>3, Zenon DEF StartElection, logVars
  <2>2. \A p \in Server : Lead(p)
    <3>1. state' = [state EXCEPT ![i] = "Candidate"] /\ currentTerm' = [currentTerm EXCEPT ![i] = @ + 1]
      BY <1>3, Zenon DEF StartElection
    <3>2. \A p \in Server : p # i => state'[p] = state[p] /\ currentTerm'[p] = currentTerm[p]
      BY <3>1, Zenon DEF TypeOK
    <3>3. state'[i] = "Candidate"
      BY <3>1, Zenon DEF TypeOK
    <3> QED BY <3>2, <3>3
  <2> QED BY <2>1, <2>2, LogsKept
<1>4. ASSUME NEW i \in Server, SendHeartbeats(i) PROVE LogInv'
  BY <1>1, <1>4, Zenon DEF SendHeartbeats, logVars
<1>5. ASSUME NEW i \in Server, Start(i) PROVE LogInv'
  BY <1>5, StartKeepsLogInv
<1>6. ASSUME NEW m \in rpcs, RequestVote(m) PROVE LogInv'
  <2>1. m.to \in Server /\ m.term \in Term
    BY <1>6, RequestType, Zenon DEF RequestVote, Requests
  <2>2. logs' = logs /\ elections' = elections
    BY <1>6, Zenon DEF RequestVote, logVars
  <2>3. \A p \in Server : Lead(p)
    BY <1>6, <2>1 DEF RequestVote, TypeOK
  <2> QED BY <2>2, <2>3, LogsKept
<1>7. ASSUME NEW m \in rpcs, HandleVoteReply(m) PROVE LogInv'
  <2>1. m.to \in Server
    BY <1>7, ReplyType, Zenon DEF HandleVoteReply, Replies
  <2>2. logs' = logs
    BY <1>7, Zenon DEF HandleVoteReply, logVars
  <2>3. CASE UNCHANGED <<peerVars, historyVars>>
    BY <1>1, <2>2, <2>3
  <2>4. CASE StepDown(m.to, m.term) /\ UNCHANGED historyVars
    BY <1>2, <2>1, <2>2, <2>4
  <2>5. CASE CountVote(m)
    <3> DEFINE won == IsMajority(votesReceived[m.to][m.argsTerm] + 1)
    <3>1. /\ state' = [state EXCEPT ![m.to] = IF won THEN "Leader" ELSE @]
          /\ elections' = IF won THEN elections \cup {<<m.to, currentTerm[m.to]>>} ELSE elections
          /\ currentTerm' = currentTerm
      BY <2>5, Zenon DEF CountVote
    <3> HIDE DEF won
    <3>2. elections \subseteq elections' /\ \A p \in Server : Lead(p)
      BY <2>1, <3>1, Zenon DEF TypeOK
    <3> QED BY <2>2, <3>2, LogsKept, Zenon
  <2> QED BY <1>7, <2>3, <2>4, <2>5, Zenon DEF HandleVoteReply
<1>8. ASSUME NEW m \in rpcs, AppendEntries(m) PROVE LogInv'
  <2>1. m \in AppendEntriesArgs
    BY <1>8, Zenon DEF AppendEntries, TypeOK, Message, RequestVoteArgs, RequestVoteReply, AppendEntriesReply
  <2>2. m.to \in Server /\ logs' = logs
    BY <1>8, <2>1, HeartbeatsKeepLogs DEF AppendEntriesArgs
  <2>3. UNCHANGED historyVars /\ (UNCHANGED peerVars \/ StepDown(m.to, m.term))
    BY <1>8, Zenon DEF AppendEntries
  <2> QED BY <1>1, <1>2, <2>2, <2>3
<1>9. ASSUME NEW m \in rpcs, HandleHeartbeatReply(m) PROVE LogInv'
  <2>1. m \in AppendEntriesReply
    BY <1>9, Zenon DEF HandleHeartbeatReply, TypeOK, Message, RequestVoteArgs, RequestVoteReply, AppendEntriesArgs
  <2>2. m.to \in Server /\ logs' = logs
    BY <1>9, <2>1, Zenon DEF HandleHeartbeatReply, AppendEntriesReply, logVars
  <2>3. UNCHANGED historyVars /\ (UNCHANGED peerVars \/ StepDown(m.to, m.term))
    BY <1>9, Zenon DEF HandleHeartbeatReply
  <2> QED BY <1>1, <1>2, <2>2, <2>3
<1>10. ASSUME NEW m \in rpcs, Lose(m) PROVE LogInv'
  BY <1>1, <1>10 DEF Lose, logVars
<1>11. ASSUME UNCHANGED vars PROVE LogInv'
  BY <1>1, <1>11 DEF vars, logVars
<1> QED BY <1>3, <1>4, <1>5, <1>6, <1>7, <1>8, <1>9, <1>10, <1>11 DEF Next, PeerStep, Deliver

\* Every log starts with the sentinel alone, and nobody leads.
LEMMA InitLogInv == Init => LogInv
<1> SUFFICES ASSUME Init PROVE LogInv
  OBVIOUS
<1>1. \A i \in Server : DOMAIN logs[i] = {0} /\ logs[i][0] = 0 /\ LogLen(i) = 1
  BY FS_Singleton, Zenon DEF Init, LogLen
<1>2. \A i \in Server : state[i] = "Follower"
  BY DEF Init
<1> QED BY <1>1, <1>2 DEF LogInv, LogProvenance, KeysBelowLength, LeadersElected

\* The invariant of the logs.
THEOREM LogInvariant == Spec => [](TypeOK /\ HeartbeatsOnly /\ LogInv)
<1>1. TypeOK /\ HeartbeatsOnly /\ LogInv /\ [Next]_vars => (TypeOK /\ HeartbeatsOnly /\ LogInv)'
  BY NextTypeOK, NextStable, NextLogInv
<1> QED BY <1>1, InitTypeOK, InitLogInv, PTL DEF Spec

\* Every entry of a log was appended by that peer as the elected leader of the
\* entry's term, and terms never decrease along a log.
THEOREM EntriesFromElectedLeaders == Spec => []LogProvenance
<1>1. LogInv => LogProvenance
  BY DEF LogInv
<1> QED BY <1>1, LogInvariant, PTL

\* No step removes or rewrites an entry of a leader: only Start changes a log, and
\* writes behind its last entry.
THEOREM LeaderLogsGrow == Spec => LeaderAppendOnly
<1> DEFINE Grow == \A i \in Server : state[i] = "Leader" =>
                      \A k \in DOMAIN logs[i] : k \in DOMAIN logs'[i] /\ logs'[i][k] = logs[i][k]
<1>1. TypeOK /\ HeartbeatsOnly /\ LogInv /\ [Next]_vars => [Grow]_vars
  <2> SUFFICES ASSUME TypeOK, HeartbeatsOnly, LogInv, Next PROVE Grow
    OBVIOUS
  <2>1. ASSUME NEW i \in Server, Start(i) PROVE Grow
    BY <2>1, StartEffect, Zenon DEF LogInv
  <2>2. logs' = logs \/ \E i \in Server : Start(i)
    BY HeartbeatsKeepLogs, Zenon
       DEF Next, PeerStep, Deliver, StartElection, SendHeartbeats, RequestVote, HandleVoteReply,
           HandleHeartbeatReply, Lose, logVars
  <2> QED BY <2>1, <2>2
<1> QED BY <1>1, LogInvariant, PTL DEF Spec, LeaderAppendOnly

-----------------------------------------------------------------------------
(***************************************************************************)
(* Restarts.  A peer that was killed comes back without its term, its vote *)
(* and its elections.  Its old calls are told apart by the instance that   *)
(* made them, so that behind every leader there is a majority of distinct  *)
(* votes, for any number of peers, terms and restarts.                     *)
(***************************************************************************)

\* The initial log of an instance is well typed.
LEMMA EmptyLogType == [k \in {0} |-> 0] \in Log
  BY LogType, ZeroTerm, BoundAssumption

\* A restart sets the variables of a peer to their initial values.
LEMMA RestartTypeOK ==
    ASSUME TypeOK, HeartbeatsOnly, NEW i \in Server, Restart(i)
    PROVE  TypeOK' /\ HeartbeatsOnly'
<1>1. logs' \in [Server -> Log]
  <2>1. logs' = [logs EXCEPT ![i] = [k \in {0} |-> 0]]
    BY Zenon DEF Restart
  <2> QED BY <2>1, EmptyLogType DEF TypeOK
<1>2. /\ state' \in [Server -> {"Follower", "Candidate", "Leader"}]
      /\ currentTerm' \in [Server -> Term]
      /\ votedFor' \in [Server -> Server \cup {NoVote}]
  BY ZeroTerm, Zenon DEF Restart, TypeOK
<1>3. commitIndex' \in [Server -> Nat] /\ incarnation' \in [Server -> Nat]
  BY DEF Restart, TypeOK
<1>4. nextIndex' \in [Server -> [Server -> Nat]] /\ matchIndex' \in [Server -> [Server -> Nat]]
  BY Zenon DEF Restart, TypeOK
<1>5. UNCHANGED <<votesReceived, rpcs, ballots, counted, elections>>
  BY DEF Restart, historyVars
<1> QED BY <1>1, <1>2, <1>3, <1>4, <1>5, Zenon DEF TypeOK, HeartbeatsOnly

\* The instance that a call belongs to.
LEMMA InstanceType ==
    ASSUME TypeOK
    PROVE  /\ \A m \in Requests \cup Replies : m.incarnation \in Nat
           /\ \A p \in Server : incarnation[p] \in Nat /\ currentTerm[p] \in Nat
<1>1. \A m \in Requests \cup Replies : m \in RequestVoteArgs \cup RequestVoteReply
  BY Zenon DEF TypeOK, Message, Requests, Replies, RequestVoteArgs, RequestVoteReply, AppendEntriesArgs,
         AppendEntriesReply
<1>2. \A m \in RequestVoteArgs \cup RequestVoteReply : m.incarnation \in Nat
  BY DEF RequestVoteArgs, RequestVoteReply
<1>3. \A p \in Server : incarnation[p] \in Nat /\ currentTerm[p] \in Nat
  BY TermNat, Zenon DEF TypeOK
<1> QED BY <1>1, <1>2, <1>3

\* A step that counts no vote, asks nothing and answers nothing, and after which
\* only those lead or compete who did so in the same term before.
LEMMA QuietQuorum ==
    ASSUME TypeOK, TypeOK', QuorumInv,
           Requests' \subseteq Requests, Replies' \subseteq Replies,
           ballots \subseteq ballots', UNCHANGED <<counted, votesReceived>>,
           \A p \in Server :
               /\ incarnation[p] <= incarnation'[p]
               /\ incarnation'[p] = incarnation[p] => currentTerm[p] <= currentTerm'[p]
               /\ state'[p] # "Follower" => state'[p] = state[p] /\ currentTerm'[p] = currentTerm[p]
    PROVE  QuorumInv'
<1>1. \A p \in Server : /\ incarnation[p] \in Nat /\ currentTerm[p] \in Nat
                        /\ incarnation'[p] \in Nat /\ currentTerm'[p] \in Nat
  BY TermNat, Zenon DEF TypeOK
<1>2. QuorumBehindLeader'
  BY Zenon DEF QuorumInv, QuorumBehindLeader, IsMajority
<1>3. AskedOnce'
  <2> SUFFICES ASSUME NEW m \in Requests'
               PROVE  /\ m.from # m.to
                      /\ m.incarnation <= incarnation'[m.from]
                      /\ m.incarnation = incarnation'[m.from] =>
                            m.term <= currentTerm'[m.from] /\ m.to \notin counted[m.from][m.term]
                      /\ \A n \in Requests' :
                            n.from = m.from /\ n.to = m.to /\ n.term = m.term /\ n.incarnation = m.incarnation => n = m
                      /\ \A n \in Replies' :
                            ~(n.to = m.from /\ n.from = m.to /\ n.argsTerm = m.term /\ n.incarnation = m.incarnation)
    BY Zenon DEF AskedOnce
  <2>1. m \in Requests /\ m.from \in Server /\ m.term \in Nat /\ m.incarnation \in Nat
    BY RequestType, InstanceType, TermNat, Zenon
  <2>2. /\ m.incarnation <= incarnation[m.from]
        /\ m.incarnation = incarnation[m.from] =>
              m.term <= currentTerm[m.from] /\ m.to \notin counted[m.from][m.term]
    BY <2>1, Zenon DEF QuorumInv, AskedOnce
  <2>3. /\ m.incarnation <= incarnation'[m.from]
        /\ m.incarnation = incarnation'[m.from] =>
              m.term <= currentTerm'[m.from] /\ m.to \notin counted[m.from][m.term]
    BY <1>1, <2>1, <2>2
  <2> QED BY <2>1, <2>3, Zenon DEF QuorumInv, AskedOnce
<1>4. AnsweredOnce'
  <2> SUFFICES ASSUME NEW m \in Replies'
               PROVE  /\ m.incarnation <= incarnation'[m.to]
                      /\ m.incarnation = incarnation'[m.to] =>
                            m.argsTerm <= currentTerm'[m.to] /\ m.from \notin counted[m.to][m.argsTerm]
                      /\ m.voteGranted => <<m.from, m.argsTerm, m.to>> \in ballots'
                      /\ \A n \in Replies' :
                            n.from = m.from /\ n.to = m.to /\ n.argsTerm = m.argsTerm /\ n.incarnation = m.incarnation => n = m
    BY Zenon DEF AnsweredOnce
  <2>1. m \in Replies /\ m.to \in Server /\ m.argsTerm \in Nat /\ m.incarnation \in Nat
    BY ReplyType, InstanceType, TermNat, Zenon
  <2>2. /\ m.incarnation <= incarnation[m.to]
        /\ m.incarnation = incarnation[m.to] =>
              m.argsTerm <= currentTerm[m.to] /\ m.from \notin counted[m.to][m.argsTerm]
    BY <2>1, Zenon DEF QuorumInv, AnsweredOnce
  <2>3. /\ m.incarnation <= incarnation'[m.to]
        /\ m.incarnation = incarnation'[m.to] =>
              m.argsTerm <= currentTerm'[m.to] /\ m.from \notin counted[m.to][m.argsTerm]
    BY <1>1, <2>1, <2>2
  <2> QED BY <2>1, <2>3, Zenon DEF QuorumInv, AnsweredOnce
<1> QED BY <1>2, <1>3, <1>4 DEF QuorumInv

\* A candidate starts an election: in a term that this instance never asked
\* about, although a killed one may have done so.
LEMMA StartElectionQuorum ==
    ASSUME TypeOK, QuorumInv, NEW i \in Server, StartElection(i)
    PROVE  QuorumInv'
<1> DEFINE t == currentTerm[i] + 1
           args(j) == [type |-> "RequestVote", from |-> i, to |-> j,
                       incarnation |-> incarnation[i], term |-> t,
                       lastLogIndex |-> LogLen(i), lastLogTerm |-> LastLogTerm(i)]
<1>1. /\ currentTerm' = [currentTerm EXCEPT ![i] = t]
      /\ state' = [state EXCEPT ![i] = "Candidate"]
      /\ votesReceived' = [votesReceived EXCEPT ![i][t] = 1]
      /\ rpcs' = rpcs \cup {args(j) : j \in Peers(i)}
      /\ ballots' = ballots \cup {<<i, t, i>>}
      /\ counted' = [counted EXCEPT ![i][t] = {i}]
      /\ incarnation' = incarnation
  BY Zenon DEF StartElection, SendAll
<1>2. \A p \in Server : currentTerm[p] \in Nat /\ incarnation[p] \in Nat
  BY InstanceType
<1>3. t \in Term /\ t \in Nat /\ t > currentTerm[i]
  <2>1. t \in Term
    BY <1>2, BoundAssumption DEF StartElection, Term
  <2> QED BY <1>2, <2>1
<1>4. \A m \in Requests : m.from = i /\ m.incarnation = incarnation[i] => m.term < t
  <2> SUFFICES ASSUME NEW m \in Requests, m.from = i, m.incarnation = incarnation[i] PROVE m.term < t
    OBVIOUS
  <2>1. m.term \in Nat /\ m.term <= currentTerm[i]
    BY RequestType, TermNat, Zenon DEF QuorumInv, AskedOnce
  <2> QED BY <1>2, <2>1
<1>5. \A m \in Replies : m.to = i /\ m.incarnation = incarnation[i] => m.argsTerm < t
  <2> SUFFICES ASSUME NEW m \in Replies, m.to = i, m.incarnation = incarnation[i] PROVE m.argsTerm < t
    OBVIOUS
  <2>1. m.argsTerm \in Nat /\ m.argsTerm <= currentTerm[i]
    BY ReplyType, TermNat, Zenon DEF QuorumInv, AnsweredOnce
  <2> QED BY <1>2, <2>1
<1>6. Requests' = Requests \cup {args(j) : j \in Peers(i)} /\ Replies' = Replies
  BY <1>1 DEF Requests, Replies
<1>7. \A p \in Server : \A u \in Term :
        /\ <<p, u>> = <<i, t>> => counted'[p][u] = {i} /\ votesReceived'[p][u] = 1
        /\ <<p, u>> # <<i, t>> => counted'[p][u] = counted[p][u] /\ votesReceived'[p][u] = votesReceived[p][u]
  <2> TAKE p \in Server
  <2> TAKE u \in Term
  <2>1. /\ counted \in [Server -> [Term -> SUBSET Server]] /\ counted[p] \in [Term -> SUBSET Server]
        /\ votesReceived \in [Server -> [Term -> Nat]] /\ votesReceived[p] \in [Term -> Nat]
    BY Zenon DEF TypeOK
  <2> HIDE DEF t
  <2>2. CASE p # i
    BY <1>1, <2>1, <2>2, Zenon
  <2>3. CASE p = i
    BY <1>1, <1>3, <2>1, <2>3, Zenon
  <2> QED BY <2>2, <2>3, Zenon
<1>8. \A p \in Server : /\ currentTerm'[p] = (IF p = i THEN t ELSE currentTerm[p])
                        /\ state'[p] = (IF p = i THEN "Candidate" ELSE state[p])
                        /\ currentTerm[p] \in Term
  <2>1. currentTerm \in [Server -> Term] /\ state \in [Server -> {"Follower", "Candidate", "Leader"}]
    BY Zenon DEF TypeOK
  <2> HIDE DEF t
  <2> QED BY <1>1, <2>1, Zenon
<1> HIDE DEF t
<1>9. QuorumBehindLeader'
  <2> SUFFICES ASSUME NEW p \in Server, state'[p] # "Follower", NEW u \in Term, u = currentTerm'[p]
               PROVE  /\ votesReceived'[p][u] = Cardinality(counted'[p][u])
                      /\ \A j \in counted'[p][u] : <<j, u, p>> \in ballots'
                      /\ state'[p] = "Leader" => IsMajority(votesReceived'[p][u])
    <3>1. \A p \in Server : currentTerm'[p] \in Term
      BY <1>3, <1>8, Zenon
    <3> QED BY <3>1, Zenon DEF QuorumBehindLeader, IsMajority
  <2>1. CASE p = i
    <3>1. u = t /\ state'[p] = "Candidate"
      BY <1>8, <2>1, Zenon
    <3>2. counted'[p][u] = {i} /\ votesReceived'[p][u] = 1
      BY <1>7, <2>1, <3>1, Zenon
    <3>3. Cardinality({i}) = 1
      BY FS_Singleton, Zenon
    <3> QED BY <1>1, <2>1, <3>1, <3>2, <3>3, Zenon
  <2>2. CASE p # i
    <3>1. u = currentTerm[p] /\ state'[p] = state[p]
      BY <1>8, <2>2, Zenon
    <3>2. counted'[p][u] = counted[p][u] /\ votesReceived'[p][u] = votesReceived[p][u]
      BY <1>7, <2>2, Zenon
    <3> QED BY <1>1, <3>1, <3>2, Zenon DEF QuorumInv, QuorumBehindLeader
  <2> QED BY <2>1, <2>2, Zenon
<1>10. AskedOnce'
  <2> SUFFICES ASSUME NEW m \in Requests'
               PROVE  /\ m.from # m.to
                      /\ m.incarnation <= incarnation[m.from]
                      /\ m.incarnation = incarnation[m.from] =>
                            m.term <= currentTerm'[m.from] /\ m.to \notin counted'[m.from][m.term]
                      /\ \A n \in Requests' :
                            n.from = m.from /\ n.to = m.to /\ n.term = m.term /\ n.incarnation = m.incarnation => n = m
                      /\ \A n \in Replies :
                            ~(n.to = m.from /\ n.from = m.to /\ n.argsTerm = m.term /\ n.incarnation = m.incarnation)
    BY <1>1, <1>6, Zenon DEF AskedOnce
  <2>1. CASE m \in Requests
    <3>1. m.from \in Server /\ m.to \in Server /\ m.term \in Term /\ m.term \in Nat
      BY <2>1, RequestType, TermNat, Zenon
    <3>2. m.incarnation = incarnation[m.from] => <<m.from, m.term>> # <<i, t>>
      BY <1>3, <1>4, <2>1, <3>1
    <3>3. m.incarnation = incarnation[m.from] =>
             m.term <= currentTerm[m.from] /\ m.to \notin counted[m.from][m.term]
      BY <2>1, Zenon DEF QuorumInv, AskedOnce
    <3>4. m.incarnation = incarnation[m.from] => m.term <= currentTerm'[m.from]
      BY <1>2, <1>3, <1>4, <1>8, <2>1, <3>1, <3>3
    <3>5. m.incarnation = incarnation[m.from] => m.to \notin counted'[m.from][m.term]
      BY <1>7, <3>1, <3>2, <3>3
    <3>6. \A j \in Peers(i) : args(j).from = m.from /\ args(j).term = m.term => args(j).incarnation # m.incarnation
      BY <3>2, Zenon
    <3> QED BY <1>6, <2>1, <3>4, <3>5, <3>6, Zenon DEF QuorumInv, AskedOnce
  <2>2. CASE \E j \in Peers(i) : m = args(j)
    <3>1. PICK j \in Peers(i) : m = args(j)
      BY <2>2, Zenon
    <3>2. m.from = i /\ m.to = j /\ m.term = t /\ m.incarnation = incarnation[i] /\ j # i /\ j \in Server
      BY <3>1, Zenon DEF Peers
    <3>3. \A n \in Requests : ~(n.from = i /\ n.term = t /\ n.incarnation = incarnation[i])
      BY <1>3, <1>4, RequestType, TermNat
    <3>4. \A n \in Replies : ~(n.to = i /\ n.argsTerm = t /\ n.incarnation = incarnation[i])
      BY <1>3, <1>5, ReplyType, TermNat
    <3>5. \A n \in Requests' : n.from = i /\ n.to = j /\ n.term = t /\ n.incarnation = incarnation[i] => n = m
      BY <1>6, <3>1, <3>3
    <3>6. counted'[i][t] = {i} /\ currentTerm'[i] = t
      BY <1>3, <1>7, <1>8, Zenon
    <3> QED BY <1>2, <1>3, <3>2, <3>4, <3>5, <3>6
  <2> QED BY <1>6, <2>1, <2>2, Zenon
<1>11. AnsweredOnce'
  <2> SUFFICES ASSUME NEW m \in Replies
               PROVE  /\ m.incarnation <= incarnation[m.to]
                      /\ m.incarnation = incarnation[m.to] =>
                            m.argsTerm <= currentTerm'[m.to] /\ m.from \notin counted'[m.to][m.argsTerm]
                      /\ m.voteGranted => <<m.from, m.argsTerm, m.to>> \in ballots'
                      /\ \A n \in Replies :
                            n.from = m.from /\ n.to = m.to /\ n.argsTerm = m.argsTerm /\ n.incarnation = m.incarnation => n = m
    BY <1>1, <1>6, Zenon DEF AnsweredOnce
  <2>1. m.from \in Server /\ m.to \in Server /\ m.argsTerm \in Term /\ m.argsTerm \in Nat
    BY ReplyType, TermNat, Zenon
  <2>2. m.incarnation = incarnation[m.to] => <<m.to, m.argsTerm>> # <<i, t>>
    BY <1>3, <1>5, <2>1
  <2>3. m.incarnation = incarnation[m.to] =>
           m.argsTerm <= currentTerm[m.to] /\ m.from \notin counted[m.to][m.argsTerm]
    BY Zenon DEF QuorumInv, AnsweredOnce
  <2>4. m.incarnation = incarnation[m.to] => m.argsTerm <= currentTerm'[m.to]
    BY <1>2, <1>3, <1>5, <1>8, <2>1, <2>3
  <2>5. m.incarnation = incarnation[m.to] => m.from \notin counted'[m.to][m.argsTerm]
    BY <1>7, <2>1, <2>2, <2>3, Zenon
  <2> QED BY <1>1, <2>4, <2>5, Zenon DEF QuorumInv, AnsweredOnce
<1> QED BY <1>9, <1>10, <1>11 DEF QuorumInv

\* A peer answers a vote request: the answer takes the place of the request, and
\* a granted one stands for a vote that is on record.
LEMMA RequestVoteQuorum ==
    ASSUME TypeOK, TypeOK', QuorumInv, NEW m \in rpcs, RequestVote(m)
    PROVE  QuorumInv'
<1>1. m \in Requests
  BY Zenon DEF RequestVote, Requests
<1> SUFFICES ASSUME NEW i \in Server, NEW c \in Server, NEW t \in Term, NEW g \in BOOLEAN,
                    i = m.to, c = m.from, t = m.term, g = CanVote(m)
             PROVE  QuorumInv'
  <2>1. CanVote(m) \in BOOLEAN
    BY Zenon DEF CanVote, isLogUpToDate
  <2> QED BY <1>1, <2>1, RequestType, Zenon
<1> DEFINE reply == [type |-> "RequestVoteReply", from |-> i, to |-> c,
                     incarnation |-> m.incarnation, argsTerm |-> t,
                     term |-> IF t > currentTerm[i] THEN t ELSE currentTerm[i],
                     voteGranted |-> g]
<1>2. /\ rpcs' = (rpcs \ {m}) \cup {reply}
      /\ currentTerm' = [currentTerm EXCEPT ![i] = IF t > currentTerm[i] THEN t ELSE currentTerm[i]]
      /\ state' = [state EXCEPT ![i] = IF t > currentTerm[i] THEN "Follower" ELSE @]
      /\ ballots' = IF g THEN ballots \cup {<<i, t, c>>} ELSE ballots
      /\ UNCHANGED <<votesReceived, counted, incarnation>>
  BY Zenon DEF RequestVote, leaderVars
<1>3. \A p \in Server : currentTerm[p] \in Nat /\ incarnation[p] \in Nat
  BY InstanceType, Zenon
<1>4. t \in Nat
  BY TermNat, Zenon
<1>5. \A p \in Server : /\ currentTerm[p] <= currentTerm'[p]
                        /\ state'[p] # "Follower" => state'[p] = state[p] /\ currentTerm'[p] = currentTerm[p]
  <2>1. currentTerm \in [Server -> Term] /\ state \in [Server -> {"Follower", "Candidate", "Leader"}]
    BY Zenon DEF TypeOK
  <2>2. \A p \in Server \ {i} : currentTerm'[p] = currentTerm[p] /\ state'[p] = state[p]
    BY <1>2, <2>1, Zenon
  <2>3. /\ currentTerm'[i] = IF t > currentTerm[i] THEN t ELSE currentTerm[i]
        /\ state'[i] = IF t > currentTerm[i] THEN "Follower" ELSE state[i]
    BY <1>2, <2>1, Zenon
  <2> QED BY <1>3, <1>4, <2>2, <2>3
<1>6. Requests' = Requests \ {m} /\ Replies' = Replies \cup {reply}
  <2>1. m.type = "RequestVote" /\ reply.type = "RequestVoteReply"
    BY <1>1, Zenon DEF Requests
  <2> QED BY <1>2, <2>1, Zenon DEF Requests, Replies
<1>r. /\ reply.from = i /\ reply.to = c /\ reply.argsTerm = t /\ reply.voteGranted = g
      /\ reply.incarnation = m.incarnation
  BY Zenon
<1> HIDE DEF reply
<1>7. /\ c # i
      /\ m.incarnation <= incarnation[c]
      /\ m.incarnation = incarnation[c] => t <= currentTerm[c] /\ i \notin counted[c][t]
      /\ \A n \in Requests : n.from = c /\ n.to = i /\ n.term = t /\ n.incarnation = m.incarnation => n = m
      /\ \A n \in Replies : ~(n.to = c /\ n.from = i /\ n.argsTerm = t /\ n.incarnation = m.incarnation)
  BY <1>1, Zenon DEF QuorumInv, AskedOnce
<1>8. ballots \subseteq ballots'
  BY <1>2, Zenon
<1>9. QuorumBehindLeader'
  <2> SUFFICES ASSUME NEW p \in Server, state'[p] # "Follower"
               PROVE  /\ votesReceived[p][currentTerm[p]] = Cardinality(counted[p][currentTerm[p]])
                      /\ \A j \in counted[p][currentTerm[p]] : <<j, currentTerm[p], p>> \in ballots'
                      /\ state'[p] = "Leader" => IsMajority(votesReceived[p][currentTerm[p]])
    BY <1>2, <1>5, Zenon DEF QuorumBehindLeader, IsMajority
  <2>1. state'[p] = state[p]
    BY <1>5, Zenon
  <2> QED BY <1>8, <2>1, Zenon DEF QuorumInv, QuorumBehindLeader
<1>10. AskedOnce'
  <2> SUFFICES ASSUME NEW n \in Requests'
               PROVE  /\ n.from # n.to
                      /\ n.incarnation <= incarnation[n.from]
                      /\ n.incarnation = incarnation[n.from] =>
                            n.term <= currentTerm'[n.from] /\ n.to \notin counted[n.from][n.term]
                      /\ \A q \in Requests' :
                            q.from = n.from /\ q.to = n.to /\ q.term = n.term /\ q.incarnation = n.incarnation => q = n
                      /\ \A q \in Replies' :
                            ~(q.to = n.from /\ q.from = n.to /\ q.argsTerm = n.term /\ q.incarnation = n.incarnation)
    BY <1>2, Zenon DEF AskedOnce
  <2>1. n \in Requests /\ n # m
    BY <1>6, Zenon
  <2>2. n.from \in Server /\ n.term \in Nat
    BY <2>1, RequestType, TermNat, Zenon
  <2>3. n.incarnation = incarnation[n.from] =>
           n.term <= currentTerm[n.from] /\ n.to \notin counted[n.from][n.term]
    BY <2>1, Zenon DEF QuorumInv, AskedOnce
  <2>4. n.incarnation = incarnation[n.from] => n.term <= currentTerm'[n.from]
    <3>1. currentTerm[n.from] \in Nat /\ currentTerm'[n.from] \in Nat /\ currentTerm[n.from] <= currentTerm'[n.from]
      BY <1>5, <2>2, TermNat, Zenon DEF TypeOK
    <3> QED BY <2>2, <2>3, <3>1
  <2>5. ~(reply.to = n.from /\ reply.from = n.to /\ reply.argsTerm = n.term /\ reply.incarnation = n.incarnation)
    BY <1>r, <1>7, <2>1, Zenon
  <2> QED BY <1>6, <2>1, <2>3, <2>4, <2>5, Zenon DEF QuorumInv, AskedOnce
<1>11. AnsweredOnce'
  <2> SUFFICES ASSUME NEW n \in Replies'
               PROVE  /\ n.incarnation <= incarnation[n.to]
                      /\ n.incarnation = incarnation[n.to] =>
                            n.argsTerm <= currentTerm'[n.to] /\ n.from \notin counted[n.to][n.argsTerm]
                      /\ n.voteGranted => <<n.from, n.argsTerm, n.to>> \in ballots'
                      /\ \A q \in Replies' :
                            q.from = n.from /\ q.to = n.to /\ q.argsTerm = n.argsTerm /\ q.incarnation = n.incarnation => q = n
    BY <1>2, Zenon DEF AnsweredOnce
  <2>0. \A p \in Server : currentTerm'[p] \in Nat
    BY TermNat, Zenon DEF TypeOK
  <2>1. CASE n = reply
    <3>1. /\ n.argsTerm = t /\ n.to = c /\ n.from = i /\ n.voteGranted = g
          /\ n.incarnation = m.incarnation
      BY <1>r, <2>1, Zenon
    <3>2. m.incarnation = incarnation[c] => t <= currentTerm'[c]
      BY <1>3, <1>4, <1>5, <1>7, <2>0
    <3>3. g => <<i, t, c>> \in ballots'
      BY <1>2, Zenon
    <3> QED BY <1>6, <1>7, <2>1, <3>1, <3>2, <3>3, Zenon
  <2>2. CASE n \in Replies
    <3>1. n.to \in Server /\ n.argsTerm \in Nat
      BY <2>2, ReplyType, TermNat, Zenon
    <3>2. n.incarnation = incarnation[n.to] =>
             n.argsTerm <= currentTerm[n.to] /\ n.from \notin counted[n.to][n.argsTerm]
      BY <2>2, Zenon DEF QuorumInv, AnsweredOnce
    <3>3. n.incarnation = incarnation[n.to] => n.argsTerm <= currentTerm'[n.to]
      <4>1. currentTerm[n.to] \in Nat /\ currentTerm'[n.to] \in Nat /\ currentTerm[n.to] <= currentTerm'[n.to]
        BY <1>3, <1>5, <2>0, <3>1, Zenon
      <4> QED BY <3>1, <3>2, <4>1
    <3>4. ~(reply.from = n.from /\ reply.to = n.to /\ reply.argsTerm = n.argsTerm /\ reply.incarnation = n.incarnation)
      BY <1>r, <1>7, <2>2, Zenon
    <3> QED BY <1>6, <1>8, <2>2, <3>2, <3>3, <3>4, Zenon DEF QuorumInv, AnsweredOnce
  <2> QED BY <1>6, <2>1, <2>2, Zenon
<1> QED BY <1>9, <1>10, <1>11 DEF QuorumInv

\* A candidate counts a granted answer of its own instance and its own term: a
\* peer that it had not counted before.
LEMMA CountVoteQuorum ==
    ASSUME TypeOK, QuorumInv, NEW m \in rpcs,
           HandleVoteReply(m), ~StaleVoteReply(m), m.voteGranted, CountVote(m)
    PROVE  QuorumInv'
<1>1. m \in Replies
  BY Zenon DEF HandleVoteReply, Replies
<1> SUFFICES ASSUME NEW i \in Server, NEW v \in Server, NEW t \in Term,
                    i = m.to, v = m.from, t = m.argsTerm
             PROVE  QuorumInv'
  BY <1>1, ReplyType, Zenon
<1>2. currentTerm[i] = t /\ m.incarnation = incarnation[i] /\ state[i] = "Candidate"
  BY Zenon DEF StaleVoteReply
<1>3. /\ votesReceived' = [votesReceived EXCEPT ![i][t] = @ + 1]
      /\ counted' = [counted EXCEPT ![i][t] = @ \cup {v}]
      /\ state' = [state EXCEPT ![i] = IF IsMajority(votesReceived[i][t] + 1) THEN "Leader" ELSE @]
      /\ UNCHANGED <<currentTerm, ballots, incarnation>>
      /\ rpcs' = rpcs \ {m}
  BY <1>2, Zenon DEF CountVote, HandleVoteReply
<1>4. Requests' \subseteq Requests /\ Replies' = Replies \ {m}
  BY <1>3, Zenon DEF Requests, Replies
<1>5. /\ v \notin counted[i][t]
      /\ <<v, t, i>> \in ballots
      /\ \A n \in Replies : n.from = v /\ n.to = i /\ n.argsTerm = t /\ n.incarnation = incarnation[i] => n = m
  BY <1>1, <1>2, Zenon DEF QuorumInv, AnsweredOnce
<1>6. \A p \in Server, u \in Term :
        /\ <<p, u>> = <<i, t>> => /\ counted'[p][u] = counted[i][t] \cup {v}
                                 /\ votesReceived'[p][u] = votesReceived[i][t] + 1
        /\ <<p, u>> # <<i, t>> => counted'[p][u] = counted[p][u] /\ votesReceived'[p][u] = votesReceived[p][u]
  <2> TAKE p \in Server, u \in Term
  <2>1. /\ counted[p] \in [Term -> SUBSET Server] /\ votesReceived[p] \in [Term -> Nat]
        /\ counted \in [Server -> [Term -> SUBSET Server]]
        /\ votesReceived \in [Server -> [Term -> Nat]]
    BY Zenon DEF TypeOK
  <2>2. CASE p # i
    BY <1>3, <2>1, <2>2, Zenon
  <2>3. CASE p = i
    BY <1>3, <2>1, <2>3, Zenon
  <2> QED BY <2>2, <2>3, Zenon
<1>7. /\ votesReceived[i][t] = Cardinality(counted[i][t])
      /\ \A j \in counted[i][t] : <<j, t, i>> \in ballots
      /\ Cardinality(counted[i][t] \cup {v}) = Cardinality(counted[i][t]) + 1
  <2>1. /\ votesReceived[i][t] = Cardinality(counted[i][t])
        /\ \A j \in counted[i][t] : <<j, t, i>> \in ballots
    BY <1>2, Zenon DEF QuorumInv, QuorumBehindLeader
  <2>2. counted[i][t] \in SUBSET Server
    <3>1. counted \in [Server -> [Term -> SUBSET Server]]
      BY Zenon DEF TypeOK
    <3> QED BY <3>1, Zenon
  <2>3. IsFiniteSet(counted[i][t])
    BY <2>2, ServerAssumption, FS_Subset, Zenon
  <2>4. Cardinality(counted[i][t] \cup {v}) = Cardinality(counted[i][t]) + 1
    BY <1>5, <2>3, FS_AddElement, Zenon
  <2> QED BY <2>1, <2>4, Zenon
<1>8. QuorumBehindLeader'
  <2> SUFFICES ASSUME NEW p \in Server, state'[p] # "Follower", NEW u \in Term, u = currentTerm[p]
               PROVE  /\ votesReceived'[p][u] = Cardinality(counted'[p][u])
                      /\ \A j \in counted'[p][u] : <<j, u, p>> \in ballots
                      /\ state'[p] = "Leader" => IsMajority(votesReceived'[p][u])
    <3>1. \A p \in Server : currentTerm[p] \in Term
      BY Zenon DEF TypeOK
    <3> QED BY <1>3, <3>1, Zenon DEF QuorumBehindLeader, IsMajority
  <2>1. CASE p = i
    <3>1. u = t /\ counted'[p][u] = counted[i][t] \cup {v} /\ votesReceived'[p][u] = votesReceived[i][t] + 1
      BY <1>2, <1>6, <2>1
    <3>2. state'[p] = "Leader" => IsMajority(votesReceived[i][t] + 1)
      BY <1>2, <1>3, <2>1, Zenon DEF TypeOK
    <3>3. votesReceived'[p][u] = Cardinality(counted'[p][u])
      BY <1>7, <3>1, Zenon
    <3>4. \A j \in counted[i][t] : <<j, t, i>> \in ballots
      BY <1>7, Zenon
    <3> QED BY <1>5, <2>1, <3>1, <3>2, <3>3, <3>4, Zenon
  <2>2. CASE p # i
    <3>1. state'[p] = state[p]
      BY <1>3, <2>2, Zenon DEF TypeOK
    <3>2. counted'[p][u] = counted[p][u] /\ votesReceived'[p][u] = votesReceived[p][u]
      BY <1>6, <2>2, Zenon
    <3> QED BY <3>1, <3>2, Zenon DEF QuorumInv, QuorumBehindLeader
  <2> QED BY <2>1, <2>2, Zenon
<1>9. AskedOnce'
  <2> SUFFICES ASSUME NEW n \in Requests', n.incarnation = incarnation[n.from]
               PROVE  n.to \notin counted'[n.from][n.term]
    BY <1>3, <1>4, Zenon DEF QuorumInv, AskedOnce
  <2>1. n \in Requests /\ n.from \in Server /\ n.to \in Server /\ n.term \in Term
    BY <1>4, RequestType, Zenon
  <2>2. ~(n.from = i /\ n.to = v /\ n.term = t)
    BY <1>1, <1>2, <2>1 DEF QuorumInv, AskedOnce
  <2>3. n.to \notin counted[n.from][n.term]
    BY <2>1, Zenon DEF QuorumInv, AskedOnce
  <2> QED BY <1>6, <2>1, <2>2, <2>3
<1>10. AnsweredOnce'
  <2> SUFFICES ASSUME NEW n \in Replies', n.incarnation = incarnation[n.to]
               PROVE  n.from \notin counted'[n.to][n.argsTerm]
    BY <1>3, <1>4, Zenon DEF QuorumInv, AnsweredOnce
  <2>1. n \in Replies /\ n # m /\ n.from \in Server /\ n.to \in Server /\ n.argsTerm \in Term
    BY <1>4, ReplyType, Zenon
  <2>2. ~(n.from = v /\ n.to = i /\ n.argsTerm = t)
    BY <1>5, <2>1, Zenon
  <2>3. n.from \notin counted[n.to][n.argsTerm]
    BY <2>1, Zenon DEF QuorumInv, AnsweredOnce
  <2> QED BY <1>6, <2>1, <2>2, <2>3
<1> QED BY <1>8, <1>9, <1>10, Zenon DEF QuorumInv

\* A peer that adopts a higher term leads and competes no more.
LEMMA StepDownQuiet ==
    ASSUME TypeOK, NEW i \in Server, NEW t \in Term, t > currentTerm[i], StepDown(i, t)
    PROVE  \A p \in Server :
               /\ currentTerm[p] <= currentTerm'[p]
               /\ state'[p] # "Follower" => state'[p] = state[p] /\ currentTerm'[p] = currentTerm[p]
<1>1. \A p \in Server : currentTerm[p] \in Nat
  BY TermNat, Zenon DEF TypeOK
<1>2. t \in Nat
  BY TermNat
<1> QED BY <1>1, <1>2 DEF StepDown, TypeOK

\* Every step, a restart included, keeps the votes of the instances apart.
LEMMA NextQuorum ==
    ASSUME TypeOK, TypeOK', QuorumInv, [RestartNext]_vars
    PROVE  QuorumInv'
<1> DEFINE Peaceful == \A p \in Server :
               /\ currentTerm[p] <= currentTerm'[p]
               /\ state'[p] # "Follower" => state'[p] = state[p] /\ currentTerm'[p] = currentTerm[p]
           Silent == /\ Requests' \subseteq Requests /\ Replies' \subseteq Replies
                     /\ UNCHANGED <<ballots, counted, votesReceived>>
<1>t. \A p \in Server : currentTerm[p] \in Nat /\ incarnation[p] \in Nat
  BY InstanceType, Zenon
<1>0. Silent /\ Peaceful /\ incarnation' = incarnation => QuorumInv'
  BY <1>t, QuietQuorum
<1>a. UNCHANGED peerVars => Peaceful
  BY <1>t DEF peerVars
<1>1. ASSUME NEW i \in Server, StartElection(i) PROVE QuorumInv'
  BY <1>1, StartElectionQuorum
<1>2. ASSUME NEW i \in Server, SendHeartbeats(i) PROVE QuorumInv'
  <2>1. Requests' = Requests /\ Replies' = Replies
    <3> DEFINE args(j) == [type |-> "AppendEntries", from |-> i, to |-> j,
                           incarnation |-> incarnation[i], term |-> currentTerm[i],
                           prevLogIndex |-> 0, prevLogTerm |-> 0, entries |-> <<>>,
                           leaderCommit |-> commitIndex[i]]
               calls == {args(j) : j \in Peers(i)}
    <3>1. \A m \in rpcs' : m.type # "AppendEntries" => m \in rpcs
      <4>1. rpcs' = rpcs \cup calls
        BY <1>2, Zenon DEF SendHeartbeats, SendAll
      <4>2. \A m \in calls : m.type = "AppendEntries"
        OBVIOUS
      <4> HIDE DEF calls
      <4> QED BY <4>1, <4>2, Zenon
    <3>2. rpcs \subseteq rpcs'
      BY <1>2, Zenon DEF SendHeartbeats, SendAll
    <3> QED BY <3>1, <3>2 DEF Requests, Replies
  <2> QED BY <1>0, <1>a, <1>2, <2>1, Zenon DEF SendHeartbeats, leaderVars, historyVars
<1>3. ASSUME NEW i \in Server, Start(i) PROVE QuorumInv'
  BY <1>0, <1>a, <1>3, Zenon DEF Start, leaderVars, historyVars, Requests, Replies
<1>4. ASSUME NEW m \in rpcs, RequestVote(m) PROVE QuorumInv'
  BY <1>4, RequestVoteQuorum
<1>5. ASSUME NEW m \in rpcs, HandleVoteReply(m) PROVE QuorumInv'
  <2>1. Requests' \subseteq Requests /\ Replies' \subseteq Replies /\ incarnation' = incarnation
    BY <1>5, Zenon DEF HandleVoteReply, Requests, Replies
  <2>2. CASE UNCHANGED <<peerVars, leaderVars, historyVars>>
    BY <1>0, <1>a, <2>1, <2>2, Zenon DEF leaderVars, historyVars
  <2>3. CASE m.term > currentTerm[m.to] /\ StepDown(m.to, m.term) /\ UNCHANGED <<leaderVars, historyVars>>
    <3>1. m.to \in Server /\ m.term \in Term
      BY <1>5, ReplyType, Zenon DEF HandleVoteReply, Replies
    <3>2. Peaceful
      BY <2>3, <3>1, StepDownQuiet, Zenon
    <3> QED BY <1>0, <2>1, <2>3, <3>2, Zenon DEF leaderVars, historyVars
  <2>4. CASE ~StaleVoteReply(m) /\ m.voteGranted /\ CountVote(m)
    BY <1>5, <2>4, CountVoteQuorum
  <2> QED BY <1>5, <2>2, <2>3, <2>4, Zenon DEF HandleVoteReply
<1>6. ASSUME NEW m \in rpcs, AppendEntries(m) PROVE QuorumInv'
  <2>1. Silent /\ incarnation' = incarnation
    BY <1>6 DEF AppendEntries, Requests, Replies, leaderVars, historyVars
  <2>2. m.to \in Server /\ m.term \in Term
    <3>1. m \in AppendEntriesArgs
      BY <1>6, Zenon DEF AppendEntries, TypeOK, Message, RequestVoteArgs, RequestVoteReply, AppendEntriesReply
    <3> QED BY <3>1 DEF AppendEntriesArgs
  <2>3. CASE m.term > currentTerm[m.to] /\ StepDown(m.to, m.term)
    BY <1>0, <2>1, <2>2, <2>3, StepDownQuiet, Zenon
  <2>4. CASE UNCHANGED peerVars
    BY <1>0, <1>a, <2>1, <2>4, Zenon
  <2> QED BY <1>6, <2>3, <2>4, Zenon DEF AppendEntries
<1>7. ASSUME NEW m \in rpcs, HandleHeartbeatReply(m) PROVE QuorumInv'
  <2>1. Silent /\ incarnation' = incarnation
    BY <1>7, Zenon DEF HandleHeartbeatReply, Requests, Replies, leaderVars, historyVars
  <2>2. m.to \in Server /\ m.term \in Term
    <3>1. m \in AppendEntriesReply
      BY <1>7, Zenon DEF HandleHeartbeatReply, TypeOK, Message, RequestVoteArgs, RequestVoteReply, AppendEntriesArgs
    <3> QED BY <3>1 DEF AppendEntriesReply
  <2>3. CASE m.term > currentTerm[m.to] /\ StepDown(m.to, m.term)
    BY <1>0, <2>1, <2>2, <2>3, StepDownQuiet, Zenon
  <2>4. CASE UNCHANGED peerVars
    BY <1>0, <1>a, <2>1, <2>4, Zenon
  <2> QED BY <1>7, <2>3, <2>4, Zenon DEF HandleHeartbeatReply
<1>8. ASSUME NEW m \in rpcs, Lose(m) PROVE QuorumInv'
  <2>1. Silent /\ incarnation' = incarnation
    BY <1>8, Zenon DEF Lose, Requests, Replies, leaderVars, historyVars
  <2> QED BY <1>0, <1>a, <1>8, <2>1, Zenon DEF Lose
<1>9. ASSUME NEW i \in Server, Restart(i) PROVE QuorumInv'
  <2>1. Silent
    BY <1>9, Zenon DEF Restart, historyVars, Requests, Replies
  <2>2. \A p \in Server :
            /\ incarnation[p] <= incarnation'[p]
            /\ incarnation'[p] = incarnation[p] => currentTerm[p] <= currentTerm'[p]
            /\ state'[p] # "Follower" => state'[p] = state[p] /\ currentTerm'[p] = currentTerm[p]
    BY <1>t, <1>9 DEF Restart, TypeOK
  <2> QED BY <2>1, <2>2, QuietQuorum, Zenon
<1>10. ASSUME UNCHANGED vars PROVE QuorumInv'
  BY <1>0, <1>a, <1>10, Zenon DEF vars, leaderVars, historyVars, Requests, Replies
<1> QED BY <1>1, <1>2, <1>3, <1>4, <1>5, <1>6, <1>7, <1>8, <1>9, <1>10, Zenon
       DEF RestartNext, Next, PeerStep, Deliver

\* Nobody leads and no message is in flight at the start.
LEMMA InitQuorum == Init => QuorumInv
  BY Zenon DEF Init, QuorumInv, QuorumBehindLeader, AskedOnce, AnsweredOnce, Requests, Replies

\* A step of the peers or a restart preserves the types.
LEMMA RestartNextTypeOK ==
    ASSUME TypeOK, HeartbeatsOnly, [RestartNext]_vars
    PROVE  TypeOK' /\ HeartbeatsOnly'
<1>1. CASE [Next]_vars
  BY <1>1, NextTypeOK
<1>2. CASE \E i \in Server : Restart(i)
  BY <1>2, RestartTypeOK
<1> QED BY <1>1, <1>2 DEF RestartNext

\* With restarts, in which a peer forgets its term and its vote (persist() saves
\* nothing): the types, and the accounting of the votes by instance.
THEOREM RestartInvariant == RestartSpec => [](TypeOK /\ HeartbeatsOnly /\ QuorumInv)
<1>1. TypeOK /\ HeartbeatsOnly /\ QuorumInv /\ [RestartNext]_vars => (TypeOK /\ HeartbeatsOnly /\ QuorumInv)'
  BY RestartNextTypeOK, NextQuorum
<1> QED BY <1>1, InitTypeOK, InitQuorum, PTL DEF RestartSpec

\* Behind every leader there is a majority of distinct peers that voted for it
\* in its term, whatever restarts: the answers that requestVotes() waits for in
\* a killed instance are never counted by its successor.
THEOREM LeaderHasQuorum == RestartSpec => []QuorumBehindLeader
<1>1. QuorumInv => QuorumBehindLeader
  BY DEF QuorumInv
<1> QED BY <1>1, RestartInvariant, PTL

=============================================================================
