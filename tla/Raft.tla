-------------------------------- MODULE Raft --------------------------------
(***************************************************************************)
(* The Raft peer of raft1/raft.go: leader election, heartbeats, the local  *)
(* part of Start and the restart of a killed peer.  Every action is one    *)
(* critical section of rf.mu; the peers exchange RPCs over labrpc, which   *)
(* may delay, reorder or lose a request or a reply but executes a request  *)
(* at most once.                                                           *)
(*                                                                         *)
(* Abstractions.  Time: ticker() compares clocks with random timeouts, so  *)
(* here an election may start at any moment (module RaftTicker keeps the   *)
(* clocks).  A log entry is its term, since no code reads the command.     *)
(*                                                                         *)
(* An operator Op_fault is Op with a plausible mistake in it.  No          *)
(* specification uses it; put in the place of Op, it violates a property.  *)
(***************************************************************************)
EXTENDS Naturals, FiniteSets, Sequences

CONSTANTS Server,       \* the peers, rf.peers
          NoVote,       \* votedFor = -1
          MaxTerm,      \* bound: no election starts beyond this term
          MaxEntries,   \* bound: commands Start appends to one log
          MaxRpcs,      \* bound: requests and replies in flight at one time
          MaxRestarts   \* bound: restarts of one peer

ASSUME ServerAssumption == IsFiniteSet(Server) /\ NoVote \notin Server

ASSUME BoundAssumption ==
    MaxTerm \in Nat /\ MaxEntries \in Nat /\ MaxRpcs \in Nat /\ MaxRestarts \in Nat

VARIABLES state, currentTerm, votedFor, logs, commitIndex, nextIndex, matchIndex,
          votesReceived,   \* votesReceived[i][t]: the counter of i's election in term t
          incarnation,     \* how often Make has been called again for i
          rpcs             \* requests and replies in flight

(***************************************************************************)
(* History variables, read by no action: the votes cast so far, as         *)
(* <<voter, term, candidate>>; for each election the peers whose vote the  *)
(* counter includes; the peers that became leader, as <<peer, term>>.      *)
(***************************************************************************)
VARIABLES ballots, counted, elections

peerVars == <<state, currentTerm, votedFor>>

logVars == <<logs, commitIndex>>

leaderVars == <<nextIndex, matchIndex, votesReceived>>

historyVars == <<ballots, counted, elections>>

vars == <<peerVars, logVars, leaderVars, incarnation, rpcs, historyVars>>

Term == 0..MaxTerm

Peers(i) == Server \ {i}

\* A goroutine per call puts its request on the network.
SendAll(calls) ==
    /\ rpcs' = rpcs \cup calls
    /\ Cardinality(rpcs \cup calls) <= MaxRpcs

\* len(rf.logs): the number of keys of the map, the sentinel logs[0] included.
LogLen(i) == Cardinality(DOMAIN logs[i])

\* The term stored at key len(rf.logs), or 0 when the map has no such key.
LastLogTerm(i) == IF LogLen(i) \in DOMAIN logs[i] THEN logs[i][LogLen(i)] ELSE 0

isLogUpToDate(i, lastLogIndex, lastLogTerm) ==
    \/ lastLogTerm > LastLogTerm(i)
    \/ lastLogTerm = LastLogTerm(i) /\ lastLogIndex >= LogLen(i)

-----------------------------------------------------------------------------
RequestVoteArgs ==
    [type : {"RequestVote"}, from : Server, to : Server, incarnation : Nat,
     term : Term, lastLogIndex : Nat, lastLogTerm : Term]

RequestVoteReply ==
    [type : {"RequestVoteReply"}, from : Server, to : Server, incarnation : Nat,
     argsTerm : Term, term : Term, voteGranted : BOOLEAN]

AppendEntriesArgs ==
    [type : {"AppendEntries"}, from : Server, to : Server, incarnation : Nat,
     term : Term, prevLogIndex : Nat, prevLogTerm : Term, entries : Seq(Term),
     leaderCommit : Nat]

AppendEntriesReply ==
    [type : {"AppendEntriesReply"}, from : Server, to : Server, incarnation : Nat,
     term : Term, success : BOOLEAN]

\* A map from indices to the terms of the entries there, the sentinel included.
Log == UNION {[D -> Term] : D \in {E \in SUBSET (0..(MaxEntries + 1)) : 0 \in E}}

Message == RequestVoteArgs \cup RequestVoteReply \cup AppendEntriesArgs \cup AppendEntriesReply

TypeOK ==
    /\ state \in [Server -> {"Follower", "Candidate", "Leader"}]
    /\ currentTerm \in [Server -> Term]
    /\ votedFor \in [Server -> Server \cup {NoVote}]
    /\ logs \in [Server -> Log]
    /\ commitIndex \in [Server -> Nat]
    /\ nextIndex \in [Server -> [Server -> Nat]]
    /\ matchIndex \in [Server -> [Server -> Nat]]
    /\ votesReceived \in [Server -> [Term -> Nat]]
    /\ incarnation \in [Server -> Nat]
    /\ rpcs \subseteq Message
    /\ ballots \subseteq Server \X Term \X Server
    /\ counted \in [Server -> [Term -> SUBSET Server]]
    /\ elections \subseteq Server \X Term

Init ==
    /\ state = [i \in Server |-> "Follower"]
    /\ currentTerm = [i \in Server |-> 0]
    /\ votedFor = [i \in Server |-> NoVote]
    /\ logs = [i \in Server |-> [k \in {0} |-> 0]]
    /\ commitIndex = [i \in Server |-> 0]
    /\ nextIndex = [i \in Server |-> [j \in Server |-> 0]]
    /\ matchIndex = [i \in Server |-> [j \in Server |-> 0]]
    /\ votesReceived = [i \in Server |-> [t \in Term |-> 0]]
    /\ incarnation = [i \in Server |-> 0]
    /\ rpcs = {}
    /\ ballots = {}
    /\ counted = [i \in Server |-> [t \in Term |-> {}]]
    /\ elections = {}

-----------------------------------------------------------------------------
(* The election branch of ticker() and the calls requestVotes() starts.    *)

StartElection(i) ==
    LET t == currentTerm[i] + 1
        args(j) == [type |-> "RequestVote", from |-> i, to |-> j,
                    incarnation |-> incarnation[i], term |-> t,
                    lastLogIndex |-> LogLen(i), lastLogTerm |-> LastLogTerm(i)]
    IN /\ state[i] # "Leader"
       /\ t <= MaxTerm
       /\ state' = [state EXCEPT ![i] = "Candidate"]
       /\ currentTerm' = [currentTerm EXCEPT ![i] = t]
       /\ votedFor' = [votedFor EXCEPT ![i] = i]
       /\ votesReceived' = [votesReceived EXCEPT ![i][t] = 1]
       /\ SendAll({args(j) : j \in Peers(i)})
       /\ ballots' = ballots \cup {<<i, t, i>>}
       /\ counted' = [counted EXCEPT ![i][t] = {i}]
       /\ UNCHANGED <<logVars, nextIndex, matchIndex, incarnation, elections>>

StepDown_ZeroVote(i, t) ==
    /\ currentTerm' = [currentTerm EXCEPT ![i] = t]
    /\ state' = [state EXCEPT ![i] = "Follower"]
    /\ votedFor' = [votedFor EXCEPT ![i] = 0]

\* A peer that learns of a higher term adopts it, as a follower without a vote.
StepDown(i, t) ==
    /\ currentTerm' = [currentTerm EXCEPT ![i] = t]
    /\ state' = [state EXCEPT ![i] = "Follower"]
    /\ votedFor' = [votedFor EXCEPT ![i] = NoVote]

\* Whom i has voted for once it has adopted the term of the request.
VoteIn(i, t) == IF t > currentTerm[i] THEN NoVote ELSE votedFor[i]

CanVote_VotedForIgnored(m) ==
    /\ m.term >= currentTerm[m.to]
    /\ isLogUpToDate(m.to, m.lastLogIndex, m.lastLogTerm)

CanVote(m) ==
    /\ m.term >= currentTerm[m.to]
    /\ VoteIn(m.to, m.term) \in {NoVote, m.from}
    /\ isLogUpToDate(m.to, m.lastLogIndex, m.lastLogTerm)

RequestVote(m) ==
    LET i == m.to
        higher == m.term > currentTerm[i]
        reply == [type |-> "RequestVoteReply", from |-> i, to |-> m.from,
                  incarnation |-> m.incarnation, argsTerm |-> m.term,
                  term |-> IF higher THEN m.term ELSE currentTerm[i],
                  voteGranted |-> CanVote(m)]
    IN /\ m.type = "RequestVote"
       /\ rpcs' = (rpcs \ {m}) \cup {reply}
       /\ currentTerm' = [currentTerm EXCEPT ![i] = reply.term]
       /\ state' = [state EXCEPT ![i] = IF higher THEN "Follower" ELSE @]
       /\ votedFor' = [votedFor EXCEPT ![i] = IF CanVote(m) THEN m.from ELSE VoteIn(i, m.term)]
       /\ ballots' = IF CanVote(m) THEN ballots \cup {<<i, m.term, m.from>>} ELSE ballots
       /\ UNCHANGED <<logVars, leaderVars, incarnation, counted, elections>>

-----------------------------------------------------------------------------
(* The goroutine of requestVotes() that waits for one peer's answer.       *)

StaleVoteReply_AnyTerm(m) == m.incarnation # incarnation[m.to] \/ state[m.to] # "Candidate"

\* The answer belongs to a killed instance or to an election that is over.
StaleVoteReply(m) ==
    \/ m.incarnation # incarnation[m.to]
    \/ state[m.to] # "Candidate"
    \/ currentTerm[m.to] # m.argsTerm

IsMajority(n) == n > Cardinality(Server) \div 2

CountVote(m) ==
    LET i == m.to
        t == m.argsTerm
        won == IsMajority(votesReceived[i][t] + 1)
    IN /\ votesReceived' = [votesReceived EXCEPT ![i][t] = @ + 1]
       /\ counted' = [counted EXCEPT ![i][t] = @ \cup {m.from}]
       /\ state' = [state EXCEPT ![i] = IF won THEN "Leader" ELSE @]
       /\ nextIndex' = [nextIndex EXCEPT ![i] =
                           [j \in Server |-> IF won /\ j # i THEN LogLen(i) + 1 ELSE @[j]]]
       /\ matchIndex' = [matchIndex EXCEPT ![i] =
                           [j \in Server |-> IF won /\ j # i THEN 0 ELSE @[j]]]
       /\ elections' = IF won THEN elections \cup {<<i, currentTerm[i]>>} ELSE elections
       /\ UNCHANGED <<currentTerm, votedFor, ballots>>

HandleVoteReply_DenialCounts(m) ==
    /\ m.type = "RequestVoteReply"
    /\ rpcs' = rpcs \ {m}
    /\ IF StaleVoteReply(m) THEN UNCHANGED <<peerVars, leaderVars, historyVars>> ELSE CountVote(m)
    /\ UNCHANGED <<logVars, incarnation>>

HandleVoteReply(m) ==
    /\ m.type = "RequestVoteReply"
    /\ rpcs' = rpcs \ {m}
    /\ \/ /\ StaleVoteReply(m)
          /\ UNCHANGED <<peerVars, leaderVars, historyVars>>
       \/ /\ ~StaleVoteReply(m)
          /\ m.term > currentTerm[m.to]
          /\ StepDown(m.to, m.term)
          /\ UNCHANGED <<leaderVars, historyVars>>
       \/ /\ ~StaleVoteReply(m)
          /\ m.term <= currentTerm[m.to]
          /\ ~m.voteGranted
          /\ UNCHANGED <<peerVars, leaderVars, historyVars>>
       \/ /\ ~StaleVoteReply(m)
          /\ m.term <= currentTerm[m.to]
          /\ m.voteGranted
          /\ CountVote(m)
    /\ UNCHANGED <<logVars, incarnation>>

-----------------------------------------------------------------------------
(* Heartbeats: the leader branch of ticker(), the handler, the answer.     *)

SendHeartbeats(i) ==
    LET args(j) == [type |-> "AppendEntries", from |-> i, to |-> j,
                    incarnation |-> incarnation[i], term |-> currentTerm[i],
                    prevLogIndex |-> 0, prevLogTerm |-> 0, entries |-> <<>>,
                    leaderCommit |-> commitIndex[i]]
    IN /\ state[i] = "Leader"
       /\ SendAll({args(j) : j \in Peers(i)})
       /\ UNCHANGED <<peerVars, logVars, leaderVars, incarnation, historyVars>>

\* PrevLogIndex 0 always matches; any other index must hold PrevLogTerm.
PrevMatches(i, prevLogIndex, prevLogTerm) ==
    prevLogIndex > 0 => prevLogIndex \in DOMAIN logs[i] /\ logs[i][prevLogIndex] = prevLogTerm

(***************************************************************************)
(* The map after the loop over Entries: a new entry whose term differs     *)
(* from the stored one deletes the stored entries from there up to the     *)
(* first missing key, and every new entry is written at its index.         *)
(***************************************************************************)
AppendedLog(log, prevLogIndex, entries) ==
    LET new == [k \in (prevLogIndex + 1)..(prevLogIndex + Len(entries)) |-> entries[k - prevLogIndex]]
        conflicts == {c \in DOMAIN new \cap DOMAIN log : log[c] # new[c]}
        kept == {k \in DOMAIN log : ~\E c \in conflicts : c <= k /\ c..k \subseteq DOMAIN log}
    IN [k \in kept \cup DOMAIN new |-> IF k \in DOMAIN new THEN new[k] ELSE log[k]]

MinOf(a, b) == IF a < b THEN a ELSE b

AppendEntries_TermKept(m) ==
    /\ m.type = "AppendEntries"
    /\ rpcs' = (rpcs \ {m}) \cup
               {[type |-> "AppendEntriesReply", from |-> m.to, to |-> m.from, incarnation |-> m.incarnation,
                 success |-> TRUE, term |-> currentTerm[m.to]]}
    /\ UNCHANGED <<peerVars, logVars, leaderVars, incarnation, historyVars>>

AppendEntries(m) ==
    LET i == m.to
        higher == m.term > currentTerm[i]
        success == m.term >= currentTerm[i] /\ PrevMatches(i, m.prevLogIndex, m.prevLogTerm)
        reply == [type |-> "AppendEntriesReply", from |-> i, to |-> m.from,
                  incarnation |-> m.incarnation, success |-> success,
                  term |-> IF higher THEN m.term ELSE currentTerm[i]]
    IN /\ m.type = "AppendEntries"
       /\ rpcs' = (rpcs \ {m}) \cup {reply}
       /\ IF higher THEN StepDown(i, m.term) ELSE UNCHANGED peerVars
       /\ IF success
          THEN /\ logs' = [logs EXCEPT ![i] = AppendedLog(@, m.prevLogIndex, m.entries)]
               /\ commitIndex' = [commitIndex EXCEPT ![i] =
                     IF m.leaderCommit > @
                     THEN MinOf(m.leaderCommit, m.prevLogIndex + Len(m.entries)) ELSE @]
          ELSE UNCHANGED logVars
       /\ UNCHANGED <<leaderVars, incarnation, historyVars>>

HandleHeartbeatReply_SameTerm(m) ==
    /\ m.type = "AppendEntriesReply"
    /\ rpcs' = rpcs \ {m}
    /\ IF m.incarnation = incarnation[m.to] /\ m.term >= currentTerm[m.to]
       THEN StepDown(m.to, m.term)
       ELSE UNCHANGED peerVars
    /\ UNCHANGED <<logVars, leaderVars, incarnation, historyVars>>

HandleHeartbeatReply_TermIgnored(m) ==
    /\ m.type = "AppendEntriesReply"
    /\ rpcs' = rpcs \ {m}
    /\ UNCHANGED <<peerVars, logVars, leaderVars, incarnation, historyVars>>

HandleHeartbeatReply(m) ==
    /\ m.type = "AppendEntriesReply"
    /\ rpcs' = rpcs \ {m}
    /\ IF m.incarnation = incarnation[m.to] /\ m.term > currentTerm[m.to]
       THEN StepDown(m.to, m.term)
       ELSE UNCHANGED peerVars
    /\ UNCHANGED <<logVars, leaderVars, incarnation, historyVars>>

-----------------------------------------------------------------------------
Start_AnyState(i) ==
    /\ LogLen(i) <= MaxEntries
    /\ logs' = [logs EXCEPT ![i] =
                  [k \in DOMAIN @ \cup {LogLen(i) + 1} |->
                      IF k = LogLen(i) + 1 THEN currentTerm[i] ELSE @[k]]]
    /\ UNCHANGED <<peerVars, commitIndex, leaderVars, incarnation, rpcs, historyVars>>

Start_LastIndex(i) ==
    /\ state[i] = "Leader"
    /\ logs' = [logs EXCEPT ![i][LogLen(i) - 1] = currentTerm[i]]
    /\ UNCHANGED <<peerVars, commitIndex, leaderVars, incarnation, rpcs, historyVars>>

\* Start(command) on a leader; on any other peer it changes nothing.
Start(i) ==
    /\ state[i] = "Leader"
    /\ LogLen(i) <= MaxEntries
    /\ logs' = [logs EXCEPT ![i] =
                  [k \in DOMAIN @ \cup {LogLen(i) + 1} |->
                      IF k = LogLen(i) + 1 THEN currentTerm[i] ELSE @[k]]]
    /\ UNCHANGED <<peerVars, commitIndex, leaderVars, incarnation, rpcs, historyVars>>

\* The call returns false: the request or its reply was lost.
Lose(m) ==
    /\ rpcs' = rpcs \ {m}
    /\ UNCHANGED <<peerVars, logVars, leaderVars, incarnation, historyVars>>

(***************************************************************************)
(* Kill() and a later Make(): persist() saves nothing and readPersist()    *)
(* restores nothing, so the new instance starts from the initial values.   *)
(* Answers to calls of the killed instance go to its own goroutines.       *)
(***************************************************************************)
Restart(i) ==
    /\ incarnation[i] < MaxRestarts
    /\ incarnation' = [incarnation EXCEPT ![i] = @ + 1]
    /\ state' = [state EXCEPT ![i] = "Follower"]
    /\ currentTerm' = [currentTerm EXCEPT ![i] = 0]
    /\ votedFor' = [votedFor EXCEPT ![i] = NoVote]
    /\ logs' = [logs EXCEPT ![i] = [k \in {0} |-> 0]]
    /\ commitIndex' = [commitIndex EXCEPT ![i] = 0]
    /\ nextIndex' = [nextIndex EXCEPT ![i] = [j \in Server |-> 0]]
    /\ matchIndex' = [matchIndex EXCEPT ![i] = [j \in Server |-> 0]]
    /\ UNCHANGED <<votesReceived, rpcs, historyVars>>

-----------------------------------------------------------------------------
Deliver(m) ==
    \/ RequestVote(m)
    \/ HandleVoteReply(m)
    \/ AppendEntries(m)
    \/ HandleHeartbeatReply(m)

PeerStep == \E i \in Server : StartElection(i) \/ SendHeartbeats(i) \/ Start(i)

Next == PeerStep \/ \E m \in rpcs : Deliver(m) \/ Lose(m)

Spec == Init /\ [][Next]_vars

\* The same peers when the tester also kills and restarts them.
RestartNext == Next \/ \E i \in Server : Restart(i)

RestartSpec == Init /\ [][RestartNext]_vars

(***************************************************************************)
(* The network of the election tests: requests for votes miss a peer that  *)
(* is cut off; all else is delivered, in any order and after any delay.    *)
(* ticker() runs for as long as its peer is alive, so a leader never stops *)
(* sending heartbeats; the fairness is strong only because the bound       *)
(* MaxRpcs may disable the send for a moment, which the code never does.   *)
(***************************************************************************)
FairNext ==
    \/ PeerStep
    \/ \E m \in rpcs : Deliver(m) \/ (m.type = "RequestVote" /\ Lose(m))

DeliverOn(i, j) == \E m \in rpcs : m.from = i /\ m.to = j /\ Deliver(m)

FairSpec ==
    /\ Init /\ [][FairNext]_vars
    /\ \A i \in Server : SF_vars(SendHeartbeats(i))
    /\ \A i \in Server : \A j \in Peers(i) : WF_vars(DeliverOn(i, j))

-----------------------------------------------------------------------------
(***************************************************************************)
(* Properties.                                                             *)
(***************************************************************************)

\* At most one peer is ever elected in a term, however votes, their replies
\* and later elections interleave (checkOneLeader in raft1/test.go).
ElectionSafety ==
    \A e, f \in elections : e[2] = f[2] => e[1] = f[1]

\* A peer gives its vote in a term to one candidate only, its own candidacy
\* included, although every step-down clears votedFor.
OneVotePerTerm ==
    \A b, c \in ballots : b[1] = c[1] /\ b[2] = c[2] => b[3] = c[3]

\* Behind a leader there is a majority of distinct peers that voted for it in
\* its term, also when voters and candidates restart and a candidate of the
\* same term asks again: its counter counts no peer twice and no denial.
QuorumBehindLeader ==
    \A i \in Server :
        LET t == currentTerm[i]
        IN state[i] # "Follower" =>
             /\ votesReceived[i][t] = Cardinality(counted[i][t])
             /\ \A j \in counted[i][t] : <<j, t, i>> \in ballots
             /\ state[i] = "Leader" => IsMajority(votesReceived[i][t])

\* The entries of a log, the sentinel aside, were appended by this peer as the
\* elected leader of their term, in an order in which terms never decrease.
LogProvenance ==
    \A i \in Server : \A k \in DOMAIN logs[i] \ {0} :
        /\ <<i, logs[i][k]>> \in elections
        /\ logs[i][k] <= currentTerm[i]
        /\ \A l \in DOMAIN logs[i] : l <= k => logs[i][l] <= logs[i][k]

StablePeer(i) ==
    /\ currentTerm[i] <= currentTerm'[i]
    /\ currentTerm'[i] = currentTerm[i] =>
         /\ votedFor[i] # NoVote => votedFor'[i] = votedFor[i]
         /\ state[i] = "Leader" => state'[i] = "Leader"

StablePeers == \A i \in Server : StablePeer(i)

\* A term never goes back, a vote is withdrawn only with a new term, and only
\* a new term ends a leadership, whatever late request or answer is handled.
TermsAndVotesStable == [][StablePeers]_vars

\* The log of a peer that stays leader only grows: no handler of a late
\* message removes or rewrites one of its entries.
LeaderAppendOnly ==
    [][\A i \in Server : state[i] = "Leader" =>
         \A k \in DOMAIN logs[i] : k \in DOMAIN logs'[i] /\ logs'[i][k] = logs[i][k]]_vars

\* A leader whose term has been overtaken steps down: its own heartbeats
\* bring back the higher term ("the old leader should switch to follower",
\* raft1/raft_test.go).
StaleLeaderStepsDown ==
    \A i \in Server :
        LET stale == state[i] = "Leader" /\ \E j \in Server : currentTerm[i] < currentTerm[j]
        IN  stale ~> ~stale

\* The term of a peer that remains leader reaches every peer (checkTerms in
\* raft1/test.go).
LeaderTermSpreads ==
    \A i \in Server :
        LET ahead == state[i] = "Leader" /\ \E j \in Server : currentTerm[j] < currentTerm[i]
        IN  ahead ~> ~ahead

-----------------------------------------------------------------------------
(***************************************************************************)
(* The inductive strengthening of ElectionSafety.                          *)
(***************************************************************************)
Requests == {m \in rpcs : m.type = "RequestVote"}

Replies == {m \in rpcs : m.type = "RequestVoteReply"}

\* What a peer remembers of its votes: none in a future term, and in the
\* current term exactly the one in votedFor.
VotesRemembered ==
    \A b \in ballots : /\ b[2] <= currentTerm[b[1]]
                       /\ b[2] = currentTerm[b[1]] => votedFor[b[1]] = b[3]

\* An election asks each other peer once: while the request is in flight its
\* answer does not exist, and it has not been counted.
RequestsFresh ==
    \A m \in Requests :
        /\ m.from # m.to
        /\ m.term <= currentTerm[m.from]
        /\ m.to \notin counted[m.from][m.term]
        /\ \A n \in Requests : n.from = m.from /\ n.to = m.to /\ n.term = m.term => n = m
        /\ \A n \in Replies : ~(n.to = m.from /\ n.from = m.to /\ n.argsTerm = m.term)

\* An answer in flight is the only one of its call, a granted one stands for a
\* vote that was cast, and the counter does not include it yet.
RepliesFresh ==
    \A m \in Replies :
        /\ m.argsTerm <= currentTerm[m.to]
        /\ m.from \notin counted[m.to][m.argsTerm]
        /\ m.voteGranted => <<m.from, m.argsTerm, m.to>> \in ballots
        /\ \A n \in Replies : n.from = m.from /\ n.to = m.to /\ n.argsTerm = m.argsTerm => n = m

\* The counter of an election is the number of distinct peers it counted, and
\* each of them voted for the candidate in that term.
CountersExact ==
    \A i \in Server : \A t \in Term :
        /\ votesReceived[i][t] = Cardinality(counted[i][t])
        /\ \A j \in counted[i][t] : <<j, t, i>> \in ballots

\* Every election that was won counted a majority.
ElectedByMajority ==
    \A e \in elections : e[2] <= currentTerm[e[1]] /\ IsMajority(Cardinality(counted[e[1]][e[2]]))

\* The only AppendEntries calls are the heartbeats of ticker().
HeartbeatsOnly ==
    \A m \in rpcs : m.type = "AppendEntries" => m.prevLogIndex = 0 /\ m.entries = <<>>

\* The bookkeeping of votes that makes ElectionSafety inductive: requests,
\* answers, counters and won elections all trace back to votes that were cast.
VoteAccounting ==
    /\ VotesRemembered
    /\ OneVotePerTerm
    /\ RequestsFresh
    /\ RepliesFresh
    /\ CountersExact
    /\ ElectedByMajority

(***************************************************************************)
(* The inductive strengthening of LogProvenance.                           *)
(***************************************************************************)
\* The key that Start writes is beyond all others, although len(rf.logs) counts
\* the sentinel, which stays as it was.
KeysBelowLength ==
    \A i \in Server : logs[i][0] = 0 /\ \A k \in DOMAIN logs[i] : k <= LogLen(i)

\* Whoever believes to be leader was elected in its current term.
LeadersElected ==
    \A i \in Server : state[i] = "Leader" => <<i, currentTerm[i]>> \in elections

\* Entries are appended by elected leaders, behind all others.
LogInv == LogProvenance /\ KeysBelowLength /\ LeadersElected

(***************************************************************************)
(* The inductive strengthening of QuorumBehindLeader, for RestartSpec.  A  *)
(* restarted candidate asks again in a term, but each of its instances     *)
(* asks a peer once, and only answers to the current instance count.       *)
(***************************************************************************)
AskedOnce ==
    \A m \in Requests :
        /\ m.from # m.to
        /\ m.incarnation <= incarnation[m.from]
        /\ m.incarnation = incarnation[m.from] =>
              m.term <= currentTerm[m.from] /\ m.to \notin counted[m.from][m.term]
        /\ \A n \in Requests :
              n.from = m.from /\ n.to = m.to /\ n.term = m.term /\ n.incarnation = m.incarnation => n = m
        /\ \A n \in Replies :
              ~(n.to = m.from /\ n.from = m.to /\ n.argsTerm = m.term /\ n.incarnation = m.incarnation)

AnsweredOnce ==
    \A m \in Replies :
        /\ m.incarnation <= incarnation[m.to]
        /\ m.incarnation = incarnation[m.to] =>
              m.argsTerm <= currentTerm[m.to] /\ m.from \notin counted[m.to][m.argsTerm]
        /\ m.voteGranted => <<m.from, m.argsTerm, m.to>> \in ballots
        /\ \A n \in Replies :
              n.from = m.from /\ n.to = m.to /\ n.argsTerm = m.argsTerm /\ n.incarnation = m.incarnation => n = m

QuorumInv == QuorumBehindLeader /\ AskedOnce /\ AnsweredOnce

=============================================================================
