# A TLA+ development for the 6.5840 labs

The repository (paths below are relative to `src/src/`) is a set of Go programs
for MIT's 6.5840: a MapReduce, a versioned key/value server with its clerk, a
lock on top of it, the election part of a Raft peer, shard configurations, and
the simulated network and tester that drive them. This directory models them in
TLA+, checks the models with TLC on small instances, and proves the central
safety properties with TLAPS for every value of the constants.

`PROJECT.json` is the index: components, runs, the source lines of every
definition (`map`), hazards, findings and theorems.

Contents: 1 inventory, 2 plan, 3 the modules, 4 the runs, 5 fairness,
6 deadlock, 7 proofs, 8 findings and other observations, 9 not modelled.

## 1. Inventory

| part | state | operations | talks to |
|---|---|---|---|
| Raft peer, `raft1/raft.go` | state, term, vote, log, commit and leader indices; `votesReceived` of each election | `ticker` (election, heartbeats), `RequestVote`, `AppendEntries`, the goroutines that wait for answers, `Start`, `Kill`/`Make` | other peers over labrpc |
| its `ticker` | `lastElectionTime` (a local), `lastReceivedHeartbeat` | a round every 50 to 350 ms | the same peer's handlers |
| k/v server, `kvsrv1/server.go` | map from key to value and version | `Get`, `Put` | clerks over labrpc |
| clerk, `kvsrv1/client.go` | `isFirstAttempt` of a call | `Get`, `Put` with endless retries | server |
| linearizability model, `models1/kv.go` | value and version of a key | one step per completed operation | the clerks' test harness |
| lock, `kvsrv1/lock/lock.go` | nothing but a key of the server | `Acquire`, `Release` | clerk |
| MapReduce coordinator, `mr/coordinator.go` | phase, status and start time of tasks, two channels | `RequestTask`, `ReportTask`, `handleHeartBeat`, `handleReport`, `Done` | workers over net/rpc |
| MapReduce worker, `mr/worker.go` | current task, files | request, `doMapTask`, `doReduceTask`, report with retries | coordinator, file system |
| shard configurations, `shardkv1/shardcfg` | number, shard to group, groups | `JoinBalance`, `LeaveBalance`, `Rebalance` | (the controller, a stub) |
| simulated network, `labrpc/labrpc.go` | ends, connections, servers, flags | `MakeEnd`, `Enable`, `AddServer`, ..., a goroutine per call | everything |
| tester's servers, `tester1/group.go`, `srv.go`, `persister.go` | flags, Persister of each server | start, shut down, connect, partition | labrpc |
| tester's clients, `tester1/clnts.go` | ends of each client | `MakeClient`, `ConnectAll`, `DisconnectAll`, `DeleteClient` | labrpc |
| time line of a test, `tester1/annotation.go` | known faults, open failure, `finalized` | `AnnotateConnection`, `AnnotateShutdown`, ..., `cleanup` | the tests, porcupine |
| k/v test programs, `kvtest1/kvtest.go`, `kvraft1/kvraft_test.go` | counts of Puts, channels between goroutines | `OnePut`, `OneClientAppend`, `PutAtLeastOnce`, `SpawnClientsAndWait`, `Partitioner`, `GenericTest` | clerks, server group, time line |
| Raft test harness, stubs, encoders, applications | see section 9 | | |

What makes them hard to test, by part; `PROJECT.json` lists each hazard at its
line:

- Raft: answers arrive after the election they belong to, old and new terms mix
  in any order, peers restart without their vote, a leader that was cut off has
  to find out.
- Clerk: a lost reply makes a Put meet its own effect; an attempt labrpc gave up
  on runs after the call has returned.
- Lock: a client may own the lock without knowing, and acts on what it read
  earlier.
- MapReduce: workers die between two files; reports race with the end of their
  phase; a handler calls itself under a mutex.
- Shard configurations: operations that fail half-way, and Go's random map order.
- Network and tester: servers are deleted while their handlers run, an old
  instance goes on saving, and a client makes its ends while it is disconnected.
- Test programs: five kinds of goroutines meet on unbuffered channels; a Put whose
  fate is unknown must be counted once; faults come and go while others last.

What should hold: one elected leader in a term; no update lost and no call
untruthful; one lock holder; complete output when the job says Done; balanced
configurations with minimal moves; no answered call lost in a restart; tests that
end, count right and show every fault. Section 4 gives the definitions.

## 2. Plan

Order of work, the most important behaviour first:

1. `Raft` with its proofs: every later lab rests on elections. Done.
2. `VersionedKV` (abstract), `Clerk` (refines it), `Lock` (built on the abstract
   store, so that the two compose through the refinement). Done, with proofs.
3. `RaftTicker`: the clocks that `Raft` leaves out. Done, with proofs.
4. `MapReduce`, `ShardCfg`, `Labrpc` with `Tester`, `ServerGrp`. Done.
5. `Clnts` (`tester1/clnts.go`), composed with `Labrpc` in `Tester`. Done.
6. `KVTest` (the client programs and their checks, over `VersionedKV`),
   `Annotation`, and `GenericTest`, which composes them with `ServerGrp`. Done.
7. `LogProvenance` and `LeaderAppendOnly` of `Raft`, and `QuorumBehindLeader` for
   `RestartSpec`. Done, proved.
8. `SectionUndisturbed` of `Lock`, which needs the history of key `l0`. Done, proved.
9. The safety of `MapReduce` for any number of workers and tasks. Done, proved.
10. The safety of `Tester`, `Labrpc` and `Clnts` for any number of servers, clients
    and restarts. Done, proved.
11. Links, partitions, annotations and visualisations in `GenericTest`, for any
    number of servers, clients and iterations. Done, proved.

12. The checks of `KVTest`, for any number of clients and iterations. Done, proved.

Left: proofs about `ShardCfg`, and models of the labs that are stubs today, once
they are written.

## 3. The modules

In every module an operator named `Op_fault` is `Op` with a plausible mistake
(a dropped guard, an off-by-one, a swapped order). No specification uses it; put
in the place of `Op` it violates a property, which shows that the property
depends on that code.

**Raft** (`raft1/raft.go`). An action is one critical section of `rf.mu`:
`StartElection` and `SendHeartbeats` are the branches of `ticker`, `RequestVote`
and `AppendEntries` the handlers, `HandleVoteReply` and `HandleHeartbeatReply`
the goroutines that wait for an answer, `Start` the local append, `Restart` a
`Kill` and a later `Make`, `Lose` an RPC that returns false. Calls in flight are
the set `rpcs`; labrpc runs a request at most once, so that a message is removed
when it is handled. `votesReceived` is indexed by the term of its election, like
the local variable that `requestVotes` shares with its goroutines. `logs` is a
map, as in the code, with its sentinel at 0 and the first command at 2.
`AppendEntries` is modelled in full, the loop over entries included, although the
only senders are heartbeats without entries. `ballots`, `counted` and `elections`
are history variables; no action reads them. A log entry is its term. An
election may start at any moment; the clocks are in `RaftTicker`.

**RaftTicker**. One peer's clocks in units of 50 ms, with votes, heartbeats and
higher terms arriving at any moment. A `Round` draws a timeout and a pause, like
every iteration of the loop; time passes only while the goroutine sleeps.

**VersionedKV**. What the comments of `server.go` and `client.go` promise and
`models1/kv.go` checks: a call takes effect at one moment between invocation and
return. A Put may answer `ErrMaybe` instead of `OK` or `ErrVersion`.

**Clerk** (`kvsrv1/client.go`, `server.go`). A handler holds `kv.mu` throughout
and is one step. `Drop` loses a request or a reply, `Resend` is the retry with
`isFirstAttempt` cleared. `GiveUp` and `HandleLate` are what `processReq` does to
a call whose end the tester disables: the call fails and the handler's goroutine
runs later. The clients in `Roaming` are those this happens to; they name
versions up to the current one of the key, as every program in the repository
does (it names a version it has read, or the one after its own Put). The other
clients name any version. A roaming client that named a future version could be
told `ErrVersion` on its retry and still see its late attempt succeed, which is
why the restriction is there. `Register` is the refinement mapping to
`VersionedKV`: `outcome` remembers what the call has done at the server.

**Lock** (`kvsrv1/lock/lock.go`, with the client of `lock_test.go`). EXTENDS
`VersionedKV`: one label per clerk call of the program. `lock.go` does not
compile as it stands (it does not import `time`, names an undefined `kvtest.OK`
and leaves `getErr` unused); it is modelled as it evidently reads, with
`rpc.OK`. The branch of `Release` that finds another holder is never reached.

**MapReduce** (`mr/coordinator.go`, `worker.go`). The channels are sequences of
messages that name the process waiting; the scheduler takes one at a time.
`handleHeartBeat` is one action with the alternatives of its scan. `TimedOut` is
the handler's call of itself while it holds `c.mu`: the coordinator is `blocked`
from then on. A worker does one file per step, and may crash between any two;
`main/test-mr.sh` starts another. A file's contents are the map tasks whose pairs
it holds. Time is the set `expired` of running tasks that are older than 10 s.

**ShardCfg** (`shardkv1/shardcfg/shardcfg.go`). `Join` and `Leave` compute what
the loops leave behind at an early return, for every order of their argument;
`Rebalance` is the two loops, and `analyze` sorts the groups it has met in the order of
a Go map (`Iterations`).
`ServersOf` gives groups common servers, which ends the process. This module has
RECURSIVE operators and is model-checked only.

**Labrpc**, **Clnts** and **Tester** (`labrpc/labrpc.go`; `tester1/clnts.go`;
`tester1/group.go`, `srv.go`, `persister.go`). `Labrpc` has the network's
variables, one action per method and per step of `processReq`; a handler is a
goroutine of its own. `Clnts` extends it with the clients of the tests, whose
first call to a server makes the end. `Tester` extends both with Persisters:
`StartServer` copies the saved one for the new instance, `ShutdownServer` first
deletes the server, then copies the Persister; handlers save into the object
their instance was started with. `ConnectTo` and `Disconnect` of a client are left
out: nothing calls them, and they switch ends without a change of `clnt.srvs`, so
that `ReachAsAllowed` would not hold with them.

**ServerGrp** (`tester1/group.go`). The flags `connected` and the enabled ends,
with `MakePartition` and the order in which `Partition` connects and disconnects.
A loop over servers is a recursive function (`ForEach`), so that the proofs can
reason about it. `restart` is that of `raft1/test.go`, whose `ConnectAll` also connects
servers that are down. `cut` and `partitioned` are history variables.

**Annotation** (`tester1/annotation.go`, `checkPorcupine` of `kvtest1/porcupine.go`).
What the tester was told of faults (`finfo`), the one failure annotation that may
be open, whether the annotations are final, the files that were opened and what they
hold (`operations`, `plain` without them, or nothing), and whether a file has failed
(`ioError`). A file may fail to open or to be written; `CheckPorcupine` opens it before
it looks at `VIS_ENABLE`. Annotations that are over are not told apart.

**KVTest** (`kvtest1/kvtest.go`). Extends `VersionedKV`: the test's clients call a
service that keeps its promise. A client is a goroutine with a program counter, one
label per clerk call and per channel operation; the three programs are `OneClientPut`
with `OnePut`, `OneClientAppend` (with `CheckAppends`; no test of the repository
calls these two yet) and `PutAtLeastOnce` with `CheckGet`. `TakeDone` and `Collect`
are the rendezvous on `done` and on the result channels. `Wake` assumes that the sleep
of `SpawnClientsAndWait`, of seconds, is long enough for one of the new goroutines to
run: when it ends the key exists, or a client is in its first `OnePut`, which it has to
finish before it can take `done`. `CheckPutConcurrent` fails if the key is missing, as
`GetJson` does. The loops that count (`SumOf`, `NEntries`) are recursive functions over the
numbers of the clients and over the positions in the list, as in the code.

**GenericTest** (`kvraft1/kvraft_test.go`). Extends `KVTest`, `ServerGrp` and
`Annotation`: the test goroutine joins the clients, has the history checked, stops
the `Partitioner` over the channel that both use in both directions, and crashes and
restarts the group. The verdict of porcupine and of the size checks is arbitrary.
A second kind of test makes the fault operations of the Raft tests, each followed
by its annotation as in `raft1/raft_test.go`, in any order.

The modules also meet in three other places. `Clerk` implements `VersionedKV`, whose
specification `Lock` extends, so a lock over real clerks inherits what is proved
over the abstract store. `Labrpc` justifies the network of `Raft` and `Clerk`: at
most one execution per request, false for anything lost, and handlers that
outlive their call. `Raft` allows an election at any time and `RaftTicker` says
when it happens.

## 4. The runs

Each is `tlc -config <cfg> <module>` in this directory. All passing runs explore
their state space completely. The type invariants of `MapReduce`, `ShardCfg`, `Tester`,
`ServerGrp`, `KVTest` and `GenericTest` are conjuncts of `ReportsMatchPhase`,
`CheckConfig`, `ReachAsAllowed`, `LinksMatchFlags`, `PutsAccounted` and
`FaultsAnnotated`; those of `RaftTicker` and `Lock` are part of `TickerInv` and `LockInv`
and proved.

| run | cfg | instance | distinct states |
|---|---|---|---|
| raft | MCRaft | 3 peers, 2 terms, 1 entry, 4 messages | 264,070 |
| raft_restarts | MCRaftRestarts | 3 peers, 1 term, 1 entry, 1 restart each | 981,537 |
| raft_fair | MCRaftFair | 3 peers, 2 terms, 3 messages | 93,567 |
| ticker | MCRaftTicker | the code's own constants in units of 50 ms | 197,696 |
| ticker_silence | MCRaftTickerSilence | the same | violation |
| clerk | MCClerk | 2 clients, 1 key, 2 values, versions to 3 | 56,523 |
| lock | MCLock | 2 clients, 2 rounds, 3 ErrMaybe | 132,659 |
| mapreduce | MCMapReduce | 2 workers, 3 maps (1 unreadable), 2 reduces, 2 crashes each | 312,131 |
| mapreduce_timeout | MCMapReduceTimeout | 2 workers, 2 maps, 1 reduce | violation |
| shardcfg | MCShardCfg | the code's 12 shards, 5 groups, 4 configurations | 83,869 |
| tester | MCTester | 1 client, 1 end, 2 calls, 1 server with 2 instances | 220,418 |
| generic_test | MCGenericTest | 2 clients, 2 iterations, 5 servers | 295,723 |

**raft.** `ElectionSafety`: at most one peer is elected in a term. It rests on
`VoteAccounting`, the invariant of the proof. `LogProvenance`: every entry of a
log was appended by that peer as the elected leader of the entry's term, and
terms never decrease along it. `TermsAndVotesStable`: no step takes a term back,
withdraws a vote within its term, or ends a leadership without a new term.
`LeaderAppendOnly`: no late message changes a leader's log. Three peers are the
smallest group with a majority that is not everyone; two terms let answers of an
old election meet a new one; four messages are two complete rounds of calls.
Peers are symmetric.

**raft_restarts.** `QuorumBehindLeader`: behind every leader there is a majority
of distinct peers that voted for it in its term, although restarted peers forget
their votes and a restarted candidate asks again in the same term.
(`ElectionSafety` itself does not survive restarts: section 8.) One term suffices
for that, since a restart goes back to term 0. A run with two terms does not
finish in minutes.

**raft_fair.** `StaleLeaderStepsDown` and `LeaderTermSpreads`, without symmetry:
an overtaken leader steps down in the end, and a leader's term reaches every peer.

**ticker.** `SilenceEndsInElection`: a peer that is no leader and has heard no
heartbeat for 600 + 350 ms has started an election, or been leader, within that time,
although every round draws another timeout and a candidate may get no answers. It
says nothing of a peer that hears heartbeats, which should not start elections; that
this one does is the finding of `ticker_silence`, and the property also holds for a
ticker that looks at `lastReceivedHeartbeat`. `HeartbeatsInTime`: a leader is never
silent for more than 350 ms, counted from the moment it wins, between two rounds.

**clerk.** `Linearizable`: clerks, network and server implement `VersionedKV`.
`OneWinnerPerVersion`: each version of a key is replaced by one Put and no update
is lost. `AnswersTruthful`: OK means performed, `ErrVersion` and `ErrNoKey` mean
not performed and never to be. `LateAttemptsHarmless`: an attempt that outlives
its call names a version that has passed. `CallsReturn`: calls return. One key
suffices, since the operations on different keys share nothing; versions to 3
allow a missing key, a first and two more Puts; the roaming client makes two
calls so that an attempt of the first meets the second.

**lock.** `MutualExclusion`; `SectionUndisturbed`: what the test's client asserts
in its critical section; `ReleaseEffective`: Release has released when it
returns, although it ignores its Put's answer; `NeverStolen`: a client's name leaves
the lock only by the Put of that client's own Release, also when the client does not
know that it holds the lock; `AllFinish`. Two rounds let each
client meet the lock after its own release; three `ErrMaybe` cover an Acquire and
a Release that do not know what they did, and one more. MaxVersion is beyond what
two rounds can reach, so it never blocks a call.

**mapreduce.** `ReportsMatchPhase`: no report outlives its phase, and every task
that is worked on is marked Running; without this `handleReport`, which does not
look at the phase, would complete tasks that never ran or index out of range.
`OutputComplete`: when the phase is Done every output file has the pairs of all
readable inputs. `OutputFinal`: a written output file does not change.
`JobFinishes`: without crashes and timeouts the coordinator exits. More maps than
reduces, so that numbers of one phase are out of range in the other.

**shardcfg.** `CheckConfig`: every successful configuration is total and
balanced, also after operations that failed half-way. `MinimalMoves`: a
rebalance moves exactly as many shards as any balanced result needs, by an
independent count. `SameInEveryOrder`: after a successful operation the shards are
what `Rebalance` gives for every order in which Go may iterate the map of groups, so
that processes that start from equal configurations agree; this rests on the sort in
`analyze`. It does not extend to a Join that fails: the groups it has met before the
clash stay in the configuration, and which these are depends on the order. The model
takes every such order, and two processes may differ after one. Groups of 1 to 5
members over 12 shards give even and uneven shares; group 5 shares a server with
group 1. The map of groups is iterated in ascending or descending order, which
decides every tie between two groups in both ways.

**tester.** `AckedIsSaved`: a call that was answered is in the Persister that the
tester holds. `OldInstancesIsolated`: only the running instance changes that
Persister. `CallsReturn`: every call returns, unless the handler of a live server
hangs. `ReachAsAllowed`: an end that a client has made is enabled exactly if the
client may reach its server, although ends are made late and the tests connect and
disconnect the client meanwhile. Two calls and two instances let one call belong to
the old instance and one to the new.

**generic_test.** `LinksMatchFlags`: an enabled end has its opposite and two
connected servers, and unless `Partition` was used the flags tell the network
exactly, as a comment in `annotation.go` says. `PartitionExact`: after a partition,
from any earlier state, links are exactly those within the two parts, which are
disjoint, cover the group and have the leader, if there is one, in the smaller part.
`FaultsAnnotated`: while no failure is shown, all servers run and reach each other.
`OneVisFile`: whichever files cannot be opened or written, a test opens at most one
visualisation, none if it passes without `VIS_ENABLE=always`, and an empty one at most
with `never`; if no file fails, `always` leaves a written one, a history that is not
linearizable has its operations, and a failed test has a file, except when it fails
after the check of its last iteration (section 8). `ChecksPass`: no
check of the test programs fails against a service that keeps its promise.
`PutsAccounted`: the store holds every acknowledged Put, and at most those and the
`ErrMaybe` ones; the lower bound is not checked by the tests. `TestEnds`: the test
ends.

N is 5, the group size of most tests that make partitions. Two clients that compete for
one key and two iterations let counts add up over spawns and the last iteration differ from
another. A client makes one `OnePut` per spawn, or two appends: with two Puts the run
takes more than five minutes. The bound on iterations stands for the sleep after which
clients are told to stop. While clients run, the Partitioner draws one division, since
they do not look at the links, and `VIS_ENABLE` varies only in tests of puts without
faults (`VisElsewhere`); with all three values in every test the run has 705,967 states
and passes too. The theorems hold for every `VisElsewhere`.

## 5. Fairness

- `Raft!FairSpec`: weak fairness of handling the messages from one peer to
  another (the tests of re-election run on a network that delivers), and strong
  fairness of sending heartbeats. `ticker` loops as long as its peer is alive, so
  weak fairness would do in the code; it is strong because the bound `MaxRpcs`
  may disable the action for a moment. Requests for votes may be lost.
- `Clerk!FairSpec`: handlers run; `Return` is strongly fair, since an unreliable
  network drops each message with probability 1/10 and a clerk retries for ever.
- `Lock!FairSpec`: clients run, and the clerks' calls return, which is
  `Clerk!CallsReturn`.
- `MapReduce!Spec`: scheduler, workers and coordinator process run, and `select`
  takes a message that stays in its channel. Crashes and timeouts are not fair.
- `GenericTest!FairSpec`: the goroutines of the test run, and the clerks' calls
  return, which is `Clerk!CallsReturn`. The Partitioner and the fault operations are
  not fair.
- `Tester!Spec`: the goroutines of the network run. Handlers are not fair: a
  killed server's handler may hang.

## 6. Deadlock

TLC checks for deadlock in `lock` and `generic_test`, where `Finished` is the only way
to stop: in the latter this is where goroutines would wait on each other's channels. The other systems may really stop: at their bounds (`raft*`,
`clerk`, `tester`, all of whose calls have been made, and `shardcfg`, whose
process ends on a fatal error), when the peer is killed (`ticker`), or when the
coordinator is blocked or has exited (`mapreduce*`).

## 7. Proofs

TLAPS checks eight modules. The theorems hold for every finite set of peers, every
set of clients, keys and values, and every bound; the assumptions on constants
are the ASSUMEs of the modules, which only say that bounds are numbers, that the
set of peers is finite and that `NoVote` is no peer (Raft), that the empty string
is a value (Clerk), that the pauses are positive and the clocks' cap lies beyond
the times in question (RaftTicker), that client names are values other than
the empty string (Lock), that there are map and reduce tasks and the
unreadable inputs are among the maps' (MapReduce), that a group has two servers
or more, which are those the time line knows (GenericTest), and that clients are
numbered from 0, there is a key, an empty list is the empty value and the cap on
versions is not 0 (KVTest).

**RaftProofs**: `TypeCorrect`, `TermsStable`, `LogInvariant`,
`EntriesFromElectedLeaders`, `LeaderLogsGrow`, about `Spec`. `LogProvenance` is not
inductive: it says nothing of a peer that is about to append. `LogInv` adds that
whoever leads was elected in its current term (`LeadersElected`), and that the key
`Start` writes, one more than the length of a map that also holds the sentinel, lies
beyond all others (`KeysBelowLength`). A heartbeat carries no entries, so
`AppendEntries` leaves the logs as they are (`HeartbeatsKeepLogs`), and only `Start`
remains.

`RestartInvariant` and `LeaderHasQuorum`, in the same module, are about `RestartSpec`.
A restarted peer forgets its term, so `VoteAccounting` fails: a candidate may ask
again in a term in which its killed instance asked. `QuorumInv` accounts by
instance instead: no request or answer is of a later instance than the running
one, each instance asks a peer once in a term (`AskedOnce`), and an answer to the
running instance is not yet counted and, if granted, on record (`AnsweredOnce`).
What is proved is a majority of distinct votes behind each leader. That a term
has one leader does not follow, because a restarted voter may vote twice.

**RaftElectionProofs**: `AccountingHolds`, `ElectionSafe`, about `Raft!Spec`.
`ElectionSafety` speaks of elections that were won, which says nothing about votes
still in flight, so it is not inductive. `VoteAccounting` adds what connects them: a
request in flight has no answer and is not counted; an answer in flight is the only
one of its call and is not counted; a granted one, like every counted vote, was cast;
a peer remembers its vote of the current term and has cast none in a later one;
whoever won counted a majority. With `TypeOK` and `HeartbeatsOnly` it is inductive.
Two majorities of a finite set share a peer (`MajoritiesIntersect`), and that peer
voted once. The module also holds `TickerInvariant`, `SilenceNoticed` and
`HeartbeatsTimely`, about `TickerSpec`: the bounds on the clocks become inductive once
the rest of the current pause is added to the clock (`TickerInv`).

**ClerkProofs**: `ClerkInvariant`, `ClerkTypes`, `OneWinner`, `Truthful`,
`LateHarmless`, `ClerkLinearizable`, about `Spec`, late handlers included.
`ClerkInv` says how the reply a clerk holds relates to what its call has done
(`CallsConsistent`), that every performed or late Put belongs to a call of its
client (`PutsAccounted`), and that versions count performed Puts
(`OneWinnerPerVersion`). The refinement is proved action by action: a handler is
the abstract `Apply`, a repeated one that no longer changes anything a stutter, a
lost message a stutter, and `ErrMaybe` is allowed exactly because a retry implies
that the outcome is `OK` or `ErrVersion`.

**LockProofs**: `LockInvariant`, `LockSafe`, `ReleaseWorks`, `LockNotStolen`. Mutual
exclusion is not inductive because of what a client has read and is about to
act on: `ClientInv` says that an answer or a remembered version that is still
current describes the lock as it is, and that the lock carries the name of
whoever owns it, also when the owner does not know (`Owns`). `SectionsUndisturbed`
is about the other key, `l0`, which the test's clients write in their sections.
`SectionInv` adds its history: nobody's name is in it but that of the client
between its two Puts (`Written`), and the version that client goes by is the
current one, since no other client can have been in its section meanwhile.

**MapReduceProofs**: `JobInvariant`, `ReportsInPhase`, `OutputsComplete`,
`OutputsFinal`, about `Spec`, for any number of workers, tasks and crashes.
`ReportsMatchPhase` is not inductive: if two workers held the same task, the report
of one would end the phase and that of the other outlive it. `JobInv` excludes this
(`TasksHeldOnce`: while the scheduler runs, a task is with one worker or in one report, and a
worker that waits has its report in flight) and says that what is reported or
completed was really done, and that reduces start when all maps have ended
(`WorkDone`). A task that timed out is not given out again, because the scheduler
blocks; this is why the first part holds.

**TesterProofs**: `TesterInvariant`, `AckedCallsSaved`, `InstancesIsolated`,
`ClientsReachAllowed`, about `Tester!Spec` and so about `Labrpc` and `Clnts` with
it. `AckedIsSaved` says nothing of a handler that has returned and was not yet
answered. `SavedInv` adds that each instance writes to an object of its own and to
no other, and that the network knows only the instance that is up
(`InstancesInOrder`), and that a call whose handler has returned is in the object of
the instance that accepted it (`CallsInObjects`). An answer goes out only if that
instance is the one in the network, and then its object is the one the tester
holds. `ReachAsAllowed` needs that no two clients share an end (`EndsInv`).

**GenericTestProofs**: `LinksHold`, `PartitionsExact`, `FaultsShown`, `OneFile`, about
`GenericTest!FairSpec` and so about `ServerGrp` and `Annotation` with it. The loops of
`group.go` come first: each is shown to leave a state that one formula describes
(`ConnectAllOfIs`, `DisconnectAllIs`, `SideIs`, `PartitionIs`), by induction on the number
of servers done. `LinksMatchFlags` then needs only that it holds before a step
(`GroupInv`). `PartitionExact` is proved for odd groups, since for even ones it does not
hold (section 8). `FaultsAnnotated` does not speak of faults that are known and shown;
`TellInv` adds that the tester knows exactly which servers are down, knows no running
server as connected that is cut off, and shows whatever it knows. `VisInv`, behind
`OneVisFile`, adds that a file opened by a check makes the annotations final unless
`VIS_ENABLE` is `never`, in which case `cleanup` opens none, that no check follows the
one that makes them final, and that without a failed check they are final only after
that of the last iteration.

**KVTestProofs**: `KVInvariant`, `TestChecksPass`, `PutsAreAccounted`, about
`GenericTest!FairSpec`, with any number of clients, iterations and restarts. The two
properties speak of the moment when all clients have reported; what leads there is
`KVInv`. A Put that was performed is counted only when its answer is in, and in `OnePut`
only after the next Get has returned, so the store is ahead of the counts: `Sure` and
`Perhaps` say by how much, at most one Put per client. `AtLeast` and `AtMost` are the
counts with these added, and they bound what the store holds: the version of the key
lies between their sums over all clients (`PutsBalance`), and the number of a
client's entries in the list between its own two (`ListOK`, which also keeps the
numbers of the entries increasing). `CallOK` says that a call in flight is the one
the client's program makes and that what a Get has read was the entry at its
version, `EntryOK` that the first entry of a value carries the number of the version
before it, or that the list has one entry less than the version; `LeastOK` that
nobody but the test itself puts in `PutAtLeastOnce`. A step of a client changes one
summand, by as much as it changes the version (`Moved`, `LowerKept`, `UpperKept`), and
when every client has reported, `Sure` and `Perhaps` are 0. `KeyWritten` says that the
key exists by then: from the end of the sleep on it exists or a client is in its first
`OnePut`, which returns only after a Get has found it. TLC also checked the
conjuncts of `KVInv` on the instance of `generic_test`.

Induction: `BoundedInduction` is derived from the least element of a non-empty set of
numbers (`WFMin`), because the library's induction rules take a predicate as a
parameter, which the installed provers cannot instantiate. With it `LoopInduction` and
`LoopStays` say what a recursive function over an interval computes and where its
values lie.

Only model-checked: all liveness (fairness and ENABLED are beyond the prover as
installed), and ShardCfg, whose RECURSIVE operators tlapm cannot use.

## 8. Findings and other observations

Two runs show the code at odds with what is said about it:

- `ticker_silence`: `ticker` measures the timeout from `lastElectionTime`, a local
  variable, and never reads `lastReceivedHeartbeat`, which `AppendEntries` sets. A
  follower starts an election although it has just heard from its leader; the
  README of the repository and the comment in `AppendEntries` say otherwise.
- `mapreduce_timeout`: `handleHeartBeat` resets a task that timed out and calls
  itself while it holds `c.mu`. The scheduler blocks for good, and `Done` with it.

The models also show, without a run of their own:

- `persist()` saves nothing. A peer that restarts votes again in a term it has
  voted in, and a term can have two leaders under `RestartSpec`.
- `Start` returns 2 as the first index, and `nextIndex` starts one beyond the
  position after the log, because `len(rf.logs)` counts the sentinel.
- A candidate that hears from the leader of its own term stays a candidate.
- In a group of one server no leader is ever elected: the majority is tested only
  when an answer arrives.
- `models1/kv.go` has no step for a Put that answers `ErrNoKey`, which the server
  gives for a missing key and a version other than 0.
- A worker that asks after the coordinator has exited retries for ever.
- `handleReport` would take a report from before a restart of the coordinator for
  one on the new job; nothing in the repository restarts it.
- For an even number of servers `MakePartition` leaves a place unfilled, which
  holds server 0; server 0 is then in both parts. The tests use odd groups.
- `Fatalf` in `CheckPutConcurrent` and in the clients runs in a spawned goroutine and
  ends only that one: nobody sends on `ch_spawn`, and a test whose check fails hangs.
- When `CheckPorcupine` fails the test, the Partitioner goes on after `Cleanup` and
  annotates the next test.
- `OnePut` tests `e.Id != me && e.V != ver`, which accepts an entry with one wrong field.
- `cleanup` takes `finalized` for "CheckPorcupine has already produced a vis file". With
  `VIS_ENABLE` unset, a test that fails after `SetAnnotationFinalized` (in a size check of
  its last iteration) gets no file.
- `checkPorcupine` creates or truncates the file of a failed check before it looks at
  `VIS_ENABLE`: with `never` an empty file stays, although a comment says "Don't produce
  visualization file". `OneVisFile` allows that file and no other.
- A file that cannot be opened in the last iteration leaves `finalized` set, and
  `cleanup` does not try again.
- `annotateContinuousEnd` says "Nothing to end" and goes on: it adds an interval that
  starts at time 0. `AnnotateCheckerEnd` resets the start of a check in a local copy only.

## 9. Not modelled

- `tester1/config.go` but for `Cleanup` and `Fatalf`: set-up, time limits, statistics.
- Of `annotation.go`: points, intervals and checkers, which only add text; the handler
  of SIGINT, which writes the file from a goroutine of its own and ends the process.
- Of `kvtest.go`: random keys (clients then share nothing the checks look at),
  `SpreadPuts`, `PutAtLeastOnceJson` (no caller), the speed tests.
- `raft1/test.go` but for `restart`, and `raft1/server.go`: they check applied entries
  and snapshots, which this peer never delivers; no code writes `applyCh`, and
  `Snapshot` is empty.
- `kvraft1`, `kvraft1/rsm`, `shardkv1/client.go`, `shardctrler`, `shardgrp`: stubs.
- `labgob`: warnings around the standard encoder. `raftapi`: declarations.
- `mrapps` and `main/mrsequential.go`: functions of file contents; failures to
  create, write or rename a file in `worker.go` other than an unreadable input.
- A restart of the k/v server (its map is lost) or of the coordinator: nothing in
  the repository does either.
- labrpc's delays (every step may take any time), encoding and counters of bytes.
