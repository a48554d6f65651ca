---------------------------- MODULE RaftTicker ----------------------------
(***************************************************************************)
(* The timing of one Raft peer: ticker (raft1/raft.go) wakes after a       *)
(* random sleep, and starts an election or sends heartbeats.  Time is in   *)
(* units of 50 ms, and passes only while the goroutine sleeps.  What the   *)
(* other peers do, votes and heartbeats, comes at any moment.              *)
(*                                                                         *)
(* An operator Op_fault is Op with a plausible mistake in it.  No          *)
(* specification uses it; put in the place of Op, it violates a property.  *)
(***************************************************************************)
EXTENDS Naturals

CONSTANTS MinTimeout, MaxTimeout,   \* electionTimeout: 300 to 600 ms
          MinSleep, MaxSleep,       \* the pause of a round: 50 to 350 ms
          MaxTime                   \* bound on the clocks

ASSUME TickerAssumption ==
    /\ {MinTimeout, MaxTimeout, MinSleep, MaxSleep, MaxTime} \subseteq Nat
    /\ 0 < MinSleep /\ MinSleep <= MaxSleep /\ MinTimeout <= MaxTimeout
    /\ MaxTimeout + MaxSleep < MaxTime

VARIABLES role,             \* rf.state
          killed,           \* rf.dead
          sleep,            \* what is left of the pause
          sinceElection,    \* time since lastElectionTime, a local of ticker
          sinceHeartbeat,   \* time since rf.lastReceivedHeartbeat
          sinceSent         \* time since heartbeats were sent, or since it became leader

tickerVars == <<role, killed, sleep, sinceElection, sinceHeartbeat, sinceSent>>

Clock == 0..MaxTime

TickerTypeOK ==
    /\ role \in {"Follower", "Candidate", "Leader"}
    /\ killed \in BOOLEAN
    /\ sleep \in 0..MaxSleep
    /\ {sinceElection, sinceHeartbeat, sinceSent} \subseteq Clock

\* Make, and the start of ticker.
TickerInit ==
    /\ role = "Follower"
    /\ killed = FALSE
    /\ sleep = 0
    /\ sinceElection = 0
    /\ sinceHeartbeat = 0
    /\ sinceSent = 0

TimedOut_FollowersOnly(t) == role = "Follower" /\ sinceElection >= t

\* The test for an election in a round whose random timeout is t.
TimedOut(t) == role # "Leader" /\ sinceElection >= t

Round_HeartbeatsOnTimeout ==
    \E t \in MinTimeout..MaxTimeout, pause \in MinSleep..MaxSleep :
        /\ ~killed
        /\ sleep = 0
        /\ role' = IF TimedOut(t) THEN "Candidate" ELSE role
        /\ sinceElection' = IF sinceElection >= t THEN 0 ELSE sinceElection
        /\ sinceSent' = IF role = "Leader" /\ sinceElection >= t THEN 0 ELSE sinceSent
        /\ sleep' = pause
        /\ UNCHANGED <<killed, sinceHeartbeat>>

\* A round of ticker: an election, or heartbeats, or nothing; then the next pause.
Round ==
    \E t \in MinTimeout..MaxTimeout, pause \in MinSleep..MaxSleep :
        /\ ~killed
        /\ sleep = 0
        /\ role' = IF TimedOut(t) THEN "Candidate" ELSE role
        /\ sinceElection' = IF TimedOut(t) \/ role = "Leader" THEN 0 ELSE sinceElection
        /\ sinceSent' = IF role = "Leader" THEN 0 ELSE sinceSent
        /\ sleep' = pause
        /\ UNCHANGED <<killed, sinceHeartbeat>>

Later(clock) == IF clock < MaxTime THEN clock + 1 ELSE clock

TimePasses ==
    /\ sleep > 0
    /\ sleep' = sleep - 1
    /\ sinceElection' = Later(sinceElection)
    /\ sinceHeartbeat' = Later(sinceHeartbeat)
    /\ sinceSent' = Later(sinceSent)
    /\ UNCHANGED <<role, killed>>

\* A majority of votes arrives (requestVotes).
WinElection ==
    /\ role = "Candidate"
    /\ role' = "Leader"
    /\ sinceSent' = 0
    /\ UNCHANGED <<killed, sleep, sinceElection, sinceHeartbeat>>

\* A request or reply with a higher term.
SeeHigherTerm ==
    /\ role # "Follower"
    /\ role' = "Follower"
    /\ UNCHANGED <<killed, sleep, sinceElection, sinceHeartbeat, sinceSent>>

\* AppendEntries from the leader of the peer's term, or of a higher one.
ReceiveHeartbeat ==
    /\ \/ role # "Leader" /\ UNCHANGED role
       \/ role' = "Follower"
    /\ sinceHeartbeat' = 0
    /\ UNCHANGED <<killed, sleep, sinceElection, sinceSent>>

Kill ==
    /\ ~killed
    /\ killed' = TRUE
    /\ UNCHANGED <<role, sleep, sinceElection, sinceHeartbeat, sinceSent>>

TickerNext == Round \/ TimePasses \/ WinElection \/ SeeHigherTerm \/ ReceiveHeartbeat \/ Kill

TickerSpec == TickerInit /\ [][TickerNext]_tickerVars

-----------------------------------------------------------------------------
(* Properties. *)

\* A lost leader is noticed in time: a peer that is no leader and has heard no
\* heartbeat for the longest timeout and the longest pause, 950 ms, has started an
\* election (or was leader itself) within that time.  Every round draws another
\* timeout, and a candidate whose votes do not come must start over as well.
SilenceEndsInElection ==
    (~killed /\ role # "Leader" /\ sinceHeartbeat > MaxTimeout + MaxSleep)
        => sinceElection <= MaxTimeout + MaxSleep

\* A leader is never silent for longer than the longest pause, from the moment
\* it wins its election: the vote arrives between two rounds of ticker.
HeartbeatsInTime ==
    (~killed /\ role = "Leader") => sinceSent <= MaxSleep

\* What makes both bounds inductive: the rest of the pause is part of them.
TickerInv ==
    /\ TickerTypeOK
    /\ sinceElection + sleep <= MaxTimeout + MaxSleep \/ killed
    /\ role = "Leader" => (sinceSent + sleep <= MaxSleep \/ killed)

-----------------------------------------------------------------------------
\* README.md: a follower becomes a candidate when it has not received the
\* leader's heartbeat for the election timeout.
ElectionsOnlyAfterSilence ==
    [][role = "Follower" /\ role' = "Candidate" => sinceHeartbeat >= MinTimeout]_tickerVars

=============================================================================
