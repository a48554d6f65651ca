---------------------------- MODULE GenericTest ----------------------------
(***************************************************************************)
(* A whole test: GenericTest (kvraft1/kvraft_test.go) composes the clients *)
(* of KVTest, the Partitioner and the crashes of ServerGrp, and the time   *)
(* line of Annotation.  The test goroutine, the spawning goroutine, the    *)
(* clients and the Partitioner run concurrently and meet on unbuffered     *)
(* channels.                                                               *)
(*                                                                         *)
(* A test of another kind has no clients: it is any sequence of the fault  *)
(* operations of the Raft tests, each with the annotation the tests make   *)
(* for it.                                                                 *)
(***************************************************************************)
EXTENDS KVTest, ServerGrp, Annotation

CONSTANTS NITER,   \* iterations of GenericTest's loop
          Drawn,   \* bound: the parts that the Partitioner draws while clients run
          VisElsewhere  \* bound: the values of VIS_ENABLE in all but fault-free tests of puts

ASSUME GenericAssumption ==
    NITER \in Nat \ {0} /\ Servers = Srv /\ Drawn \subseteq SUBSET Srv

VARIABLES test,         \* the kind of test and its parameters
          main,         \* where the test goroutine is
          iter,         \* its iteration
          partitioner,  \* where the Partitioner's goroutine is
          verdict,      \* what the last CheckPorcupine returned
          failed        \* t.Failed()

mainVars == <<test, main, iter, partitioner, verdict, failed>>

vars == <<kvVars, testVars, groupVars, annotationVars, mainVars>>

TypeOK ==
    /\ AnnotationTypeOK
    /\ test \in [clients : BOOLEAN, partitions : BOOLEAN, crash : BOOLEAN]
    /\ main \in {"faults", "spawn", "wait", "stop", "join", "crash", "restart", "trimmed", "cleanup", "done"}
    /\ iter \in 0..NITER
    /\ partitioner \in {"off", "select", "leaving"}
    /\ verdict \in {"Ok", "Illegal"}
    /\ failed \in BOOLEAN

\* The network counts as reliable only if no server crashes or is cut off.
Init ==
    /\ \/ KVTestInit("put") /\ test \in [clients : {TRUE}, partitions : BOOLEAN, crash : BOOLEAN]
       \/ \E name \in {"append", "least"} :
             KVTestInit(name) /\ test = [clients |-> TRUE, partitions |-> FALSE, crash |-> FALSE]
       \/ KVTestInit("put") /\ test = [clients |-> FALSE, partitions |-> FALSE, crash |-> FALSE]
    /\ program.reliable => ~test.partitions /\ ~test.crash
    /\ GroupInit
    /\ AnnotationInit
    /\ ~test.clients \/ test.partitions \/ test.crash \/ ~Running("put") => enabled \in VisElsewhere
    /\ main = IF test.clients THEN "spawn" ELSE "faults"
    /\ iter = 0
    /\ partitioner = "off"
    /\ verdict = "Ok"
    /\ failed = FALSE

\* From here to there in the test goroutine.
Main(here, there) == main = here /\ main' = there

-----------------------------------------------------------------------------
(* GenericTest. *)

\* go SpawnClientsAndWait, and go Partitioner.
StartIteration ==
    /\ Main("spawn", "wait")
    /\ Spawn
    /\ partitioner' = IF test.partitions THEN "select" ELSE "off"
    /\ UNCHANGED <<groupVars, annotationVars, test, iter, verdict, failed>>

AfterCheck == IF test.partitions THEN "stop" ELSE "crash"

\* The spawning goroutine sends on ch_spawn; then CheckPorcupine.  What it finds
\* is up to the checker.
JoinClients ==
    /\ spawner = "returned"
    /\ spawner' = "idle"
    /\ \E v \in {"Ok", "Illegal"} :
          /\ verdict' = v
          /\ Main("wait", IF v = "Ok" THEN AfterCheck ELSE "cleanup")
          /\ \E outcome \in VisOutcome : CheckPorcupine(Running("put") /\ iter = NITER - 1, v, outcome)
          /\ failed' = (v = "Illegal")
    /\ UNCHANGED <<kvVars, program, clnt, res, fatal, groupVars, test, iter, partitioner>>

StopPartitioner_Continues ==
    /\ Main("stop", "join")
    /\ partitioner = "select" /\ UNCHANGED partitioner
    /\ UNCHANGED <<kvVars, testVars, groupVars, annotationVars, test, iter, verdict, failed>>

\* ch_partitioner <- true meets the Partitioner at its select; its deferred
\* function will send the answer.
StopPartitioner ==
    /\ Main("stop", "join")
    /\ partitioner = "select" /\ partitioner' = "leaving"
    /\ UNCHANGED <<kvVars, testVars, groupVars, annotationVars, test, iter, verdict, failed>>

\* <-ch_partitioner, and the network is whole again.
JoinPartitioner ==
    /\ Main("join", "crash")
    /\ partitioner = "leaving" /\ partitioner' = "off"
    /\ ConnectAll
    /\ AnnotateClearFailure
    /\ UNCHANGED <<kvVars, testVars, test, iter, verdict, failed>>

ShutdownAll ==
    /\ test.crash
    /\ Main("crash", "restart")
    /\ Shutdown
    /\ AnnotateShutdown(Srv)
    /\ UNCHANGED <<kvVars, testVars, test, iter, partitioner, verdict, failed>>

RestartAll ==
    /\ Main("restart", "trimmed")
    /\ StartServers
    /\ AnnotateClearFailure
    /\ UNCHANGED <<kvVars, testVars, test, iter, partitioner, verdict, failed>>

NoCrash ==
    /\ ~test.crash
    /\ Main("crash", "trimmed")
    /\ UNCHANGED <<kvVars, testVars, groupVars, annotationVars, test, iter, partitioner, verdict, failed>>

\* The checks of the log and snapshot sizes, which may fail; else the next iteration.
EndIteration ==
    /\ \E ok \in BOOLEAN :
          /\ failed' = ~ok
          /\ iter' = iter + 1
          /\ Main("trimmed", IF ok /\ Running("put") /\ iter + 1 < NITER THEN "spawn" ELSE "cleanup")
    /\ UNCHANGED <<kvVars, testVars, groupVars, annotationVars, test, partitioner, verdict>>

\* The deferred Cleanup of the test.
Cleanup ==
    /\ Main("cleanup", "done")
    /\ \E outcome \in VisOutcome : cleanup(failed, outcome)
    /\ UNCHANGED <<kvVars, testVars, groupVars, test, iter, partitioner, verdict, failed>>

\* The default case of the Partitioner's select, while nobody sends.
Repartition ==
    /\ partitioner = "select"
    /\ main # "stop"
    /\ \E part \in Drawn : Partitioner(part) /\ AnnotateTwoPartitions(part, Srv \ part)
    /\ UNCHANGED <<kvVars, testVars, mainVars>>

MainStep ==
    \/ StartIteration \/ JoinClients \/ StopPartitioner \/ JoinPartitioner
    \/ ShutdownAll \/ RestartAll \/ NoCrash \/ EndIteration \/ Cleanup

-----------------------------------------------------------------------------
(* The fault operations of a test without clients. *)
FaultStep ==
    /\ main = "faults"
    /\ \/ \E i \in Srv :
             \/ DisconnectAll(i) /\ AnnotateConnection(net'.connected)
             \/ ConnectOne(i) /\ AnnotateConnection(net'.connected)
             \/ ShutdownServer(i) /\ AnnotateShutdown({i})
             \/ restart(i) /\ AnnotateRestart({i})
             \/ PartitionAround(i) /\ AnnotateTwoPartitions(cut'[1], cut'[2])
       \/ Shutdown /\ AnnotateShutdown(Srv)
       \/ StartServers /\ AnnotateRestart(Srv)
       \/ ConnectAll /\ AnnotateClearFailure
       \/ \E part \in SUBSET Srv : Partitioner(part) /\ AnnotateTwoPartitions(part, Srv \ part)
    /\ UNCHANGED <<kvVars, testVars, mainVars>>

-----------------------------------------------------------------------------
Finished == main = "done" /\ UNCHANGED vars

OthersUnchanged == UNCHANGED <<groupVars, annotationVars, mainVars>>

Next ==
    \/ MainStep
    \/ Repartition
    \/ SpawnerStep /\ OthersUnchanged
    \/ \E c \in Client : ClientStep(c) /\ OthersUnchanged
    \/ FaultStep
    \/ Finished

\* Goroutines are scheduled, and the calls of the clerks return.
FairSpec ==
    /\ Init /\ [][Next]_vars
    /\ WF_vars(MainStep)
    /\ WF_vars(SpawnerStep /\ OthersUnchanged)
    /\ \A c \in Client : /\ WF_vars((Select(c) \/ Call(c) \/ Continue(c)) /\ OthersUnchanged)
                         /\ WF_vars(Serve(c) /\ OthersUnchanged)

-----------------------------------------------------------------------------
(* Properties. *)

\* No fault goes unseen: while no failure annotation is open, every server runs
\* and reaches every other one, unless Partition was mixed with the other
\* operations (the comment of AnnotateConnection).  The tester is told of
\* crashes and of cut servers separately, and each call may close the annotation.
\* All variables keep their types.
FaultsAnnotated ==
    /\ TypeOK
    /\ annotation.fault = NoFault /\ ~partitioned /\ main # "done" =>
          running = Srv /\ net.link = Srv \X Srv

\* One visualisation: the file with the clients' operations "won't be overridden
\* by that without client operations (generated at cleanup time)"
\* (CheckPorcupineT), since no second file is opened, whatever fails.  With
\* VIS_ENABLE=never nothing is ever written, though a file may be opened.  If no
\* file failed, then at the end a history that is not linearizable has its
\* operations, always left something written, and a test that failed has a file
\* unless it had passed its last check, which made cleanup take it for finalized.
OneVisFile ==
    /\ Len(files) <= 1
    /\ enabled = "never" => files \in {<<>>, <<"empty">>}
    /\ main = "done" /\ ~failed /\ enabled # "always" => files = <<>>
    /\ main = "done" /\ ~ioError =>
          /\ enabled = "always" => files \in {<<"operations">>, <<"plain">>}
          /\ verdict = "Illegal" /\ enabled # "never" => files = <<"operations">>
          /\ failed /\ enabled = "" => files # <<>> \/ (verdict = "Ok" /\ Running("put") /\ iter = NITER)

\* The test ends: no goroutine is left waiting on done, on the clients' result
\* channels, on ch_spawn or on ch_partitioner, and no OnePut is starved for ever
\* by the other clients.
TestEnds == test.clients => <>(main = "done")

=============================================================================
