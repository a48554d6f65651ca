----------------------------- MODULE MapReduce -----------------------------
(***************************************************************************)
(* The MapReduce coordinator (mr/coordinator.go) and its workers           *)
(* (mr/worker.go).  RequestTask and ReportTask put a message into a        *)
(* channel and wait; the scheduler goroutine takes the messages one by one *)
(* and handles each of them under c.mu.  A worker asks for a task, runs    *)
(* it file by file, and reports it.                                        *)
(*                                                                         *)
(* c.mu is not reentrant: a handler that calls itself while it holds c.mu  *)
(* blocks the scheduler for good.  The channels hold 10 messages; a        *)
(* message that finds them full waits in its RPC's goroutine, which is a   *)
(* longer queue.  The contents of a file are the numbers of the map tasks  *)
(* whose pairs are in it.                                                  *)
(*                                                                         *)
(* An operator Op_fault is Op with a plausible mistake in it.  No          *)
(* specification uses it; put in the place of Op, it violates a property.  *)
(***************************************************************************)
EXTENDS Naturals, Sequences, FiniteSets

CONSTANTS Worker,
          NMap,         \* number of input files: at least one (main/mrcoordinator.go)
          NReduce,
          Unreadable,   \* the map tasks whose input file cannot be read
          MaxCrashes    \* bound on the crashes of a worker process

ASSUME MapReduceAssumption ==
    /\ NMap \in Nat \ {0} /\ NReduce \in Nat \ {0}
    /\ MaxCrashes \in Nat
    /\ Unreadable \subseteq 0..NMap - 1

VARIABLES coord,        \* the coordinator process: "running", or how it stopped
          phase,        \* c.phase
          tasks,        \* the status of c.tasks[i]
          expired,      \* the running tasks that started more than 10 s ago
          heartBeatCh,  \* c.heartBeatCh
          reportCh,     \* c.reportCh
          worker,       \* what each worker process is doing
          crashes,      \* how often each worker has crashed and been started again
          files,        \* the intermediate files "mr-m-r" that exist
          out           \* the contents of the output files "mr-out-r"

coordVars == <<coord, phase, tasks, expired>>
vars == <<coordVars, heartBeatCh, reportCh, worker, crashes, files, out>>

MapTask == 0..NMap - 1
ReduceTask == 0..NReduce - 1

Status == {"Inited", "Running", "Completed"}

\* The number of tasks of a kind, and the tasks the handlers loop over.
TaskCount(type) == IF type = "map" THEN NMap ELSE NReduce

Ids(type) == 0..TaskCount(type) - 1

\* A worker process: pc says where in Worker() it is, and the other fields hold
\* the task, the number of the next file and the pairs read so far.
WorkerState ==
    [pc : {"ready", "requesting", "map", "reduce", "report", "reporting", "exited"},
     type : {"map", "reduce"}, id : MapTask \cup ReduceTask, file : Nat, read : SUBSET MapTask]

Fresh == [pc |-> "ready", type |-> "map", id |-> 0, file |-> 0, read |-> {}]

\* A message names the worker process that waits for the answer.
Message == [worker : Worker, run : 0..MaxCrashes]

NoFile == {NMap}

TypeOK ==
    /\ coord \in {"running", "blocked", "panicked", "exited"}
    /\ phase \in {"MapPhase", "ReducePhase", "DonePhase"}
    /\ \E n \in {NMap, NReduce} : tasks \in [0..n - 1 -> Status]
    /\ expired \subseteq DOMAIN tasks
    /\ heartBeatCh \in Seq(Message)
    /\ reportCh \in Seq([worker : Worker, run : 0..MaxCrashes, type : {"map", "reduce"},
                         id : MapTask \cup ReduceTask])
    /\ worker \in [Worker -> WorkerState]
    /\ crashes \in [Worker -> 0..MaxCrashes]
    /\ files \subseteq MapTask \X ReduceTask
    /\ out \in [ReduceTask -> (SUBSET MapTask) \cup {NoFile}]

\* MakeCoordinator, and the start of Schedule.
Init ==
    /\ coord = "running"
    /\ phase = "MapPhase"
    /\ tasks = [i \in MapTask |-> "Inited"]
    /\ expired = {}
    /\ heartBeatCh = <<>>
    /\ reportCh = <<>>
    /\ worker = [w \in Worker |-> Fresh]
    /\ crashes = [w \in Worker |-> 0]
    /\ files = {}
    /\ out = [r \in ReduceTask |-> NoFile]

-----------------------------------------------------------------------------
(* The coordinator. *)

\* RequestTask: the message of worker w enters the channel.
RequestTask(w) ==
    /\ worker[w].pc = "ready"
    /\ coord \notin {"panicked", "exited"}
    /\ heartBeatCh' = Append(heartBeatCh, [worker |-> w, run |-> crashes[w]])
    /\ worker' = [worker EXCEPT ![w].pc = "requesting"]
    /\ UNCHANGED <<coordVars, reportCh, crashes, files, out>>

\* ReportTask.
ReportTask(w) ==
    /\ worker[w].pc = "report"
    /\ coord \notin {"panicked", "exited"}
    /\ reportCh' = Append(reportCh, [worker |-> w, run |-> crashes[w],
                                     type |-> worker[w].type, id |-> worker[w].id])
    /\ worker' = [worker EXCEPT ![w].pc = "reporting"]
    /\ UNCHANGED <<coordVars, heartBeatCh, crashes, files, out>>

\* A reply reaches the process that waits for it, if it still lives.
Reply(msg, next) ==
    worker' = IF crashes[msg.worker] = msg.run THEN [worker EXCEPT ![msg.worker] = next] ELSE worker

\* The type of the tasks that a phase hands out.
TypeIn(ph) == IF ph = "MapPhase" THEN "map" ELSE "reduce"

\* The tasks the scan of handleHeartBeat stops at; there is no scan in DonePhase.
Candidates ==
    {i \in Ids(TypeIn(phase)) : /\ phase # "DonePhase"
                                /\ tasks[i] = "Inited" \/ (tasks[i] = "Running" /\ i \in expired)}

AllCompleted == \A i \in Ids(TypeIn(phase)) : tasks[i] = "Completed"

\* The handler hands out task i: the scan met no candidate before it.
Assign(msg, i) ==
    /\ tasks[i] = "Inited"
    /\ tasks' = [tasks EXCEPT ![i] = "Running"]
    /\ Reply(msg, [Fresh EXCEPT !.pc = TypeIn(phase), !.type = TypeIn(phase), !.id = i])
    /\ UNCHANGED <<coord, phase, expired>>

\* The handler resets a task that timed out and calls itself: it blocks on c.mu.
TimedOut(i) ==
    /\ tasks[i] = "Running"
    /\ tasks' = [tasks EXCEPT ![i] = "Inited"]
    /\ expired' = expired \ {i}
    /\ coord' = "blocked"
    /\ UNCHANGED <<phase, worker>>

initReducePhase ==
    phase' = "ReducePhase" /\ tasks' = [i \in ReduceTask |-> "Inited"] /\ expired' = {}

\* No candidate: the worker waits, or is done.  If a map phase whose tasks are
\* all completed lasted until a heartbeat, the handler would call itself here too.
NoTask(msg) ==
    /\ Candidates = {}
    /\ IF phase = "MapPhase" /\ AllCompleted
       THEN initReducePhase /\ coord' = "blocked" /\ UNCHANGED worker
       ELSE /\ IF phase = "DonePhase" \/ AllCompleted
               THEN phase' = "DonePhase" /\ Reply(msg, [Fresh EXCEPT !.pc = "exited"])
               ELSE UNCHANGED phase /\ Reply(msg, Fresh)
            /\ UNCHANGED <<coord, tasks, expired>>

handleHeartBeat ==
    /\ coord = "running"
    /\ heartBeatCh # <<>>
    /\ heartBeatCh' = Tail(heartBeatCh)
    /\ \/ \E i \in Candidates :
            /\ \A j \in Candidates : i <= j
            /\ Assign(Head(heartBeatCh), i) \/ TimedOut(i)
       \/ NoTask(Head(heartBeatCh))
    /\ UNCHANGED <<reportCh, crashes, files, out>>

\* c.tasks after a report: the type of the report is not compared with the phase.
Reported(msg) == [tasks EXCEPT ![msg.id] = "Completed"]

StillOpen_RunningIsDone(msg) == {i \in Ids(msg.type) \cap DOMAIN tasks : Reported(msg)[i] = "Inited"}

StillOpen_BeforeReport(msg) == {i \in Ids(msg.type) \cap DOMAIN tasks : tasks[i] # "Completed"}

\* The tasks that the scan of handleReport finds open.
StillOpen(msg) == {i \in Ids(msg.type) \cap DOMAIN tasks : Reported(msg)[i] # "Completed"}

\* handleReport checks the task's number against the type of the report, and so
\* may index c.tasks out of its range: then the coordinator panics.
OutOfRange(msg) ==
    \/ msg.id \notin DOMAIN tasks
    \/ StillOpen(msg) = {} /\ ~(Ids(msg.type) \subseteq DOMAIN tasks)

\* The report completes its phase: initReducePhase, or DonePhase.
EndPhase(msg) ==
    IF msg.type = "map"
    THEN initReducePhase
    ELSE phase' = "DonePhase" /\ tasks' = Reported(msg) /\ expired' = expired \ {msg.id}

handleReport ==
    LET msg == Head(reportCh) IN
    /\ coord = "running"
    /\ reportCh # <<>>
    /\ reportCh' = Tail(reportCh)
    /\ IF OutOfRange(msg)
       THEN coord' = "panicked" /\ UNCHANGED <<phase, tasks, expired, worker>>
       ELSE /\ IF StillOpen(msg) = {}
               THEN EndPhase(msg)
               ELSE tasks' = Reported(msg) /\ expired' = expired \ {msg.id} /\ UNCHANGED phase
            /\ Reply(msg, Fresh)
            /\ UNCHANGED coord
    /\ UNCHANGED <<heartBeatCh, crashes, files, out>>

\* Ten seconds have passed since task i was handed out.
Expire(i) ==
    /\ tasks[i] = "Running"
    /\ expired' = expired \cup {i}
    /\ UNCHANGED <<coord, phase, tasks, heartBeatCh, reportCh, worker, crashes, files, out>>

\* The calls that wait for an answer when the coordinator's process ends fail,
\* and are made again.
CallsFail ==
    /\ heartBeatCh' = <<>>
    /\ reportCh' = <<>>
    /\ worker' = [w \in Worker |->
                    CASE worker[w].pc = "requesting" -> [worker[w] EXCEPT !.pc = "ready"]
                      [] worker[w].pc = "reporting" -> [worker[w] EXCEPT !.pc = "report"]
                      [] OTHER -> worker[w]]

\* main/mrcoordinator.go sees Done() and exits.  (While the scheduler is blocked
\* it holds c.mu, and Done() blocks as well.)
CoordinatorExits ==
    /\ coord = "running"
    /\ phase = "DonePhase"
    /\ coord' = "exited"
    /\ CallsFail
    /\ UNCHANGED <<phase, tasks, expired, crashes, files, out>>

-----------------------------------------------------------------------------
(* The workers. *)

\* doMapTask cannot read its input: it writes nothing, and is reported all the
\* same.
SkipMap(w) ==
    /\ worker[w].pc = "map" /\ worker[w].id \in Unreadable
    /\ worker' = [worker EXCEPT ![w].pc = "report"]
    /\ UNCHANGED <<coordVars, heartBeatCh, reportCh, crashes, files, out>>

doMapTask_OneFileShort(w) ==
    LET n == worker[w].file IN
    /\ worker[w].pc = "map" /\ worker[w].id \notin Unreadable
    /\ files' = files \cup {<<worker[w].id, n>>}
    /\ worker' = [worker EXCEPT ![w].file = n + 1, ![w].pc = IF n + 2 >= NReduce THEN "report" ELSE "map"]
    /\ UNCHANGED <<coordVars, heartBeatCh, reportCh, crashes, out>>

\* doMapTask renames the next intermediate file into place.
doMapTask(w) ==
    LET n == worker[w].file IN
    /\ worker[w].pc = "map" /\ worker[w].id \notin Unreadable
    /\ files' = files \cup {<<worker[w].id, n>>}
    /\ worker' = [worker EXCEPT ![w].file = n + 1, ![w].pc = IF n + 1 = NReduce THEN "report" ELSE "map"]
    /\ UNCHANGED <<coordVars, heartBeatCh, reportCh, crashes, out>>

doReduceTask_InPlace(w) ==
    LET n == worker[w].file
        r == worker[w].id
        read == worker[w].read \cup (IF <<n, r>> \in files THEN {n} ELSE {})
    IN /\ worker[w].pc = "reduce"
       /\ worker' = [worker EXCEPT ![w].file = n + 1, ![w].read = read,
                                   ![w].pc = IF n + 1 >= NMap THEN "report" ELSE "reduce"]
       /\ out' = [out EXCEPT ![r] = read]
       /\ UNCHANGED <<coordVars, heartBeatCh, reportCh, crashes, files>>

\* doReduceTask reads the next intermediate file, if it exists, and after the
\* last one renames the output file into place.
doReduceTask(w) ==
    LET n == worker[w].file
        r == worker[w].id
        read == worker[w].read \cup (IF <<n, r>> \in files THEN {n} ELSE {})
    IN /\ worker[w].pc = "reduce"
       /\ worker' = [worker EXCEPT ![w].file = n + 1, ![w].read = read,
                                   ![w].pc = IF n + 1 = NMap THEN "report" ELSE "reduce"]
       /\ out' = IF n + 1 = NMap THEN [out EXCEPT ![r] = read] ELSE out
       /\ UNCHANGED <<coordVars, heartBeatCh, reportCh, crashes, files>>

\* A worker process dies (mrapps/crash.go), and main/test-mr.sh starts another.
Crash(w) ==
    /\ worker[w].pc # "exited"
    /\ crashes[w] < MaxCrashes
    /\ crashes' = [crashes EXCEPT ![w] = @ + 1]
    /\ worker' = [worker EXCEPT ![w] = Fresh]
    /\ UNCHANGED <<coordVars, heartBeatCh, reportCh, files, out>>

-----------------------------------------------------------------------------
WorkerStep(w) == RequestTask(w) \/ SkipMap(w) \/ doMapTask(w) \/ doReduceTask(w) \/ ReportTask(w)

\* The scheduler takes messages; workers work, and crash, and are slow.
Next ==
    \/ handleHeartBeat
    \/ handleReport
    \/ CoordinatorExits
    \/ \E i \in DOMAIN tasks : Expire(i)
    \/ \E w \in Worker : WorkerStep(w) \/ Crash(w)

\* Processes keep running, and a message in a channel is received in the end.
Fairness ==
    /\ WF_vars(handleHeartBeat) /\ WF_vars(handleReport) /\ WF_vars(CoordinatorExits)
    /\ \A w \in Worker : WF_vars(WorkerStep(w))

Spec == Init /\ [][Next]_vars /\ Fairness

-----------------------------------------------------------------------------
(* Properties. *)

\* The tasks that are worked on, or whose report is on its way.
Active(type) ==
    {worker[w].id : w \in {v \in Worker : worker[v].pc \in {"map", "reduce", "report", "reporting"}
                                           /\ worker[v].type = type}}
    \cup {reportCh[n].id : n \in {k \in 1..Len(reportCh) : reportCh[k].type = type}}

\* handleReport does not check the phase, so a report must not outlive its
\* phase: no map task is active after the map phase, no reduce task before or
\* after the reduce phase, and each one is marked Running.  Otherwise a reduce
\* task would count as completed before it ran, or c.tasks would be indexed out
\* of range.  All variables keep their types, c.tasks the length of its phase.
ReportsMatchPhase ==
    /\ TypeOK
    /\ coord = "running" =>
          /\ phase # "MapPhase" => Active("map") = {}
          /\ phase # "ReducePhase" => Active("reduce") = {}
          /\ \A i \in Active(TypeIn(phase)) : tasks[i] = "Running"

\* When the coordinator says Done, and when it or a worker exits for that reason,
\* every output file is complete (main/test-mr.sh: "all output files have been
\* finalized"), although workers crash in the middle of tasks and doReduceTask
\* skips intermediate files that do not exist yet.
OutputComplete ==
    phase = "DonePhase" => \A r \in ReduceTask : out[r] = MapTask \ Unreadable

\* An output file that was written is final (main/test-mr.sh: "output changed
\* after first worker exited").
OutputFinal == [][\A r \in ReduceTask : out[r] # NoFile => out'[r] = out[r]]_vars

\* The job comes to an end, and the coordinator exits, unless a worker crashes or
\* a task takes longer than 10 s.
JobFinishes == <>(coord = "exited" \/ expired # {} \/ \E w \in Worker : crashes[w] > 0)

-----------------------------------------------------------------------------
\* A task that timed out is reset "so that it can be handed out again"
\* (coordinator.go): the scheduler goes on after it.
TimeoutRecovers == coord # "blocked"

-----------------------------------------------------------------------------
(***************************************************************************)
(* The inductive strengthening of ReportsMatchPhase and OutputComplete.    *)
(***************************************************************************)
Holding == {w \in Worker : worker[w].pc \in {"map", "reduce", "report"}}

InFlight == 1..Len(reportCh)

\* The task that a worker or a report names was handed out in this phase.
HandedOut(h) ==
    phase # "DonePhase" /\ h.type = TypeIn(phase) /\ h.id \in DOMAIN tasks /\ tasks[h.id] = "Running"

\* While the scheduler runs, a task is in one place only: with the worker that
\* works on it, or in a report.  A worker that waits has its report in flight.
TasksHeldOnce ==
    coord = "running" =>
        /\ \A w \in Holding : HandedOut(worker[w])
        /\ \A k \in InFlight : HandedOut(reportCh[k])
        /\ \A v, w \in Holding : worker[v].id = worker[w].id => v = w
        /\ \A w \in Holding, k \in InFlight : worker[w].id # reportCh[k].id
        /\ \A k, l \in InFlight : reportCh[k].id = reportCh[l].id => k = l
        /\ \A w \in Worker : worker[w].pc = "reporting" =>
              \E k \in InFlight : /\ reportCh[k].worker = w /\ reportCh[k].run = crashes[w]
                                  /\ reportCh[k].type = worker[w].type /\ reportCh[k].id = worker[w].id

MapDone(m) == m \in Unreadable \/ \A r \in ReduceTask : <<m, r>> \in files

AllMapped == \A m \in MapTask : MapDone(m)

\* The files that a task of this kind and number writes are there.
TaskDone(type, id) == IF type = "map" THEN MapDone(id) ELSE out[id] = MapTask \ Unreadable

\* How far a worker is with its files.
Progress(s) ==
    /\ s.id \in Ids(s.type)
    /\ s.pc = "map" => /\ s.type = "map" /\ s.file < NReduce
                       /\ s.id \in Unreadable \/ \A r \in 0..s.file - 1 : <<s.id, r>> \in files
    /\ s.pc = "reduce" => /\ s.type = "reduce" /\ s.file < NMap
                          /\ AllMapped /\ s.read = (0..s.file - 1) \ Unreadable
    /\ s.pc \in {"report", "reporting"} => TaskDone(s.type, s.id)

\* What was reported is done, and a reduce task starts after all map tasks.
WorkDone ==
    /\ tasks \in [Ids(TypeIn(phase)) -> Status]
    /\ phase # "MapPhase" => AllMapped
    /\ \A i \in DOMAIN tasks : tasks[i] = "Completed" => TaskDone(TypeIn(phase), i)
    /\ phase = "DonePhase" => \A r \in ReduceTask : TaskDone("reduce", r)
    /\ \A f \in files : f[1] \notin Unreadable
    /\ \A r \in ReduceTask : out[r] \in {NoFile, MapTask \ Unreadable}
    /\ \A k \in InFlight : /\ reportCh[k].id \in Ids(reportCh[k].type)
                           /\ TaskDone(reportCh[k].type, reportCh[k].id)
    /\ \A w \in Worker : Progress(worker[w])

JobInv == TypeOK /\ TasksHeldOnce /\ WorkDone

=============================================================================
