-------------------------- MODULE MapReduceProofs --------------------------
(***************************************************************************)
(* Proofs about module MapReduce: for any number of workers, map tasks,    *)
(* reduce tasks and crashes, reports match the phase of the coordinator,   *)
(* output files are final, and they are complete when the job is done.     *)
(***************************************************************************)
EXTENDS MapReduce, TLAPS

Report == [worker : Worker, run : 0..MaxCrashes, type : {"map", "reduce"}, id : MapTask \cup ReduceTask]

\* The numbers of the tasks of a kind.
LEMMA IdFacts ==
    /\ Ids("map") = MapTask /\ Ids("reduce") = ReduceTask
    /\ 0 \in MapTask /\ 0 \in ReduceTask
    /\ MapTask \subseteq Nat /\ ReduceTask \subseteq Nat
  BY MapReduceAssumption DEF Ids, TaskCount, MapTask, ReduceTask

\* Taking the first message out of a channel.
LEMMA TailFacts ==
    ASSUME NEW S, NEW s \in Seq(S), s # <<>>
    PROVE  /\ Head(s) = s[1] /\ Head(s) \in S /\ 1 \in 1..Len(s)
           /\ Tail(s) \in Seq(S)
           /\ \A k \in 1..Len(Tail(s)) : k + 1 \in 1..Len(s) /\ Tail(s)[k] = s[k + 1]
           /\ \A k \in 1..Len(s) : k # 1 => k - 1 \in 1..Len(Tail(s)) /\ Tail(s)[k - 1] = s[k]
  OBVIOUS

\* Putting a message into a channel.
LEMMA AppendFacts ==
    ASSUME NEW S, NEW s \in Seq(S), NEW e \in S
    PROVE  /\ Append(s, e) \in Seq(S)
           /\ Len(s) \in Nat /\ Len(Append(s, e)) = Len(s) + 1
           /\ Append(s, e)[Len(s) + 1] = e
           /\ \A k \in 1..Len(s) : Append(s, e)[k] = s[k]
  OBVIOUS

\* The fields of a worker and of a report.
LEMMA FieldTypes ==
    ASSUME TypeOK
    PROVE  /\ \A w \in Worker : /\ worker[w] \in WorkerState
                                /\ worker[w].type \in {"map", "reduce"} /\ worker[w].file \in Nat
                                /\ worker[w].id \in MapTask \cup ReduceTask
           /\ \A k \in InFlight : /\ reportCh[k] \in Report
                                  /\ reportCh[k].type \in {"map", "reduce"}
                                  /\ reportCh[k].worker \in Worker
                                  /\ reportCh[k].id \in MapTask \cup ReduceTask
<1>1. \A w \in Worker : worker[w] \in WorkerState
  BY DEF TypeOK
<1>2. reportCh \in Seq(Report)
  BY DEF TypeOK, Report
<1>3. \A k \in InFlight : reportCh[k] \in Report
  BY <1>2 DEF InFlight
<1>4. \A w \in Worker : /\ worker[w].type \in {"map", "reduce"} /\ worker[w].file \in Nat
                        /\ worker[w].id \in MapTask \cup ReduceTask
  BY <1>1 DEF WorkerState
<1>5. \A k \in InFlight : /\ reportCh[k].type \in {"map", "reduce"} /\ reportCh[k].worker \in Worker
                          /\ reportCh[k].id \in MapTask \cup ReduceTask
  BY <1>3 DEF Report
<1> QED BY <1>1, <1>3, <1>4, <1>5

\* What the files show stays true while files are added and finished output
\* files stay as they are.
LEMMA DoneLasts ==
    ASSUME files \subseteq files',
           \A r \in ReduceTask : out[r] = MapTask \ Unreadable => out'[r] = MapTask \ Unreadable
    PROVE  /\ AllMapped => AllMapped'
           /\ \A type \in {"map", "reduce"} : \A id \in Ids(type) : TaskDone(type, id) => TaskDone(type, id)'
           /\ \A s : s.type \in {"map", "reduce"} /\ Progress(s) => Progress(s)'
<1>1. \A m : MapDone(m) => MapDone(m)'
  BY DEF MapDone
<1>2. AllMapped => AllMapped'
  BY <1>1 DEF AllMapped
<1>3. \A type \in {"map", "reduce"} : \A id \in Ids(type) : TaskDone(type, id) => TaskDone(type, id)'
  BY <1>1, IdFacts, Zenon DEF TaskDone
<1>4. ASSUME NEW s, s.type \in {"map", "reduce"}, Progress(s) PROVE Progress(s)'
  <2>1. s.id \in Ids(s.type)
    BY <1>4 DEF Progress
  <2>2. s.pc \in {"report", "reporting"} => TaskDone(s.type, s.id)'
    BY <1>3, <1>4, <2>1 DEF Progress
  <2> QED BY <1>2, <1>4, <2>1, <2>2 DEF Progress
<1> QED BY <1>2, <1>3, <1>4

\* Steps that hand out no task, end no phase and handle no report: tasks stay
\* with their workers, or are dropped.
LEMMA HeldKept ==
    ASSUME TasksHeldOnce, UNCHANGED <<coord, phase, tasks, reportCh>>,
           \A w \in Worker :
               \/ worker'[w].pc \notin {"map", "reduce", "report", "reporting"}
               \/ /\ worker[w].pc \in {"map", "reduce", "report"} /\ worker'[w].pc \in {"map", "reduce", "report"}
                  /\ worker'[w].type = worker[w].type /\ worker'[w].id = worker[w].id
               \/ worker'[w] = worker[w] /\ crashes'[w] = crashes[w]
    PROVE  TasksHeldOnce'
<1> SUFFICES ASSUME coord = "running" PROVE TasksHeldOnce'
  BY Zenon DEF TasksHeldOnce
<1>1. InFlight' = InFlight
  BY DEF InFlight
<1>2. \A w \in Holding' : w \in Holding /\ worker'[w].type = worker[w].type /\ worker'[w].id = worker[w].id
  BY DEF Holding
<1>3. \A w \in Holding' : HandedOut(worker[w])' 
  BY <1>2 DEF TasksHeldOnce, HandedOut
<1>4. \A k \in InFlight' : HandedOut(reportCh[k])'
  BY <1>1 DEF TasksHeldOnce, HandedOut
<1>5. \A w \in Worker : worker'[w].pc = "reporting" => worker'[w] = worker[w] /\ crashes'[w] = crashes[w]
  OBVIOUS
<1>6. \A w \in Worker : worker'[w].pc = "reporting" =>
          \E k \in InFlight' : /\ reportCh'[k].worker = w /\ reportCh'[k].run = crashes'[w]
                               /\ reportCh'[k].type = worker'[w].type /\ reportCh'[k].id = worker'[w].id
  BY <1>1, <1>5 DEF TasksHeldOnce
<1>7. /\ \A v, w \in Holding' : worker'[v].id = worker'[w].id => v = w
      /\ \A w \in Holding', k \in InFlight' : worker'[w].id # reportCh'[k].id
      /\ \A k, l \in InFlight' : reportCh'[k].id = reportCh'[l].id => k = l
  BY <1>1, <1>2 DEF TasksHeldOnce
<1> QED BY <1>3, <1>4, <1>6, <1>7 DEF TasksHeldOnce

\* Steps that leave the coordinator's tables, the channel of reports and the
\* files alone: it is enough to look at the workers that changed.
LEMMA WorkKept ==
    ASSUME TypeOK, WorkDone, UNCHANGED <<phase, tasks, reportCh>>,
           files \subseteq files', \A f \in files' : f[1] \notin Unreadable,
           \A r \in ReduceTask : /\ out[r] = MapTask \ Unreadable => out'[r] = MapTask \ Unreadable
                                 /\ out'[r] \in {NoFile, MapTask \ Unreadable},
           \A w \in Worker : worker'[w] = worker[w] \/ Progress(worker[w])'
    PROVE  WorkDone'
<1> USE FieldTypes, DoneLasts
<1>1. /\ tasks' \in [Ids(TypeIn(phase')) -> Status] /\ DOMAIN tasks = Ids(TypeIn(phase))
      /\ phase' # "MapPhase" => AllMapped'
  BY Zenon DEF WorkDone
<1>2. \A i \in DOMAIN tasks' : tasks'[i] = "Completed" => TaskDone(TypeIn(phase), i)'
  BY <1>1 DEF WorkDone, TypeIn
<1>3. phase' = "DonePhase" => \A r \in ReduceTask : TaskDone("reduce", r)'
  BY IdFacts DEF WorkDone
<1>4. \A k \in InFlight' : /\ reportCh'[k].id \in Ids(reportCh'[k].type)
                           /\ TaskDone(reportCh[k].type, reportCh[k].id)'
  <2>1. InFlight' = InFlight
    BY DEF InFlight
  <2> QED BY <2>1 DEF WorkDone
<1>5. \A w \in Worker : Progress(worker[w])'
  BY DEF WorkDone
<1> QED BY <1>1, <1>2, <1>3, <1>4, <1>5, Zenon DEF WorkDone

\* A worker asks for a task.
LEMMA RequestTaskInv ==
    ASSUME JobInv, NEW w \in Worker, RequestTask(w)
    PROVE  JobInv'
<1>1. worker[w] \in WorkerState /\ worker \in [Worker -> WorkerState] /\ crashes[w] \in 0..MaxCrashes
  BY DEF JobInv, TypeOK
<1>2. /\ worker' = [worker EXCEPT ![w].pc = "requesting"]
      /\ UNCHANGED <<coord, phase, tasks, expired, reportCh, crashes, files, out>>
      /\ heartBeatCh' = Append(heartBeatCh, [worker |-> w, run |-> crashes[w]])
  BY DEF RequestTask, coordVars
<1>3. /\ worker' \in [Worker -> WorkerState]
      /\ \A v \in Worker : v # w => worker'[v] = worker[v]
      /\ worker'[w] = [worker[w] EXCEPT !.pc = "requesting"]
  BY <1>1, <1>2, Zenon DEF WorkerState
<1>4. heartBeatCh' \in Seq(Message)
  <2>1. [worker |-> w, run |-> crashes[w]] \in Message /\ heartBeatCh \in Seq(Message)
    BY <1>1 DEF Message, JobInv, TypeOK
  <2> QED BY <1>2, <2>1, AppendFacts
<1>5. TypeOK'
  BY <1>2, <1>3, <1>4 DEF JobInv, TypeOK
<1>6. TasksHeldOnce'
  <2>1. worker'[w].pc = "requesting"
    BY <1>1, <1>3 DEF WorkerState
  <2> QED BY <1>2, <1>3, <2>1, HeldKept DEF JobInv
<1>7. Progress(worker[w])'
  <2>1. worker'[w].pc = "requesting" /\ worker'[w].type = worker[w].type /\ worker'[w].id = worker[w].id
    BY <1>1, <1>3 DEF WorkerState
  <2>2. worker[w].id \in Ids(worker[w].type)
    BY DEF JobInv, WorkDone, Progress
  <2> QED BY <2>1, <2>2 DEF Progress
<1>8. WorkDone'
  BY <1>2, <1>3, <1>7, WorkKept, Zenon DEF JobInv, WorkDone
<1> QED BY <1>5, <1>6, <1>8 DEF JobInv

\* A map task without input ends.
LEMMA SkipMapInv ==
    ASSUME JobInv, NEW w \in Worker, SkipMap(w)
    PROVE  JobInv'
<1>1. worker[w] \in WorkerState /\ worker \in [Worker -> WorkerState]
  BY DEF JobInv, TypeOK
<1>2. /\ worker' = [worker EXCEPT ![w].pc = "report"]
      /\ worker[w].pc = "map" /\ worker[w].id \in Unreadable
      /\ UNCHANGED <<coord, phase, tasks, expired, heartBeatCh, reportCh, crashes, files, out>>
  BY DEF SkipMap, coordVars
<1>3. /\ worker' \in [Worker -> WorkerState]
      /\ \A v \in Worker : v # w => worker'[v] = worker[v]
      /\ worker'[w] = [worker[w] EXCEPT !.pc = "report"]
  BY <1>1, <1>2 DEF WorkerState
<1>4. worker'[w].pc = "report" /\ worker'[w].type = worker[w].type /\ worker'[w].id = worker[w].id
  BY <1>1, <1>3 DEF WorkerState
<1>5. TypeOK'
  BY <1>2, <1>3 DEF JobInv, TypeOK
<1>6. TasksHeldOnce'
  BY <1>2, <1>3, <1>4, HeldKept DEF JobInv
<1>7. Progress(worker[w])'
  <2>1. worker[w].id \in Ids(worker[w].type) /\ worker[w].type = "map"
    BY <1>2 DEF JobInv, WorkDone, Progress
  <2>2. TaskDone(worker[w].type, worker[w].id)'
    BY <1>2, <1>4, <2>1 DEF TaskDone, MapDone
  <2> QED BY <1>4, <2>1, <2>2 DEF Progress
<1>8. WorkDone'
  BY <1>2, <1>3, <1>7, WorkKept DEF JobInv, WorkDone
<1> QED BY <1>5, <1>6, <1>8 DEF JobInv

\* A map task writes its next file: the task is done when it was the last one.
LEMMA doMapTaskInv ==
    ASSUME JobInv, NEW w \in Worker, doMapTask(w)
    PROVE  JobInv'
<1> DEFINE n == worker[w].file
           m == worker[w].id
           pc == IF n + 1 = NReduce THEN "report" ELSE "map"
<1>1. worker[w] \in WorkerState /\ worker \in [Worker -> WorkerState] /\ n \in Nat
  BY DEF JobInv, TypeOK, WorkerState
<1>2. /\ worker' = [worker EXCEPT ![w].file = n + 1, ![w].pc = pc]
      /\ worker[w].pc = "map" /\ m \notin Unreadable
      /\ files' = files \cup {<<m, n>>}
      /\ UNCHANGED <<coord, phase, tasks, expired, heartBeatCh, reportCh, crashes, out>>
  BY DEF doMapTask, coordVars
<1>3. /\ worker' \in [Worker -> WorkerState]
      /\ \A v \in Worker : v # w => worker'[v] = worker[v]
      /\ worker'[w] = [worker[w] EXCEPT !.file = n + 1, !.pc = pc]
  <2>1. n + 1 \in Nat /\ pc \in {"report", "map"}
    BY <1>1
  <2>2. [worker[w] EXCEPT !.file = n + 1, !.pc = pc] \in WorkerState
    BY <1>1, <2>1, Zenon DEF WorkerState
  <2> QED BY <1>1, <1>2, <2>2
<1>4. /\ worker'[w].pc = pc /\ worker'[w].type = worker[w].type /\ worker'[w].id = m
      /\ worker'[w].file = n + 1
  BY <1>1, <1>3 DEF WorkerState
<1>5. /\ m \in MapTask /\ worker[w].type = "map" /\ n < NReduce
      /\ \A r \in 0..n - 1 : <<m, r>> \in files
  <2>1. m \in Ids(worker[w].type)
    BY DEF JobInv, WorkDone, Progress
  <2>2. worker[w].type = "map" /\ n < NReduce /\ \A r \in 0..n - 1 : <<m, r>> \in files
    BY <1>2 DEF JobInv, WorkDone, Progress
  <2> QED BY <2>1, <2>2, IdFacts
<1>6. n \in ReduceTask /\ NReduce \in Nat
  BY <1>1, <1>5, MapReduceAssumption DEF ReduceTask
<1>7. TypeOK'
  <2>1. files' \subseteq MapTask \X ReduceTask
    BY <1>2, <1>5, <1>6 DEF JobInv, TypeOK
  <2> QED BY <1>2, <1>3, <2>1 DEF JobInv, TypeOK
<1>8. TasksHeldOnce'
  BY <1>2, <1>3, <1>4, HeldKept, Zenon DEF JobInv
<1>9. \A r \in 0..n : <<m, r>> \in files'
  <2>1. \A r \in 0..n : r = n \/ r \in 0..n - 1
    BY <1>1
  <2> QED BY <1>2, <1>5, <2>1
<1>10. Progress(worker[w])'
  <2>1. CASE n + 1 = NReduce
    <3>1. ReduceTask = 0..n
      BY <1>1, <1>6, <2>1 DEF ReduceTask
    <3>2. TaskDone(worker[w].type, worker[w].id)'
      BY <1>4, <1>5, <1>9, <3>1 DEF TaskDone, MapDone
    <3> QED BY <1>4, <1>5, <2>1, <3>2, IdFacts DEF Progress
  <2>2. CASE n + 1 # NReduce
    <3>1. n + 1 < NReduce /\ (n + 1) - 1 = n
      BY <1>1, <1>5, <1>6, <2>2
    <3> QED BY <1>4, <1>5, <1>9, <2>2, <3>1, IdFacts DEF Progress
  <2> QED BY <2>1, <2>2
<1>11. WorkDone'
  <2>1. \A f \in files' : f[1] \notin Unreadable
    BY <1>2 DEF JobInv, WorkDone
  <2> QED BY <1>2, <1>3, <1>10, <2>1, WorkKept, Zenon DEF JobInv, WorkDone
<1> QED BY <1>7, <1>8, <1>11 DEF JobInv

\* A reduce task reads its next file, which exists unless its input could not be
\* read; after the last one it writes the complete output.
LEMMA doReduceTaskInv ==
    ASSUME JobInv, NEW w \in Worker, doReduceTask(w)
    PROVE  JobInv'
<1> DEFINE n == worker[w].file
           r == worker[w].id
           read == worker[w].read \cup (IF <<n, r>> \in files THEN {n} ELSE {})
           pc == IF n + 1 = NMap THEN "report" ELSE "reduce"
           Full == MapTask \ Unreadable
<1>1. worker[w] \in WorkerState /\ worker \in [Worker -> WorkerState] /\ n \in Nat
  BY DEF JobInv, TypeOK, WorkerState
<1>2. /\ worker' = [worker EXCEPT ![w].file = n + 1, ![w].read = read, ![w].pc = pc]
      /\ worker[w].pc = "reduce"
      /\ out' = IF n + 1 = NMap THEN [out EXCEPT ![r] = read] ELSE out
      /\ UNCHANGED <<coord, phase, tasks, expired, heartBeatCh, reportCh, crashes, files>>
  BY DEF doReduceTask, coordVars
<1>3. /\ r \in ReduceTask /\ worker[w].type = "reduce" /\ n < NMap /\ AllMapped
      /\ worker[w].read = (0..n - 1) \ Unreadable
  <2>1. r \in Ids(worker[w].type)
    BY DEF JobInv, WorkDone, Progress
  <2>2. /\ worker[w].type = "reduce" /\ n < NMap /\ AllMapped
        /\ worker[w].read = (0..n - 1) \ Unreadable
    BY <1>2, Zenon DEF JobInv, WorkDone, Progress
  <2> QED BY <2>1, <2>2, IdFacts
<1>4. NMap \in Nat /\ n \in MapTask /\ 0..n \subseteq MapTask
  BY <1>1, <1>3, MapReduceAssumption DEF MapTask
<1>5. <<n, r>> \in files <=> n \notin Unreadable
  <2>1. n \notin Unreadable => <<n, r>> \in files
    BY <1>3, <1>4 DEF AllMapped, MapDone
  <2>2. <<n, r>> \in files => n \notin Unreadable
    BY DEF JobInv, WorkDone
  <2> QED BY <2>1, <2>2
<1>6. read = (0..n) \ Unreadable
  <2>1. 0..n = (0..n - 1) \cup {n}
    BY <1>1
  <2> QED BY <1>3, <1>5, <2>1
<1>7. n + 1 = NMap => read = Full
  BY <1>1, <1>4, <1>6 DEF MapTask
<1> HIDE DEF read
<1>8. /\ worker' \in [Worker -> WorkerState]
      /\ \A v \in Worker : v # w => worker'[v] = worker[v]
      /\ worker'[w] = [worker[w] EXCEPT !.file = n + 1, !.read = read, !.pc = pc]
  <2>1. read \in SUBSET MapTask /\ n + 1 \in Nat
    BY <1>1, <1>4, <1>6
  <2> QED BY <1>1, <1>2, <2>1, Zenon DEF WorkerState
<1>9. /\ worker'[w].pc = pc /\ worker'[w].type = worker[w].type /\ worker'[w].id = r
      /\ worker'[w].file = n + 1 /\ worker'[w].read = read
  BY <1>1, <1>8 DEF WorkerState
<1>10. \A q \in ReduceTask : out'[q] = out[q] \/ out'[q] = Full
  BY <1>2, <1>3, <1>7 DEF JobInv, TypeOK
<1>11. TypeOK'
  <2>1. out' \in [ReduceTask -> (SUBSET MapTask) \cup {NoFile}]
    BY <1>2, <1>3, <1>7 DEF JobInv, TypeOK
  <2> QED BY <1>2, <1>8, <2>1, Zenon DEF JobInv, TypeOK
<1>12. TasksHeldOnce'
  BY <1>2, <1>8, <1>9, HeldKept, Zenon DEF JobInv
<1>13. AllMapped'
  BY <1>2, <1>3, Zenon DEF AllMapped, MapDone
<1>14. Progress(worker[w])'
  <2>1. CASE n + 1 = NMap
    <3>1. out'[r] = Full
      BY <1>2, <1>3, <1>7, <2>1 DEF JobInv, TypeOK
    <3>2. TaskDone(worker[w].type, worker[w].id)'
      BY <1>3, <1>9, <3>1 DEF TaskDone
    <3> QED BY <1>3, <1>9, <2>1, <3>2, IdFacts DEF Progress
  <2>2. CASE n + 1 # NMap
    <3>1. n + 1 < NMap /\ (n + 1) - 1 = n
      BY <1>1, <1>3, <1>4, <2>2
    <3> QED BY <1>3, <1>6, <1>9, <1>13, <2>2, <3>1, IdFacts DEF Progress
  <2> QED BY <2>1, <2>2
<1>15. WorkDone'
  BY <1>2, <1>8, <1>10, <1>14, WorkKept, Zenon DEF JobInv, WorkDone
<1> QED BY <1>11, <1>12, <1>15 DEF JobInv

\* A worker reports its task: the task moves from the worker into the channel.
LEMMA ReportTaskInv ==
    ASSUME JobInv, NEW w \in Worker, ReportTask(w)
    PROVE  JobInv'
<1> DEFINE msg == [worker |-> w, run |-> crashes[w], type |-> worker[w].type, id |-> worker[w].id]
           last == Len(reportCh) + 1
<1>1. /\ worker[w] \in WorkerState /\ worker \in [Worker -> WorkerState]
      /\ crashes[w] \in 0..MaxCrashes /\ reportCh \in Seq(Report)
  BY DEF JobInv, TypeOK, Report
<1>2. /\ worker' = [worker EXCEPT ![w].pc = "reporting"]
      /\ worker[w].pc = "report"
      /\ reportCh' = Append(reportCh, msg)
      /\ UNCHANGED <<coord, phase, tasks, expired, heartBeatCh, crashes, files, out>>
  BY DEF ReportTask, coordVars
<1>3. /\ worker' \in [Worker -> WorkerState]
      /\ \A v \in Worker : v # w => worker'[v] = worker[v]
      /\ worker'[w] = [worker[w] EXCEPT !.pc = "reporting"]
  BY <1>1, <1>2, Zenon DEF WorkerState
<1>4. worker'[w].pc = "reporting" /\ worker'[w].type = worker[w].type /\ worker'[w].id = worker[w].id
  BY <1>1, <1>3 DEF WorkerState
<1>5. msg \in Report
  BY <1>1 DEF Report, WorkerState
<1>6. /\ reportCh' \in Seq(Report) /\ last \in InFlight' /\ reportCh'[last] = msg
      /\ \A k \in InFlight' : k = last \/ (k \in InFlight /\ reportCh'[k] = reportCh[k])
      /\ \A k \in InFlight : k \in InFlight' /\ reportCh'[k] = reportCh[k]
  <2>1. /\ reportCh' \in Seq(Report) /\ Len(reportCh) \in Nat /\ Len(reportCh') = last
        /\ reportCh'[last] = msg /\ \A k \in 1..Len(reportCh) : reportCh'[k] = reportCh[k]
    BY <1>1, <1>2, <1>5, AppendFacts
  <2>2. /\ last \in 1..last /\ 1..Len(reportCh) \subseteq 1..last
        /\ \A k \in 1..last : k = last \/ k \in 1..Len(reportCh)
    BY <2>1
  <2> QED BY <2>1, <2>2 DEF InFlight
<1>7. TypeOK'
  BY <1>2, <1>3, <1>6, Zenon DEF JobInv, TypeOK, Report
<1>8. /\ worker[w].id \in Ids(worker[w].type)
      /\ TaskDone(worker[w].type, worker[w].id) /\ worker[w].type \in {"map", "reduce"}
  BY <1>1, <1>2 DEF JobInv, WorkDone, Progress, WorkerState
<1>9. TasksHeldOnce'
  <2> SUFFICES ASSUME coord = "running" PROVE TasksHeldOnce'
    BY <1>2, Zenon DEF TasksHeldOnce
  <2>1. /\ w \in Holding
        /\ \A v \in Holding' : v \in Holding /\ v # w /\ worker'[v] = worker[v]
    BY <1>2, <1>3, <1>4 DEF Holding
  <2>2. HandedOut(worker[w])
    BY <2>1 DEF JobInv, TasksHeldOnce
  <2>3. msg.type = worker[w].type /\ msg.id = worker[w].id /\ msg.worker = w /\ msg.run = crashes[w]
    OBVIOUS
  <2> HIDE DEF msg, last
  <2>4. \A v \in Holding' : HandedOut(worker[v])'
    BY <1>2, <2>1 DEF JobInv, TasksHeldOnce, HandedOut
  <2>5. \A k \in InFlight' : HandedOut(reportCh[k])'
    <3>1. \A k \in InFlight : HandedOut(reportCh[k])
      BY DEF JobInv, TasksHeldOnce
    <3> SUFFICES ASSUME NEW k \in InFlight' PROVE HandedOut(reportCh[k])'
      OBVIOUS
    <3>2. CASE k = last
      <4>1. reportCh'[k].type = worker[w].type /\ reportCh'[k].id = worker[w].id
        BY <1>6, <2>3, <3>2
      <4> QED BY <1>2, <2>2, <4>1 DEF HandedOut
    <3>3. CASE k \in InFlight /\ reportCh'[k] = reportCh[k]
      BY <1>2, <3>1, <3>3 DEF HandedOut
    <3> QED BY <1>6, <3>2, <3>3
  <2>6. \A u, v \in Holding' : worker'[u].id = worker'[v].id => u = v
    BY <2>1 DEF JobInv, TasksHeldOnce
  <2>7. \A v \in Holding', k \in InFlight' : worker'[v].id # reportCh'[k].id
    BY <1>6, <2>1, <2>3 DEF JobInv, TasksHeldOnce
  <2>8. \A k, l \in InFlight' : reportCh'[k].id = reportCh'[l].id => k = l
    BY <1>6, <2>1, <2>3 DEF JobInv, TasksHeldOnce
  <2>9. ASSUME NEW v \in Worker, worker'[v].pc = "reporting"
        PROVE  \E k \in InFlight' : /\ reportCh'[k].worker = v /\ reportCh'[k].run = crashes'[v]
                                    /\ reportCh'[k].type = worker'[v].type /\ reportCh'[k].id = worker'[v].id
    <3>1. CASE v = w
      <4>1. /\ reportCh'[last].worker = w /\ reportCh'[last].run = crashes[w]
            /\ reportCh'[last].type = worker[w].type /\ reportCh'[last].id = worker[w].id
        BY <1>6, <2>3
      <4>2. crashes' = crashes /\ last \in InFlight'
        BY <1>2, <1>6
      <4> QED BY <1>4, <3>1, <4>1, <4>2
    <3>2. CASE v # w
      <4>1. worker'[v] = worker[v] /\ crashes' = crashes
        BY <1>2, <1>3, <3>2
      <4>2. PICK k \in InFlight : /\ reportCh[k].worker = v /\ reportCh[k].run = crashes[v]
                                 /\ reportCh[k].type = worker[v].type /\ reportCh[k].id = worker[v].id
        BY <2>9, <4>1 DEF JobInv, TasksHeldOnce
      <4>3. k \in InFlight' /\ reportCh'[k] = reportCh[k]
        BY <1>6
      <4> QED BY <4>1, <4>2, <4>3
    <3> QED BY <3>1, <3>2
  <2> QED BY <2>4, <2>5, <2>6, <2>7, <2>8, <2>9 DEF TasksHeldOnce
<1>10. WorkDone'
  <2>1. /\ AllMapped => AllMapped'
        /\ \A type \in {"map", "reduce"} : \A id \in Ids(type) : TaskDone(type, id) => TaskDone(type, id)'
        /\ \A s : s.type \in {"map", "reduce"} /\ Progress(s) => Progress(s)'
    BY <1>2, DoneLasts
  <2>2. msg.type = worker[w].type /\ msg.id = worker[w].id
    OBVIOUS
  <2> HIDE DEF msg, last
  <2>3. /\ tasks' \in [Ids(TypeIn(phase')) -> Status] /\ DOMAIN tasks = Ids(TypeIn(phase))
        /\ phase' # "MapPhase" => AllMapped'
    BY <1>2, <2>1 DEF JobInv, WorkDone
  <2>4. \A i \in DOMAIN tasks' : tasks'[i] = "Completed" => TaskDone(TypeIn(phase), i)'
    <3>1. \A i \in DOMAIN tasks : tasks[i] = "Completed" => TaskDone(TypeIn(phase), i)
      BY DEF JobInv, WorkDone
    <3> QED BY <1>2, <3>1 DEF TaskDone, MapDone, TypeIn
  <2>5. phase' = "DonePhase" => \A r \in ReduceTask : TaskDone("reduce", r)'
    BY <1>2, <2>1, IdFacts DEF JobInv, WorkDone
  <2>6. \A k \in InFlight' : /\ reportCh'[k].id \in Ids(reportCh'[k].type)
                             /\ TaskDone(reportCh[k].type, reportCh[k].id)'
    <3> SUFFICES ASSUME NEW k \in InFlight'
                 PROVE  /\ reportCh'[k].id \in Ids(reportCh'[k].type)
                        /\ TaskDone(reportCh[k].type, reportCh[k].id)'
      OBVIOUS
    <3>1. CASE k = last
      BY <1>2, <1>6, <1>8, <2>2, <3>1, Zenon DEF TaskDone, MapDone
    <3>2. CASE k \in InFlight /\ reportCh'[k] = reportCh[k]
      <4>1. reportCh[k].id \in Ids(reportCh[k].type) /\ TaskDone(reportCh[k].type, reportCh[k].id)
        BY <3>2 DEF JobInv, WorkDone
      <4> QED BY <1>2, <3>2, <4>1 DEF TaskDone, MapDone
    <3> QED BY <1>6, <3>1, <3>2
  <2>7. \A v \in Worker : Progress(worker[v])'
    <3> SUFFICES ASSUME NEW v \in Worker PROVE Progress(worker[v])'
      OBVIOUS
    <3>1. CASE v = w
      BY <1>4, <1>8, <2>1, <3>1, Zenon DEF Progress
    <3>2. CASE v # w
      BY <1>3, <2>1, <3>2, FieldTypes DEF JobInv, WorkDone
    <3> QED BY <3>1, <3>2
  <2> QED BY <1>2, <2>3, <2>4, <2>5, <2>6, <2>7, Zenon DEF JobInv, WorkDone
<1> QED BY <1>7, <1>9, <1>10 DEF JobInv

\* A worker that starts anew holds nothing.
LEMMA FreshFacts ==
    /\ Fresh \in WorkerState /\ Fresh.pc = "ready" /\ Progress(Fresh) /\ Progress(Fresh)'
  BY IdFacts DEF Fresh, WorkerState, Progress

\* A worker process dies; its messages stay behind.
LEMMA CrashInv ==
    ASSUME JobInv, NEW w \in Worker, Crash(w)
    PROVE  JobInv'
<1>1. /\ worker' = [worker EXCEPT ![w] = Fresh] /\ crashes' = [crashes EXCEPT ![w] = @ + 1]
      /\ crashes[w] < MaxCrashes
      /\ UNCHANGED <<coord, phase, tasks, expired, heartBeatCh, reportCh, files, out>>
  BY DEF Crash, coordVars
<1>2. /\ worker' \in [Worker -> WorkerState] /\ worker'[w] = Fresh
      /\ \A v \in Worker : v # w => worker'[v] = worker[v] /\ crashes'[v] = crashes[v]
  BY <1>1, FreshFacts DEF JobInv, TypeOK
<1>3. TypeOK'
  <2>1. crashes' \in [Worker -> 0..MaxCrashes]
    BY <1>1, MapReduceAssumption DEF JobInv, TypeOK
  <2> QED BY <1>1, <1>2, <2>1 DEF JobInv, TypeOK
<1>4. TasksHeldOnce'
  BY <1>1, <1>2, FreshFacts, HeldKept DEF JobInv
<1>5. WorkDone'
  <2>1. Progress(worker[w])'
    BY <1>2, FreshFacts DEF Progress
  <2> QED BY <1>1, <1>2, <2>1, WorkKept, Zenon DEF JobInv, WorkDone
<1> QED BY <1>3, <1>4, <1>5 DEF JobInv

\* Time passes.
LEMMA ExpireInv ==
    ASSUME JobInv, NEW i \in DOMAIN tasks, Expire(i)
    PROVE  JobInv'
<1>1. /\ expired' = expired \cup {i}
      /\ UNCHANGED <<coord, phase, tasks, heartBeatCh, reportCh, worker, crashes, files, out>>
  BY DEF Expire
<1>2. TypeOK'
  BY <1>1 DEF JobInv, TypeOK
<1>3. TasksHeldOnce'
  BY <1>1, HeldKept DEF JobInv
<1>4. WorkDone'
  BY <1>1, WorkKept DEF JobInv, WorkDone
<1> QED BY <1>2, <1>3, <1>4 DEF JobInv

-----------------------------------------------------------------------------
\* Steps of the coordinator write no file: what remains is its own tables.
LEMMA FilesKept ==
    ASSUME TypeOK, WorkDone, UNCHANGED <<files, out>>,
           \A k \in InFlight' : \E j \in InFlight : reportCh'[k] = reportCh[j],
           \A w \in Worker : worker'[w] = worker[w] \/ Progress(worker[w])',
           /\ tasks' \in [Ids(TypeIn(phase')) -> Status]
           /\ phase' # "MapPhase" => AllMapped
           /\ \A i \in DOMAIN tasks' : tasks'[i] = "Completed" => TaskDone(TypeIn(phase'), i)
           /\ phase' = "DonePhase" => \A r \in ReduceTask : TaskDone("reduce", r)
    PROVE  WorkDone'
<1>1. /\ AllMapped => AllMapped'
      /\ \A type \in {"map", "reduce"} : \A id \in Ids(type) : TaskDone(type, id) => TaskDone(type, id)'
      /\ \A s : s.type \in {"map", "reduce"} /\ Progress(s) => Progress(s)'
  BY DoneLasts
<1>2. ASSUME NEW k \in InFlight'
      PROVE  reportCh'[k].id \in Ids(reportCh'[k].type) /\ TaskDone(reportCh[k].type, reportCh[k].id)'
  <2>1. PICK j \in InFlight : reportCh'[k] = reportCh[j]
    OBVIOUS
  <2>2. reportCh[j].id \in Ids(reportCh[j].type) /\ TaskDone(reportCh[j].type, reportCh[j].id)
    BY DEF WorkDone
  <2> QED BY <2>1, <2>2 DEF TaskDone, MapDone
<1>3. \A w \in Worker : Progress(worker[w])'
  <2> SUFFICES ASSUME NEW w \in Worker, worker'[w] = worker[w] PROVE Progress(worker[w])'
    OBVIOUS
  <2>1. Progress(worker[w]) /\ worker[w].type \in {"map", "reduce"}
    BY FieldTypes, Zenon DEF WorkDone
  <2> QED BY <1>1, <2>1
<1>4. /\ phase' # "MapPhase" => AllMapped'
      /\ \A i \in DOMAIN tasks' : tasks'[i] = "Completed" => TaskDone(TypeIn(phase), i)'
      /\ phase' = "DonePhase" => \A r \in ReduceTask : TaskDone("reduce", r)'
  BY <1>1 DEF TaskDone, MapDone
<1>5. /\ \A f \in files' : f[1] \notin Unreadable
      /\ \A r \in ReduceTask : out'[r] \in {NoFile, MapTask \ Unreadable}
  BY DEF WorkDone
<1> QED BY <1>2, <1>3, <1>4, <1>5, Zenon DEF WorkDone

\* An answer changes the worker that waits for it, and no other.
LEMMA ReplyFacts ==
    ASSUME TypeOK, NEW msg, msg.worker \in Worker, NEW next \in WorkerState, Reply(msg, next)
    PROVE  /\ worker' \in [Worker -> WorkerState]
           /\ \A w \in Worker : worker'[w] = worker[w] \/ (w = msg.worker /\ worker'[w] = next)
           /\ crashes[msg.worker] = msg.run => worker'[msg.worker] = next
  BY DEF TypeOK, Reply

\* The coordinator's process ends.
LEMMA CoordinatorExitsInv ==
    ASSUME JobInv, CoordinatorExits
    PROVE  JobInv'
<1>1. /\ coord' = "exited" /\ heartBeatCh' = <<>> /\ reportCh' = <<>>
      /\ worker' = [w \in Worker |->
                      CASE worker[w].pc = "requesting" -> [worker[w] EXCEPT !.pc = "ready"]
                        [] worker[w].pc = "reporting" -> [worker[w] EXCEPT !.pc = "report"]
                        [] OTHER -> worker[w]]
      /\ UNCHANGED <<phase, tasks, expired, crashes, files, out>>
  BY DEF CoordinatorExits, CallsFail
<1>2. ASSUME NEW w \in Worker
      PROVE  worker'[w] \in WorkerState /\ (worker'[w] = worker[w] \/ Progress(worker[w])')
  <2>1. worker[w] \in WorkerState /\ Progress(worker[w])
    BY Zenon DEF JobInv, TypeOK, WorkDone
  <2>2. CASE worker[w].pc = "requesting"
    <3>1. worker'[w] = [worker[w] EXCEPT !.pc = "ready"]
      BY <1>1, <2>2
    <3>2. /\ worker'[w] \in WorkerState /\ worker'[w].pc = "ready"
          /\ worker'[w].type = worker[w].type /\ worker'[w].id = worker[w].id
      BY <2>1, <3>1 DEF WorkerState
    <3> QED BY <2>1, <3>2, Zenon DEF Progress
  <2>3. CASE worker[w].pc = "reporting"
    <3>1. worker'[w] = [worker[w] EXCEPT !.pc = "report"]
      BY <1>1, <2>3
    <3>2. /\ worker'[w] \in WorkerState /\ worker'[w].pc = "report"
          /\ worker'[w].type = worker[w].type /\ worker'[w].id = worker[w].id
      BY <2>1, <3>1 DEF WorkerState
    <3>3. TaskDone(worker[w].type, worker[w].id)'
      BY <1>1, <2>1, <2>3, <3>2 DEF Progress, TaskDone, MapDone
    <3> QED BY <2>1, <3>2, <3>3, Zenon DEF Progress
  <2>4. CASE worker[w].pc \notin {"requesting", "reporting"}
    BY <1>1, <2>1, <2>4
  <2> QED BY <2>2, <2>3, <2>4
<1>3. worker' \in [Worker -> WorkerState]
  BY <1>1, <1>2
<1>4. TypeOK'
  <2>1. heartBeatCh' \in Seq(Message) /\ reportCh' \in Seq(Report)
    BY <1>1
  <2> QED BY <1>1, <1>3, <2>1, Zenon DEF JobInv, TypeOK, Report
<1>5. TasksHeldOnce'
  BY <1>1, Zenon DEF TasksHeldOnce
<1>6. WorkDone'
  <2>1. InFlight' = {}
    BY <1>1 DEF InFlight
  <2> QED BY <1>1, <1>2, <2>1, FilesKept, Zenon DEF JobInv, WorkDone
<1> QED BY <1>4, <1>5, <1>6 DEF JobInv

\* The scheduler hands out a task that nobody holds.
LEMMA AssignInv ==
    ASSUME JobInv, heartBeatCh' \in Seq(Message), UNCHANGED <<reportCh, crashes, files, out>>,
           NEW msg \in Message, NEW i \in Candidates, Assign(msg, i)
    PROVE  JobInv'
<1> DEFINE type == TypeIn(phase)
           next == [Fresh EXCEPT !.pc = type, !.type = type, !.id = i]
<1>1. /\ tasks[i] = "Inited" /\ tasks' = [tasks EXCEPT ![i] = "Running"]
      /\ Reply(msg, next) /\ UNCHANGED <<coord, phase, expired>>
  BY DEF Assign
<1>2. /\ i \in Ids(type) /\ phase # "DonePhase" /\ type \in {"map", "reduce"}
      /\ tasks \in [Ids(type) -> Status] /\ msg.worker \in Worker
  BY DEF Candidates, JobInv, WorkDone, TypeIn, Message
<1>3. /\ next \in WorkerState /\ next.pc = type /\ next.type = type /\ next.id = i
      /\ next.file = 0 /\ next.read = {}
  BY <1>2, IdFacts, Zenon DEF Fresh, WorkerState
<1> HIDE DEF next
<1>4. /\ worker' \in [Worker -> WorkerState]
      /\ \A w \in Worker : worker'[w] = worker[w] \/ (w = msg.worker /\ worker'[w] = next)
  BY <1>1, <1>2, <1>3, ReplyFacts DEF JobInv
<1>5. /\ tasks' \in [Ids(type) -> Status] /\ tasks'[i] = "Running"
      /\ \A j \in Ids(type) : j # i => tasks'[j] = tasks[j]
  BY <1>1, <1>2 DEF Status
<1>6. TypeOK'
  BY <1>1, <1>2, <1>4, <1>5, Zenon DEF JobInv, TypeOK
<1>7. TasksHeldOnce'
  <2> SUFFICES ASSUME coord = "running" PROVE TasksHeldOnce'
    BY <1>1 DEF TasksHeldOnce
  <2>1. InFlight' = InFlight
    BY DEF InFlight
  <2>2. /\ \A w \in Holding : HandedOut(worker[w]) /\ worker[w].id # i
        /\ \A k \in InFlight : HandedOut(reportCh[k]) /\ reportCh[k].id # i
    BY <1>1 DEF JobInv, TasksHeldOnce, HandedOut
  <2>3. \A w \in Holding' : \/ w \in Holding /\ worker'[w] = worker[w]
                            \/ w = msg.worker /\ worker'[w] = next
    BY <1>4 DEF Holding
  <2>4. \A w \in Holding' : HandedOut(worker[w])'
    <3> SUFFICES ASSUME NEW w \in Holding' PROVE HandedOut(worker[w])'
      OBVIOUS
    <3>1. CASE w \in Holding /\ worker'[w] = worker[w]
      BY <1>1, <1>2, <1>5, <2>2, <3>1 DEF HandedOut
    <3>2. CASE worker'[w] = next
      BY <1>1, <1>2, <1>3, <1>5, <3>2 DEF HandedOut
    <3> QED BY <2>3, <3>1, <3>2
  <2>5. \A k \in InFlight' : HandedOut(reportCh[k])'
    BY <1>1, <1>2, <1>5, <2>1, <2>2, Zenon DEF HandedOut
  <2>6. \A v, w \in Holding' : worker'[v].id = worker'[w].id => v = w
    BY <1>3, <2>2, <2>3 DEF JobInv, TasksHeldOnce
  <2>7. \A w \in Holding', k \in InFlight' : worker'[w].id # reportCh'[k].id
    BY <1>3, <2>1, <2>2, <2>3 DEF JobInv, TasksHeldOnce
  <2>8. \A k, l \in InFlight' : reportCh'[k].id = reportCh'[l].id => k = l
    BY <2>1 DEF JobInv, TasksHeldOnce
  <2>9. \A w \in Worker : worker'[w].pc = "reporting" => worker'[w] = worker[w]
    BY <1>2, <1>3, <1>4
  <2>10. \A w \in Worker : worker'[w].pc = "reporting" =>
           \E k \in InFlight' : /\ reportCh'[k].worker = w /\ reportCh'[k].run = crashes'[w]
                                /\ reportCh'[k].type = worker'[w].type /\ reportCh'[k].id = worker'[w].id
    BY <2>1, <2>9 DEF JobInv, TasksHeldOnce
  <2> QED BY <2>4, <2>5, <2>6, <2>7, <2>8, <2>10 DEF TasksHeldOnce
<1>8. WorkDone'
  <2>1. AllMapped <=> AllMapped'
    BY DEF AllMapped, MapDone
  <2>2. type = "reduce" => AllMapped
    BY DEF JobInv, WorkDone, TypeIn
  <2>3. ASSUME NEW w \in Worker, worker'[w] = next PROVE Progress(worker[w])'
    <3>1. 0 < NMap /\ 0 < NReduce /\ 0..0 - 1 = {}
      BY MapReduceAssumption
    <3> QED BY <1>2, <1>3, <2>1, <2>2, <2>3, <3>1 DEF Progress
  <2>4. \A j \in DOMAIN tasks' : tasks'[j] = "Completed" => TaskDone(TypeIn(phase'), j)
    BY <1>1, <1>2, <1>5, Zenon DEF JobInv, WorkDone
  <2>5. \A k \in InFlight' : \E j \in InFlight : reportCh'[k] = reportCh[j]
    BY DEF InFlight
  <2> QED BY <1>1, <1>2, <1>4, <1>5, <2>3, <2>4, <2>5, FilesKept, Zenon DEF JobInv, WorkDone
<1> QED BY <1>6, <1>7, <1>8 DEF JobInv

\* The scheduler resets a task and blocks.
LEMMA TimedOutInv ==
    ASSUME JobInv, heartBeatCh' \in Seq(Message), UNCHANGED <<reportCh, crashes, files, out>>,
           NEW i \in Candidates, TimedOut(i)
    PROVE  JobInv'
<1>1. /\ tasks' = [tasks EXCEPT ![i] = "Inited"] /\ expired' = expired \ {i}
      /\ coord' = "blocked" /\ UNCHANGED <<phase, worker>>
  BY DEF TimedOut
<1>2. i \in Ids(TypeIn(phase)) /\ tasks \in [Ids(TypeIn(phase)) -> Status]
  BY DEF Candidates, JobInv, WorkDone
<1>3. /\ tasks' \in [Ids(TypeIn(phase)) -> Status]
      /\ \A j \in Ids(TypeIn(phase)) : tasks'[j] = "Completed" => tasks[j] = "Completed"
  BY <1>1, <1>2 DEF Status
<1>4. TypeOK'
  BY <1>1, <1>2, <1>3, Zenon DEF JobInv, TypeOK
<1>5. TasksHeldOnce'
  BY <1>1 DEF TasksHeldOnce
<1>6. WorkDone'
  <2>1. \A k \in InFlight' : \E j \in InFlight : reportCh'[k] = reportCh[j]
    BY DEF InFlight
  <2>2. \A j \in DOMAIN tasks' : tasks'[j] = "Completed" => TaskDone(TypeIn(phase'), j)
    BY <1>1, <1>2, <1>3 DEF JobInv, WorkDone
  <2> QED BY <1>1, <1>3, <2>1, <2>2, FilesKept, Zenon DEF JobInv, WorkDone
<1> QED BY <1>4, <1>5, <1>6 DEF JobInv

\* The new table of initReducePhase.
LEMMA ReducePhaseFacts ==
    ASSUME initReducePhase
    PROVE  /\ phase' = "ReducePhase" /\ tasks' \in [Ids(TypeIn(phase')) -> Status]
           /\ DOMAIN tasks' = ReduceTask /\ \A i \in ReduceTask : tasks'[i] = "Inited"
           /\ expired' = {} /\ \E n \in {NMap, NReduce} : tasks' \in [0..n - 1 -> Status]
  BY IdFacts DEF initReducePhase, TypeIn, Status, ReduceTask

\* The scheduler finds no task to hand out.
LEMMA NoTaskInv ==
    ASSUME JobInv, heartBeatCh' \in Seq(Message), UNCHANGED <<reportCh, crashes, files, out>>,
           NEW msg \in Message, NoTask(msg)
    PROVE  JobInv'
<1> DEFINE gone == [Fresh EXCEPT !.pc = "exited"]
<1>1. msg.worker \in Worker
  BY DEF Message
<1>2. gone \in WorkerState /\ gone.pc = "exited" /\ Progress(gone)'
  BY IdFacts DEF Fresh, WorkerState, Progress
<1>3. \A k \in InFlight' : \E j \in InFlight : reportCh'[k] = reportCh[j]
  BY DEF InFlight
<1>4. ASSUME AllCompleted
      PROVE  \A i \in Ids(TypeIn(phase)) : TaskDone(TypeIn(phase), i)
  BY <1>4 DEF AllCompleted, JobInv, WorkDone
<1>5. CASE phase = "MapPhase" /\ AllCompleted /\ initReducePhase /\ coord' = "blocked" /\ UNCHANGED worker
  <2>1. AllMapped
    BY <1>4, <1>5, IdFacts DEF AllMapped, TaskDone, TypeIn
  <2>2. TypeOK'
    BY <1>5, ReducePhaseFacts, Zenon DEF JobInv, TypeOK
  <2>3. TasksHeldOnce'
    BY <1>5 DEF TasksHeldOnce
  <2>4. \A i \in DOMAIN tasks' : tasks'[i] # "Completed"
    BY <1>5, ReducePhaseFacts
  <2>5. WorkDone'
    BY <1>3, <1>5, <2>1, <2>4, ReducePhaseFacts, FilesKept DEF JobInv
  <2> QED BY <2>2, <2>3, <2>5 DEF JobInv
<1>6. CASE /\ phase # "MapPhase" /\ (phase = "DonePhase" \/ AllCompleted)
           /\ phase' = "DonePhase" /\ Reply(msg, gone) /\ UNCHANGED <<coord, tasks, expired>>
  <2>1. /\ worker' \in [Worker -> WorkerState]
        /\ \A w \in Worker : worker'[w] = worker[w] \/ worker'[w] = gone
    BY <1>1, <1>2, <1>6, ReplyFacts DEF JobInv
  <2> HIDE DEF gone
  <2>2. TypeIn(phase) = "reduce" /\ TypeIn(phase') = "reduce"
    BY <1>6 DEF TypeIn
  <2>3. \A r \in ReduceTask : TaskDone("reduce", r)
    <3>1. CASE phase = "DonePhase"
      BY <3>1 DEF JobInv, WorkDone
    <3>2. CASE AllCompleted
      BY <1>4, <2>2, <3>2, IdFacts
    <3> QED BY <1>6, <3>1, <3>2
  <2>4. TypeOK'
    BY <1>6, <2>1 DEF JobInv, TypeOK
  <2>5. TasksHeldOnce'
    <3> SUFFICES ASSUME coord = "running" PROVE TasksHeldOnce'
      BY <1>6 DEF TasksHeldOnce
    <3>1. ASSUME NEW h, HandedOut(h) PROVE FALSE
      <4>1. h.id \in Ids(TypeIn(phase))
        BY <3>1 DEF HandedOut, JobInv, WorkDone
      <4> QED BY <1>6, <3>1, <4>1 DEF HandedOut, AllCompleted
    <3>2. Holding = {} /\ InFlight = {}
      BY <3>1 DEF JobInv, TasksHeldOnce
    <3>3. InFlight' = {}
      BY <3>2 DEF InFlight
    <3>4. Holding' = {}
      BY <1>2, <2>1, <3>2 DEF Holding
    <3>5. \A w \in Worker : worker'[w].pc # "reporting"
      BY <1>2, <2>1, <3>2 DEF JobInv, TasksHeldOnce
    <3> QED BY <3>3, <3>4, <3>5 DEF TasksHeldOnce
  <2>6. WorkDone'
    <3>1. \A w \in Worker : worker'[w] = worker[w] \/ Progress(worker[w])'
      BY <1>2, <2>1
    <3>2. tasks' \in [Ids(TypeIn(phase')) -> Status] /\ AllMapped
      BY <1>6, <2>2 DEF JobInv, WorkDone
    <3>3. \A i \in DOMAIN tasks' : tasks'[i] = "Completed" => TaskDone(TypeIn(phase'), i)
      BY <1>6, <2>2 DEF JobInv, WorkDone
    <3> QED BY <1>3, <2>3, <3>1, <3>2, <3>3, FilesKept DEF JobInv
  <2> QED BY <2>4, <2>5, <2>6 DEF JobInv
<1>7. CASE Reply(msg, Fresh) /\ UNCHANGED <<phase, coord, tasks, expired>>
  <2>1. /\ worker' \in [Worker -> WorkerState]
        /\ \A w \in Worker : worker'[w] = worker[w] \/ worker'[w] = Fresh
    BY <1>1, <1>7, FreshFacts, ReplyFacts DEF JobInv
  <2>2. TypeOK'
    BY <1>7, <2>1 DEF JobInv, TypeOK
  <2>3. TasksHeldOnce'
    BY <1>7, <2>1, FreshFacts, HeldKept DEF JobInv
  <2>4. \A w \in Worker : worker'[w] = worker[w] \/ Progress(worker[w])'
    BY <2>1, FreshFacts
  <2>5. WorkDone'
    BY <1>7, <2>4, WorkKept, Zenon DEF JobInv, WorkDone
  <2> QED BY <2>2, <2>3, <2>5 DEF JobInv
<1> QED BY <1>5, <1>6, <1>7 DEF NoTask

\* The scheduler handles a heartbeat.
LEMMA handleHeartBeatInv ==
    ASSUME JobInv, handleHeartBeat
    PROVE  JobInv'
<1>1. heartBeatCh \in Seq(Message) /\ heartBeatCh # <<>>
  BY DEF handleHeartBeat, JobInv, TypeOK
<1>2. Head(heartBeatCh) \in Message /\ heartBeatCh' \in Seq(Message)
  BY <1>1, TailFacts DEF handleHeartBeat
<1>3. UNCHANGED <<reportCh, crashes, files, out>>
  BY DEF handleHeartBeat
<1>4. ASSUME NEW i \in Candidates, Assign(Head(heartBeatCh), i) PROVE JobInv'
  BY <1>2, <1>3, <1>4, AssignInv
<1>5. ASSUME NEW i \in Candidates, TimedOut(i) PROVE JobInv'
  BY <1>2, <1>3, <1>5, TimedOutInv
<1>6. ASSUME NoTask(Head(heartBeatCh)) PROVE JobInv'
  BY <1>2, <1>3, <1>6, NoTaskInv
<1> QED BY <1>4, <1>5, <1>6 DEF handleHeartBeat

\* The scheduler handles a report: of a task of this phase that runs, so that
\* c.tasks is indexed within its range, and a phase ends when nobody holds a
\* task of it any more.
LEMMA handleReportInv ==
    ASSUME JobInv, handleReport
    PROVE  JobInv'
<1> DEFINE msg == Head(reportCh)
           type == TypeIn(phase)
<1>1. /\ coord = "running" /\ reportCh # <<>> /\ reportCh' = Tail(reportCh)
      /\ reportCh \in Seq(Report)
      /\ UNCHANGED <<heartBeatCh, crashes, files, out>>
  BY DEF handleReport, JobInv, TypeOK, Report
<1>2. /\ msg = reportCh[1] /\ msg \in Report /\ 1 \in InFlight /\ reportCh' \in Seq(Report)
      /\ \A k \in InFlight' : k + 1 \in InFlight /\ reportCh'[k] = reportCh[k + 1]
      /\ \A k \in InFlight : k # 1 => k - 1 \in InFlight' /\ reportCh'[k - 1] = reportCh[k]
      /\ \A k \in InFlight' : k \in Nat /\ k + 1 # 1
  <2>1. /\ Head(reportCh) = reportCh[1] /\ Head(reportCh) \in Report /\ 1 \in 1..Len(reportCh)
        /\ Tail(reportCh) \in Seq(Report)
        /\ \A k \in 1..Len(Tail(reportCh)) : k + 1 \in 1..Len(reportCh) /\ Tail(reportCh)[k] = reportCh[k + 1]
        /\ \A k \in 1..Len(reportCh) :
              k # 1 => k - 1 \in 1..Len(Tail(reportCh)) /\ Tail(reportCh)[k - 1] = reportCh[k]
    BY <1>1, TailFacts
  <2>2. \A k \in InFlight' : k \in Nat /\ k + 1 # 1
    BY DEF InFlight
  <2> QED BY <1>1, <2>1, <2>2 DEF InFlight
<1>3. /\ HandedOut(msg) /\ msg.worker \in Worker
      /\ msg.id \in Ids(msg.type) /\ TaskDone(msg.type, msg.id)
  BY <1>1, <1>2 DEF JobInv, TasksHeldOnce, WorkDone, Report
<1>4. /\ phase # "DonePhase" /\ msg.type = type /\ type \in {"map", "reduce"}
      /\ tasks \in [Ids(type) -> Status] /\ msg.id \in Ids(type)
  BY <1>3 DEF HandedOut, JobInv, WorkDone, TypeIn
<1>5. /\ \A w \in Holding : HandedOut(worker[w]) /\ worker[w].id # msg.id
      /\ \A k \in InFlight : HandedOut(reportCh[k]) /\ (k # 1 => reportCh[k].id # msg.id)
  BY <1>1, <1>2 DEF JobInv, TasksHeldOnce
<1>6. /\ Reported(msg) \in [Ids(type) -> Status] /\ Reported(msg)[msg.id] = "Completed"
      /\ \A i \in Ids(type) : i # msg.id => Reported(msg)[i] = tasks[i]
  BY <1>4 DEF Reported, Status
<1>7. \A i \in Ids(type) : Reported(msg)[i] = "Completed" => TaskDone(type, i)
  BY <1>3, <1>4, <1>6, Zenon DEF JobInv, WorkDone
<1>8. StillOpen(msg) = {i \in Ids(type) : Reported(msg)[i] # "Completed"}
  BY <1>4 DEF StillOpen
<1>9. /\ IF StillOpen(msg) = {}
         THEN EndPhase(msg)
         ELSE tasks' = Reported(msg) /\ expired' = expired \ {msg.id} /\ UNCHANGED phase
      /\ Reply(msg, Fresh) /\ UNCHANGED coord
  <2>1. ~OutOfRange(msg)
    BY <1>4 DEF OutOfRange
  <2> QED BY <2>1 DEF handleReport
<1>10. /\ worker' \in [Worker -> WorkerState]
       /\ \A w \in Worker : worker'[w] = worker[w] \/ worker'[w] = Fresh
       /\ crashes[msg.worker] = msg.run => worker'[msg.worker] = Fresh
  BY <1>3, <1>9, FreshFacts, ReplyFacts DEF JobInv
<1>11. \A w \in Holding' : w \in Holding /\ worker'[w] = worker[w]
  BY <1>10, FreshFacts DEF Holding
<1>12. ASSUME NEW w \in Worker, worker'[w].pc = "reporting"
       PROVE  /\ worker'[w] = worker[w]
              /\ \E k \in InFlight' : /\ reportCh'[k].worker = w /\ reportCh'[k].run = crashes'[w]
                                      /\ reportCh'[k].type = worker'[w].type /\ reportCh'[k].id = worker'[w].id
  <2>1. worker'[w] = worker[w]
    BY <1>10, <1>12, FreshFacts
  <2>2. PICK k \in InFlight : /\ reportCh[k].worker = w /\ reportCh[k].run = crashes[w]
                              /\ reportCh[k].type = worker[w].type /\ reportCh[k].id = worker[w].id
    BY <1>1, <1>12, <2>1 DEF JobInv, TasksHeldOnce
  <2>3. k # 1
    BY <1>2, <1>10, <1>12, <2>2, FreshFacts
  <2>4. k - 1 \in InFlight' /\ reportCh'[k - 1] = reportCh[k]
    BY <1>2, <2>3
  <2> QED BY <1>1, <2>1, <2>2, <2>4, Zenon
<1>13. /\ \A w \in Worker : worker'[w] = worker[w] \/ Progress(worker[w])'
       /\ \A k \in InFlight' : \E j \in InFlight : reportCh'[k] = reportCh[j]
  BY <1>2, <1>10, FreshFacts
<1> HIDE DEF msg
<1>14. CASE StillOpen(msg) # {}
  <2>1. tasks' = Reported(msg) /\ expired' = expired \ {msg.id} /\ phase' = phase
    BY <1>9, <1>14
  <2>2. TypeOK'
    BY <1>1, <1>2, <1>4, <1>6, <1>9, <1>10, <2>1, Zenon DEF JobInv, TypeOK, Report
  <2>3. \A w \in Holding' : HandedOut(worker[w])'
    <3> SUFFICES ASSUME NEW w \in Holding' PROVE HandedOut(worker[w])'
      OBVIOUS
    <3>1. HandedOut(worker[w]) /\ worker[w].id # msg.id /\ worker'[w] = worker[w]
      BY <1>5, <1>11
    <3> QED BY <1>4, <1>6, <2>1, <3>1 DEF HandedOut
  <2>4. \A k \in InFlight' : HandedOut(reportCh[k])'
    <3> SUFFICES ASSUME NEW k \in InFlight' PROVE HandedOut(reportCh[k])'
      OBVIOUS
    <3>1. /\ HandedOut(reportCh[k + 1]) /\ reportCh[k + 1].id # msg.id
          /\ reportCh'[k] = reportCh[k + 1]
      BY <1>2, <1>5
    <3> QED BY <1>4, <1>6, <2>1, <3>1 DEF HandedOut
  <2>5. \A v, w \in Holding' : worker'[v].id = worker'[w].id => v = w
    BY <1>1, <1>11 DEF JobInv, TasksHeldOnce
  <2>6. \A w \in Holding', k \in InFlight' : worker'[w].id # reportCh'[k].id
    <3> SUFFICES ASSUME NEW w \in Holding', NEW k \in InFlight' PROVE worker'[w].id # reportCh'[k].id
      OBVIOUS
    <3>1. w \in Holding /\ worker'[w] = worker[w] /\ k + 1 \in InFlight /\ reportCh'[k] = reportCh[k + 1]
      BY <1>2, <1>11
    <3>2. \A v \in Holding, j \in InFlight : worker[v].id # reportCh[j].id
      BY <1>1 DEF JobInv, TasksHeldOnce
    <3> QED BY <3>1, <3>2
  <2>7. ASSUME NEW k \in InFlight', NEW l \in InFlight', reportCh'[k].id = reportCh'[l].id PROVE k = l
    <3>1. /\ k + 1 \in InFlight /\ reportCh'[k] = reportCh[k + 1] /\ k \in Nat
          /\ l + 1 \in InFlight /\ reportCh'[l] = reportCh[l + 1] /\ l \in Nat
      BY <1>2
    <3>2. \A i, j \in InFlight : reportCh[i].id = reportCh[j].id => i = j
      BY <1>1 DEF JobInv, TasksHeldOnce
    <3>3. k + 1 = l + 1
      BY <2>7, <3>1, <3>2
    <3> QED BY <3>1, <3>3
  <2>8. TasksHeldOnce'
    BY <1>12, <2>3, <2>4, <2>5, <2>6, <2>7 DEF TasksHeldOnce
  <2>9. WorkDone'
    <3>1. \A i \in DOMAIN tasks' : tasks'[i] = "Completed" => TaskDone(TypeIn(phase'), i)
      BY <1>6, <1>7, <2>1
    <3> QED BY <1>1, <1>4, <1>6, <1>13, <2>1, <3>1, FilesKept, Zenon DEF JobInv, WorkDone
  <2> QED BY <2>2, <2>8, <2>9 DEF JobInv
<1>15. CASE StillOpen(msg) = {}
  <2>1. \A i \in Ids(type) : Reported(msg)[i] = "Completed" /\ TaskDone(type, i)
    BY <1>7, <1>8, <1>15
  <2>2. ASSUME NEW h, HandedOut(h), h.id # msg.id PROVE FALSE
    BY <1>4, <1>6, <2>1, <2>2 DEF HandedOut
  <2>3. Holding' = {} /\ InFlight' = {}
    BY <1>2, <1>5, <1>11, <2>2
  <2>4. TasksHeldOnce'
    BY <1>12, <2>3 DEF TasksHeldOnce
  <2>5. EndPhase(msg)
    BY <1>9, <1>15
  <2>6. CASE type = "map"
    <3>1. initReducePhase
      BY <1>4, <2>5, <2>6 DEF EndPhase
    <3>2. AllMapped
      BY <2>1, <2>6, IdFacts DEF AllMapped, TaskDone
    <3>3. TypeOK'
      BY <1>1, <1>2, <1>9, <1>10, <3>1, ReducePhaseFacts DEF JobInv, TypeOK, Report
    <3>4. WorkDone'
      <4>1. \A i \in DOMAIN tasks' : tasks'[i] # "Completed"
        BY <3>1, ReducePhaseFacts
      <4> QED BY <1>1, <1>13, <3>1, <3>2, <4>1, ReducePhaseFacts, FilesKept, Zenon DEF JobInv
    <3> QED BY <2>4, <3>3, <3>4 DEF JobInv
  <2>7. CASE type = "reduce"
    <3>1. phase' = "DonePhase" /\ tasks' = Reported(msg) /\ expired' = expired \ {msg.id}
      BY <1>4, <2>5, <2>7 DEF EndPhase
    <3>2. TypeOK'
      BY <1>1, <1>2, <1>4, <1>6, <1>9, <1>10, <3>1, Zenon DEF JobInv, TypeOK, Report
    <3>3. TypeIn(phase') = "reduce" /\ phase # "MapPhase"
      BY <2>7, <3>1 DEF TypeIn
    <3>4. WorkDone'
      <4>1. \A i \in DOMAIN tasks' : tasks'[i] = "Completed" => TaskDone(TypeIn(phase'), i)
        BY <1>6, <1>7, <2>7, <3>1, <3>3
      <4>2. \A r \in ReduceTask : TaskDone("reduce", r)
        BY <2>1, <2>7, IdFacts
      <4>3. tasks' \in [Ids(TypeIn(phase')) -> Status] /\ AllMapped
        BY <1>6, <2>7, <3>1, <3>3 DEF JobInv, WorkDone
      <4> QED BY <1>1, <1>13, <4>1, <4>2, <4>3, FilesKept, Zenon DEF JobInv
    <3> QED BY <2>4, <3>2, <3>4 DEF JobInv
  <2> QED BY <1>4, <2>6, <2>7
<1> QED BY <1>14, <1>15

-----------------------------------------------------------------------------
\* Nothing is handed out at the start.
LEMMA InitJobInv == Init => JobInv
<1> SUFFICES ASSUME Init PROVE JobInv
  OBVIOUS
<1>1. \A w \in Worker : worker[w] = Fresh
  BY DEF Init
<1>2. TypeOK
  <2>1. heartBeatCh \in Seq(Message) /\ reportCh \in Seq(Report)
    BY DEF Init
  <2>2. tasks \in [0..NMap - 1 -> Status]
    BY DEF Init, MapTask, Status
  <2>3. worker \in [Worker -> WorkerState] /\ crashes \in [Worker -> 0..MaxCrashes]
    BY FreshFacts, MapReduceAssumption DEF Init
  <2>4. out \in [ReduceTask -> (SUBSET MapTask) \cup {NoFile}] /\ files \subseteq MapTask \X ReduceTask
    BY DEF Init
  <2>5. coord = "running" /\ phase = "MapPhase" /\ expired = {}
    BY DEF Init
  <2> QED BY <2>1, <2>2, <2>3, <2>4, <2>5 DEF TypeOK, Report
<1>3. Holding = {} /\ InFlight = {} /\ \A w \in Worker : worker[w].pc = "ready"
  BY <1>1, FreshFacts DEF Init, Holding, InFlight
<1>4. TasksHeldOnce
  BY <1>3 DEF TasksHeldOnce
<1>5. WorkDone
  <2>1. \A w \in Worker : Progress(worker[w])
    BY <1>1, FreshFacts
  <2> QED BY <1>3, <2>1, IdFacts DEF Init, WorkDone, TypeIn, Status
<1> QED BY <1>2, <1>4, <1>5 DEF JobInv

\* Every step of the scheduler and of the workers keeps the invariant.
LEMMA NextJobInv ==
    ASSUME JobInv, [Next]_vars
    PROVE  JobInv'
<1>1. ASSUME NEW w \in Worker, WorkerStep(w) \/ Crash(w) PROVE JobInv'
  BY <1>1, RequestTaskInv, SkipMapInv, doMapTaskInv, doReduceTaskInv, ReportTaskInv, CrashInv DEF WorkerStep
<1>2. ASSUME UNCHANGED vars PROVE JobInv'
  <2>1. UNCHANGED <<coord, phase, tasks, expired, heartBeatCh, reportCh, worker, crashes, files, out>>
    BY <1>2 DEF vars, coordVars
  <2>2. TypeOK'
    BY <2>1 DEF JobInv, TypeOK
  <2>3. TasksHeldOnce'
    BY <2>1, HeldKept DEF JobInv
  <2>4. WorkDone'
    BY <2>1, WorkKept, Zenon DEF JobInv, WorkDone
  <2> QED BY <2>2, <2>3, <2>4 DEF JobInv
<1> QED BY <1>1, <1>2, handleHeartBeatInv, handleReportInv, CoordinatorExitsInv, ExpireInv DEF Next

\* A task is in one place at a time, and what is reported is done, for any number
\* of workers, tasks and crashes.
THEOREM JobInvariant == Spec => []JobInv
<1>1. JobInv /\ [Next]_vars => JobInv'
  BY NextJobInv
<1> QED BY <1>1, InitJobInv, PTL DEF Spec

\* No report outlives its phase, although handleReport does not check the phase:
\* each worked-on task is Running, and c.tasks is indexed within its range.
THEOREM ReportsInPhase == Spec => []ReportsMatchPhase
<1>1. JobInv => ReportsMatchPhase
  <2> SUFFICES ASSUME JobInv, coord = "running"
               PROVE  /\ phase # "MapPhase" => Active("map") = {}
                      /\ phase # "ReducePhase" => Active("reduce") = {}
                      /\ \A i \in Active(TypeIn(phase)) : tasks[i] = "Running"
    BY DEF ReportsMatchPhase, JobInv
  <2>1. \A k \in InFlight : HandedOut(reportCh[k])
    BY DEF JobInv, TasksHeldOnce
  <2>2. ASSUME NEW w \in Worker, worker[w].pc \in {"map", "reduce", "report", "reporting"}
        PROVE  HandedOut(worker[w])
    <3>1. CASE w \in Holding
      BY <3>1 DEF JobInv, TasksHeldOnce
    <3>2. CASE worker[w].pc = "reporting"
      BY <2>1, <3>2 DEF JobInv, TasksHeldOnce, HandedOut
    <3> QED BY <2>2, <3>1, <3>2 DEF Holding
  <2>3. ASSUME NEW type, NEW i \in Active(type)
        PROVE  phase # "DonePhase" /\ type = TypeIn(phase) /\ tasks[i] = "Running"
    BY <2>1, <2>2, <2>3 DEF Active, HandedOut, InFlight
  <2>4. phase \in {"MapPhase", "ReducePhase", "DonePhase"}
    BY DEF JobInv, TypeOK
  <2> QED BY <2>3, <2>4 DEF TypeIn
<1> QED BY <1>1, JobInvariant, PTL

\* When the job is done, every output file holds the pairs of every map task whose
\* input could be read.
THEOREM OutputsComplete == Spec => []OutputComplete
<1>1. JobInv => OutputComplete
  BY DEF JobInv, WorkDone, TaskDone, OutputComplete
<1> QED BY <1>1, JobInvariant, PTL

\* An output file that was written never changes.
THEOREM OutputsFinal == Spec => OutputFinal
<1>1. JobInv /\ JobInv' /\ [Next]_vars => [\A r \in ReduceTask : out[r] # NoFile => out'[r] = out[r]]_vars
  <2> SUFFICES ASSUME JobInv, JobInv', [Next]_vars, NEW r \in ReduceTask, out[r] # NoFile
               PROVE  out'[r] = out[r]
    OBVIOUS
  <2>1. out[r] = MapTask \ Unreadable /\ out'[r] \in {NoFile, MapTask \ Unreadable}
    BY DEF JobInv, WorkDone
  <2>2. out' = out \/ \E w \in Worker : doReduceTask(w)
    BY Zenon DEF Next, WorkerStep, RequestTask, ReportTask, SkipMap, doMapTask, Crash, Expire,
           handleHeartBeat, handleReport, CoordinatorExits, vars
  <2>3. ASSUME NEW w \in Worker, doReduceTask(w) PROVE out'[r] = out[r]
    <3>1. out \in [ReduceTask -> (SUBSET MapTask) \cup {NoFile}]
      BY DEF JobInv, TypeOK
    <3>2. CASE out' = out
      BY <3>2
    <3>3. CASE worker[w].file + 1 = NMap /\ r = worker[w].id
      <4>1. /\ worker'[w].pc = "report" /\ worker'[w].type = worker[w].type /\ worker'[w].id = r
            /\ worker[w].type = "reduce"
        <5>1. worker[w] \in WorkerState /\ worker \in [Worker -> WorkerState]
          BY DEF JobInv, TypeOK
        <5>2. worker[w].type = "reduce"
          BY <2>3, Zenon DEF doReduceTask, JobInv, WorkDone, Progress
        <5> QED BY <2>3, <3>3, <5>1, <5>2 DEF doReduceTask, WorkerState
      <4>2. TaskDone(worker[w].type, worker[w].id)'
        BY <4>1, Zenon DEF JobInv, WorkDone, Progress
      <4> QED BY <2>1, <4>1, <4>2 DEF TaskDone
    <3>4. CASE worker[w].file + 1 = NMap /\ r # worker[w].id
      BY <2>3, <3>1, <3>4, Zenon DEF doReduceTask
    <3> QED BY <2>3, <3>2, <3>3, <3>4, Zenon DEF doReduceTask
  <2> QED BY <2>2, <2>3
<1> QED BY <1>1, JobInvariant, PTL DEF Spec, OutputFinal

=============================================================================
