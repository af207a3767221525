-------------------------- MODULE SchedulerProofs --------------------------
(***************************************************************************)
(* For tables of any size, any number of callers and crashes at any point: *)
(* ids are unique across restarts, jobs.json is the table whenever no call *)
(* is saving it, and a reply names the task its call added.                *)
(***************************************************************************)
EXTENDS Scheduler, SequenceTheorems, WellFoundedInduction, TLAPS

Jobs == [id : 1..MaxId, kind : Kinds, interval_sec : Intervals,
         paused : BOOLEAN]

----------------------------------------------------------------------------
(* The inductive invariant *)

\* The thread is at a task of the table while it injects it.
ThreadAt ==
  /\ thread \in {"publish", "relock"} => i <= Len(tasks)
  /\ thread = "publish" => firing \in 1..MaxId

\* The next id is new.
IdsBelow == \A k \in DOMAIN tasks : tasks[k].id < next_id

\* So are the ids a restart would read, among themselves.
FileIdsUnique ==
  \A j, k \in DOMAIN file.jobs : file.jobs[j].id = file.jobs[k].id => j = k

\* The pointer t of schedule_add stays at the task that was added: nothing
\* moves in the table, from the append to the reply.
SlotKept ==
  \A c \in Callers :
    /\ slot[c] # 0 => slot[c] \in DOMAIN tasks /\ tasks[slot[c]].id = given[c]
    /\ pc[c] = "reply" => slot[c] # 0

IInv == TypeOK /\ ThreadAt /\ IdsBelow /\ IdsUnique /\ FileIdsUnique
          /\ SlotKept /\ FileCurrent
----------------------------------------------------------------------------
(* The table and what is written of it *)

LEMMA SeqFunction ==
  ASSUME NEW S, NEW n \in Nat, NEW f \in [1..n -> S]
  PROVE  f \in Seq(S) /\ Len(f) = n /\ DOMAIN f = 1..n
OBVIOUS

LEMMA TableSeq ==
  ASSUME TableTypes
  PROVE  /\ DOMAIN tasks = 1..Len(tasks) /\ Len(tasks) \in Nat
         /\ \A k \in DOMAIN tasks : tasks[k] \in Task
         /\ DOMAIN tasks \subseteq 1..MAX_TASKS
BY SchedulerAssumption DEF TableTypes

LEMMA JobOfTask ==
  ASSUME NEW t \in Task
  PROVE  Job(t) \in Jobs /\ Job(t).id = t.id
BY DEF Job, Task, Jobs

\* What save_jobs writes of a table with unique ids.
LEMMA SavedJobs ==
  ASSUME TableTypes, IdsUnique, NEW jobs \in Saved(tasks)
  PROVE  /\ jobs \in Seq(Jobs) /\ Len(jobs) <= MAX_TASKS
         /\ \A j, k \in DOMAIN jobs : jobs[j].id = jobs[k].id => j = k
<1>1. PICK f \in ActiveInOrder(tasks) : jobs = [k \in DOMAIN f |-> Job(tasks[f[k]])]
  BY DEF Saved
<1>2. PICK n \in 0..Len(tasks) : f \in [1..n -> DOMAIN tasks]
  BY DEF ActiveInOrder
<1>3. n \in Nat /\ n <= MAX_TASKS
  BY TableSeq, SchedulerAssumption DEF TableTypes
<1>4. \A k \in 1..n : jobs[k] \in Jobs /\ jobs[k].id = tasks[f[k]].id
  BY <1>1, <1>2, TableSeq, JobOfTask
<1>5. jobs \in [1..n -> Jobs]
  BY <1>1, <1>2, <1>4
<1>6. jobs \in Seq(Jobs) /\ Len(jobs) = n /\ DOMAIN jobs = 1..n
  BY <1>3, <1>5, SeqFunction
<1>7. ASSUME NEW j \in 1..n, NEW k \in 1..n, jobs[j].id = jobs[k].id PROVE j = k
  <2>1. f[j] = f[k]
    BY <1>2, <1>4, <1>7 DEF IdsUnique
  <2>2. /\ \A a, b \in 1..n : a < b => f[a] < f[b]
        /\ f[j] \in Int /\ f[k] \in Int
    BY <1>2, TableSeq DEF ActiveInOrder
  <2>3. ~(j < k) /\ ~(k < j)
    BY <2>1, <2>2
  <2> QED BY <1>3, <2>3
<1> QED BY <1>3, <1>6, <1>7

\* last_run is not written.
LEMMA SavedSame ==
  ASSUME NEW ts, NEW us, DOMAIN us = DOMAIN ts, Len(us) = Len(ts),
         \A k \in DOMAIN ts : us[k].active = ts[k].active /\ Job(us[k]) = Job(ts[k])
  PROVE  Saved(us) = Saved(ts)
<1>1. ActiveInOrder(us) = ActiveInOrder(ts)
  BY DEF ActiveInOrder
<1>2. \A f \in ActiveInOrder(ts) : [k \in DOMAIN f |-> Job(us[f[k]])]
                                     = [k \in DOMAIN f |-> Job(ts[f[k]])]
  <2>1. \A f \in ActiveInOrder(ts) : \A k \in DOMAIN f : f[k] \in DOMAIN ts
    BY DEF ActiveInOrder
  <2> QED BY <2>1
<1> QED BY <1>1, <1>2 DEF Saved

\* A restart reads back what was written.
LEMMA LoadedJobs ==
  ASSUME TableTypes, FileTypes
  PROVE  /\ Loaded(file) \in Seq(Task) /\ Len(Loaded(file)) = Len(file.jobs)
         /\ DOMAIN Loaded(file) = DOMAIN file.jobs
         /\ \A k \in DOMAIN file.jobs : /\ Loaded(file)[k].id = file.jobs[k].id
                                        /\ Loaded(file)[k].active
                                        /\ Job(Loaded(file)[k]) = file.jobs[k]
<1> DEFINE n == Len(file.jobs)
<1>1. /\ file.jobs \in Seq(Jobs) /\ n \in Nat /\ n <= MAX_TASKS
      /\ DOMAIN file.jobs = 1..n /\ \A k \in 1..n : file.jobs[k] \in Jobs
  <2>1. file.jobs \in Seq(Jobs) /\ n <= MAX_TASKS
    BY DEF FileTypes, Jobs
  <2> QED BY <2>1
<1>2. {j \in DOMAIN file.jobs : j <= MAX_TASKS} = 1..n
  BY <1>1, SchedulerAssumption
<1> HIDE DEF n
<1>3. Loaded(file) = [k \in 1..n |->
        [id |-> file.jobs[k].id, kind |-> file.jobs[k].kind,
         interval_sec |-> file.jobs[k].interval_sec, last_run |-> now,
         paused |-> file.jobs[k].paused, active |-> TRUE]]
  BY <1>2 DEF Loaded
<1>4. ASSUME NEW k \in 1..n
      PROVE  /\ Loaded(file)[k] \in Task
             /\ Loaded(file)[k].id = file.jobs[k].id
             /\ Loaded(file)[k].active
             /\ Job(Loaded(file)[k]) = file.jobs[k]
  <2>1. file.jobs[k] \in Jobs /\ now \in 0..MaxTime
    BY <1>1 DEF TableTypes
  <2> QED BY <1>3, <2>1 DEF Task, Jobs, Job
<1>5. Loaded(file) \in [1..n -> Task]
  BY <1>3, <1>4
<1>6. Loaded(file) \in Seq(Task) /\ Len(Loaded(file)) = n /\ DOMAIN Loaded(file) = 1..n
  BY <1>1, <1>5, SeqFunction
<1> QED BY <1>1, <1>4, <1>6 DEF n

LEMMA LoadedSaved ==
  ASSUME TableTypes, FileTypes
  PROVE  file.jobs \in Saved(Loaded(file))
<1> DEFINE n == Len(file.jobs)
           f == [k \in 1..n |-> k]
           ts == Loaded(file)
<1>1. /\ file.jobs \in Seq(Jobs) /\ n \in Nat /\ DOMAIN file.jobs = 1..n
      /\ Len(ts) = n /\ DOMAIN ts = 1..n
      /\ \A k \in 1..n : ts[k].active /\ Job(ts[k]) = file.jobs[k]
  BY LoadedJobs DEF FileTypes, Jobs
<1> HIDE DEF n, ts
<1>2. f \in [1..n -> DOMAIN ts] /\ n \in 0..Len(ts) /\ DOMAIN f = 1..n
  BY <1>1
<1>3. f \in ActiveInOrder(ts)
  <2>1. f \in UNION {[1..m -> DOMAIN ts] : m \in 0..Len(ts)}
    BY <1>2
  <2>2. \A j, k \in DOMAIN f : j < k => f[j] < f[k]
    OBVIOUS
  <2>3. \A p \in DOMAIN ts : ts[p].active <=> \E k \in DOMAIN f : f[k] = p
    BY <1>1
  <2> QED BY <2>1, <2>2, <2>3 DEF ActiveInOrder
<1>4. file.jobs = [k \in DOMAIN f |-> Job(ts[f[k]])]
  <2>1. file.jobs = [k \in 1..n |-> file.jobs[k]]
    BY <1>1
  <2> QED BY <1>1, <2>1
<1> QED BY <1>3, <1>4 DEF Saved, ts
\* The tasks of the table change in place.
LEMMA TaskInPlace ==
  ASSUME TableTypes, NEW k \in DOMAIN tasks, NEW t \in Task,
         t.id = tasks[k].id, tasks' = [tasks EXCEPT ![k] = t]
  PROVE  /\ tasks' \in Seq(Task) /\ Len(tasks') = Len(tasks)
         /\ DOMAIN tasks' = DOMAIN tasks
         /\ \A j \in DOMAIN tasks : tasks'[j].id = tasks[j].id
<1>1. tasks \in Seq(Task)
  BY DEF TableTypes
<1>2. tasks' \in Seq(Task) /\ Len(tasks') = Len(tasks)
      /\ \A j \in DOMAIN tasks : tasks'[j] = IF j = k THEN t ELSE tasks[j]
  BY <1>1, ExceptSeq
<1> QED BY <1>1, <1>2

----------------------------------------------------------------------------
(* The table keeps its types, and ids are given out once *)

\* What the steps do to the table: nothing, a change in place, a new task at
\* the end, or the whole table again after a crash.
InPlace ==
  /\ tasks' \in Seq(Task) /\ Len(tasks') = Len(tasks)
  /\ DOMAIN tasks' = DOMAIN tasks
  /\ \A j \in DOMAIN tasks : tasks'[j].id = tasks[j].id
  /\ next_id' = next_id

LEMMA ThreadInPlace ==
  ASSUME TypeOK, ThreadShell \/ ThreadFire
  PROVE  InPlace /\ Saved(tasks') = Saved(tasks)
<1> DEFINE t == [tasks[i] EXCEPT !.last_run = sample]
<1>1. /\ i \in DOMAIN tasks /\ tasks[i] \in Task /\ sample \in 0..MaxTime
      /\ DOMAIN tasks = 1..Len(tasks) /\ Len(tasks) \in Nat
  BY TableSeq DEF TypeOK, ThreadTypes, ThreadShell, ThreadFire, Scanning
<1>2. t \in Task /\ t.id = tasks[i].id /\ t.active = tasks[i].active /\ Job(t) = Job(tasks[i])
  BY <1>1 DEF Task, Job
<1>3. tasks' = [tasks EXCEPT ![i] = t] /\ next_id' = next_id
  BY <1>1 DEF ThreadShell, ThreadFire
<1> HIDE DEF t
<1>4. InPlace
  BY <1>1, <1>2, <1>3, TaskInPlace DEF InPlace, TypeOK
<1>5. \A k \in DOMAIN tasks : tasks'[k].active = tasks[k].active /\ Job(tasks'[k]) = Job(tasks[k])
  BY <1>1, <1>2, <1>3 DEF TypeOK, TableTypes
<1> QED BY <1>4, <1>5, SavedSame DEF InPlace

LEMMA ControlInPlace ==
  ASSUME TypeOK, NEW c \in Callers, Control(c)
  PROVE  InPlace
<1>1. PICK k \in Matches(op[c].id) : tasks' = [tasks EXCEPT ![k] = Changed(@, op[c].name)]
  BY DEF Control, Change
<1>2. k \in DOMAIN tasks /\ tasks[k] \in Task
  BY TableSeq DEF Matches, TypeOK
<1>3. Changed(tasks[k], op[c].name) \in Task /\ Changed(tasks[k], op[c].name).id = tasks[k].id
  BY <1>2 DEF Control, Changed, Task
<1>4. tasks' = [tasks EXCEPT ![k] = Changed(tasks[k], op[c].name)] /\ next_id' = next_id
  BY <1>1, <1>2 DEF Control
<1> QED BY <1>2, <1>3, <1>4, TaskInPlace DEF InPlace, TypeOK

LEMMA AddAppends ==
  ASSUME TypeOK, NEW c \in Callers, Add(c)
  PROVE  /\ tasks' \in Seq(Task) /\ Len(tasks') = Len(tasks) + 1
         /\ Len(tasks') <= MAX_TASKS
         /\ DOMAIN tasks' = DOMAIN tasks \cup {Len(tasks) + 1}
         /\ Len(tasks) + 1 \notin DOMAIN tasks
         /\ \A j \in DOMAIN tasks : tasks'[j] = tasks[j]
         /\ tasks'[Len(tasks) + 1].id = next_id
         /\ next_id' = next_id + 1 /\ next_id' \in 1..(MaxId + 1)
<1> DEFINE t == NewTask(op[c])
<1>1. /\ tasks \in Seq(Task) /\ DOMAIN tasks = 1..Len(tasks) /\ Len(tasks) \in Nat
      /\ next_id \in 1..MaxId /\ now \in 0..MaxTime
  BY TableSeq, SchedulerAssumption DEF TypeOK, TableTypes, Add
<1>2. op[c].kind \in Kinds /\ op[c].interval_sec \in Intervals
  <2>1. op[c] \in Ops \cup {NoOp} /\ op[c].name = "add"
    BY DEF TypeOK, CallTypes, Add
  <2> QED BY <2>1, SchedulerAssumption DEF Ops, NoOp
<1>3. t \in Task /\ t.id = next_id
  BY <1>1, <1>2 DEF NewTask, Task
<1>4. tasks' = Append(tasks, t) /\ next_id' = next_id + 1 /\ Len(tasks) < MAX_TASKS
  BY DEF Add
<1> HIDE DEF t
<1>5. /\ tasks' \in Seq(Task) /\ Len(tasks') = Len(tasks) + 1
      /\ \A j \in 1..Len(tasks) : tasks'[j] = tasks[j]
      /\ tasks'[Len(tasks) + 1] = t
  BY <1>1, <1>3, <1>4, AppendProperties
<1>6. DOMAIN tasks' = 1..Len(tasks')
  BY <1>5
<1> QED BY <1>1, <1>3, <1>4, <1>5, <1>6, SchedulerAssumption
LEMMA RestartLoads ==
  ASSUME TypeOK, CrashAndRestart
  PROVE  /\ tasks' = Loaded(file) /\ next_id' \in 1..(MaxId + 1)
         /\ \A k \in DOMAIN Loaded(file) : Loaded(file)[k].id < next_id'
<1> DEFINE ids == {Loaded(file)[k].id : k \in DOMAIN Loaded(file)}
<1>1. /\ tasks' = Loaded(file) /\ next_id' \in {1} \cup {id + 1 : id \in ids}
      /\ \A id \in ids : id < next_id'
  BY DEF CrashAndRestart, NextId
<1>2. Loaded(file) \in Seq(Task)
  BY LoadedJobs DEF TypeOK
<1>3. \A k \in DOMAIN Loaded(file) : Loaded(file)[k].id \in 1..MaxId
  <2>1. \A k \in DOMAIN Loaded(file) : Loaded(file)[k] \in Task
    BY <1>2, ElementOfSeq, LenProperties
  <2> QED BY <2>1 DEF Task
<1>4. next_id' \in 1..(MaxId + 1)
  <2>1. \A id \in ids : id \in 1..MaxId
    BY <1>3
  <2> HIDE DEF ids
  <2> QED BY <1>1, <2>1, SchedulerAssumption
<1> QED BY <1>1, <1>4

\* The steps, by what they do to the table.
StillThread == ThreadSample \/ ThreadLock \/ ThreadSkip \/ ThreadPublish
                 \/ ThreadRelock \/ ThreadUnlock
StillCaller(c) == (\E o \in Ops : CallTool(c, o)) \/ AddRefused(c)
                    \/ ControlFails(c) \/ SaveOpen(c) \/ SaveFails(c)
                    \/ SaveWrite(c) \/ AddReply(c) \/ Cancel(c)
StillOther == WorkerTake \/ WorkerEndTurn \/ Tick \/ UNCHANGED vars

LEMMA NextCases ==
  ASSUME [Next]_vars
  PROVE  \/ StillThread \/ ThreadShell \/ ThreadFire
         \/ \E c \in Callers : StillCaller(c) \/ Add(c) \/ Control(c)
         \/ StillOther \/ CrashAndRestart
BY DEF Next, Thread, Enter, Finish, StillThread, StillCaller, StillOther

LEMMA StillSteps ==
  ASSUME StillThread \/ (\E c \in Callers : StillCaller(c)) \/ StillOther
  PROVE  UNCHANGED <<tasks, next_id, crashes>>
BY DEF StillThread, StillCaller, StillOther, ThreadSample, ThreadLock, ThreadSkip,
       ThreadPublish, ThreadRelock, ThreadUnlock, CallTool, AddRefused,
       ControlFails, SaveOpen, SaveFails, SaveWrite, AddReply, Cancel, WorkerTake,
       WorkerEndTurn, Tick, vars

LEMMA ClockStep ==
  ASSUME TableTypes, [Next]_vars
  PROVE  now' \in 0..MaxTime /\ crashes' \in 0..MaxCrashes
<1>1. CASE Tick
  BY <1>1, SchedulerAssumption DEF Tick, TableTypes
<1>2. CASE CrashAndRestart
  BY <1>2, SchedulerAssumption DEF CrashAndRestart, TableTypes
<1>3. CASE UNCHANGED <<now, crashes>>
  BY <1>3 DEF TableTypes
<1>4. CASE Thread
  BY <1>3, <1>4 DEF Thread, ThreadSample, ThreadLock, ThreadSkip, ThreadShell,
       ThreadFire, ThreadPublish, ThreadRelock, ThreadUnlock
<1>5. ASSUME NEW c \in Callers, \/ (\E o \in Ops : CallTool(c, o)) \/ Enter(c)
                                 \/ Finish(c) \/ Cancel(c)
      PROVE  UNCHANGED <<now, crashes>>
  BY <1>5 DEF Enter, Finish, CallTool, Add, AddRefused, Control, ControlFails,
       SaveOpen, SaveFails, SaveWrite, AddReply, Cancel
<1> QED BY <1>1, <1>2, <1>3, <1>4, <1>5 DEF Next, WorkerTake, WorkerEndTurn, vars

LEMMA TableStep ==
  ASSUME IInv, [Next]_vars
  PROVE  TableTypes' /\ IdsBelow' /\ IdsUnique'
<1>0. TypeOK /\ IdsBelow /\ IdsUnique /\ TableTypes /\ FileTypes /\ FileIdsUnique
  BY DEF IInv, TypeOK
<1>1. now' \in 0..MaxTime /\ crashes' \in 0..MaxCrashes
  BY <1>0, ClockStep
<1>2. CASE InPlace
  <2>1. TableTypes'
    BY <1>0, <1>1, <1>2 DEF InPlace, TableTypes
  <2>2. IdsBelow' /\ IdsUnique'
    BY <1>0, <1>2 DEF InPlace, IdsBelow, IdsUnique
  <2> QED BY <2>1, <2>2
<1>3. ASSUME NEW c \in Callers, Add(c) PROVE TableTypes' /\ IdsBelow' /\ IdsUnique'
  <2>1. TableTypes'
    BY <1>0, <1>1, <1>3, AddAppends DEF TableTypes
  <2>2. /\ \A j \in DOMAIN tasks : tasks[j].id \in Int /\ tasks[j].id < next_id
        /\ next_id \in Int
    BY <1>0, TableSeq DEF IdsBelow, Task, TableTypes
  <2>3. IdsBelow'
    BY <1>0, <1>3, <2>2, AddAppends DEF IdsBelow
  <2>4. IdsUnique'
    BY <1>0, <1>3, <2>2, AddAppends DEF IdsUnique
  <2> QED BY <2>1, <2>3, <2>4
<1>4. CASE CrashAndRestart
  <2>1. /\ tasks' \in Seq(Task) /\ Len(tasks') <= MAX_TASKS
        /\ DOMAIN tasks' = DOMAIN file.jobs
        /\ \A k \in DOMAIN tasks' : tasks'[k].id = file.jobs[k].id
    BY <1>0, <1>4, RestartLoads, LoadedJobs DEF FileTypes
  <2>2. next_id' \in 1..(MaxId + 1) /\ IdsBelow'
    BY <1>0, <1>4, RestartLoads DEF IdsBelow
  <2>3. IdsUnique'
    BY <1>0, <2>1 DEF IdsUnique, FileIdsUnique
  <2> QED BY <1>1, <2>1, <2>2, <2>3 DEF TableTypes
<1>5. CASE UNCHANGED <<tasks, next_id>>
  BY <1>0, <1>1, <1>5 DEF TableTypes, IdsBelow, IdsUnique
<1> QED BY <1>0, <1>2, <1>3, <1>4, <1>5, NextCases, StillSteps, ThreadInPlace,
           ControlInPlace

----------------------------------------------------------------------------
(* The thread *)

LEMMA ThreadStep ==
  ASSUME IInv, [Next]_vars
  PROVE  ThreadTypes' /\ ThreadAt'
<1>0. TypeOK /\ ThreadAt /\ TableTypes /\ ThreadTypes /\ Len(tasks) \in Nat
  BY TableSeq DEF IInv, TypeOK
<1>1. CASE ThreadSample \/ ThreadLock \/ ThreadUnlock
  <2>1. 1 \in 1..(MAX_TASKS + 1) /\ 0 \in 0..MaxTime /\ now \in 0..MaxTime
    BY <1>0, SchedulerAssumption DEF TableTypes
  <2>2. CASE ThreadSample
    BY <1>0, <2>1, <2>2 DEF ThreadSample, ThreadTypes, ThreadAt
  <2>3. CASE ThreadLock
    BY <1>0, <2>1, <2>3 DEF ThreadLock, ThreadTypes, ThreadAt
  <2>4. CASE ThreadUnlock
    BY <1>0, <2>1, <2>4 DEF ThreadUnlock, ThreadTypes, ThreadAt
  <2> QED BY <1>1, <2>2, <2>3, <2>4
<1>2. CASE ThreadSkip \/ ThreadShell
  <2>0. thread = "scan" /\ i <= Len(tasks) /\ i' = i + 1
    BY <1>2 DEF ThreadSkip, ThreadShell, Scanning
  <2>1. i' \in 1..(MAX_TASKS + 1) /\ thread = "scan"
    <3>1. i \in 1..(MAX_TASKS + 1) /\ Len(tasks) <= MAX_TASKS
      BY <1>0 DEF ThreadTypes, TableTypes
    <3> QED BY <1>0, <2>0, <3>1, SchedulerAssumption
  <2> QED BY <1>0, <1>2, <2>1 DEF ThreadSkip, ThreadShell, ThreadTypes, ThreadAt
<1>3. CASE ThreadFire
  <2>1. i <= Len(tasks) /\ i \in DOMAIN tasks
    BY <1>0, <1>3, TableSeq DEF ThreadFire, Scanning, ThreadTypes
  <2>2. firing' \in 1..MaxId /\ Len(tasks') = Len(tasks)
    BY <1>0, <1>3, <2>1, TableSeq, ThreadInPlace DEF ThreadFire, Task, InPlace
  <2>3. firing' \in 0..MaxId
    BY <2>2, SchedulerAssumption
  <2> QED BY <1>0, <1>3, <2>1, <2>2, <2>3 DEF ThreadFire, ThreadTypes, ThreadAt
<1>4. CASE ThreadPublish
  <2>1. inbound' \in Seq(1..MaxId) /\ Len(inbound') <= BUS_QUEUE_DEPTH
    BY <1>0, <1>4, AppendProperties, SchedulerAssumption DEF ThreadPublish,
         ThreadTypes, ThreadAt
  <2> QED BY <1>0, <1>4, <2>1, SchedulerAssumption DEF ThreadPublish, ThreadTypes,
               ThreadAt
<1>5. CASE ThreadRelock
  <2>1. i' \in 1..(MAX_TASKS + 1)
    BY <1>0, <1>5, SchedulerAssumption DEF ThreadRelock, ThreadTypes, ThreadAt,
         TableTypes
  <2> QED BY <1>0, <1>5, <2>1 DEF ThreadRelock, ThreadTypes, ThreadAt
<1>6. CASE WorkerTake
  <2>1. inbound' \in Seq(1..MaxId) /\ Len(inbound') <= BUS_QUEUE_DEPTH
    BY <1>0, <1>6, SchedulerAssumption DEF WorkerTake, ThreadTypes
  <2> QED BY <1>0, <1>6, <2>1 DEF WorkerTake, ThreadTypes, ThreadAt, threadVars
<1>7. CASE CrashAndRestart
  BY <1>7, SchedulerAssumption DEF CrashAndRestart, ThreadTypes, ThreadAt
<1>8. ASSUME NEW c \in Callers, StillCaller(c) \/ Add(c) \/ Control(c)
      PROVE  ThreadTypes' /\ ThreadAt'
  <2>1. /\ UNCHANGED <<thread, sample, i, firing, inbound>>
        /\ mutex' \in Callers \cup {"scheduler", Free}
    BY <1>0, <1>8 DEF StillCaller, CallTool, Add, AddRefused, Control, ControlFails,
         SaveOpen, SaveFails, SaveWrite, AddReply, Cancel, AfterSave, threadVars, ThreadTypes
  <2>2. Len(tasks) <= Len(tasks') /\ Len(tasks') \in Nat
    BY <1>0, <1>8, StillSteps, AddAppends, ControlInPlace DEF InPlace
  <2> QED BY <1>0, <2>1, <2>2 DEF ThreadTypes, ThreadAt
<1>9. CASE WorkerEndTurn \/ Tick \/ UNCHANGED vars
  BY <1>0, <1>9 DEF WorkerEndTurn, Tick, vars, threadVars, ThreadTypes, ThreadAt
<1> QED BY <1>1, <1>2, <1>3, <1>4, <1>5, <1>6, <1>7, <1>8, <1>9, NextCases
        DEF StillThread, StillOther
----------------------------------------------------------------------------
(* The callers *)

LEMMA CallTypesStep ==
  ASSUME IInv, [Next]_vars
  PROVE  CallTypes'
<1>0. TypeOK /\ CallTypes /\ TableTypes /\ Worker \in Callers
  BY DEF IInv, TypeOK, Callers
<1>1. ASSUME NEW c \in Callers, Return(c) PROVE CallTypes'
  BY <1>0, <1>1, SchedulerAssumption DEF Return, CallTypes
<1>2. ASSUME NEW c \in Callers, NEW o \in Ops, CallTool(c, o) PROVE CallTypes'
  BY <1>0, <1>2 DEF CallTool, CallTypes
<1>3. ASSUME NEW c \in Callers, Add(c) PROVE CallTypes'
  <2>1. Len(tasks) + 1 \in 0..MAX_TASKS /\ next_id \in 0..MaxId
    BY <1>0, <1>3, TableSeq, SchedulerAssumption DEF Add, TableTypes
  <2> QED BY <1>0, <1>3, <2>1 DEF Add, CallTypes
<1>4. ASSUME NEW c \in Callers, Control(c) \/ SaveOpen(c) \/ Cancel(c) PROVE CallTypes'
  BY <1>0, <1>4 DEF Control, SaveOpen, Cancel, CallTypes
<1>5. ASSUME NEW c \in Callers, SaveFails(c) \/ SaveWrite(c) PROVE CallTypes'
  <2>1. CASE pc' = [pc EXCEPT ![c] = "reply"] /\ UNCHANGED <<op, slot, given>>
    BY <1>0, <2>1 DEF CallTypes
  <2> QED BY <1>1, <1>5, <2>1 DEF SaveFails, SaveWrite, AfterSave
<1>6. CASE WorkerTake \/ WorkerEndTurn
  BY <1>0, <1>6 DEF WorkerTake, WorkerEndTurn, CallTypes
<1>7. CASE CrashAndRestart
  BY <1>7, SchedulerAssumption DEF CrashAndRestart, CallTypes
<1>8. CASE UNCHANGED callVars
  BY <1>0, <1>8 DEF callVars, CallTypes
<1>9. CASE Thread
  BY <1>8, <1>9 DEF Thread, ThreadSample, ThreadLock, ThreadSkip, ThreadShell,
       ThreadFire, ThreadPublish, ThreadRelock, ThreadUnlock
<1> QED BY <1>1, <1>2, <1>3, <1>4, <1>5, <1>6, <1>7, <1>8, <1>9
        DEF Next, Enter, Finish, AddRefused, ControlFails, AddReply, Tick, vars

LEMMA SlotStep ==
  ASSUME IInv, [Next]_vars
  PROVE  SlotKept'
<1>0. /\ TypeOK /\ SlotKept /\ CallTypes /\ TableTypes /\ Worker \in Callers
      /\ pc \in [Callers -> {"out", "turn", "call", "save", "write", "reply", "dead"}]
      /\ slot \in [Callers -> 0..MAX_TASKS] /\ given \in [Callers -> 0..MaxId]
  BY DEF IInv, TypeOK, CallTypes, Callers
\* The tasks keep their places and their ids, and the others their pointers.
<1>1. ASSUME NEW c \in Callers,
             \A d \in Callers \ {c} : pc'[d] = pc[d] /\ slot'[d] = slot[d]
                                       /\ given'[d] = given[d],
             \A k \in DOMAIN tasks : k \in DOMAIN tasks' /\ tasks'[k].id = tasks[k].id,
             slot'[c] # 0 => /\ slot'[c] \in DOMAIN tasks'
                             /\ tasks'[slot'[c]].id = given'[c],
             pc'[c] = "reply" => slot'[c] # 0
      PROVE  SlotKept'
  BY <1>0, <1>1 DEF SlotKept
<1>2. ASSUME NEW c \in Callers, Return(c), UNCHANGED tasks PROVE SlotKept'
  <2>1. /\ \A d \in Callers \ {c} : pc'[d] = pc[d] /\ slot'[d] = slot[d]
                                       /\ given'[d] = given[d]
        /\ slot'[c] = 0 /\ pc'[c] = "turn"
    BY <1>0, <1>2 DEF Return
  <2> QED BY <1>1, <1>2, <2>1
<1>3. ASSUME NEW c \in Callers, Add(c) PROVE SlotKept'
  <2>1. /\ \A d \in Callers \ {c} : pc'[d] = pc[d] /\ slot'[d] = slot[d]
                                       /\ given'[d] = given[d]
        /\ slot'[c] = Len(tasks) + 1 /\ given'[c] = next_id /\ pc'[c] = "save"
    BY <1>0, <1>3 DEF Add
  <2> QED BY <1>0, <1>1, <1>3, <2>1, AddAppends
<1>4. ASSUME NEW c \in Callers, NEW p,
             pc' = [pc EXCEPT ![c] = p], p = "reply" => slot[c] # 0,
             UNCHANGED <<slot, given>>, UNCHANGED tasks \/ InPlace
      PROVE  SlotKept'
  <2>1. /\ \A d \in Callers \ {c} : pc'[d] = pc[d]
        /\ pc'[c] = p
        /\ \A k \in DOMAIN tasks : k \in DOMAIN tasks' /\ tasks'[k].id = tasks[k].id
    BY <1>0, <1>4 DEF InPlace
  <2> QED BY <1>0, <1>4, <2>1 DEF SlotKept
<1>5. ASSUME NEW c \in Callers, SaveFails(c) \/ SaveWrite(c) PROVE SlotKept'
  <2>1. UNCHANGED tasks /\ AfterSave(c)
    BY <1>5 DEF SaveFails, SaveWrite
  <2>2. CASE slot[c] = 0
    BY <1>2, <2>1, <2>2 DEF AfterSave
  <2>3. CASE slot[c] # 0
    BY <1>4, <2>1, <2>3 DEF AfterSave
  <2> QED BY <2>2, <2>3
<1>6. CASE CrashAndRestart
  BY <1>6 DEF CrashAndRestart, SlotKept
<1>7. CASE UNCHANGED callVars /\ (UNCHANGED tasks \/ InPlace)
  BY <1>0, <1>7 DEF callVars, SlotKept, InPlace
<1>8. CASE Thread
  <2>1. UNCHANGED callVars
    BY <1>8 DEF Thread, ThreadSample, ThreadLock, ThreadSkip, ThreadShell,
         ThreadFire, ThreadPublish, ThreadRelock, ThreadUnlock
  <2>2. UNCHANGED tasks \/ InPlace
    BY <1>0, <1>8, ThreadInPlace DEF Thread, ThreadSample, ThreadLock, ThreadSkip,
         ThreadPublish, ThreadRelock, ThreadUnlock
  <2> QED BY <1>7, <2>1, <2>2
<1>9. ASSUME NEW c \in Callers, (\E o \in Ops : CallTool(c, o)) \/ SaveOpen(c) \/ Cancel(c)
      PROVE  SlotKept'
  BY <1>4, <1>9 DEF CallTool, SaveOpen, Cancel
<1>10. ASSUME NEW c \in Callers, Control(c) PROVE SlotKept'
  BY <1>0, <1>4, <1>10, ControlInPlace DEF Control
<1>11. CASE WorkerTake \/ WorkerEndTurn
  BY <1>0, <1>4, <1>11 DEF WorkerTake, WorkerEndTurn
<1>12. ASSUME NEW c \in Callers, AddRefused(c) \/ ControlFails(c) \/ AddReply(c)
       PROVE  SlotKept'
  BY <1>2, <1>12 DEF AddRefused, ControlFails, AddReply
<1> QED BY <1>3, <1>5, <1>6, <1>7, <1>8, <1>9, <1>10, <1>11, <1>12
        DEF Next, Enter, Finish, Tick, vars
----------------------------------------------------------------------------
(* jobs.json *)

LEMMA FileStep ==
  ASSUME IInv, [Next]_vars
  PROVE  FileTypes' /\ FileIdsUnique'
<1>0. TableTypes /\ IdsUnique /\ FileTypes /\ FileIdsUnique
  BY DEF IInv, TypeOK
<1>1. CASE UNCHANGED file /\ unsaved' \in BOOLEAN
  BY <1>0, <1>1 DEF FileTypes, FileIdsUnique
<1>2. ASSUME NEW c \in Callers, SaveOpen(c) PROVE FileTypes' /\ FileIdsUnique'
  <2>1. file'.state = "torn" /\ file'.jobs = <<>> /\ unsaved' \in BOOLEAN
        /\ file' = [state |-> "torn", jobs |-> <<>>]
    BY <1>0, <1>2 DEF SaveOpen, FileTypes
  <2> QED BY <2>1, SchedulerAssumption DEF FileTypes, FileIdsUnique
<1>3. ASSUME NEW jobs \in Saved(tasks), file' = [state |-> "whole", jobs |-> jobs],
             unsaved' \in BOOLEAN
      PROVE  FileTypes' /\ FileIdsUnique'
  <2>2. /\ jobs \in Seq(Jobs) /\ Len(jobs) <= MAX_TASKS
        /\ \A j, k \in DOMAIN jobs : jobs[j].id = jobs[k].id => j = k
    BY <1>0, <1>3, SavedJobs
  <2>3. file'.jobs = jobs
    BY <1>3
  <2>4. FileTypes'
    BY <1>3, <2>2, <2>3 DEF FileTypes, Jobs
  <2> QED BY <2>2, <2>3, <2>4 DEF FileIdsUnique
<1>4. ASSUME NEW c \in Callers, SaveWrite(c) \/ Cancel(c)
      PROVE  FileTypes' /\ FileIdsUnique'
  <2>1. CASE WriteFile
    BY <1>1, <1>3, <2>1 DEF WriteFile
  <2> QED BY <1>1, <1>4, <2>1 DEF SaveWrite, Cancel
<1>5. ASSUME NEW c \in Callers, StillCaller(c), ~SaveOpen(c), ~SaveWrite(c), ~Cancel(c)
      PROVE  UNCHANGED file /\ unsaved' \in BOOLEAN
  BY <1>0, <1>5 DEF StillCaller, CallTool, AddRefused, ControlFails, SaveFails,
       AddReply, fileVars, FileTypes
<1>6. ASSUME NEW c \in Callers, Add(c) \/ Control(c)
      PROVE  UNCHANGED file /\ unsaved' \in BOOLEAN
  BY <1>0, <1>6 DEF Add, Control, fileVars, FileTypes
<1>7. CASE StillThread \/ ThreadShell \/ ThreadFire \/ StillOther \/ CrashAndRestart
  BY <1>0, <1>1, <1>7 DEF StillThread, StillOther, ThreadSample, ThreadLock,
       ThreadSkip, ThreadShell, ThreadFire, ThreadPublish, ThreadRelock,
       ThreadUnlock, WorkerTake, WorkerEndTurn, Tick, CrashAndRestart, vars,
       fileVars, FileTypes
<1> QED BY <1>1, <1>2, <1>4, <1>5, <1>6, <1>7, NextCases

Saving(c) == pc[c] \in {"save", "write"}

LEMMA FileCurrentStep ==
  ASSUME IInv, [Next]_vars
  PROVE  FileCurrent'
<1>0. /\ TypeOK /\ TableTypes /\ FileTypes /\ FileCurrent /\ Worker \in Callers
      /\ pc \in [Callers -> {"out", "turn", "call", "save", "write", "reply", "dead"}]
  BY DEF IInv, TypeOK, CallTypes, Callers
\* What leaves the file and the tasks it holds alone, and does not save.
<1>1. ASSUME UNCHANGED <<file, unsaved>>, Saved(tasks') = Saved(tasks),
             \A c \in Callers : Saving(c) => pc'[c] \in {"save", "write"}
      PROVE  FileCurrent'
  BY <1>0, <1>1 DEF FileCurrent, Saving
<1>2. CASE Thread
  <2>1. UNCHANGED <<file, unsaved, pc>>
    BY <1>2 DEF Thread, ThreadSample, ThreadLock, ThreadSkip, ThreadShell,
         ThreadFire, ThreadPublish, ThreadRelock, ThreadUnlock, fileVars, callVars
  <2>2. Saved(tasks') = Saved(tasks)
    BY <1>0, <1>2, ThreadInPlace DEF Thread, ThreadSample, ThreadLock, ThreadSkip,
         ThreadPublish, ThreadRelock, ThreadUnlock
  <2> QED BY <1>1, <2>1, <2>2 DEF Saving
<1>3. ASSUME NEW c \in Callers, Add(c) \/ Control(c) \/ SaveOpen(c) PROVE FileCurrent'
  <2>1. pc'[c] \in {"save", "write"}
    BY <1>0, <1>3 DEF Add, Control, SaveOpen
  <2> QED BY <2>1 DEF FileCurrent
<1>4. ASSUME NEW c \in Callers, SaveFails(c) PROVE FileCurrent'
  BY <1>4 DEF SaveFails, FileCurrent
<1>5. ASSUME NEW c \in Callers, SaveWrite(c) \/ Cancel(c) PROVE FileCurrent'
  <2>1. unsaved' \/ (file'.jobs \in Saved(tasks) /\ tasks' = tasks)
    BY <1>5 DEF SaveWrite, WriteFile, Cancel
  <2> QED BY <2>1 DEF FileCurrent
<1>6. ASSUME NEW c \in Callers,
             \/ \E o \in Ops : CallTool(c, o)
             \/ AddRefused(c) \/ ControlFails(c) \/ AddReply(c)
      PROVE  FileCurrent'
  <2>1. /\ UNCHANGED <<file, unsaved, tasks>>
        /\ \A d \in Callers \ {c} : pc'[d] = pc[d]
        /\ ~Saving(c)
    BY <1>0, <1>6 DEF CallTool, AddRefused, ControlFails, AddReply, Return, fileVars,
         Saving
  <2> QED BY <1>1, <2>1 DEF Saving
<1>7. CASE WorkerTake \/ WorkerEndTurn
  <2>1. /\ UNCHANGED <<file, unsaved, tasks>>
        /\ \A d \in Callers \ {Worker} : pc'[d] = pc[d]
        /\ ~Saving(Worker)
    BY <1>0, <1>7 DEF WorkerTake, WorkerEndTurn, fileVars, Saving
  <2> QED BY <1>1, <2>1 DEF Saving
<1>8. CASE Tick \/ UNCHANGED vars
  <2>1. UNCHANGED <<file, unsaved, tasks, pc>>
    BY <1>8 DEF Tick, vars, callVars, fileVars
  <2> QED BY <1>1, <2>1 DEF Saving
<1>9. CASE CrashAndRestart
  <2>1. tasks' = Loaded(file) /\ file' = file
    BY <1>9 DEF CrashAndRestart
  <2> QED BY <1>0, <2>1, LoadedSaved DEF FileCurrent
<1> QED BY <1>2, <1>3, <1>4, <1>5, <1>6, <1>7, <1>8, <1>9 DEF Next, Enter, Finish

----------------------------------------------------------------------------
(* The theorems *)

LEMMA InitIInv == Init => IInv
<1> SUFFICES ASSUME Init PROVE IInv
  OBVIOUS
<1>1. tasks = <<>> /\ DOMAIN tasks = {} /\ Len(tasks) = 0
  BY DEF Init
<1>2. file = [state |-> "absent", jobs |-> <<>>] /\ file.jobs = <<>>
      /\ DOMAIN file.jobs = {} /\ Len(file.jobs) = 0
  BY DEF Init
<1>3. TableTypes
  BY <1>1, SchedulerAssumption DEF Init, TableTypes
<1>4. ThreadTypes /\ ThreadAt
  BY SchedulerAssumption DEF Init, ThreadTypes, ThreadAt
<1>5. CallTypes
  BY SchedulerAssumption DEF Init, CallTypes
<1>6. FileTypes
  <2>1. <<>> \in Seq(Jobs)
    OBVIOUS
  <2>2. 0 <= MAX_TASKS
    BY SchedulerAssumption
  <2>3. unsaved \in BOOLEAN
    BY DEF Init
  <2> QED BY <1>2, <2>1, <2>2, <2>3 DEF FileTypes, Jobs
<1>7. IdsBelow /\ IdsUnique /\ FileIdsUnique
  BY <1>1, <1>2 DEF IdsBelow, IdsUnique, FileIdsUnique
<1>8. SlotKept
  BY DEF Init, SlotKept
<1>9. FileCurrent
  <2>1. <<>> \in ActiveInOrder(tasks)
    <3>1. <<>> \in [1..0 -> DOMAIN tasks] /\ 0 \in 0..Len(tasks) /\ DOMAIN <<>> = {}
      BY <1>1
    <3> QED BY <1>1, <3>1 DEF ActiveInOrder
  <2>2. file.jobs = [k \in DOMAIN <<>> |-> Job(tasks[<<>>[k]])]
    BY <1>2
  <2> QED BY <2>1, <2>2 DEF FileCurrent, Saved
<1> QED BY <1>3, <1>4, <1>5, <1>6, <1>7, <1>8, <1>9 DEF IInv, TypeOK

LEMMA Invariance == Spec => []IInv
<1>1. IInv /\ [Next]_vars => IInv'
  BY TableStep, ThreadStep, CallTypesStep, SlotStep, FileStep, FileCurrentStep
     DEF IInv, TypeOK
<1> QED BY <1>1, InitIInv, PTL DEF Spec

\* Types: of the table, the thread, the callers and the file.
THEOREM TypeCorrect == Spec => []TypeOK
BY Invariance, PTL DEF IInv

\* schedule_add never gives out an id that a task of the table has, whatever
\* load_jobs read after a crash in the middle of save_jobs or anywhere else.
THEOREM IdsAlwaysUnique == Spec => []IdsUnique
BY Invariance, PTL DEF IInv

\* jobs.json holds exactly the active tasks, in order, whenever no call is
\* between the change and the end of its save_jobs and the last one wrote the
\* whole file; the thread's writes of last_run do not matter to it.
THEOREM FileAlwaysCurrent == Spec => []FileCurrent
BY Invariance, PTL DEF IInv

\* The id schedule_add reads through its pointer after it has released the
\* mutex is the id it gave out.
THEOREM RepliesNameTasks == Spec => []ReplyNamesTask
<1>1. IInv => ReplyNamesTask
  BY DEF IInv, SlotKept, ReplyNamesTask
<1> QED BY <1>1, Invariance, PTL

----------------------------------------------------------------------------
(* What save_jobs and load_jobs compute *)

\* The least number of a set: what stands in for an induction over the table.
LEMMA First ==
  ASSUME NEW S \in SUBSET Nat, S # {}
  PROVE  \E k \in S : \A j \in S : k <= j
<1>1. PICK k \in S : \A j \in S : ~(<<j, k>> \in OpToRel(<, Nat))
  BY NatLessThanWellFounded, WFMin, Zenon
<1>2. \A j \in S : <<j, k>> \in OpToRel(<, Nat) <=> j < k
  BY Zenon DEF OpToRel
<1>3. \A j \in S : ~(j < k)
  BY <1>1, <1>2
<1> QED BY <1>3

\* Two ascending enumerations of the same numbers agree where both go on.
LEMMA Agree ==
  ASSUME NEW n \in Nat, NEW f \in [1..n -> Nat], NEW m \in Nat, NEW g \in [1..m -> Nat],
         \A j, k \in 1..n : j < k => f[j] < f[k],
         \A j, k \in 1..m : j < k => g[j] < g[k],
         \A k \in 1..n : \E j \in 1..m : g[j] = f[k],
         \A k \in 1..m : \E j \in 1..n : f[j] = g[k]
  PROVE  \A k \in 1..n : k <= m /\ f[k] = g[k]
<1> SUFFICES ASSUME NEW q \in 1..n, ~(q <= m /\ f[q] = g[q])
             PROVE  FALSE
  OBVIOUS
<1> DEFINE D == {k \in 1..n : ~(k <= m /\ f[k] = g[k])}
<1>1. PICK k \in D : \A j \in D : k <= j
  <2>1. D \in SUBSET Nat /\ q \in D
    OBVIOUS
  <2> HIDE DEF D
  <2> QED BY <2>1, First
<1>2. k \in 1..n /\ ~(k <= m /\ f[k] = g[k])
  BY <1>1
<1>3. ASSUME NEW j \in 1..n, j < k PROVE j \in 1..m /\ f[j] = g[j]
  <2>1. j \notin D
    <3>1. j \in Int /\ k \in Int
      BY <1>2
    <3> HIDE DEF D
    <3> QED BY <1>1, <1>3, <3>1
  <2> QED BY <2>1
<1>4. PICK j \in 1..m : g[j] = f[k]
  BY <1>2
<1>5. ~(j < k)
  <2>1. ASSUME j < k PROVE FALSE
    <3>1. j \in 1..n
      BY <1>2, <2>1
    <3>2. f[j] = g[j] /\ f[j] < f[k]
      BY <1>2, <1>3, <2>1, <3>1
    <3>3. f[k] \in Nat
      BY <1>2
    <3> QED BY <1>4, <3>2, <3>3
  <2> QED BY <2>1
<1>6. k \in 1..m /\ k < j
  <2>1. k \in Int /\ j \in Int /\ 1 <= k /\ k <= j /\ j <= m
    BY <1>2, <1>5
  <2>2. k # j
    BY <1>2, <1>4, <2>1
  <2> QED BY <2>1, <2>2
<1>7. g[k] < f[k] /\ g[k] \in Nat
  BY <1>4, <1>6
<1>8. PICK p \in 1..n : f[p] = g[k]
  BY <1>6
<1>9. p < k
  <2>1. f[p] < f[k] /\ f[p] \in Nat /\ f[k] \in Nat
    BY <1>2, <1>7, <1>8
  <2>2. ASSUME k < p PROVE FALSE
    <3>1. f[k] < f[p]
      BY <1>2, <2>2
    <3> QED BY <2>1, <3>1
  <2> QED BY <1>2, <2>1, <2>2
<1>10. p \in 1..m /\ f[p] = g[p]
  BY <1>3, <1>9
<1>11. g[p] < g[k]
  BY <1>6, <1>9, <1>10
<1> QED BY <1>7, <1>8, <1>10, <1>11

LEMMA Enumerates ==
  ASSUME NEW ts \in Seq(Task), NEW f \in ActiveInOrder(ts)
  PROVE  /\ \E n \in Nat : f \in [1..n -> Nat] /\ f \in [1..n -> DOMAIN ts]
         /\ \A j, k \in DOMAIN f : j < k => f[j] < f[k]
         /\ \A p \in DOMAIN ts : ts[p].active <=> \E k \in DOMAIN f : f[k] = p
<1>1. PICK n \in 0..Len(ts) : f \in [1..n -> DOMAIN ts]
  BY DEF ActiveInOrder
<1>2. n \in Nat /\ DOMAIN ts \subseteq Nat
  OBVIOUS
<1>3. f \in [1..n -> Nat]
  BY <1>1, <1>2
<1> QED BY <1>1, <1>2, <1>3 DEF ActiveInOrder

LEMMA OneOrder ==
  ASSUME NEW ts \in Seq(Task), NEW f \in ActiveInOrder(ts), NEW g \in ActiveInOrder(ts)
  PROVE  f = g
<1>1. PICK n \in Nat : f \in [1..n -> Nat] /\ f \in [1..n -> DOMAIN ts]
  BY Enumerates
<1>2. PICK m \in Nat : g \in [1..m -> Nat] /\ g \in [1..m -> DOMAIN ts]
  BY Enumerates
<1>3. /\ \A j, k \in 1..n : j < k => f[j] < f[k]
      /\ \A j, k \in 1..m : j < k => g[j] < g[k]
  BY <1>1, <1>2, Enumerates
<1>4. /\ \A p \in DOMAIN ts : ts[p].active <=> \E k \in 1..n : f[k] = p
      /\ \A p \in DOMAIN ts : ts[p].active <=> \E k \in 1..m : g[k] = p
  BY <1>1, <1>2, Enumerates
<1>5. /\ \A k \in 1..n : \E j \in 1..m : g[j] = f[k]
      /\ \A k \in 1..m : \E j \in 1..n : f[j] = g[k]
  BY <1>1, <1>2, <1>4
<1>6. /\ \A k \in 1..n : k <= m /\ f[k] = g[k]
      /\ \A k \in 1..m : k <= n /\ g[k] = f[k]
  BY <1>1, <1>2, <1>3, <1>5, Agree
<1>7. n = m
  BY <1>6
<1> QED BY <1>1, <1>2, <1>6, <1>7

\* By the shortest table without one: it is not empty, and the enumeration of
\* all but its last task can be extended.
LEMMA SomeOrder ==
  ASSUME NEW ts \in Seq(Task)
  PROVE  ActiveInOrder(ts) # {}
<1> DEFINE Bad == {n \in Nat : \E us \in Seq(Task) : Len(us) = n /\ ActiveInOrder(us) = {}}
<1> SUFFICES ASSUME ActiveInOrder(ts) = {} PROVE FALSE
  OBVIOUS
<1>1. Len(ts) \in Bad /\ Bad \in SUBSET Nat
  OBVIOUS
<1>2. PICK n \in Bad : \A k \in Bad : n <= k
  <2> HIDE DEF Bad
  <2> QED BY <1>1, First
<1>3. PICK us \in Seq(Task) : Len(us) = n /\ ActiveInOrder(us) = {}
  BY <1>2
<1>4. n \in Nat /\ DOMAIN us = 1..n
  BY <1>3
<1>5. CASE n = 0
  <2> DEFINE e == [k \in 1..0 |-> 0]
  <2>1. e \in [1..0 -> DOMAIN us] /\ DOMAIN e = {} /\ DOMAIN us = {}
    BY <1>4, <1>5
  <2>2. 0 \in 0..Len(us)
    BY <1>3
  <2>3. e \in UNION {[1..k -> DOMAIN us] : k \in 0..Len(us)}
    <3> HIDE DEF e
    <3> QED BY <2>1, <2>2
  <2> HIDE DEF e
  <2>4. e \in ActiveInOrder(us)
    BY <2>1, <2>3 DEF ActiveInOrder
  <2> QED BY <1>3, <2>4
<1>6. CASE n > 0
  <2> DEFINE vs == [k \in 1..(n - 1) |-> us[k]]
  <2>1. vs \in Seq(Task) /\ Len(vs) = n - 1 /\ DOMAIN vs = 1..(n - 1)
    BY <1>3, <1>4, <1>6
  <2>2. \A k \in 1..(n - 1) : vs[k] = us[k]
    OBVIOUS
  <2> HIDE DEF vs
  <2>3. n - 1 \notin Bad
    BY <1>2, <1>4
  <2>4. PICK f : f \in ActiveInOrder(vs)
    BY <1>4, <1>6, <2>1, <2>3
  <2>5. PICK m \in 0..(n - 1) : f \in [1..m -> 1..(n - 1)]
    BY <2>1, <2>4 DEF ActiveInOrder
  <2>6. /\ \A j, k \in 1..m : j < k => f[j] < f[k]
        /\ \A p \in 1..(n - 1) : us[p].active <=> \E k \in 1..m : f[k] = p
    BY <2>1, <2>2, <2>4, <2>5 DEF ActiveInOrder
  <2>7. CASE ~us[n].active
    <3>1. f \in [1..m -> DOMAIN us] /\ m \in 0..Len(us) /\ DOMAIN f = 1..m
      BY <1>3, <1>4, <2>5
    <3>2. \A p \in DOMAIN us : us[p].active <=> \E k \in 1..m : f[k] = p
      BY <1>4, <2>5, <2>6, <2>7
    <3>3. f \in ActiveInOrder(us)
      BY <2>6, <3>1, <3>2 DEF ActiveInOrder
    <3> QED BY <1>3, <3>3
  <2>8. CASE us[n].active
    <3> DEFINE g == [k \in 1..(m + 1) |-> IF k <= m THEN f[k] ELSE n]
    <3>1. g \in [1..(m + 1) -> DOMAIN us] /\ m + 1 \in 0..Len(us) /\ DOMAIN g = 1..(m + 1)
      BY <1>3, <1>4, <1>6, <2>5
    <3>2. g[m + 1] = n /\ \A k \in 1..m : g[k] = f[k] /\ f[k] \in 1..(n - 1)
      BY <2>5
    <3> HIDE DEF g
    <3>3. \A j, k \in 1..(m + 1) : j < k => g[j] < g[k]
      <4> SUFFICES ASSUME NEW j \in 1..(m + 1), NEW k \in 1..(m + 1), j < k
                   PROVE  g[j] < g[k]
        OBVIOUS
      <4>1. j \in 1..m
        BY <2>5
      <4>2. CASE k \in 1..m
        BY <2>6, <3>2, <4>1, <4>2
      <4>3. CASE k = m + 1
        <5>1. g[j] \in 1..(n - 1) /\ g[k] = n
          BY <3>2, <4>1, <4>3
        <5> QED BY <1>4, <5>1
      <4> QED BY <2>5, <4>2, <4>3
    <3>4. ASSUME NEW p \in DOMAIN us
          PROVE  us[p].active <=> \E k \in 1..(m + 1) : g[k] = p
      <4>1. CASE p = n
        <5>1. m + 1 \in 1..(m + 1)
          BY <2>5
        <5> QED BY <2>8, <3>2, <4>1, <5>1
      <4>2. CASE p \in 1..(n - 1)
        <5>1. m + 1 \notin 1..m /\ \A k \in 1..(m + 1) : k \in 1..m \/ k = m + 1
          BY <2>5
        <5>2. g[m + 1] # p
          BY <1>4, <3>2, <4>2
        <5>3. (\E k \in 1..m : f[k] = p) <=> \E k \in 1..(m + 1) : g[k] = p
          BY <2>5, <3>2, <5>1, <5>2
        <5> QED BY <2>6, <4>2, <5>3
      <4> QED BY <1>4, <4>1, <4>2
    <3>5. g \in ActiveInOrder(us)
      BY <3>1, <3>3, <3>4 DEF ActiveInOrder
    <3> QED BY <1>3, <3>5
  <2> QED BY <2>7, <2>8
<1> QED BY <1>4, <1>5, <1>6

\* The loop of save_jobs is given its result by a set with exactly one element:
\* every table has one text of jobs.json, so FileCurrent determines the file.
THEOREM SavedIsOne ==
  ASSUME NEW ts \in Seq(Task)
  PROVE  \E jobs : Saved(ts) = {jobs}
<1>1. PICK f : f \in ActiveInOrder(ts)
  BY SomeOrder
<1>2. ActiveInOrder(ts) = {f}
  BY <1>1, OneOrder
<1>3. Saved(ts) = {[k \in DOMAIN f |-> Job(ts[f[k]])]}
  BY <1>2, Zenon DEF Saved
<1> QED BY <1>3

\* Likewise for load_jobs: every file gives one next id.
THEOREM NextIdIsOne ==
  ASSUME NEW f, f.jobs \in Seq(Jobs)
  PROVE  \E n \in Nat : NextId(f) = {n}
<1> DEFINE ids == {Loaded(f)[k].id : k \in DOMAIN Loaded(f)}
<1> DEFINE Above == {n \in Nat : 1 <= n /\ \A id \in ids : id < n}
<1>1. ids \subseteq 1..MaxId
  <2>1. \A k \in DOMAIN Loaded(f) : k \in DOMAIN f.jobs /\ Loaded(f)[k].id = f.jobs[k].id
    BY DEF Loaded
  <2>2. \A k \in DOMAIN f.jobs : f.jobs[k].id \in 1..MaxId
    <3>1. \A k \in DOMAIN f.jobs : f.jobs[k] \in Jobs
      OBVIOUS
    <3>2. \A j \in Jobs : j.id \in 1..MaxId
      BY DEF Jobs
    <3> QED BY <3>1, <3>2
  <2> QED BY <2>1, <2>2
<1>2. NextId(f) = {n \in {1} \cup {id + 1 : id \in ids} : \A id \in ids : id < n}
  BY DEF NextId
<1> HIDE DEF ids
<1>3. MaxId + 1 \in Above
  BY <1>1, SchedulerAssumption
<1>4. PICK n \in Above : \A k \in Above : n <= k
  <2>1. Above \in SUBSET Nat /\ Above # {}
    BY <1>3
  <2> HIDE DEF Above
  <2> QED BY <2>1, First
<1>5. n \in Nat /\ 1 <= n /\ \A id \in ids : id < n
  BY <1>4
<1>6. n \in {1} \cup {id + 1 : id \in ids}
  <2>1. CASE n > 1
    <3>1. n - 1 \in Nat /\ 1 <= n - 1 /\ n - 1 \notin Above
      BY <1>4, <1>5, <2>1
    <3>2. PICK id \in ids : ~(id < n - 1)
      BY <3>1
    <3>3. id \in Int /\ id < n
      BY <1>1, <1>5
    <3>4. n = id + 1
      BY <1>5, <3>2, <3>3
    <3> QED BY <3>4
  <2> QED BY <1>5, <2>1
<1>7. ASSUME NEW m \in {1} \cup {id + 1 : id \in ids}, \A id \in ids : id < m
      PROVE  m = n
  <2>1. m \in Nat /\ 1 <= m
    BY <1>1, <1>7
  <2>2. n <= m
    BY <1>4, <1>7, <2>1
  <2>3. m <= n
    <3>1. CASE m = 1
      BY <1>5, <3>1
    <3>2. ASSUME NEW id \in ids, m = id + 1 PROVE m <= n
      <4>1. id < n /\ id \in Int
        BY <1>1, <1>5
      <4> QED BY <1>5, <3>2, <4>1
    <3> QED BY <1>7, <3>1, <3>2
  <2> QED BY <1>5, <2>1, <2>2, <2>3
<1>8. NextId(f) = {n}
  BY <1>2, <1>5, <1>6, <1>7
<1> QED BY <1>5, <1>8
=============================================================================
