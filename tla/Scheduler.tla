----------------------------- MODULE Scheduler -----------------------------
(***************************************************************************)
(* The task scheduler (src/src/tools/scheduler/scheduler.c): the table of  *)
(* tasks under one mutex, the thread that fires them, the tools            *)
(* schedule_add and schedule_control called by the agent worker and by     *)
(* sub-agents, and the file jobs.json that a restart reads.                *)
(*                                                                         *)
(* The inbound queue of the bus and the worker that empties it are part of *)
(* the model: the thread blocks in bus_publish_inbound when the queue is   *)
(* full, and the worker that would make room may be waiting for the mutex. *)
(* What a task says is left out; a shell task is forked and forgotten.     *)
(*                                                                         *)
(* A sub-agent that runs out of time is cancelled wherever it is, also     *)
(* while it writes jobs.json with the mutex held.                          *)
(***************************************************************************)
EXTENDS Integers, Sequences

CONSTANTS
  MAX_TASKS, BUS_QUEUE_DEPTH,
  Subagents,     \* threads other than the worker that call the tools
  Worker,        \* the agent worker
  Kinds,         \* bound: the task types in use
  Actions,       \* bound: the actions of schedule_control in use
  Intervals,     \* bound: the values of interval_sec in use
  MaxId,         \* bound: ids given out
  MaxTime,       \* bound: how long the clock runs
  MaxCrashes,    \* bound: crashes of the process
  Free

Callers == Subagents \cup {Worker}

ASSUME SchedulerAssumption ==
  /\ MAX_TASKS \in Nat \ {0} /\ BUS_QUEUE_DEPTH \in Nat \ {0}
  /\ Kinds \subseteq {"shell", "agent_turn"}
  /\ Actions \subseteq {"pause", "resume", "delete", "other"}
  /\ Intervals \subseteq Nat \ {0}
  /\ MaxId \in Nat /\ MaxTime \in Nat /\ MaxCrashes \in Nat
  /\ Worker \notin Subagents
  /\ Free \notin Callers \cup {"scheduler"}

VARIABLES
  tasks,      \* tasks[0..task_count-1]
  next_id,
  mutex,      \* the thread that holds it, or Free
  thread,     \* where scheduler_thread is
  sample,     \* its variable now
  i,          \* its loop counter (from 1)
  firing,     \* the id of the task it is injecting
  inbound,    \* the ids of the messages in the inbound queue
  pc, op,     \* [Callers -> ...] where each caller is, and its call
  slot,       \* [Callers -> the pointer t of tool_schedule_add]
  given,      \* ghost: [Callers -> the id the last call was given]
  file,       \* jobs.json: its state "absent", "torn" or "whole", its jobs
  unsaved,    \* ghost: the last save_jobs did not write the whole file
  now, crashes

threadVars == <<thread, sample, i, firing>>
callVars == <<pc, op, slot, given>>
fileVars == <<file, unsaved>>
vars == <<tasks, next_id, mutex, threadVars, inbound, callVars, fileVars, now,
          crashes>>

----------------------------------------------------------------------------
(* jobs.json *)

\* The active tasks in the order of the table, as a sequence of positions.
\* There is exactly one.
ActiveInOrder(ts) ==
  {f \in UNION {[1..n -> DOMAIN ts] : n \in 0..Len(ts)} :
     /\ \A j, k \in DOMAIN f : j < k => f[j] < f[k]
     /\ \A p \in DOMAIN ts : ts[p].active <=> \E k \in DOMAIN f : f[k] = p}

\* What save_jobs writes of a task: all but last_run.
Job(t) == [id |-> t.id, kind |-> t.kind, interval_sec |-> t.interval_sec,
           paused |-> t.paused]

\* save_jobs: the jobs of the file, the one element of the set.
Saved(ts) == {[k \in DOMAIN f |-> Job(ts[f[k]])] : f \in ActiveInOrder(ts)}

\* load_jobs: at most MAX_TASKS of them; none fires at once.  A missing file
\* and one that does not parse give no task.
Loaded(f) ==
  [k \in {j \in DOMAIN f.jobs : j <= MAX_TASKS} |->
     [id |-> f.jobs[k].id, kind |-> f.jobs[k].kind,
      interval_sec |-> f.jobs[k].interval_sec, last_run |-> now,
      paused |-> f.jobs[k].paused, active |-> TRUE]]

\* Mutant of NextId: load_jobs does not raise next_id.
NextId_unraised(f) == {1}

\* next_id after load_jobs, the one element of the set: it is raised past
\* every id that is loaded.
NextId(f) ==
  LET ids == {Loaded(f)[k].id : k \in DOMAIN Loaded(f)} IN
  {n \in {1} \cup {id + 1 : id \in ids} : \A id \in ids : id < n}

----------------------------------------------------------------------------
(* scheduler_thread *)

Due(t, time) == /\ t.active /\ ~t.paused
                /\ time - t.last_run >= t.interval_sec

\* sleep(1) is over and the clock is read; the mutex is not held yet.
ThreadSample ==
  /\ thread = "asleep"
  /\ sample' = now
  /\ thread' = "lock"
  /\ UNCHANGED <<tasks, next_id, mutex, i, firing, inbound, callVars,
                 fileVars, now, crashes>>

ThreadLock ==
  /\ thread = "lock"
  /\ mutex = Free
  /\ mutex' = "scheduler"
  /\ i' = 1
  /\ thread' = "scan"
  /\ UNCHANGED <<tasks, next_id, sample, firing, inbound, callVars, fileVars,
                 now, crashes>>

Scanning == thread = "scan" /\ i <= Len(tasks)

\* Mutant of ThreadSkip: the loop ends at the first task that is not due.
ThreadSkip_breaks ==
  /\ Scanning
  /\ ~Due(tasks[i], sample)
  /\ i' = Len(tasks) + 1
  /\ UNCHANGED <<tasks, next_id, mutex, thread, sample, firing, inbound,
                 callVars, fileVars, now, crashes>>

ThreadSkip ==
  /\ Scanning
  /\ ~Due(tasks[i], sample)
  /\ i' = i + 1
  /\ UNCHANGED <<tasks, next_id, mutex, thread, sample, firing, inbound,
                 callVars, fileVars, now, crashes>>

\* scheduler_run_async waits for nothing.
ThreadShell ==
  /\ Scanning
  /\ Due(tasks[i], sample)
  /\ tasks[i].kind = "shell"
  /\ tasks' = [tasks EXCEPT ![i].last_run = sample]
  /\ i' = i + 1
  /\ UNCHANGED <<next_id, mutex, thread, sample, firing, inbound, callVars,
                 fileVars, now, crashes>>

\* The text is copied and the mutex released before the message is published.
ThreadFire ==
  /\ Scanning
  /\ Due(tasks[i], sample)
  /\ tasks[i].kind = "agent_turn"
  /\ tasks' = [tasks EXCEPT ![i].last_run = sample]
  /\ firing' = tasks[i].id
  /\ mutex' = Free
  /\ thread' = "publish"
  /\ UNCHANGED <<next_id, sample, i, inbound, callVars, fileVars, now,
                 crashes>>

\* bus_publish_inbound, which waits for room.
ThreadPublish ==
  /\ thread = "publish"
  /\ Len(inbound) < BUS_QUEUE_DEPTH
  /\ inbound' = Append(inbound, firing)
  /\ thread' = "relock" /\ firing' = 0
  /\ UNCHANGED <<tasks, next_id, mutex, sample, i, callVars, fileVars,
                 now, crashes>>

ThreadRelock ==
  /\ thread = "relock"
  /\ mutex = Free
  /\ mutex' = "scheduler"
  /\ i' = i + 1
  /\ thread' = "scan"
  /\ UNCHANGED <<tasks, next_id, sample, firing, inbound, callVars, fileVars,
                 now, crashes>>

\* Mutant of ThreadUnlock: the lock is taken once, outside the loop.
ThreadUnlock_hoisted ==
  /\ thread = "scan"
  /\ i > Len(tasks)
  /\ sample' = now /\ i' = 1
  /\ UNCHANGED <<tasks, next_id, mutex, thread, firing, inbound, callVars,
                 fileVars, now, crashes>>

ThreadUnlock ==
  /\ thread = "scan"
  /\ i > Len(tasks)
  /\ mutex' = Free
  /\ thread' = "asleep" /\ sample' = 0 /\ i' = 1
  /\ UNCHANGED <<tasks, next_id, firing, inbound, callVars, fileVars,
                 now, crashes>>

----------------------------------------------------------------------------
(* The worker, and the tools *)

WorkerTake ==
  /\ pc[Worker] = "out"
  /\ inbound # <<>>
  /\ inbound' = Tail(inbound)
  /\ pc' = [pc EXCEPT ![Worker] = "turn"]
  /\ UNCHANGED <<tasks, next_id, mutex, threadVars, op, slot, given, fileVars,
                 now, crashes>>

WorkerEndTurn ==
  /\ pc[Worker] = "turn"
  /\ pc' = [pc EXCEPT ![Worker] = "out"]
  /\ UNCHANGED <<tasks, next_id, mutex, threadVars, inbound, op, slot, given,
                 fileVars, now, crashes>>

Ops == [name : {"add"}, kind : Kinds, interval_sec : Intervals]
         \cup [name : Actions, id : 1..MaxId]

\* The arguments have been parsed and checked; the mutex is next.
CallTool(c, o) ==
  /\ pc[c] = "turn"
  /\ o.name = "add" => next_id <= MaxId
  /\ op' = [op EXCEPT ![c] = o]
  /\ pc' = [pc EXCEPT ![c] = "call"]
  /\ UNCHANGED <<tasks, next_id, mutex, threadVars, inbound, slot, given,
                 fileVars, now, crashes>>

NoOp == [name |-> "pause", id |-> 1]

\* The call returns to the turn it was made in.
Return(c) ==
  /\ pc' = [pc EXCEPT ![c] = "turn"]
  /\ op' = [op EXCEPT ![c] = NoOp]
  /\ slot' = [slot EXCEPT ![c] = 0]
  /\ given' = [given EXCEPT ![c] = 0]

NewTask(o) ==
  [id |-> next_id, kind |-> o.kind, interval_sec |-> o.interval_sec,
   last_run |-> now, paused |-> FALSE, active |-> TRUE]

\* Mutant of Add: the slot of a deleted task is used again.
Add_reuses(c) ==
  LET dead == {k \in DOMAIN tasks : ~tasks[k].active}
      k == IF dead = {} THEN Len(tasks) + 1 ELSE CHOOSE d \in dead : TRUE
  IN
  /\ pc[c] = "call" /\ op[c].name = "add"
  /\ mutex = Free
  /\ k <= MAX_TASKS
  /\ next_id <= MaxId
  /\ mutex' = c
  /\ tasks' = [j \in DOMAIN tasks \cup {k} |->
                 IF j = k THEN NewTask(op[c]) ELSE tasks[j]]
  /\ next_id' = next_id + 1
  /\ slot' = [slot EXCEPT ![c] = k]
  /\ given' = [given EXCEPT ![c] = next_id]
  /\ pc' = [pc EXCEPT ![c] = "save"]
  /\ UNCHANGED <<threadVars, inbound, op, fileVars, now, crashes>>

\* tool_schedule_add takes the next slot; save_jobs follows.
Add(c) ==
  /\ pc[c] = "call" /\ op[c].name = "add"
  /\ mutex = Free
  /\ Len(tasks) < MAX_TASKS
  /\ next_id <= MaxId
  /\ mutex' = c
  /\ tasks' = Append(tasks, NewTask(op[c]))
  /\ next_id' = next_id + 1
  /\ slot' = [slot EXCEPT ![c] = Len(tasks) + 1]
  /\ given' = [given EXCEPT ![c] = next_id]
  /\ pc' = [pc EXCEPT ![c] = "save"]
  /\ UNCHANGED <<threadVars, inbound, op, fileVars, now, crashes>>

\* "Max tasks reached": the mutex is released at once.
AddRefused(c) ==
  /\ pc[c] = "call" /\ op[c].name = "add"
  /\ mutex = Free
  /\ Len(tasks) >= MAX_TASKS \/ next_id > MaxId
  /\ Return(c)
  /\ UNCHANGED <<tasks, next_id, mutex, threadVars, inbound, fileVars, now,
                 crashes>>

Changed(t, name) ==
  CASE name = "pause"  -> [t EXCEPT !.paused = TRUE]
    [] name = "resume" -> [t EXCEPT !.paused = FALSE]
    [] name = "delete" -> [t EXCEPT !.active = FALSE]

Matches(id) == {k \in DOMAIN tasks : tasks[k].id = id /\ tasks[k].active}

\* The first of them is changed.
Change(id, name) ==
  \E k \in Matches(id) :
    /\ \A j \in Matches(id) : k <= j
    /\ tasks' = [tasks EXCEPT ![k] = Changed(@, name)]

\* Mutant of Control: the change is not saved.
Control_unsaved(c) ==
  /\ pc[c] = "call" /\ op[c].name \in {"pause", "resume", "delete"}
  /\ mutex = Free
  /\ Change(op[c].id, op[c].name)
  /\ Return(c)
  /\ UNCHANGED <<next_id, mutex, threadVars, inbound, fileVars, now, crashes>>

\* tool_schedule_control changes the first task with the id.
Control(c) ==
  /\ pc[c] = "call" /\ op[c].name \in {"pause", "resume", "delete"}
  /\ mutex = Free
  /\ mutex' = c
  /\ Change(op[c].id, op[c].name)
  /\ pc' = [pc EXCEPT ![c] = "save"]
  /\ UNCHANGED <<next_id, threadVars, inbound, op, slot, given, fileVars,
                 now, crashes>>

\* "Task not found" and "unknown action".
ControlFails(c) ==
  /\ pc[c] = "call" /\ op[c].name # "add"
  /\ mutex = Free
  /\ Matches(op[c].id) = {} \/ op[c].name = "other"
  /\ Return(c)
  /\ UNCHANGED <<tasks, next_id, mutex, threadVars, inbound, fileVars, now,
                 crashes>>

\* What the caller does once save_jobs is over and the mutex released.
AfterSave(c) ==
  /\ mutex' = Free
  /\ IF slot[c] = 0 THEN Return(c)
     ELSE pc' = [pc EXCEPT ![c] = "reply"] /\ UNCHANGED <<op, slot, given>>

\* fopen(jobs_path, "w") empties the file.
SaveOpen(c) ==
  /\ pc[c] = "save"
  /\ file' = [state |-> "torn", jobs |-> <<>>]
  /\ pc' = [pc EXCEPT ![c] = "write"]
  /\ UNCHANGED <<tasks, next_id, mutex, threadVars, inbound, op, slot, given,
                 unsaved, now, crashes>>

\* The file cannot be opened: a warning, and the call goes on.
SaveFails(c) ==
  /\ pc[c] = "save"
  /\ unsaved' = TRUE
  /\ AfterSave(c)
  /\ UNCHANGED <<tasks, next_id, threadVars, inbound, file, now, crashes>>

\* fputs and fclose write everything, or on a full disk a part, which does not
\* parse: their results are not looked at.
WriteFile ==
  \/ /\ \E jobs \in Saved(tasks) : file' = [state |-> "whole", jobs |-> jobs]
     /\ unsaved' = FALSE
  \/ /\ unsaved' = TRUE
     /\ UNCHANGED file

SaveWrite(c) ==
  /\ pc[c] = "write"
  /\ WriteFile
  /\ AfterSave(c)
  /\ UNCHANGED <<tasks, next_id, threadVars, inbound, now, crashes>>

\* The watchdog has cancelled the sub-agent, and fopen, fputs and fclose are
\* where it may stop: nothing unlocks the mutex on its way out.
Cancel(c) ==
  /\ c \in Subagents
  /\ \/ pc[c] = "save" /\ unsaved' = TRUE /\ UNCHANGED file
     \/ pc[c] = "write" /\ WriteFile
  /\ pc' = [pc EXCEPT ![c] = "dead"]
  /\ UNCHANGED <<tasks, next_id, mutex, threadVars, inbound, op, slot, given,
                 now, crashes>>

\* tool_schedule_add reads t->id for its reply, after the unlock.
AddReply(c) ==
  /\ pc[c] = "reply"
  /\ Return(c)
  /\ UNCHANGED <<tasks, next_id, mutex, threadVars, inbound, fileVars,
                 now, crashes>>

----------------------------------------------------------------------------

Tick ==
  /\ now < MaxTime
  /\ now' = now + 1
  /\ UNCHANGED <<tasks, next_id, mutex, threadVars, inbound, callVars,
                 fileVars, crashes>>

\* The process ends at any point and is started again: scheduler_create.
CrashAndRestart ==
  /\ crashes < MaxCrashes
  /\ crashes' = crashes + 1
  /\ tasks' = Loaded(file)
  /\ next_id' \in NextId(file)
  /\ mutex' = Free
  /\ thread' = "asleep" /\ sample' = 0 /\ i' = 1 /\ firing' = 0
  /\ inbound' = <<>>
  /\ pc' = [c \in Callers |-> IF c = Worker THEN "out" ELSE "turn"]
  /\ op' = [c \in Callers |-> NoOp]
  /\ slot' = [c \in Callers |-> 0]
  /\ given' = [c \in Callers |-> 0]
  /\ unsaved' = FALSE
  /\ UNCHANGED <<file, now>>

Init ==
  /\ tasks = <<>>
  /\ next_id = 1
  /\ mutex = Free
  /\ thread = "asleep" /\ sample = 0 /\ i = 1 /\ firing = 0
  /\ inbound = <<>>
  /\ pc = [c \in Callers |-> IF c = Worker THEN "out" ELSE "turn"]
  /\ op = [c \in Callers |-> NoOp]
  /\ slot = [c \in Callers |-> 0]
  /\ given = [c \in Callers |-> 0]
  /\ file = [state |-> "absent", jobs |-> <<>>] /\ unsaved = FALSE
  /\ now = 0 /\ crashes = 0

Thread == \/ ThreadSample \/ ThreadLock \/ ThreadSkip \/ ThreadShell
          \/ ThreadFire \/ ThreadPublish \/ ThreadRelock \/ ThreadUnlock

\* A call that waits for the mutex, and the rest of a call.
Enter(c) == Add(c) \/ AddRefused(c) \/ Control(c) \/ ControlFails(c)
Finish(c) == SaveOpen(c) \/ SaveFails(c) \/ SaveWrite(c) \/ AddReply(c)

Next == \/ Thread
        \/ WorkerTake
        \/ WorkerEndTurn
        \/ \E c \in Callers : \/ \E o \in Ops : CallTool(c, o)
                              \/ Enter(c)
                              \/ Finish(c)
                              \/ Cancel(c)
        \/ Tick
        \/ CrashAndRestart

Spec == Init /\ [][Next]_vars

\* The scheduler thread sleeps a second in every round without the mutex, so
\* a call that waits for it gets it, and so does the thread.  Turns end.
Fairness ==
  /\ WF_vars(Thread)
  /\ SF_vars(ThreadLock \/ ThreadRelock)
  /\ WF_vars(WorkerTake)
  /\ SF_vars(WorkerEndTurn)
  /\ \A c \in Callers : SF_vars(Enter(c) \/ Finish(c))

FairSpec == Spec /\ Fairness

----------------------------------------------------------------------------
(* Properties *)

Task == [id : 1..MaxId, kind : Kinds, interval_sec : Intervals,
         last_run : 0..MaxTime, paused : BOOLEAN, active : BOOLEAN]

TableTypes ==
  /\ tasks \in Seq(Task) /\ Len(tasks) <= MAX_TASKS
  /\ next_id \in 1..(MaxId + 1)
  /\ now \in 0..MaxTime /\ crashes \in 0..MaxCrashes

ThreadTypes ==
  /\ mutex \in Callers \cup {"scheduler", Free}
  /\ thread \in {"asleep", "lock", "scan", "publish", "relock"}
  /\ sample \in 0..MaxTime
  /\ i \in 1..(MAX_TASKS + 1)
  /\ firing \in 0..MaxId
  /\ inbound \in Seq(1..MaxId) /\ Len(inbound) <= BUS_QUEUE_DEPTH

CallTypes ==
  /\ pc \in [Callers -> {"out", "turn", "call", "save", "write", "reply",
                         "dead"}]
  /\ op \in [Callers -> Ops \cup {NoOp}]
  /\ slot \in [Callers -> 0..MAX_TASKS] /\ given \in [Callers -> 0..MaxId]

FileTypes ==
  /\ file \in [state : {"absent", "torn", "whole"},
               jobs : Seq([id : 1..MaxId, kind : Kinds,
                           interval_sec : Intervals, paused : BOOLEAN])]
  /\ Len(file.jobs) <= MAX_TASKS
  /\ unsaved \in BOOLEAN

TypeOK == TableTypes /\ ThreadTypes /\ CallTypes /\ FileTypes

\* Two tasks of the table never share an id, tasks restored by a restart
\* included: schedule_control would act on the wrong one, and both would write
\* to the same session "scheduler:<id>".
IdsUnique ==
  \A j, k \in DOMAIN tasks : tasks[j].id = tasks[k].id => j = k

\* When no call is saving jobs.json holds exactly the active tasks, unless the
\* last save could not open it, wrote a part of it or was cancelled: a restart
\* then loses nothing and brings back nothing that was deleted, and one good
\* save makes up for a failed one.
FileCurrent ==
  (~unsaved /\ \A c \in Callers : pc[c] \notin {"save", "write"}) =>
    file.jobs \in Saved(tasks)

\* The id in the reply of schedule_add is read after the mutex is released;
\* it is still the id of the task that call added.
ReplyNamesTask ==
  \A c \in Callers : pc[c] = "reply" => tasks[slot[c]].id = given[c]

\* The mutex is held by a sub-agent that was cancelled, for ever.
MutexLost == mutex \in Callers /\ pc[mutex] = "dead"

\* A tool call returns, also while the thread is blocked on a full queue that
\* only the caller can empty; what may keep it from it is only that a
\* sub-agent was cancelled within save_jobs.
ToolReturns ==
  \A c \in Callers : pc[c] = "call" ~> (pc[c] \in {"out", "turn"} \/ MutexLost)

\* A task that is due does not stay due, whatever is deleted or paused around
\* it and however long the thread was held up, as long as no cancelled
\* sub-agent took the mutex with it.
DueTaskFires ==
  \A k \in 1..MAX_TASKS :
    (k \in DOMAIN tasks /\ Due(tasks[k], now))
      ~> (~(k \in DOMAIN tasks /\ Due(tasks[k], now)) \/ MutexLost)

\* subagent.c, "The cancellation point fires inside curl_easy_perform() (the
\* HTTP read) so the provider call is interrupted cleanly": no sub-agent is
\* cancelled with the mutex of the scheduler.
MutexNotLost == ~MutexLost

\* scheduler.c, "restore persisted tasks before thread starts": a task that is
\* in the table, is not the one a call is just adding and was not kept out of
\* jobs.json by a failed write is there after a restart.
RestartKeepsTasks ==
  [][crashes' # crashes /\ ~unsaved =>
       \A k \in DOMAIN tasks :
         tasks[k].active /\ (\A c \in Callers : slot[c] # k)
           => \E j \in DOMAIN tasks' : tasks'[j].id = tasks[k].id]_vars
=============================================================================
