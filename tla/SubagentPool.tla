---------------------------- MODULE SubagentPool ----------------------------
(***************************************************************************)
(* The pool of sub-agents (src/src/tools/subagent/subagent.c): a table of  *)
(* slots under one mutex, a worker thread and a detached watchdog thread   *)
(* per sub-agent, the tools spawn_subagent and subagent_status, and        *)
(* subagent_pool_destroy().                                                *)
(*                                                                         *)
(* A worker thread is named by the id of its sub-agent.  The mutex is      *)
(* explicit: alloc_slot joins a thread while it holds it, and a thread can *)
(* be cancelled while it holds it.  Cancellation is deferred, so it takes  *)
(* effect at a cancellation point: anywhere in agent_chat, in              *)
(* pthread_join, or where log_write writes to stderr (a point that POSIX   *)
(* allows and glibc has; the debug lines, off by default, are not counted).*)
(*                                                                         *)
(* Sub-agents have every tool, spawn_subagent among them (subagent.h), and *)
(* none of them is kept from spawning while it is being cancelled or the   *)
(* pool destroyed.                                                         *)
(***************************************************************************)
EXTENDS Integers, FiniteSets

CONSTANTS
  SUBAGENT_MAX_SLOTS,
  Orchestrators,   \* the threads outside the pool that call the tools
  MaxIds,          \* bound: sub-agents spawned
  MaxTimeouts,     \* bound: watchdogs that wake before the process ends
  Free, None

Slots == 0..(SUBAGENT_MAX_SLOTS - 1)
Ids == 1..MaxIds
Threads == Orchestrators \cup Ids

ASSUME SubagentAssumption ==
  /\ SUBAGENT_MAX_SLOTS \in Nat \ {0}
  /\ MaxIds \in Nat /\ MaxTimeouts \in Nat
  /\ Orchestrators \cap Ids = {}
  /\ Free \notin Threads /\ None \notin Threads /\ None \notin {"done", "error"}

VARIABLES
  slots,      \* [Slots -> slot_t]
  next_id,
  lock,       \* the thread that holds pool->lock, or Free
  pc,         \* [Threads -> where each thread is]
  target,     \* [Threads -> the slot tool_spawn is working on]
  new_id,     \* [Threads -> the id tool_spawn has given out]
  home,       \* [Ids -> the slot the worker thread was started on]
  cancelled,  \* the worker threads pthread_cancel was called on
  outcome,    \* [Ids -> what agent_chat returned]
  watchdog,   \* [Ids -> state of the watchdog thread]
  timeouts,   \* watchdogs that have woken so far
  now,        \* a clock that advances when a sub-agent finishes
  destroyer,  \* how far subagent_pool_destroy has got
  joining,    \* the slot it is at
  waiting,    \* the worker thread it is in pthread_join for, or None
  touched,    \* a watchdog has used the pool after it was freed
  strays      \* history: live workers whose handle was given up, with no
              \* pthread_join having waited for them

spawnVars == <<target, new_id>>
threadVars == <<pc, home, cancelled, outcome>>
dogVars == <<watchdog, timeouts>>
destroyVars == <<destroyer, joining, waiting, touched>>
vars == <<slots, next_id, lock, spawnVars, threadVars, dogVars, now, destroyVars,
          strays>>

Finished == {"done", "error", "timeout"}

\* What a slot holds: result names what was stored by slot_set_result.
Reset(sl) ==
  [id |-> sl.id, state |-> "idle", result |-> None,
   finished_at |-> sl.finished_at, thread |-> None]

\* A slot given to the next id, and one whose outcome is recorded by the
\* thread or the watchdog of sub-agent n.
Running(sl) ==
  [sl EXCEPT !.id = next_id, !.state = "running", !.result = None,
             !.thread = next_id]

Record(sl, n, state) ==
  [sl EXCEPT !.state = state, !.result = n, !.finished_at = now]

\* pool->lock is taken by thread t, which must be able to.
Acquire(t) == destroyer # "freed" /\ lock = Free /\ lock' = t

Alive(n) == pc[n] \notin {"none", "exited"}

----------------------------------------------------------------------------
(* tool_spawn *)

\* The finished slots alloc_slot would evict: the oldest, the first of them.
Oldest ==
  {i \in Slots :
     /\ slots[i].state \in Finished
     /\ \A j \in Slots : slots[j].state \in Finished =>
          \/ slots[i].finished_at < slots[j].finished_at
          \/ slots[i].finished_at = slots[j].finished_at /\ i <= j}

\* Mutant of Idle: every slot without a result is taken for free.
Idle_unfinished == {i \in Slots : slots[i].state \notin Finished}

Idle == {i \in Slots : slots[i].state = "idle"}

CanSpawn(t) ==
  /\ pc[t] = "out"
  /\ t \in Orchestrators => destroyer = "none"

\* The lock, then alloc_slot: an idle slot, or the eviction of a finished one,
\* which begins with the join of its thread.  If every slot is running the
\* call returns an error and leaves everything as it was.
SpawnLock(t) ==
  /\ CanSpawn(t)
  /\ next_id <= MaxIds
  /\ Acquire(t)
  /\ \E i \in IF Idle # {} THEN Idle ELSE Oldest :
       /\ \A j \in Idle : i <= j
       /\ target' = [target EXCEPT ![t] = i]
       /\ pc' = [pc EXCEPT ![t] = IF i \in Idle THEN "fill" ELSE "join"]
  /\ UNCHANGED <<slots, next_id, new_id, home, cancelled, outcome, dogVars,
                 now, destroyVars, strays>>

\* Mutant of SpawnJoin: the evicted slot's thread is not joined.
SpawnJoin_no_wait(t) ==
  /\ pc[t] = "join"
  /\ slots' = [slots EXCEPT ![target[t]] = Reset(@)]
  /\ pc' = [pc EXCEPT ![t] = "fill"]
  /\ UNCHANGED <<next_id, lock, spawnVars, home, cancelled, outcome, dogVars,
                 now, destroyVars, strays>>

\* pthread_join returns when the thread is gone, or at once with an error that
\* alloc_slot ignores: EDEADLK if a sub-agent evicts its own slot, EINVAL if
\* the destroyer is in a join of the same thread.  Then slot_reset.
SpawnJoin(t) ==
  /\ pc[t] = "join"
  /\ destroyer # "freed"
  /\ LET old == slots[target[t]].thread IN
       /\ old # None => pc[old] = "exited" \/ old \in {t, waiting}
       /\ strays' = strays \cup {n \in {old} \cap Ids : Alive(n)}
  /\ slots' = [slots EXCEPT ![target[t]] = Reset(@)]
  /\ pc' = [pc EXCEPT ![t] = "fill"]
  /\ UNCHANGED <<next_id, lock, spawnVars, home, cancelled, outcome, dogVars,
                 now, destroyVars>>

\* The slot is filled in, the agent made, the worker thread started, the lock
\* released.  In a slot the destroyer has passed nobody will join it.
SpawnFill(t) ==
  /\ pc[t] = "fill"
  /\ destroyer # "freed"
  /\ slots' = [slots EXCEPT ![target[t]] = Running(@)]
  /\ next_id' = next_id + 1
  /\ new_id' = [new_id EXCEPT ![t] = next_id]
  /\ home' = [home EXCEPT ![next_id] = target[t]]
  /\ pc' = [pc EXCEPT ![t] = "start_watchdog", ![next_id] = "out"]
  /\ lock' = Free
  /\ strays' = strays \cup {n \in {next_id} : target[t] < joining}
  /\ UNCHANGED <<target, cancelled, outcome, dogVars, now, destroyVars>>

\* make_agent or pthread_create fails: slot_reset, and the id is used up.
SpawnFails(t) ==
  /\ pc[t] = "fill"
  /\ destroyer # "freed"
  /\ slots' = [slots EXCEPT ![target[t]] = Reset(Running(@))]
  /\ next_id' = next_id + 1
  /\ pc' = [pc EXCEPT ![t] = "out"]
  /\ lock' = Free
  /\ UNCHANGED <<spawnVars, home, cancelled, outcome, dogVars, now,
                 destroyVars, strays>>

\* The watchdog is started after the lock is released, unless malloc or
\* pthread_create fails.
StartWatchdog(t, started) ==
  /\ pc[t] = "start_watchdog"
  /\ watchdog' = [watchdog EXCEPT ![new_id[t]] =
                    IF started THEN "asleep" ELSE "failed"]
  /\ pc' = [pc EXCEPT ![t] = "out"]
  /\ UNCHANGED <<slots, next_id, lock, spawnVars, home, cancelled, outcome,
                 timeouts, now, destroyVars, strays>>

----------------------------------------------------------------------------
(* worker_fn *)

\* agent_chat returns; the worker goes for the lock.
ChatEnds(n, result) ==
  /\ n \in Ids
  /\ pc[n] = "out"
  /\ outcome' = [outcome EXCEPT ![n] = result]
  /\ pc' = [pc EXCEPT ![n] = "finish"]
  /\ UNCHANGED <<slots, next_id, lock, spawnVars, home, cancelled, dogVars,
                 now, destroyVars, strays>>

\* The state and the result are written whatever the slot holds by now.
WorkerFinish(n) ==
  /\ pc[n] = "finish"
  /\ Acquire(n)
  /\ slots' = [slots EXCEPT ![home[n]] = Record(@, n, outcome[n])]
  /\ now' \in {now, now + 1}
  /\ pc' = [pc EXCEPT ![n] = "log"]
  /\ UNCHANGED <<next_id, spawnVars, home, cancelled, outcome, dogVars,
                 destroyVars, strays>>

\* The log line is written, the lock released, and the thread ends.
WorkerUnlock(n) ==
  /\ pc[n] = "log"
  /\ destroyer # "freed"
  /\ lock' = Free
  /\ pc' = [pc EXCEPT ![n] = "exited"]
  /\ UNCHANGED <<slots, next_id, spawnVars, home, cancelled, outcome, dogVars,
                 now, destroyVars, strays>>

\* A cancelled thread reaches a cancellation point and ends there.  Nothing
\* releases a lock it holds.
CancelPoint(n) ==
  /\ n \in cancelled
  /\ pc[n] \in {"out", "join", "log"}
  /\ pc' = [pc EXCEPT ![n] = "exited"]
  /\ UNCHANGED <<slots, next_id, lock, spawnVars, home, cancelled, outcome,
                 dogVars, now, destroyVars, strays>>

----------------------------------------------------------------------------
(* watchdog_fn *)

\* Mutant of Overdue: the id is not compared.
Overdue_any(n) == {i \in Slots : slots[i].state = "running"
                                 /\ slots[i].thread # None}

Overdue(n) == {i \in Slots : slots[i].id = n /\ slots[i].state = "running"
                             /\ slots[i].thread # None}

WatchdogFires(n) ==
  /\ watchdog[n] = "asleep"
  /\ timeouts < MaxTimeouts
  /\ destroyer # "freed" /\ lock = Free
  /\ watchdog' = [watchdog EXCEPT ![n] = "fired"]
  /\ timeouts' = timeouts + 1
  /\ cancelled' = cancelled \cup {slots[i].thread : i \in Overdue(n)}
  /\ slots' = [i \in Slots |-> IF i \in Overdue(n)
                               THEN Record(slots[i], n, "timeout")
                               ELSE slots[i]]
  /\ now' \in {now, now + Cardinality(Overdue(n))}
  /\ UNCHANGED <<next_id, lock, spawnVars, pc, home, outcome, destroyVars,
                 strays>>

----------------------------------------------------------------------------
(* subagent_pool_destroy, called by cleanup() when the agent worker is gone *)

DestroyCancel ==
  /\ destroyer = "none"
  /\ \A o \in Orchestrators : pc[o] = "out"
  /\ lock = Free
  /\ cancelled' = cancelled \cup {slots[i].thread :
                    i \in {j \in Slots : slots[j].state = "running"
                                         /\ slots[j].thread # None}}
  /\ destroyer' = "joining"
  /\ UNCHANGED <<slots, next_id, lock, spawnVars, pc, home, outcome, dogVars,
                 now, joining, waiting, touched, strays>>

\* The second loop, without the lock: the thread of the slot, if it has one.
DestroyLook ==
  /\ destroyer = "joining"
  /\ joining < SUBAGENT_MAX_SLOTS
  /\ waiting = None /\ slots[joining].thread # None
  /\ waiting' = slots[joining].thread
  /\ UNCHANGED <<slots, next_id, lock, spawnVars, threadVars, dogVars, now,
                 destroyer, joining, touched, strays>>

\* Mutant of DestroyJoin: only threads that were still running are joined.
DestroyJoin_running ==
  /\ destroyer = "joining"
  /\ joining < SUBAGENT_MAX_SLOTS
  /\ waiting = None => slots[joining].thread = None
  /\ waiting # None /\ slots[joining].state = "running" => pc[waiting] = "exited"
  /\ slots' = [slots EXCEPT ![joining] =
                 [@ EXCEPT !.thread = None, !.result = None]]
  /\ joining' = joining + 1
  /\ waiting' = None
  /\ UNCHANGED <<next_id, lock, spawnVars, threadVars, dogVars, now,
                 destroyer, touched, strays>>

\* An eviction that is in pthread_join for the thread too.
AlsoJoined(n) ==
  \E t \in Threads : pc[t] = "join" /\ slots[target[t]].thread = n

\* The end of a pass: the join has returned, at once with EINVAL if an
\* eviction joins the same thread, and thread_valid is cleared, whoever has
\* been started in the slot meanwhile.
DestroyJoin ==
  /\ destroyer = "joining"
  /\ joining < SUBAGENT_MAX_SLOTS
  /\ waiting = None => slots[joining].thread = None
  /\ waiting # None => pc[waiting] = "exited" \/ AlsoJoined(waiting)
  /\ strays' = strays \cup
       {n \in {waiting, slots[joining].thread} \cap Ids : Alive(n)}
  /\ slots' = [slots EXCEPT ![joining] =
                 [@ EXCEPT !.thread = None, !.result = None]]
  /\ joining' = joining + 1
  /\ waiting' = None
  /\ UNCHANGED <<next_id, lock, spawnVars, threadVars, dogVars, now,
                 destroyer, touched>>

DestroyFree ==
  /\ destroyer = "joining"
  /\ joining = SUBAGENT_MAX_SLOTS
  /\ destroyer' = "freed"
  /\ UNCHANGED <<slots, next_id, lock, spawnVars, threadVars, dogVars, now,
                 joining, waiting, touched, strays>>

\* A watchdog is not joined; it locks a mutex that is not there any more.  What
\* a worker that outlives the pool does with the freed memory is left open: it
\* takes no step here that reads or writes the pool.
WatchdogUsesFreed(n) ==
  /\ destroyer = "freed"
  /\ watchdog[n] = "asleep"
  /\ timeouts < MaxTimeouts
  /\ watchdog' = [watchdog EXCEPT ![n] = "fired"]
  /\ timeouts' = timeouts + 1
  /\ touched' = TRUE
  /\ UNCHANGED <<slots, next_id, lock, spawnVars, threadVars, now, destroyer,
                 joining, waiting, strays>>

----------------------------------------------------------------------------

Init ==
  /\ slots = [i \in Slots |-> [id |-> 0, state |-> "idle", result |-> None,
                               finished_at |-> 0, thread |-> None]]
  /\ next_id = 1
  /\ lock = Free
  /\ pc = [t \in Threads |-> IF t \in Ids THEN "none" ELSE "out"]
  /\ target = [t \in Threads |-> 0]
  /\ new_id = [t \in Threads |-> 0]
  /\ home = [n \in Ids |-> 0]
  /\ cancelled = {}
  /\ outcome = [n \in Ids |-> None]
  /\ watchdog = [n \in Ids |-> "none"]
  /\ timeouts = 0
  /\ now = 0
  /\ destroyer = "none" /\ joining = 0 /\ waiting = None
  /\ touched = FALSE
  /\ strays = {}

\* What a call of tool_spawn does once it has the lock.
SpawnStep(t) == \/ SpawnJoin(t) \/ SpawnFill(t) \/ SpawnFails(t)
                \/ \E started \in BOOLEAN : StartWatchdog(t, started)

Worker(n) == \/ \E result \in {"done", "error"} : ChatEnds(n, result)
             \/ WorkerFinish(n) \/ WorkerUnlock(n) \/ CancelPoint(n)

Destroy == DestroyLook \/ DestroyJoin \/ DestroyFree

Next == \/ \E t \in Threads : SpawnLock(t) \/ SpawnStep(t)
        \/ \E n \in Ids : \/ Worker(n) \/ WatchdogFires(n)
                          \/ WatchdogUsesFreed(n)
        \/ DestroyCancel
        \/ Destroy

Spec == Init /\ [][Next]_vars

\* Threads run; a turn of a sub-agent ends (module Agent).  Nobody has to
\* spawn, no deadline has to pass, nobody has to end the process.
Fairness == /\ \A t \in Threads : WF_vars(SpawnStep(t))
            /\ \A n \in Ids : WF_vars(Worker(n))
            /\ WF_vars(Destroy)

FairSpec == Spec /\ Fairness

----------------------------------------------------------------------------
(* Properties *)

SlotRecord == [id : 0..MaxIds, state : Finished \cup {"idle", "running"},
               result : Ids \cup {None}, finished_at : Nat,
               thread : Ids \cup {None}]

SlotTypes ==
  /\ slots \in [Slots -> SlotRecord]
  /\ next_id \in 1..(MaxIds + 1)
  /\ now \in Nat

Places == {"none", "out", "join", "fill", "start_watchdog", "finish", "log",
           "exited"}

ThreadTypes ==
  /\ lock \in Threads \cup {Free}
  /\ pc \in [Threads -> Places]
  /\ target \in [Threads -> Slots] /\ new_id \in [Threads -> 0..MaxIds]
  /\ home \in [Ids -> Slots]
  /\ outcome \in [Ids -> {"done", "error", None}]

StopTypes ==
  /\ cancelled \subseteq Ids
  /\ watchdog \in [Ids -> {"none", "asleep", "failed", "fired"}]
  /\ timeouts \in 0..MaxTimeouts
  /\ destroyer \in {"none", "joining", "freed"}
  /\ joining \in 0..SUBAGENT_MAX_SLOTS
  /\ waiting \in Ids \cup {None}
  /\ touched \in BOOLEAN
  /\ strays \subseteq Ids

TypeOK == SlotTypes /\ ThreadTypes /\ StopTypes

\* subagent.c, slot_reset: "must have already joined the thread".  The slot a
\* worker will write its result to is still the slot of its sub-agent, and
\* what subagent_status reports for an id was written for that id.  Only the
\* workers that were given up without a join are an exception, and there are
\* none before the first cancellation.
SlotOutlivesThread ==
  /\ \A n \in Ids : Alive(n) => slots[home[n]].id = n \/ n \in strays
  /\ \A i \in Slots : slots[i].result \in {None, slots[i].id} \cup strays
  /\ strays # {} => cancelled # {}

\* subagent.h, "Running slots are never evicted": a running sub-agent leaves
\* that state only by finishing, failing or timing out under its own id.
RunningNotEvicted ==
  [][\A i \in Slots : slots[i].state = "running" =>
       /\ slots'[i].id = slots[i].id
       /\ slots'[i].state \in Finished \cup {"running"}]_vars

\* Only sub-agents whose own watchdog found them running past their deadline
\* are cancelled before the pool is destroyed, however ids and slots are used
\* again meanwhile.
CancelledOnlyOverdue ==
  destroyer = "none" => \A n \in cancelled : watchdog[n] = "fired"

\* The pool is freed only when every worker thread has ended, but for those
\* that were given up without a join.
WorkersGoneBeforeFree ==
  destroyer = "freed" => \A n \in Ids : Alive(n) => n \in strays

\* subagent.c, "must have already joined the thread", and subagent.h, "cancel
\* all running threads, join them": no worker is given up without a join.
EveryThreadJoined == strays = {}

\* A call of spawn_subagent returns ("does NOT block", subagent.h).
SpawnReturns ==
  \A o \in Orchestrators : pc[o] \in {"join", "fill"} ~> pc[o] = "out"

\* subagent.h, "timeout - exceeded wall-clock deadline": a sub-agent that was
\* stopped for that reason is not reported as done.
TimeoutStays ==
  [][\A i \in Slots : slots[i].state = "timeout" /\ slots'[i].id = slots[i].id
       => slots'[i].state \in {"timeout", "idle"}]_vars

\* subagent.c, the cancellation "fires inside curl_easy_perform() [...] so
\* the provider call is interrupted cleanly": a thread that has been cancelled
\* does not leave the pool locked.
CancelledCleanly == lock # Free => pc[lock] # "exited"

\* subagent.h, "cancel all running threads, join them, free all resources":
\* nobody uses the pool afterwards.
PoolNotUsedAfterFree == ~touched
=============================================================================
