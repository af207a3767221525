------------------------- MODULE SubagentPoolProofs -------------------------
(***************************************************************************)
(* For pools of any size and any number of sub-agents, which may spawn     *)
(* sub-agents of their own at any time: only an overdue sub-agent is       *)
(* cancelled before the shutdown, running slots are not evicted, and but   *)
(* for the workers that were given up without a join a slot outlives its   *)
(* thread and the pool is freed after its last thread.                     *)
(***************************************************************************)
EXTENDS SubagentPool, FiniteSetTheorems, TLAPS

----------------------------------------------------------------------------
(* The inductive invariant of every pool *)

\* A thread inside alloc_slot, or writing its log line, holds the mutex; an
\* id is there for the slot that is being filled.
Locked ==
  \A t \in Threads :
    /\ pc[t] \in {"join", "fill", "log"} => lock = t
    /\ pc[t] \in {"join", "fill"} => next_id <= MaxIds

\* Ids are given out once: the later ones have neither thread nor watchdog.
IdsFresh ==
  /\ \A n \in Ids : n >= next_id => pc[n] = "none" /\ watchdog[n] = "none"
  /\ \A n \in Ids : pc[n] = "finish" => outcome[n] # None
  /\ \A i \in Slots : slots[i].thread \in {None, slots[i].id}

\* The watchdog of an id is started once, by the caller that was given the id.
WatchdogsFresh ==
  \A t \in Threads : pc[t] = "start_watchdog" =>
    /\ new_id[t] \in Ids /\ new_id[t] < next_id
    /\ watchdog[new_id[t]] = "none"
    /\ \A u \in Threads :
         pc[u] = "start_watchdog" /\ new_id[u] = new_id[t] => u = t

PoolInv == TypeOK /\ Locked /\ IdsFresh /\ WatchdogsFresh
             /\ CancelledOnlyOverdue

\* The callers outside the pool are gone when it is destroyed.
CallersGone ==
  destroyer # "none" => \A o \in Orchestrators : pc[o] = "out"

\* alloc_slot works on a slot that has finished, then on one that is idle.
TargetKept ==
  \A t \in Threads :
    /\ pc[t] = "join" => slots[target[t]].state \in Finished
    /\ pc[t] = "fill" => slots[target[t]].state = "idle"

\* A worker that has not ended is the thread of the slot it was started on,
\* unless it is a stray.
OwnHome(n) == /\ slots[home[n]].id = n
              /\ slots[home[n]].thread = n
              /\ slots[home[n]].state # "idle"

HomeKept ==
  /\ \A n \in Ids : Alive(n) => OwnHome(n) \/ n \in strays
  /\ \A i \in Slots : slots[i].result \in {None, slots[i].id} \cup strays

\* A handle in a slot is that of a thread that was started there.
HandleKept ==
  \A i \in Slots : slots[i].thread # None =>
    /\ slots[i].thread \in Ids
    /\ pc[slots[i].thread] # "none"
    /\ home[slots[i].thread] = i

\* The destroyer has dealt with the threads of the slots behind it.
JoinedBehind ==
  /\ destroyer = "none" => joining = 0 /\ waiting = None
  /\ destroyer # "none" => \A i \in Slots : i < joining =>
                             slots[i].thread \in {None} \cup strays
  /\ destroyer = "freed" => joining = SUBAGENT_MAX_SLOTS

\* Before the first cancellation a live worker's slot says running, up to its
\* last log line; if there has been none when the pool is being destroyed, no
\* worker is left.
Untouched ==
  /\ strays = {}
  /\ \A n \in Ids : Alive(n) => pc[n] = "log" \/ slots[home[n]].state = "running"
  /\ destroyer # "none" => \A n \in Ids : ~Alive(n)

FirstCancelled == cancelled = {} => Untouched

SlotInv == CallersGone /\ TargetKept /\ HomeKept /\ HandleKept /\ JoinedBehind
             /\ FirstCancelled

----------------------------------------------------------------------------
(* What the steps leave alone *)

\* Spawning touches neither the watchdogs that run nor the shutdown.
LEMMA NextCases ==
  ASSUME [Next]_vars
  PROVE  \/ \E t \in Threads : \/ SpawnLock(t) \/ SpawnJoin(t) \/ SpawnFill(t)
                                \/ SpawnFails(t)
                                \/ \E started \in BOOLEAN : StartWatchdog(t, started)
         \/ \E n \in Ids : \/ \E result \in {"done", "error"} : ChatEnds(n, result)
                           \/ WorkerFinish(n) \/ WorkerUnlock(n) \/ CancelPoint(n)
                           \/ WatchdogFires(n) \/ WatchdogUsesFreed(n)
         \/ DestroyCancel \/ DestroyLook \/ DestroyJoin \/ DestroyFree
         \/ UNCHANGED vars
BY DEF Next, SpawnStep, Worker, Destroy

LEMMA ThreadIds == Ids \subseteq Threads /\ Free \notin Threads /\ None \notin Ids
BY SubagentAssumption DEF Threads

LEMMA IdNumbers == Ids \subseteq Int
BY SubagentAssumption DEF Ids

----------------------------------------------------------------------------
(* Types *)

\* What the writers of a slot make of it.
LEMMA SlotWriters ==
  ASSUME TypeOK, NEW sl \in SlotRecord
  PROVE  /\ Reset(sl) \in SlotRecord
         /\ next_id <= MaxIds =>
              Running(sl) \in SlotRecord /\ Reset(Running(sl)) \in SlotRecord
         /\ \A n \in Ids, s \in Finished : Record(sl, n, s) \in SlotRecord
         /\ [sl EXCEPT !.thread = None, !.result = None] \in SlotRecord
<1>0. next_id <= MaxIds => next_id \in 0..MaxIds /\ next_id \in Ids
  BY SubagentAssumption DEF Ids, TypeOK, SlotTypes
<1>1. Reset(sl) \in SlotRecord
  BY DEF Reset, SlotRecord
<1>2. ASSUME next_id <= MaxIds PROVE Running(sl) \in SlotRecord
  BY <1>0, <1>2 DEF Running, SlotRecord
<1>3. ASSUME next_id <= MaxIds PROVE Reset(Running(sl)) \in SlotRecord
  BY <1>2, <1>3 DEF Reset, SlotRecord
<1>4. ASSUME NEW n \in Ids, NEW s \in Finished
      PROVE  Record(sl, n, s) \in SlotRecord
  <2>1. now \in Nat
    BY DEF TypeOK, SlotTypes
  <2> QED BY <1>4, <2>1 DEF Record, SlotRecord
<1>5. [sl EXCEPT !.thread = None, !.result = None] \in SlotRecord
  BY DEF SlotRecord
<1> QED BY <1>1, <1>2, <1>3, <1>4, <1>5

LEMMA TypesStep ==
  ASSUME PoolInv, [Next]_vars
  PROVE  TypeOK'
<1> USE ThreadIds DEF PoolInv, TypeOK, Places
<1>1. ASSUME NEW t \in Threads, SpawnLock(t) PROVE TypeOK'
  <2>1. PICK i \in Slots : /\ target' = [target EXCEPT ![t] = i]
                           /\ pc' = [pc EXCEPT ![t] = IF i \in Idle THEN "fill" ELSE "join"]
    BY <1>1 DEF SpawnLock, Idle, Oldest
  <2> QED BY <1>1, <2>1 DEF SpawnLock, Acquire, SlotTypes, ThreadTypes, StopTypes,
                 dogVars, destroyVars
<1>2. ASSUME NEW t \in Threads, SpawnJoin(t) PROVE TypeOK'
  <2>1. strays' \subseteq Ids
    BY <1>2 DEF SpawnJoin, StopTypes
  <2>2. SlotTypes'
    BY <1>2, SlotWriters DEF SpawnJoin, SlotTypes, ThreadTypes
  <2>3. ThreadTypes'
    BY <1>2 DEF SpawnJoin, ThreadTypes, spawnVars
  <2>4. StopTypes'
    BY <1>2, <2>1 DEF SpawnJoin, StopTypes, dogVars, destroyVars
  <2> QED BY <2>2, <2>3, <2>4
<1>3. ASSUME NEW t \in Threads, SpawnFill(t) \/ SpawnFails(t) PROVE TypeOK'
  <2>0. next_id <= MaxIds
    BY <1>3 DEF SpawnFill, SpawnFails, Locked
  <2>1. next_id \in Ids /\ next_id + 1 \in 1..(MaxIds + 1) /\ next_id \in 0..MaxIds
    BY <2>0, SubagentAssumption DEF Ids, SlotTypes
  <2>2. target[t] \in Slots /\ slots[target[t]] \in SlotRecord
    BY DEF ThreadTypes, SlotTypes
  <2>3. /\ Running(slots[target[t]]) \in SlotRecord
        /\ Reset(Running(slots[target[t]])) \in SlotRecord
    BY <2>0, <2>2, SlotWriters
  <2>4. SlotTypes'
    BY <1>3, <2>1, <2>2, <2>3 DEF SpawnFill, SpawnFails, SlotTypes
  <2>5. ThreadTypes'
    BY <1>3, <2>1, <2>2 DEF SpawnFill, SpawnFails, ThreadTypes, spawnVars
  <2>6. StopTypes'
    BY <1>3, <2>1 DEF SpawnFill, SpawnFails, StopTypes, dogVars, destroyVars
  <2> QED BY <2>4, <2>5, <2>6
<1>4. ASSUME NEW t \in Threads, NEW started \in BOOLEAN, StartWatchdog(t, started)
      PROVE TypeOK'
  BY <1>4 DEF StartWatchdog, SlotTypes, ThreadTypes, StopTypes, spawnVars, destroyVars
<1>5. ASSUME NEW n \in Ids, NEW result \in {"done", "error"}, ChatEnds(n, result)
      PROVE TypeOK'
  BY <1>5 DEF ChatEnds, SlotTypes, ThreadTypes, StopTypes, spawnVars, dogVars, destroyVars
<1>6. ASSUME NEW n \in Ids, WorkerFinish(n) PROVE TypeOK'
  <2>1. outcome[n] \in Finished /\ home[n] \in Slots
    BY <1>6 DEF WorkerFinish, IdsFresh, ThreadTypes, Finished
  <2>2. Record(slots[home[n]], n, outcome[n]) \in SlotRecord
    BY <2>1, SlotWriters DEF SlotTypes
  <2>3. SlotTypes'
    BY <1>6, <2>1, <2>2 DEF WorkerFinish, SlotTypes
  <2> QED BY <1>6, <2>3 DEF WorkerFinish, Acquire, ThreadTypes, StopTypes, spawnVars,
                            dogVars, destroyVars
<1>7. ASSUME NEW n \in Ids, WorkerUnlock(n) \/ CancelPoint(n) PROVE TypeOK'
  BY <1>7 DEF WorkerUnlock, CancelPoint, SlotTypes, ThreadTypes, StopTypes, spawnVars,
       dogVars, destroyVars
<1>8. ASSUME NEW n \in Ids, WatchdogFires(n) PROVE TypeOK'
  <2>1. Cardinality(Overdue(n)) \in Nat
    <3>1. IsFiniteSet(Slots)
      BY FS_Interval, SubagentAssumption DEF Slots
    <3>2. Overdue(n) \subseteq Slots
      BY DEF Overdue
    <3> QED BY <3>1, <3>2, FS_Subset, FS_CardinalityType
  <2>2. SlotTypes'
    <3>1. now' \in Nat
      BY <1>8, <2>1 DEF WatchdogFires, SlotTypes
    <3>2. \A i \in Slots : Record(slots[i], n, "timeout") \in SlotRecord
      BY SlotWriters DEF SlotTypes, Finished
    <3> QED BY <1>8, <3>1, <3>2 DEF WatchdogFires, SlotTypes
  <2>3. \A i \in Overdue(n) : slots[i].thread \in Ids
    BY DEF Overdue, SlotTypes, SlotRecord
  <2>4. StopTypes'
    BY <1>8, <2>3, SubagentAssumption DEF WatchdogFires, StopTypes, destroyVars
  <2> QED BY <1>8, <2>2, <2>4 DEF WatchdogFires, ThreadTypes, spawnVars
<1>9. ASSUME NEW n \in Ids, WatchdogUsesFreed(n) PROVE TypeOK'
  BY <1>9, SubagentAssumption DEF WatchdogUsesFreed, SlotTypes, ThreadTypes, StopTypes,
       spawnVars, threadVars
<1>10. CASE DestroyCancel
  <2>1. \A i \in Slots : slots[i].thread # None => slots[i].thread \in Ids
    BY DEF SlotTypes, SlotRecord
  <2> QED BY <1>10, <2>1 DEF DestroyCancel, SlotTypes, ThreadTypes, StopTypes, spawnVars,
                       dogVars
<1>11. CASE DestroyJoin
  <2>1. joining \in Slots /\ joining + 1 \in 0..SUBAGENT_MAX_SLOTS
    BY <1>11, SubagentAssumption DEF DestroyJoin, StopTypes, Slots
  <2>2. SlotTypes'
    BY <1>11, <2>1, SlotWriters DEF DestroyJoin, SlotTypes
  <2>3. strays' \subseteq Ids
    BY <1>11 DEF DestroyJoin, StopTypes
  <2>4. StopTypes'
    BY <1>11, <2>1, <2>3 DEF DestroyJoin, StopTypes, dogVars, threadVars
  <2> QED BY <1>11, <2>2, <2>4 DEF DestroyJoin, ThreadTypes, spawnVars, threadVars
<1>13. CASE DestroyLook
  <2>1. slots[joining].thread \in Ids \cup {None}
    BY <1>13, SubagentAssumption DEF DestroyLook, StopTypes, SlotTypes, SlotRecord, Slots
  <2> QED BY <1>13, <2>1 DEF DestroyLook, SlotTypes, ThreadTypes, StopTypes, spawnVars,
                       threadVars, dogVars
<1>12. CASE DestroyFree \/ UNCHANGED vars
  BY <1>12 DEF DestroyFree, vars, SlotTypes, ThreadTypes, StopTypes, spawnVars,
       threadVars, dogVars, destroyVars
<1> QED BY <1>1, <1>2, <1>3, <1>4, <1>5, <1>6, <1>7, <1>8, <1>9, <1>10, <1>11,
           <1>12, <1>13, NextCases
----------------------------------------------------------------------------
(* The mutex, and ids that are given out once *)

LEMMA LockedStep ==
  ASSUME PoolInv, [Next]_vars
  PROVE  Locked'
<1> USE ThreadIds DEF PoolInv, TypeOK, Locked
<1>0. pc \in [Threads -> Places] /\ lock \in Threads \cup {Free}
  BY DEF ThreadTypes
<1>1. ASSUME NEW t \in Threads, SpawnLock(t) PROVE Locked'
  <2>1. /\ \A u \in Threads \ {t} : pc'[u] = pc[u] /\ pc[u] \notin {"join", "fill", "log"}
        /\ lock' = t /\ next_id <= MaxIds /\ next_id' = next_id
    BY <1>0, <1>1 DEF SpawnLock, Acquire
  <2> QED BY <2>1
<1>2. ASSUME NEW t \in Threads, SpawnJoin(t) PROVE Locked'
  BY <1>0, <1>2 DEF SpawnJoin
<1>3. ASSUME NEW t \in Threads, SpawnFill(t) \/ SpawnFails(t) PROVE Locked'
  <2>1. \A u \in Threads \ {t} : pc[u] \notin {"join", "fill", "log"}
    BY <1>3 DEF SpawnFill, SpawnFails
  <2>2. \A u \in Threads : pc'[u] \notin {"join", "fill", "log"}
    BY <1>0, <1>3, <2>1 DEF SpawnFill, SpawnFails
  <2> QED BY <2>2
<1>4. ASSUME NEW t \in Threads, NEW started \in BOOLEAN, StartWatchdog(t, started)
      PROVE Locked'
  BY <1>0, <1>4 DEF StartWatchdog
<1>5. ASSUME NEW n \in Ids, NEW result \in {"done", "error"}, ChatEnds(n, result)
      PROVE Locked'
  BY <1>0, <1>5 DEF ChatEnds
<1>6. ASSUME NEW n \in Ids, WorkerFinish(n) PROVE Locked'
  <2>1. /\ \A u \in Threads \ {n} : pc'[u] = pc[u] /\ pc[u] \notin {"join", "fill", "log"}
        /\ lock' = n /\ pc'[n] = "log"
    BY <1>0, <1>6 DEF WorkerFinish, Acquire
  <2> QED BY <2>1
<1>7. ASSUME NEW n \in Ids, WorkerUnlock(n) PROVE Locked'
  <2>1. /\ \A u \in Threads \ {n} : pc'[u] = pc[u] /\ pc[u] \notin {"join", "fill", "log"}
        /\ pc'[n] = "exited"
    BY <1>0, <1>7 DEF WorkerUnlock
  <2> QED BY <2>1
<1>8. ASSUME NEW n \in Ids, CancelPoint(n) PROVE Locked'
  BY <1>0, <1>8 DEF CancelPoint
<1>9. CASE UNCHANGED <<pc, lock, next_id>>
  BY <1>9
<1> QED BY <1>1, <1>2, <1>3, <1>4, <1>5, <1>6, <1>7, <1>8, <1>9, NextCases
        DEF WatchdogFires, WatchdogUsesFreed, DestroyCancel, DestroyLook, DestroyJoin,
            DestroyFree, vars, threadVars

LEMMA IdsFreshStep ==
  ASSUME PoolInv, [Next]_vars
  PROVE  IdsFresh'
<1>a. TypeOK /\ IdsFresh /\ WatchdogsFresh
  BY DEF PoolInv
<1>0. /\ pc \in [Threads -> Places] /\ next_id \in Int /\ Ids \subseteq Int
      /\ slots \in [Slots -> SlotRecord]
      /\ \A t \in Threads : target[t] \in Slots
      /\ \A n \in Ids : home[n] \in Slots
      /\ watchdog \in [Ids -> {"none", "asleep", "failed", "fired"}]
      /\ outcome \in [Ids -> {"done", "error", None}]
  <2>1. next_id \in Int
    BY <1>a DEF TypeOK, SlotTypes
  <2> QED BY <1>a, <2>1, IdNumbers DEF TypeOK, ThreadTypes, SlotTypes, StopTypes
<1> USE ThreadIds, <1>a DEF IdsFresh
<1>1. ASSUME NEW t \in Threads, SpawnLock(t) \/ SpawnJoin(t) PROVE IdsFresh'
  <2>1. pc[t] # "none" /\ pc'[t] # "finish"
    BY <1>0, <1>1 DEF SpawnLock, CanSpawn, SpawnJoin
  <2>2. /\ \A u \in Threads \ {t} : pc'[u] = pc[u]
        /\ UNCHANGED <<outcome, watchdog, next_id>>
    BY <1>0, <1>1 DEF SpawnLock, SpawnJoin, dogVars
  <2>3. \A i \in Slots : slots'[i].thread \in {None, slots'[i].id}
    BY <1>0, <1>1 DEF SpawnLock, SpawnJoin, Reset
  <2> QED BY <2>1, <2>2, <2>3
<1>2. ASSUME NEW t \in Threads, SpawnFill(t) \/ SpawnFails(t) PROVE IdsFresh'
  <2>1. /\ next_id' = next_id + 1 /\ UNCHANGED <<outcome, watchdog>>
        /\ \A u \in Threads \ {t, next_id} : pc'[u] = pc[u]
        /\ pc'[t] \in {"start_watchdog", "out"} /\ pc[t] = "fill"
        /\ next_id \in Ids => pc'[next_id] # "finish"
    BY <1>0, <1>2 DEF SpawnFill, SpawnFails, dogVars
  <2>2. \A i \in Slots : slots'[i].thread \in {None, slots'[i].id}
    <3>1. /\ Running(slots[target[t]]).thread = Running(slots[target[t]]).id
          /\ Reset(Running(slots[target[t]])).thread = None
      BY <1>0 DEF Running, Reset, SlotRecord
    <3> QED BY <1>0, <1>2, <3>1 DEF SpawnFill, SpawnFails
  <2> QED BY <1>0, <2>1, <2>2
<1>3. ASSUME NEW t \in Threads, NEW started \in BOOLEAN, StartWatchdog(t, started)
      PROVE IdsFresh'
  <2>1. new_id[t] \in Ids /\ new_id[t] < next_id
    BY <1>3 DEF StartWatchdog, WatchdogsFresh
  <2>2. /\ \A m \in Ids \ {new_id[t]} : watchdog'[m] = watchdog[m]
        /\ \A u \in Threads \ {t} : pc'[u] = pc[u]
        /\ pc[t] # "none" /\ pc'[t] = "out"
        /\ UNCHANGED <<slots, outcome, next_id>>
    BY <1>0, <1>3 DEF StartWatchdog
  <2>3. ASSUME NEW n \in Ids, n >= next_id PROVE n # new_id[t] /\ n # t
    <3>1. n \in Int /\ new_id[t] \in Int
      BY <1>0, <2>1
    <3> QED BY <1>0, <2>1, <2>2, <2>3, <3>1
  <2> QED BY <2>2, <2>3
<1>4. ASSUME NEW n \in Ids, NEW result \in {"done", "error"}, ChatEnds(n, result)
      PROVE IdsFresh'
  <2>1. None \notin {"done", "error"}
    BY SubagentAssumption
  <2> QED BY <1>0, <1>4, <2>1 DEF ChatEnds, dogVars
<1>5. ASSUME NEW n \in Ids, WorkerFinish(n) PROVE IdsFresh'
  BY <1>0, <1>5 DEF WorkerFinish, Record, dogVars
<1>6. ASSUME NEW n \in Ids, WorkerUnlock(n) \/ CancelPoint(n) PROVE IdsFresh'
  BY <1>0, <1>6 DEF WorkerUnlock, CancelPoint, dogVars
<1>7. ASSUME NEW n \in Ids, WatchdogFires(n) PROVE IdsFresh'
  <2>1. /\ watchdog[n] = "asleep" /\ UNCHANGED <<pc, outcome, next_id>>
        /\ watchdog' = [watchdog EXCEPT ![n] = "fired"]
    BY <1>7 DEF WatchdogFires
  <2>2. \A m \in Ids \ {n} : watchdog'[m] = watchdog[m]
    BY <1>0, <2>1
  <2>3. \A i \in Slots : slots'[i].thread = slots[i].thread /\ slots'[i].id = slots[i].id
    <3>1. ASSUME NEW i \in Slots
          PROVE  /\ Record(slots[i], n, "timeout").thread = slots[i].thread
                 /\ Record(slots[i], n, "timeout").id = slots[i].id
      <4>1. slots[i] \in SlotRecord
        BY <1>0
      <4> QED BY <4>1 DEF Record, SlotRecord
    <3> QED BY <1>7, <3>1 DEF WatchdogFires
  <2> QED BY <2>1, <2>2, <2>3
<1>8. ASSUME NEW n \in Ids, WatchdogUsesFreed(n) PROVE IdsFresh'
  BY <1>0, <1>8 DEF WatchdogUsesFreed, threadVars
<1>9. CASE DestroyJoin
  BY <1>0, <1>9 DEF DestroyJoin, threadVars, dogVars
<1>10. CASE UNCHANGED <<pc, outcome, watchdog, slots, next_id>>
  BY <1>10
<1> QED BY <1>1, <1>2, <1>3, <1>4, <1>5, <1>6, <1>7, <1>8, <1>9, <1>10, NextCases
        DEF DestroyCancel, DestroyLook, DestroyFree, vars, threadVars, dogVars
----------------------------------------------------------------------------
(* Watchdogs *)

\* A step that starts neither a sub-agent nor a watchdog.
LEMMA WatchdogsFrame ==
  ASSUME TypeOK, WatchdogsFresh, next_id' = next_id, UNCHANGED <<new_id, watchdog>>,
         \A t \in Threads : pc'[t] = "start_watchdog" => pc[t] = "start_watchdog"
  PROVE  WatchdogsFresh'
BY DEF WatchdogsFresh

LEMMA WatchdogsStep ==
  ASSUME PoolInv, [Next]_vars
  PROVE  WatchdogsFresh'
<1> USE ThreadIds DEF PoolInv
<1>0. /\ pc \in [Threads -> Places] /\ next_id \in Int /\ Ids \subseteq Int
      /\ new_id \in [Threads -> 0..MaxIds]
      /\ watchdog \in [Ids -> {"none", "asleep", "failed", "fired"}]
  BY IdNumbers DEF TypeOK, ThreadTypes, SlotTypes, StopTypes
<1>1. ASSUME NEW t \in Threads, SpawnLock(t) \/ SpawnJoin(t) \/ SpawnFails(t)
      PROVE WatchdogsFresh'
  <2>1. \A u \in Threads : pc'[u] = "start_watchdog" => pc[u] = "start_watchdog"
    BY <1>0, <1>1 DEF SpawnLock, SpawnJoin, SpawnFails
  <2>2. /\ UNCHANGED <<new_id, watchdog>>
        /\ next_id' \in {next_id, next_id + 1}
    BY <1>1 DEF SpawnLock, SpawnJoin, SpawnFails, spawnVars, dogVars
  <2> QED BY <1>0, <2>1, <2>2 DEF WatchdogsFresh
<1>2. ASSUME NEW t \in Threads, SpawnFill(t) PROVE WatchdogsFresh'
  <2>1. /\ next_id \in Ids /\ watchdog[next_id] = "none" /\ next_id # t
        /\ pc[t] = "fill"
    <3>1. next_id <= MaxIds /\ pc[t] = "fill"
      BY <1>2 DEF SpawnFill, Locked
    <3>2. next_id \in Ids
      BY <3>1, SubagentAssumption DEF TypeOK, SlotTypes, Ids
    <3> QED BY <1>0, <3>1, <3>2 DEF IdsFresh
  <2>2. /\ next_id' = next_id + 1 /\ watchdog' = watchdog
        /\ new_id'[t] = next_id
        /\ \A u \in Threads \ {t} : new_id'[u] = new_id[u]
        /\ pc'[next_id] = "out"
        /\ \A u \in Threads \ {t, next_id} : pc'[u] = pc[u]
    BY <1>0, <1>2, <2>1 DEF SpawnFill, dogVars
  <2>3. \A u \in Threads \ {t} : pc'[u] = "start_watchdog" =>
             pc[u] = "start_watchdog" /\ new_id[u] \in Ids /\ new_id[u] < next_id
    BY <2>2 DEF WatchdogsFresh
  <2>4. \A u \in Threads : pc'[u] = "start_watchdog" =>
             /\ new_id'[u] \in Ids /\ new_id'[u] < next_id'
             /\ watchdog'[new_id'[u]] = "none"
    BY <1>0, <2>1, <2>2, <2>3 DEF WatchdogsFresh
  <2>5. \A u, v \in Threads : pc'[u] = "start_watchdog" /\ pc'[v] = "start_watchdog"
             /\ new_id'[v] = new_id'[u] => v = u
    BY <1>0, <2>1, <2>2, <2>3 DEF WatchdogsFresh
  <2> QED BY <2>4, <2>5 DEF WatchdogsFresh
<1>3. ASSUME NEW t \in Threads, NEW started \in BOOLEAN, StartWatchdog(t, started)
      PROVE WatchdogsFresh'
  <2>1. /\ \A m \in Ids \ {new_id[t]} : watchdog'[m] = watchdog[m]
        /\ \A u \in Threads \ {t} : pc'[u] = pc[u]
        /\ pc[t] = "start_watchdog" /\ pc'[t] = "out"
        /\ UNCHANGED <<new_id, next_id>>
    BY <1>0, <1>3 DEF StartWatchdog, spawnVars
  <2> QED BY <2>1 DEF WatchdogsFresh
<1>4. ASSUME NEW n \in Ids,
             \/ \E result \in {"done", "error"} : ChatEnds(n, result)
             \/ WorkerFinish(n) \/ WorkerUnlock(n) \/ CancelPoint(n)
      PROVE WatchdogsFresh'
  <2>1. UNCHANGED <<new_id, next_id, watchdog>>
    BY <1>4 DEF ChatEnds, WorkerFinish, WorkerUnlock, CancelPoint, spawnVars, dogVars
  <2>2. \A u \in Threads : pc'[u] = "start_watchdog" => pc[u] = "start_watchdog"
    BY <1>0, <1>4 DEF ChatEnds, WorkerFinish, WorkerUnlock, CancelPoint
  <2> QED BY <2>1, <2>2, WatchdogsFrame
<1>5. ASSUME NEW n \in Ids, WatchdogFires(n) \/ WatchdogUsesFreed(n)
      PROVE WatchdogsFresh'
  <2>1. /\ \A m \in Ids \ {n} : watchdog'[m] = watchdog[m]
        /\ watchdog[n] # "none" /\ UNCHANGED <<pc, new_id, next_id>>
    BY <1>0, <1>5 DEF WatchdogFires, WatchdogUsesFreed, spawnVars, threadVars
  <2> QED BY <2>1 DEF WatchdogsFresh
<1>6. CASE UNCHANGED <<pc, new_id, next_id, watchdog>>
  BY <1>6, WatchdogsFrame
<1> QED BY <1>1, <1>2, <1>3, <1>4, <1>5, <1>6, NextCases
        DEF DestroyCancel, DestroyLook, DestroyJoin, DestroyFree, vars, threadVars,
            dogVars, spawnVars

LEMMA OverdueStep ==
  ASSUME PoolInv, [Next]_vars
  PROVE  CancelledOnlyOverdue'
<1> USE ThreadIds DEF PoolInv
<1>0. /\ watchdog \in [Ids -> {"none", "asleep", "failed", "fired"}]
      /\ cancelled \subseteq Ids
  BY DEF TypeOK, StopTypes
<1>1. ASSUME NEW t \in Threads, NEW started \in BOOLEAN, StartWatchdog(t, started)
      PROVE CancelledOnlyOverdue'
  <2>1. new_id[t] \in Ids /\ watchdog[new_id[t]] = "none"
    BY <1>1 DEF StartWatchdog, WatchdogsFresh
  <2> QED BY <1>0, <1>1, <2>1 DEF StartWatchdog, CancelledOnlyOverdue, destroyVars
\* The slot found overdue has the watchdog's own id, hence its own thread.
<1>2. ASSUME NEW n \in Ids, WatchdogFires(n) PROVE CancelledOnlyOverdue'
  <2>1. \A i \in Overdue(n) : slots[i].thread = n
    BY DEF Overdue, IdsFresh
  <2>2. /\ cancelled' \subseteq cancelled \cup {n} /\ watchdog'[n] = "fired"
        /\ \A m \in Ids \ {n} : watchdog'[m] = watchdog[m]
        /\ destroyer' = destroyer
    BY <1>0, <1>2, <2>1 DEF WatchdogFires, destroyVars
  <2> QED BY <1>0, <2>2 DEF CancelledOnlyOverdue
<1>3. ASSUME NEW n \in Ids, WatchdogUsesFreed(n) PROVE CancelledOnlyOverdue'
  BY <1>3 DEF WatchdogUsesFreed, CancelledOnlyOverdue
<1>4. CASE destroyer' # "none"
  BY <1>4 DEF CancelledOnlyOverdue
<1>5. CASE UNCHANGED <<cancelled, watchdog, destroyer>>
  BY <1>5 DEF CancelledOnlyOverdue
<1>6. ASSUME NEW t \in Threads, SpawnLock(t) \/ SpawnJoin(t) \/ SpawnFill(t)
                                \/ SpawnFails(t)
      PROVE UNCHANGED <<cancelled, watchdog, destroyer>>
  BY <1>6 DEF SpawnLock, SpawnJoin, SpawnFill, SpawnFails, dogVars, destroyVars
<1>7. ASSUME NEW n \in Ids,
             \/ \E result \in {"done", "error"} : ChatEnds(n, result)
             \/ WorkerFinish(n) \/ WorkerUnlock(n) \/ CancelPoint(n)
      PROVE UNCHANGED <<cancelled, watchdog, destroyer>>
  BY <1>7 DEF ChatEnds, WorkerFinish, WorkerUnlock, CancelPoint, dogVars, destroyVars
<1>8. CASE \/ DestroyCancel \/ DestroyLook \/ DestroyJoin \/ DestroyFree
           \/ UNCHANGED vars
  BY <1>4, <1>5, <1>8 DEF DestroyCancel, DestroyLook, DestroyJoin, DestroyFree, vars,
       threadVars, dogVars, destroyVars
<1> QED BY <1>1, <1>2, <1>3, <1>5, <1>6, <1>7, <1>8, NextCases

LEMMA InitPoolInv == Init => PoolInv
<1> SUFFICES ASSUME Init PROVE PoolInv
  OBVIOUS
<1>1. SlotTypes
  <2>1. 0 \in 0..MaxIds /\ 1 \in 1..(MaxIds + 1)
    BY SubagentAssumption
  <2> QED BY <2>1 DEF Init, SlotTypes, SlotRecord
<1>2. ThreadTypes
  <2>1. 0 \in Slots /\ 0 \in 0..MaxIds
    BY SubagentAssumption DEF Slots
  <2> QED BY <2>1 DEF Init, ThreadTypes, Places
<1>3. StopTypes
  <2>1. 0 \in 0..MaxTimeouts /\ 0 \in 0..SUBAGENT_MAX_SLOTS
    BY SubagentAssumption
  <2> QED BY <2>1 DEF Init, StopTypes
<1>4. \A t \in Threads : pc[t] \in {"none", "out"}
  BY DEF Init
<1>5. Locked /\ WatchdogsFresh
  BY <1>4 DEF Locked, WatchdogsFresh
<1>6. IdsFresh /\ CancelledOnlyOverdue
  BY ThreadIds DEF Init, IdsFresh, CancelledOnlyOverdue
<1> QED BY <1>1, <1>2, <1>3, <1>5, <1>6 DEF PoolInv, TypeOK

LEMMA PoolInvariance == Spec => []PoolInv
<1>1. PoolInv /\ [Next]_vars => PoolInv'
  BY TypesStep, LockedStep, IdsFreshStep, WatchdogsStep, OverdueStep DEF PoolInv
<1> QED BY <1>1, InitPoolInv, PTL DEF Spec
----------------------------------------------------------------------------
(* Slots and their threads *)

LEMMA CallersStep ==
  ASSUME PoolInv, SlotInv, [Next]_vars
  PROVE  CallersGone'
<1> USE ThreadIds DEF PoolInv, SlotInv, CallersGone
<1>0. pc \in [Threads -> Places] /\ Orchestrators \subseteq Threads
  BY DEF TypeOK, ThreadTypes, Threads
<1>1. ASSUME NEW t \in Threads,
             \/ SpawnLock(t) \/ SpawnJoin(t) \/ SpawnFails(t)
             \/ \E started \in BOOLEAN : StartWatchdog(t, started)
      PROVE  CallersGone'
  <2>1. destroyer' = destroyer /\ (destroyer # "none" => t \notin Orchestrators)
    BY <1>0, <1>1 DEF SpawnLock, CanSpawn, SpawnJoin, SpawnFails, StartWatchdog,
         destroyVars
  <2>2. \A u \in Threads \ {t} : pc'[u] = pc[u]
    BY <1>0, <1>1 DEF SpawnLock, SpawnJoin, SpawnFails, StartWatchdog
  <2> QED BY <1>0, <2>1, <2>2
<1>2. ASSUME NEW t \in Threads, SpawnFill(t) PROVE CallersGone'
  <2>1. destroyer' = destroyer /\ (destroyer # "none" => t \notin Orchestrators)
    BY <1>0, <1>2 DEF SpawnFill, destroyVars
  <2>2. \A u \in Threads \ {t} : pc'[u] \in {pc[u], "out"}
    BY <1>0, <1>2 DEF SpawnFill
  <2> QED BY <1>0, <2>1, <2>2
<1>3. ASSUME NEW n \in Ids,
             \/ \E result \in {"done", "error"} : ChatEnds(n, result)
             \/ WorkerFinish(n) \/ WorkerUnlock(n) \/ CancelPoint(n)
      PROVE  CallersGone'
  <2>1. /\ \A u \in Threads \ {n} : pc'[u] = pc[u]
        /\ destroyer' = destroyer /\ n \notin Orchestrators
    BY <1>0, <1>3, SubagentAssumption DEF ChatEnds, WorkerFinish, WorkerUnlock,
         CancelPoint, destroyVars
  <2> QED BY <1>0, <2>1
<1>4. CASE DestroyCancel
  BY <1>4 DEF DestroyCancel
<1>5. CASE UNCHANGED pc /\ (destroyer = "none" => destroyer' = "none")
  BY <1>5
<1> QED BY <1>1, <1>2, <1>3, <1>4, <1>5, NextCases
        DEF WatchdogFires, WatchdogUsesFreed, DestroyLook, DestroyJoin, DestroyFree,
            vars, threadVars, destroyVars

\* The state of a slot under alloc_slot is written by nobody else: that takes
\* the mutex, and the destroyer clears the thread and the result only.
LEMMA TargetStep ==
  ASSUME PoolInv, SlotInv, [Next]_vars
  PROVE  TargetKept'
<1> USE ThreadIds DEF PoolInv, SlotInv
<1>0. /\ pc \in [Threads -> Places] /\ slots \in [Slots -> SlotRecord]
      /\ \A t \in Threads : target[t] \in Slots
      /\ target \in [Threads -> Slots]
      /\ \A n \in Ids : home[n] \in Slots
  BY DEF TypeOK, ThreadTypes, SlotTypes
<1>1. ASSUME NEW t \in Threads, SpawnLock(t) PROVE TargetKept'
  <2>1. PICK i \in Slots : /\ i \in IF Idle # {} THEN Idle ELSE Oldest
                           /\ target' = [target EXCEPT ![t] = i]
                           /\ pc' = [pc EXCEPT ![t] = IF i \in Idle THEN "fill" ELSE "join"]
    BY <1>1 DEF SpawnLock, Idle, Oldest
  <2>2. IF i \in Idle THEN slots[i].state = "idle" ELSE slots[i].state \in Finished
    BY <2>1 DEF Idle, Oldest
  <2> QED BY <1>0, <1>1, <2>1, <2>2 DEF SpawnLock, TargetKept
<1>2. ASSUME NEW t \in Threads, SpawnJoin(t) PROVE TargetKept'
  <2>1. \A u \in Threads \ {t} : pc[u] \notin {"join", "fill"} /\ pc'[u] = pc[u]
    BY <1>0, <1>2 DEF SpawnJoin, Locked
  <2>2. /\ pc'[t] = "fill" /\ target'[t] = target[t]
        /\ slots'[target[t]].state = "idle"
    BY <1>0, <1>2 DEF SpawnJoin, Reset, spawnVars
  <2> QED BY <2>1, <2>2 DEF TargetKept
<1>3. ASSUME NEW t \in Threads, SpawnFill(t) \/ SpawnFails(t) PROVE TargetKept'
  <2>1. \A u \in Threads \ {t} : pc[u] \notin {"join", "fill"}
    BY <1>3 DEF SpawnFill, SpawnFails, Locked
  <2>2. \A u \in Threads : pc'[u] \notin {"join", "fill"}
    BY <1>0, <1>3, <2>1 DEF SpawnFill, SpawnFails
  <2> QED BY <2>2 DEF TargetKept
<1>4. ASSUME NEW n \in Ids, WorkerFinish(n) PROVE TargetKept'
  <2>1. \A u \in Threads : pc'[u] \notin {"join", "fill"}
    BY <1>0, <1>4 DEF WorkerFinish, Acquire, Locked
  <2> QED BY <2>1 DEF TargetKept
<1>5. ASSUME NEW n \in Ids, WatchdogFires(n) PROVE TargetKept'
  <2>1. \A u \in Threads : pc'[u] \notin {"join", "fill"}
    BY <1>0, <1>5 DEF WatchdogFires, Locked
  <2> QED BY <2>1 DEF TargetKept
<1>6. CASE DestroyJoin
  <2>1. UNCHANGED <<pc, target>> /\ \A i \in Slots : slots'[i].state = slots[i].state
    BY <1>0, <1>6 DEF DestroyJoin, SlotRecord, threadVars, spawnVars
  <2> QED BY <1>0, <2>1 DEF TargetKept
<1>7. CASE /\ \A u \in Threads : pc'[u] \in {"join", "fill"} => pc'[u] = pc[u]
           /\ UNCHANGED <<target, slots>>
  BY <1>7 DEF TargetKept
<1>8. ASSUME NEW n \in Ids,
             \/ \E result \in {"done", "error"} : ChatEnds(n, result)
             \/ WorkerUnlock(n) \/ CancelPoint(n)
      PROVE  TargetKept'
  BY <1>0, <1>7, <1>8 DEF ChatEnds, WorkerUnlock, CancelPoint, spawnVars
<1>9. ASSUME NEW t \in Threads, NEW started \in BOOLEAN, StartWatchdog(t, started)
      PROVE  TargetKept'
  BY <1>0, <1>7, <1>9 DEF StartWatchdog, spawnVars
<1> QED BY <1>1, <1>2, <1>3, <1>4, <1>5, <1>6, <1>7, <1>8, <1>9, NextCases
        DEF WatchdogUsesFreed, DestroyCancel, DestroyLook, DestroyFree, vars,
            threadVars, spawnVars

LEMMA HomeStep ==
  ASSUME PoolInv, SlotInv, [Next]_vars
  PROVE  HomeKept'
<1> USE ThreadIds DEF PoolInv, SlotInv, Alive, OwnHome
<1>0. /\ pc \in [Threads -> Places] /\ slots \in [Slots -> SlotRecord]
      /\ \A t \in Threads : target[t] \in Slots
      /\ \A n \in Ids : home[n] \in Slots
      /\ home \in [Ids -> Slots]
      /\ next_id \in Int
  BY DEF TypeOK, ThreadTypes, SlotTypes
\* A slot whose thread is still there gives it up as a stray.
<1>1. ASSUME NEW t \in Threads, SpawnJoin(t) PROVE HomeKept'
  <2>1. /\ \A n \in Ids : home'[n] = home[n]
        /\ \A n \in Ids : pc'[n] \notin {"none", "exited"} => Alive(n)
        /\ strays \subseteq strays'
        /\ \A n \in Ids : Alive(n) /\ slots[target[t]].thread = n => n \in strays'
    BY <1>0, <1>1 DEF SpawnJoin
  <2>2. /\ \A i \in Slots \ {target[t]} : slots'[i] = slots[i]
        /\ slots'[target[t]].result = None
    BY <1>0, <1>1 DEF SpawnJoin, Reset
  <2>3. ASSUME NEW n \in Ids, Alive(n), home[n] = target[t] PROVE n \in strays'
    BY <2>1, <2>3 DEF HomeKept
  <2> QED BY <1>0, <2>1, <2>2, <2>3 DEF HomeKept
<1>2. ASSUME NEW t \in Threads, SpawnFill(t) PROVE HomeKept'
  <2>1. next_id \in Ids /\ next_id # t
    <3>1. next_id <= MaxIds /\ pc[t] = "fill"
      BY <1>2 DEF SpawnFill, Locked
    <3>2. next_id \in Ids
      BY <3>1, SubagentAssumption DEF TypeOK, SlotTypes, Ids
    <3> QED BY <1>0, <3>1, <3>2 DEF IdsFresh
  <2>2. \A n \in Ids : Alive(n) => home[n] # target[t] \/ n \in strays
    BY <1>2 DEF HomeKept, SpawnFill, TargetKept
  <2>3. /\ \A i \in Slots \ {target[t]} : slots'[i] = slots[i]
        /\ slots'[target[t]].id = next_id
        /\ slots'[target[t]].thread = next_id
        /\ slots'[target[t]].result = None
        /\ slots'[target[t]].state = "running"
    BY <1>0, <1>2 DEF SpawnFill, Running, SlotRecord
  <2>4. /\ home'[next_id] = target[t]
        /\ \A n \in Ids \ {next_id} : home'[n] = home[n]
        /\ \A n \in Ids \ {next_id} : pc'[n] \notin {"none", "exited"} => Alive(n)
        /\ strays \subseteq strays'
    BY <1>0, <1>2, <2>1 DEF SpawnFill
  <2> QED BY <1>0, <2>1, <2>2, <2>3, <2>4 DEF HomeKept
<1>3. ASSUME NEW t \in Threads, SpawnFails(t) PROVE HomeKept'
  <2>2. \A n \in Ids : Alive(n) => home[n] # target[t] \/ n \in strays
    BY <1>3 DEF HomeKept, SpawnFails, TargetKept
  <2>3. /\ \A i \in Slots \ {target[t]} : slots'[i] = slots[i]
        /\ slots'[target[t]].result = None
        /\ strays' = strays
    BY <1>0, <1>3 DEF SpawnFails, Reset
  <2>4. \A n \in Ids : /\ home'[n] = home[n]
                       /\ pc'[n] \notin {"none", "exited"} => Alive(n)
    BY <1>0, <1>3 DEF SpawnFails
  <2> QED BY <1>0, <2>2, <2>3, <2>4 DEF HomeKept
<1>4. ASSUME NEW n \in Ids, WorkerFinish(n) PROVE HomeKept'
  <2>1. /\ Alive(n) /\ outcome[n] # "idle" /\ home' = home /\ strays' = strays
        /\ \A m \in Ids \ {n} : pc'[m] = pc[m]
    BY <1>0, <1>4, SubagentAssumption DEF WorkerFinish, IdsFresh, TypeOK, ThreadTypes
  <2>2. /\ \A i \in Slots \ {home[n]} : slots'[i] = slots[i]
        /\ slots'[home[n]].id = slots[home[n]].id
        /\ slots'[home[n]].thread = slots[home[n]].thread
        /\ slots'[home[n]].result = n
        /\ slots'[home[n]].state = outcome[n]
    BY <1>0, <1>4 DEF WorkerFinish, Record, SlotRecord
  <2> QED BY ZenonT(60), <1>0, <2>1, <2>2 DEF HomeKept
<1>5. ASSUME NEW n \in Ids, WatchdogFires(n) PROVE HomeKept'
  <2>1. /\ UNCHANGED <<pc, home, strays>>
        /\ \A i \in Slots \ Overdue(n) : slots'[i] = slots[i]
    BY <1>5 DEF WatchdogFires
  <2>2. \A i \in Overdue(n) :
          /\ i \in Slots /\ slots[i].id = n
          /\ slots'[i].id = slots[i].id /\ slots'[i].thread = slots[i].thread
          /\ slots'[i].result = n /\ slots'[i].state = "timeout"
    BY ZenonT(60), <1>0, <1>5 DEF WatchdogFires, Overdue, Record, SlotRecord
  <2> QED BY <1>0, <2>1, <2>2 DEF HomeKept
<1>6. CASE DestroyJoin
  <2>1. joining \in Slots /\ UNCHANGED <<pc, home>> /\ strays \subseteq strays'
    BY <1>6, SubagentAssumption DEF DestroyJoin, TypeOK, StopTypes, Slots, threadVars
  <2>2. \A n \in Ids : Alive(n) /\ slots[joining].thread = n => n \in strays'
    BY <1>6 DEF DestroyJoin
  <2>3. \A n \in Ids : Alive(n) => home[n] # joining \/ n \in strays'
    BY <2>1, <2>2 DEF HomeKept
  <2>4. /\ \A i \in Slots \ {joining} : slots'[i] = slots[i]
        /\ slots'[joining].result = None
    BY <1>0, <1>6, <2>1 DEF DestroyJoin, SlotRecord
  <2> QED BY <1>0, <2>1, <2>3, <2>4 DEF HomeKept
<1>7. CASE /\ UNCHANGED <<slots, home, strays>>
           /\ \A n \in Ids : pc'[n] \notin {"none", "exited"} => Alive(n)
  BY <1>7 DEF HomeKept
<1>8. ASSUME NEW n \in Ids,
             \/ \E result \in {"done", "error"} : ChatEnds(n, result)
             \/ WorkerUnlock(n) \/ CancelPoint(n)
      PROVE  HomeKept'
  BY <1>0, <1>7, <1>8 DEF ChatEnds, WorkerUnlock, CancelPoint
<1>9. ASSUME NEW t \in Threads,
             SpawnLock(t) \/ \E started \in BOOLEAN : StartWatchdog(t, started)
      PROVE  HomeKept'
  BY <1>0, <1>7, <1>9 DEF SpawnLock, CanSpawn, StartWatchdog
<1> QED BY <1>1, <1>2, <1>3, <1>4, <1>5, <1>6, <1>7, <1>8, <1>9, NextCases
        DEF WatchdogUsesFreed, DestroyCancel, DestroyLook, DestroyFree, vars, threadVars

LEMMA HandleStep ==
  ASSUME PoolInv, SlotInv, [Next]_vars
  PROVE  HandleKept'
<1> USE ThreadIds DEF PoolInv, SlotInv
<1>0. /\ pc \in [Threads -> Places] /\ slots \in [Slots -> SlotRecord]
      /\ \A t \in Threads : target[t] \in Slots
      /\ \A n \in Ids : home[n] \in Slots
      /\ home \in [Ids -> Slots]
      /\ next_id \in Int
  BY DEF TypeOK, ThreadTypes, SlotTypes
\* Most steps leave homes alone, start nothing and at most clear a handle.
<1>a. ASSUME home' = home,
             \A n \in Ids : pc'[n] = "none" => pc[n] = "none",
             \A i \in Slots : slots'[i].thread \in {None, slots[i].thread}
      PROVE  HandleKept'
  BY <1>a DEF HandleKept
<1>1. ASSUME NEW t \in Threads, SpawnFill(t) PROVE HandleKept'
  <2>1. next_id \in Ids /\ pc[next_id] = "none"
    <3>1. next_id <= MaxIds
      BY <1>1 DEF SpawnFill, Locked
    <3>2. next_id \in Ids
      BY <3>1, SubagentAssumption DEF TypeOK, SlotTypes, Ids
    <3> QED BY <1>0, <3>2 DEF IdsFresh
  <2>2. /\ \A i \in Slots \ {target[t]} : slots'[i] = slots[i]
        /\ slots'[target[t]].thread = next_id
        /\ home'[next_id] = target[t] /\ pc'[next_id] = "out"
        /\ \A n \in Ids \ {next_id} : home'[n] = home[n]
        /\ \A n \in Ids \ {next_id} : pc'[n] = "none" => pc[n] = "none"
    BY <1>0, <1>1, <2>1 DEF SpawnFill, Running, SlotRecord
  <2>3. ASSUME NEW i \in Slots, slots[i].thread = next_id PROVE FALSE
    <3>1. next_id # None
      BY <2>1
    <3>2. slots[i].thread # None => pc[slots[i].thread] # "none"
      BY DEF HandleKept
    <3> QED BY <2>1, <2>3, <3>1, <3>2
  <2>4. ASSUME NEW i \in Slots, slots'[i].thread # None
        PROVE  /\ slots'[i].thread \in Ids
               /\ pc'[slots'[i].thread] # "none"
               /\ home'[slots'[i].thread] = i
    <3>1. CASE i = target[t]
      BY <2>1, <2>2, <3>1
    <3>2. CASE i # target[t]
      <4>1. slots'[i].thread = slots[i].thread /\ slots[i].thread # next_id
        BY <2>2, <2>3, <2>4, <3>2
      <4>2. /\ slots[i].thread \in Ids
            /\ pc[slots[i].thread] # "none"
            /\ home[slots[i].thread] = i
        BY <2>4, <4>1 DEF HandleKept
      <4> QED BY <2>2, <4>1, <4>2
    <3> QED BY <3>1, <3>2
  <2> QED BY <2>4 DEF HandleKept
<1>2. ASSUME NEW t \in Threads, SpawnJoin(t) \/ SpawnFails(t) PROVE HandleKept'
  <2>1. \A i \in Slots : slots'[i].thread \in {None, slots[i].thread}
    BY <1>0, <1>2 DEF SpawnJoin, SpawnFails, Reset
  <2>2. home' = home /\ \A n \in Ids : pc'[n] = "none" => pc[n] = "none"
    BY <1>0, <1>2 DEF SpawnJoin, SpawnFails
  <2> QED BY <1>a, <2>1, <2>2
<1>3. ASSUME NEW t \in Threads,
             SpawnLock(t) \/ \E started \in BOOLEAN : StartWatchdog(t, started)
      PROVE  HandleKept'
  BY <1>0, <1>a, <1>3 DEF SpawnLock, StartWatchdog
<1>4. ASSUME NEW n \in Ids,
             \/ \E result \in {"done", "error"} : ChatEnds(n, result)
             \/ WorkerUnlock(n) \/ CancelPoint(n)
      PROVE  HandleKept'
  BY <1>0, <1>a, <1>4 DEF ChatEnds, WorkerUnlock, CancelPoint
<1>5. ASSUME NEW n \in Ids, WorkerFinish(n) PROVE HandleKept'
  <2>1. \A i \in Slots : slots'[i].thread = slots[i].thread
    BY <1>0, <1>5 DEF WorkerFinish, Record, SlotRecord
  <2> QED BY <1>0, <1>a, <1>5, <2>1 DEF WorkerFinish
<1>6. ASSUME NEW n \in Ids, WatchdogFires(n) PROVE HandleKept'
  <2>1. \A i \in Slots : slots'[i].thread = slots[i].thread
    BY ZenonT(60), <1>0, <1>6 DEF WatchdogFires, Record, SlotRecord
  <2> QED BY <1>a, <1>6, <2>1 DEF WatchdogFires
<1>7. CASE DestroyJoin
  <2>1. \A i \in Slots : slots'[i].thread \in {None, slots[i].thread}
    BY <1>0, <1>7 DEF DestroyJoin, SlotRecord
  <2> QED BY <1>a, <1>7, <2>1 DEF DestroyJoin, threadVars
<1>8. CASE UNCHANGED <<slots, home, pc>>
  BY <1>8 DEF HandleKept
<1> QED BY <1>1, <1>2, <1>3, <1>4, <1>5, <1>6, <1>7, <1>8, NextCases
        DEF WatchdogUsesFreed, DestroyCancel, DestroyLook, DestroyFree, vars, threadVars

LEMMA JoinedStep ==
  ASSUME PoolInv, SlotInv, [Next]_vars
  PROVE  JoinedBehind'
<1> USE ThreadIds DEF PoolInv, SlotInv
<1>0. /\ slots \in [Slots -> SlotRecord] /\ Slots \subseteq Int
      /\ joining \in Int
      /\ \A n \in Ids : home[n] \in Slots
      /\ \A t \in Threads : target[t] \in Slots
  BY SubagentAssumption DEF TypeOK, ThreadTypes, SlotTypes, StopTypes, Slots
<1>1. ASSUME NEW t \in Threads, SpawnJoin(t) \/ SpawnFails(t)
      PROVE  JoinedBehind'
  <2>1. UNCHANGED <<destroyer, joining, waiting>> /\ strays \subseteq strays'
    BY <1>1 DEF SpawnJoin, SpawnFails, destroyVars
  <2>2. \A i \in Slots : slots'[i].thread \in {None, slots[i].thread}
    BY <1>0, <1>1 DEF SpawnJoin, SpawnFails, Reset
  <2> QED BY <2>1, <2>2 DEF JoinedBehind
<1>2. ASSUME NEW t \in Threads, SpawnFill(t) PROVE JoinedBehind'
  <2>1. /\ UNCHANGED <<destroyer, joining, waiting>>
        /\ strays' = strays \cup {n \in {next_id} : target[t] < joining}
    BY <1>2 DEF SpawnFill, destroyVars
  <2>2. /\ \A i \in Slots \ {target[t]} : slots'[i] = slots[i]
        /\ slots'[target[t]].thread = next_id
    BY <1>0, <1>2 DEF SpawnFill, Running, SlotRecord
  <2> QED BY <2>1, <2>2 DEF JoinedBehind
<1>3. ASSUME NEW n \in Ids, WorkerFinish(n) PROVE JoinedBehind'
  BY <1>0, <1>3 DEF WorkerFinish, Record, SlotRecord, JoinedBehind, destroyVars
<1>4. ASSUME NEW n \in Ids, WatchdogFires(n) PROVE JoinedBehind'
  <2>1. \A i \in Slots : slots'[i].thread = slots[i].thread
    BY <1>0, <1>4 DEF WatchdogFires, Record, SlotRecord
  <2> QED BY <1>4, <2>1 DEF WatchdogFires, JoinedBehind, destroyVars
<1>5. CASE DestroyJoin
  <2>1. \A i \in Slots : i < joining + 1 => i < joining \/ i = joining
    BY <1>0
  <2>2. joining \in Slots
    BY <1>5, SubagentAssumption DEF DestroyJoin, TypeOK, StopTypes, Slots
  <2>3. /\ \A i \in Slots \ {joining} : slots'[i] = slots[i]
        /\ slots'[joining].thread = None /\ strays \subseteq strays'
        /\ joining' = joining + 1 /\ destroyer = "joining" /\ destroyer' = destroyer
    BY <1>0, <1>5, <2>2 DEF DestroyJoin, SlotRecord
  <2> QED BY <2>1, <2>3 DEF JoinedBehind
<1>6. CASE DestroyCancel
  <2>1. joining = 0 /\ \A i \in Slots : ~(i < 0)
    BY <1>6, SubagentAssumption DEF DestroyCancel, JoinedBehind, Slots
  <2> QED BY <1>6, <2>1 DEF DestroyCancel, JoinedBehind
<1>7. CASE DestroyFree
  BY <1>7 DEF DestroyFree, JoinedBehind
<1>8. CASE DestroyLook
  BY <1>8 DEF DestroyLook, JoinedBehind
<1>9. CASE UNCHANGED <<slots, joining, destroyer, waiting, strays>>
  BY <1>9 DEF JoinedBehind
<1> QED BY <1>1, <1>2, <1>3, <1>4, <1>5, <1>6, <1>7, <1>8, <1>9, NextCases
        DEF SpawnLock, StartWatchdog, ChatEnds, WorkerUnlock, CancelPoint,
            WatchdogUsesFreed, vars, destroyVars

\* As long as nobody has been cancelled, whoever calls spawn_subagent finds
\* its own slot running, and the destroyer finds nobody to wait for.
LEMMA FirstStep ==
  ASSUME PoolInv, SlotInv, [Next]_vars
  PROVE  FirstCancelled'
<1> SUFFICES ASSUME cancelled' = {} PROVE Untouched'
  BY DEF FirstCancelled
<1> USE ThreadIds DEF PoolInv, SlotInv, Alive
<1>0. /\ pc \in [Threads -> Places] /\ slots \in [Slots -> SlotRecord]
      /\ \A t \in Threads : target[t] \in Slots
      /\ \A n \in Ids : home[n] \in Slots
      /\ home \in [Ids -> Slots]
      /\ next_id \in Int
  BY DEF TypeOK, ThreadTypes, SlotTypes
<1>1. cancelled = {}
  BY NextCases DEF SpawnLock, SpawnJoin, SpawnFill, SpawnFails, StartWatchdog, ChatEnds,
     WorkerFinish, WorkerUnlock, CancelPoint, WatchdogFires, WatchdogUsesFreed,
     DestroyCancel, DestroyLook, DestroyJoin, DestroyFree, vars, threadVars
<1>2. Untouched /\ strays = {}
  BY <1>1 DEF FirstCancelled, Untouched
\* With nobody cancelled, only a pool in service is called.
<1>3. ASSUME NEW t \in Threads, pc[t] \in {"join", "fill", "start_watchdog"}
      PROVE  destroyer = "none" /\ joining = 0 /\ waiting = None
  <2>1. destroyer = "none"
    BY <1>2, <1>3 DEF Untouched, CallersGone, Threads
  <2> QED BY <2>1 DEF JoinedBehind
<1>4. \A n \in Ids : Alive(n) => /\ slots[home[n]].id = n
                                 /\ slots[home[n]].thread = n
                                 /\ slots[home[n]].state # "idle"
  BY <1>2 DEF HomeKept, OwnHome
<1>a. ASSUME NEW t \in Threads, SpawnJoin(t) PROVE Untouched'
  <2>1. destroyer' = "none" /\ home' = home
    BY <1>3, <1>a DEF SpawnJoin, destroyVars
  <2>2. slots[target[t]].state \in Finished /\ pc[t] = "join"
    BY <1>a DEF SpawnJoin, TargetKept
  <2>3. ASSUME NEW n \in Ids, Alive(n), home[n] = target[t] PROVE FALSE
    <3>1. slots[home[n]].state # "running"
      BY <2>2, <2>3 DEF Finished
    <3>2. pc[n] = "log"
      BY <1>2, <2>3, <3>1 DEF Untouched
    <3>3. lock = n /\ lock = t
      BY <1>a, <3>2 DEF SpawnJoin, Locked
    <3> QED BY <2>2, <3>2, <3>3
  <2>4. ASSUME NEW n \in Ids, slots[target[t]].thread = n PROVE ~Alive(n)
    <3>1. n # None /\ target[t] \in Slots
      BY <1>0, <2>4
    <3>2. home[n] = target[t]
      BY <2>4, <3>1 DEF HandleKept
    <3> QED BY <2>3, <3>2
  <2>5. strays' = {}
    BY <1>2, <1>a, <2>4 DEF SpawnJoin
  <2>6. /\ \A i \in Slots \ {target[t]} : slots'[i] = slots[i]
        /\ \A n \in Ids : pc'[n] \notin {"none", "exited"} => Alive(n)
        /\ \A n \in Ids : pc[n] = "log" => pc'[n] = "log"
    BY <1>0, <1>a DEF SpawnJoin
  <2> QED BY <1>0, <1>2, <2>1, <2>3, <2>5, <2>6 DEF Untouched
<1>b. ASSUME NEW t \in Threads, SpawnFill(t) PROVE Untouched'
  <2>1. /\ destroyer = "none" /\ destroyer' = "none" /\ joining = 0
        /\ slots[target[t]].state = "idle" /\ target[t] \in Slots
    BY <1>0, <1>3, <1>b DEF SpawnFill, TargetKept, destroyVars
  <2>2. next_id \in Ids
    <3>1. next_id <= MaxIds
      BY <1>b DEF SpawnFill, Locked
    <3> QED BY <3>1, SubagentAssumption DEF TypeOK, SlotTypes, Ids
  <2>3. ~(target[t] < joining)
    BY <2>1, SubagentAssumption DEF Slots
  <2>4. strays' = {}
    BY <1>2, <1>b, <2>3 DEF SpawnFill
  <2>5. /\ \A i \in Slots \ {target[t]} : slots'[i] = slots[i]
        /\ slots'[target[t]].state = "running"
        /\ home'[next_id] = target[t]
        /\ \A n \in Ids \ {next_id} : home'[n] = home[n]
        /\ \A n \in Ids \ {next_id} : pc'[n] \notin {"none", "exited"} => Alive(n)
        /\ \A n \in Ids \ {next_id} : pc[n] = "log" => pc'[n] = "log"
    BY <1>0, <1>b, <2>2 DEF SpawnFill, Running, SlotRecord
  <2> QED BY <1>0, <1>2, <1>4, <2>1, <2>2, <2>4, <2>5 DEF Untouched
<1>c. ASSUME NEW t \in Threads, SpawnFails(t) PROVE Untouched'
  <2>1. /\ destroyer = "none" /\ destroyer' = "none" /\ home' = home
        /\ slots[target[t]].state = "idle" /\ strays' = {}
    BY <1>2, <1>3, <1>c DEF SpawnFails, TargetKept, destroyVars
  <2>2. /\ \A i \in Slots \ {target[t]} : slots'[i] = slots[i]
        /\ \A n \in Ids : pc'[n] \notin {"none", "exited"} => Alive(n)
        /\ \A n \in Ids : pc[n] = "log" => pc'[n] = "log"
    BY <1>0, <1>c DEF SpawnFails
  <2> QED BY <1>0, <1>2, <1>4, <2>1, <2>2 DEF Untouched
<1>d. ASSUME NEW n \in Ids, WorkerFinish(n) PROVE Untouched'
  <2>1. /\ Alive(n) /\ home' = home /\ strays' = {} /\ destroyer' = destroyer
        /\ \A m \in Ids \ {n} : pc'[m] = pc[m]
        /\ pc'[n] = "log"
        /\ \A i \in Slots \ {home[n]} : slots'[i] = slots[i]
    BY <1>0, <1>2, <1>d DEF WorkerFinish, destroyVars
  <2>2. \A m \in Ids \ {n} : Alive(m) => home[m] # home[n]
    BY <1>4, <2>1
  <2> QED BY <1>0, <1>2, <2>1, <2>2 DEF Untouched
<1>e. ASSUME NEW n \in Ids, WatchdogFires(n) PROVE Untouched'
  <2>1. Overdue(n) = {}
    BY <1>e DEF WatchdogFires
  <2>2. /\ \A i \in Slots : slots'[i] = slots[i]
        /\ UNCHANGED <<pc, home, strays, destroyer>>
    BY <1>e, <2>1 DEF WatchdogFires, destroyVars
  <2> QED BY <1>0, <1>2, <2>2 DEF Untouched
\* The destroyer would cancel a worker that is still running.
<1>f. CASE DestroyCancel
  <2>1. \A n \in Ids : pc[n] # "log"
    BY <1>f DEF DestroyCancel, Locked
  <2>2. \A i \in Slots : ~(slots[i].state = "running" /\ slots[i].thread # None)
    BY <1>f DEF DestroyCancel
  <2>3. \A n \in Ids : ~Alive(n)
    BY <1>0, <1>2, <1>4, <2>1, <2>2 DEF Untouched
  <2> QED BY <1>2, <1>f, <2>3 DEF DestroyCancel, Untouched
<1>g. CASE DestroyJoin
  <2>1. /\ \A m \in Ids : ~Alive(m)
        /\ UNCHANGED pc
    BY <1>2, <1>g DEF DestroyJoin, Untouched, threadVars
  <2>2. strays' = {}
    BY <1>2, <1>g, <2>1 DEF DestroyJoin
  <2> QED BY <2>1, <2>2 DEF Untouched
<1>h. ASSUME NEW t \in Threads,
             SpawnLock(t) \/ \E started \in BOOLEAN : StartWatchdog(t, started)
      PROVE  Untouched'
  <2>1. /\ UNCHANGED <<slots, home, strays, destroyer>>
        /\ \A n \in Ids : pc'[n] \notin {"none", "exited"} => Alive(n)
        /\ \A n \in Ids : pc[n] = "log" => pc'[n] = "log"
    BY <1>0, <1>h DEF SpawnLock, CanSpawn, StartWatchdog, destroyVars
  <2> QED BY <1>2, <2>1 DEF Untouched
<1>i. ASSUME NEW n \in Ids,
             \/ \E result \in {"done", "error"} : ChatEnds(n, result)
             \/ WorkerUnlock(n) \/ CancelPoint(n)
      PROVE  Untouched'
  <2>1. /\ UNCHANGED <<slots, home, strays, destroyer>>
        /\ \A m \in Ids : pc'[m] \notin {"none", "exited"} =>
             Alive(m) /\ (pc[m] = "log" => pc'[m] = "log")
    BY <1>0, <1>i DEF ChatEnds, WorkerUnlock, CancelPoint, destroyVars
  <2> QED BY <1>2, <2>1 DEF Untouched
<1>j. CASE /\ UNCHANGED <<slots, home, strays, pc>>
           /\ destroyer = "none" => destroyer' = "none"
  BY <1>2, <1>j DEF Untouched
<1> QED BY <1>a, <1>b, <1>c, <1>d, <1>e, <1>f, <1>g, <1>h, <1>i, <1>j, NextCases
        DEF WatchdogUsesFreed, DestroyLook, DestroyFree, vars, threadVars, destroyVars

LEMMA InitSlotInv == Init => SlotInv
<1> SUFFICES ASSUME Init PROVE SlotInv
  OBVIOUS
<1>1. /\ \A t \in Threads : pc[t] \in {"none", "out"}
      /\ \A n \in Ids : pc[n] = "none"
      /\ destroyer = "none" /\ joining = 0 /\ waiting = None /\ strays = {}
  BY ThreadIds DEF Init
<1>2. \A i \in Slots : slots[i].result = None /\ slots[i].thread = None
  BY DEF Init
<1> QED BY <1>1, <1>2, ThreadIds DEF SlotInv, CallersGone, TargetKept, HomeKept, HandleKept,
           JoinedBehind, FirstCancelled, Untouched, Alive

LEMMA SlotInvariance == Spec => []SlotInv
<1>1. PoolInv /\ SlotInv /\ [Next]_vars => SlotInv'
  BY CallersStep, TargetStep, HomeStep, HandleStep, JoinedStep, FirstStep DEF SlotInv
<1> QED BY <1>1, InitSlotInv, PoolInvariance, PTL DEF Spec

----------------------------------------------------------------------------
(* The theorems *)

\* Types of the slots, of the threads that use them and of the shutdown.
THEOREM TypeCorrect == Spec => []TypeOK
BY PoolInvariance, PTL DEF PoolInv

\* watchdog_fn cancels the thread of its own sub-agent and no other, however
\* often slots are evicted and filled again while it sleeps.
THEOREM OnlyOverdueCancelled == Spec => []CancelledOnlyOverdue
BY PoolInvariance, PTL DEF PoolInv

\* The slot a worker writes its result to when agent_chat returns is still
\* the slot of its sub-agent, unless a pthread_join came back before the worker
\* had ended; and that does not happen before the first cancellation.
THEOREM SlotsOutliveThreads == Spec => []SlotOutlivesThread
<1>1. SlotInv => SlotOutlivesThread
  BY DEF SlotInv, HomeKept, OwnHome, FirstCancelled, Untouched, SlotOutlivesThread
<1> QED BY <1>1, SlotInvariance, PTL

\* subagent_pool_destroy frees the pool after the last worker thread that was
\* not given up without a join, though sub-agents spawn meanwhile.
THEOREM PoolFreedLast == Spec => []WorkersGoneBeforeFree
<1>1. PoolInv /\ SlotInv => WorkersGoneBeforeFree
  <2> SUFFICES ASSUME PoolInv, SlotInv, destroyer = "freed", NEW n \in Ids, Alive(n),
                      n \notin strays
               PROVE  FALSE
    BY DEF WorkersGoneBeforeFree
  <2>1. home[n] \in Slots /\ home[n] < joining
    BY SubagentAssumption DEF PoolInv, SlotInv, TypeOK, ThreadTypes, JoinedBehind, Slots
  <2>2. slots[home[n]].thread = n
    BY DEF SlotInv, HomeKept, OwnHome
  <2>3. slots[home[n]].thread \in {None} \cup strays
    BY <2>1 DEF SlotInv, JoinedBehind
  <2> QED BY <2>2, <2>3, ThreadIds
<1> QED BY <1>1, PoolInvariance, SlotInvariance, PTL

\* "Running slots are never evicted": tool_spawn takes idle slots and slots
\* that have finished, whoever calls it.
THEOREM RunningNeverEvicted == Spec => RunningNotEvicted
<1>1. ASSUME PoolInv, SlotInv, [Next]_vars, NEW i \in Slots,
             slots[i].state = "running"
      PROVE  /\ slots'[i].id = slots[i].id
             /\ slots'[i].state \in Finished \cup {"running"}
  <2>0. /\ slots \in [Slots -> SlotRecord]
        /\ \A t \in Threads : target[t] \in Slots
        /\ \A n \in Ids : home[n] \in Slots
    BY <1>1 DEF PoolInv, TypeOK, ThreadTypes, SlotTypes
  <2>1. ASSUME NEW t \in Threads, SpawnJoin(t) \/ SpawnFill(t) \/ SpawnFails(t)
        PROVE  slots'[i] = slots[i]
    <3>1. slots[target[t]].state # "running"
      BY <1>1, <2>1 DEF SlotInv, TargetKept, SpawnJoin, SpawnFill, SpawnFails, Finished
    <3> QED BY <1>1, <2>0, <2>1, <3>1 DEF SpawnJoin, SpawnFill, SpawnFails
  <2>2. ASSUME NEW n \in Ids, WorkerFinish(n)
        PROVE  /\ slots'[i].id = slots[i].id
               /\ slots'[i].state \in Finished \cup {"running"}
    <3>1. outcome[n] \in Finished
      BY <1>1, <2>2, ThreadIds DEF WorkerFinish, PoolInv, IdsFresh, TypeOK, ThreadTypes,
           Finished
    <3> QED BY <1>1, <2>0, <2>2, <3>1 DEF WorkerFinish, Record, SlotRecord
  <2>3. ASSUME NEW n \in Ids, WatchdogFires(n)
        PROVE  /\ slots'[i].id = slots[i].id
               /\ slots'[i].state \in Finished \cup {"running"}
    BY <1>1, <2>0, <2>3 DEF WatchdogFires, Record, SlotRecord, Finished
  <2>4. CASE DestroyJoin
    BY <1>1, <2>0, <2>4 DEF DestroyJoin, SlotRecord
  <2>5. CASE UNCHANGED slots
    BY <1>1, <2>5
  <2> QED BY <1>1, <2>1, <2>2, <2>3, <2>4, <2>5, NextCases DEF SpawnLock, StartWatchdog,
         ChatEnds, WorkerUnlock, CancelPoint, WatchdogUsesFreed, DestroyCancel,
         DestroyLook, DestroyFree, vars
<1>2. PoolInv /\ SlotInv /\ [Next]_vars =>
        [\A i \in Slots : slots[i].state = "running" =>
           /\ slots'[i].id = slots[i].id
           /\ slots'[i].state \in Finished \cup {"running"}]_vars
  BY <1>1
<1> QED BY <1>2, PoolInvariance, SlotInvariance, PTL DEF Spec, RunningNotEvicted
=============================================================================
