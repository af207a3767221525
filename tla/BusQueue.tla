------------------------------ MODULE BusQueue ------------------------------
(***************************************************************************)
(* One bq_t of the bus (src/src/bus/bus.c): the ring buffer, its mutex and *)
(* its two condition variables, used by any number of publishing and       *)
(* consuming threads, and bus_shutdown() called by one more thread.        *)
(*                                                                         *)
(* The mutex is explicit because bus_shutdown writes shut_down without     *)
(* holding it: between a test of shut_down and what the thread does next   *)
(* the flag may change.  A thread in pthread_cond_wait is a member of the  *)
(* condition's set until it is signalled or wakes spuriously.              *)
(***************************************************************************)
EXTENDS Integers, Sequences

CONSTANTS
  Producers, Consumers,  \* the threads that publish and that consume
  BUS_QUEUE_DEPTH,
  MaxMsgs,               \* bound: messages published by each producer
  MaxSpurious,           \* bound: wakeups without a signal
  NoMsg, Free            \* an empty slot; nobody holds the mutex

Threads == Producers \cup Consumers
Message == Producers \X (1..MaxMsgs)
Slots == 0..(BUS_QUEUE_DEPTH - 1)

ASSUME BusAssumption ==
  /\ Producers \cap Consumers = {}
  /\ BUS_QUEUE_DEPTH \in Nat \ {0}
  /\ MaxMsgs \in Nat /\ MaxSpurious \in Nat
  /\ NoMsg \notin Message
  /\ Free \notin Threads

VARIABLES
  items, head, tail, count,  \* the ring
  lock,                      \* the thread that holds q->lock, or Free
  not_empty, not_full,       \* threads blocked on each condition
  shut_down,
  pc,                        \* [Threads -> where each thread is]
  published,                 \* [Producers -> publishes begun]
  shutter,                   \* how far bus_shutdown has got
  spurious,                  \* wakeups without a signal so far
  delivered, refused, stopped \* what the calls returned so far

ring == <<items, head, tail, count>>
conds == <<not_empty, not_full>>
results == <<delivered, refused, stopped>>
vars == <<ring, lock, conds, shut_down, pc, published, shutter, spurious,
          results>>

----------------------------------------------------------------------------
(* pthread primitives *)

Goto(t, from, to) == pc[t] = from /\ pc' = [pc EXCEPT ![t] = to]

Acquire(t) == lock = Free /\ lock' = t
Release(t) == lock = t /\ lock' = Free

\* pthread_cond_signal wakes one of the waiters, if there are any.
Signal(waiters, waiters2) ==
  \/ waiters = {} /\ waiters2 = {}
  \/ \E t \in waiters : waiters2 = waiters \ {t}

----------------------------------------------------------------------------
(* q_push *)

\* The message a producer is publishing.
Current(p) == <<p, published[p]>>

PushLock(p) ==
  /\ published[p] < MaxMsgs
  /\ Goto(p, "idle", "push_test")
  /\ Acquire(p)
  /\ published' = [published EXCEPT ![p] = @ + 1]
  /\ UNCHANGED <<ring, conds, shut_down, shutter, spurious,
                 results>>

\* The condition of the while loop.
PushTest(p) ==
  /\ IF count >= BUS_QUEUE_DEPTH /\ ~shut_down
     THEN Goto(p, "push_test", "push_wait")
     ELSE Goto(p, "push_test", "push_decide")
  /\ UNCHANGED <<ring, lock, conds, shut_down, published, shutter, spurious,
                 results>>

\* pthread_cond_wait: release the mutex and block, in one step.
PushWait(p) ==
  /\ Goto(p, "push_wait", "push_blocked")
  /\ Release(p)
  /\ not_full' = not_full \cup {p}
  /\ UNCHANGED <<ring, not_empty, shut_down, published, shutter, spurious,
                 results>>

\* Mutant of PushWake: "if" for "while", the queue is not tested again.
PushWake_if(p) ==
  /\ p \notin not_full
  /\ Goto(p, "push_blocked", "push_decide")
  /\ Acquire(p)
  /\ UNCHANGED <<ring, conds, shut_down, published, shutter, spurious,
                 results>>

\* pthread_cond_wait returns: back to the condition of the loop.
PushWake(p) ==
  /\ p \notin not_full
  /\ Goto(p, "push_blocked", "push_test")
  /\ Acquire(p)
  /\ UNCHANGED <<ring, conds, shut_down, published, shutter, spurious,
                 results>>

\* if (*shut_down), the second read of the flag.
PushDecide(p) ==
  /\ Goto(p, "push_decide", IF shut_down THEN "push_refuse" ELSE "push_store")
  /\ UNCHANGED <<ring, lock, conds, shut_down, published, shutter, spurious,
                 results>>

PushRefuse(p) ==
  /\ Goto(p, "push_refuse", "idle")
  /\ Release(p)
  /\ refused' = refused \cup {Current(p)}
  /\ UNCHANGED <<ring, conds, shut_down, published, shutter, spurious,
                 delivered, stopped>>

PushStore(p) ==
  /\ Goto(p, "push_store", "idle")
  /\ items' = [items EXCEPT ![tail] = Current(p)]
  /\ tail' = (tail + 1) % BUS_QUEUE_DEPTH
  /\ count' = count + 1
  /\ Signal(not_empty, not_empty')
  /\ Release(p)
  /\ UNCHANGED <<head, not_full, shut_down, published, shutter, spurious,
                 results>>

----------------------------------------------------------------------------
(* q_pop *)

PopLock(c) ==
  /\ c \notin stopped
  /\ Goto(c, "idle", "pop_test")
  /\ Acquire(c)
  /\ UNCHANGED <<ring, conds, shut_down, published, shutter, spurious,
                 results>>

PopTest(c) ==
  /\ IF count = 0 /\ ~shut_down
     THEN Goto(c, "pop_test", "pop_wait")
     ELSE Goto(c, "pop_test", "pop_take")
  /\ UNCHANGED <<ring, lock, conds, shut_down, published, shutter, spurious,
                 results>>

PopWait(c) ==
  /\ Goto(c, "pop_wait", "pop_blocked")
  /\ Release(c)
  /\ not_empty' = not_empty \cup {c}
  /\ UNCHANGED <<ring, not_full, shut_down, published, shutter, spurious,
                 results>>

PopWake(c) ==
  /\ c \notin not_empty
  /\ Goto(c, "pop_blocked", "pop_test")
  /\ Acquire(c)
  /\ UNCHANGED <<ring, conds, shut_down, published, shutter, spurious,
                 results>>

\* NULL: the worker and the dispatcher both leave their loops on it.
PopNull(c) ==
  /\ count = 0
  /\ Goto(c, "pop_take", "idle")
  /\ Release(c)
  /\ stopped' = stopped \cup {c}
  /\ UNCHANGED <<ring, conds, shut_down, published, shutter, spurious,
                 delivered, refused>>

\* Mutant of PopTake: publishers waiting for room are not signalled.
PopTake_silent(c) ==
  /\ count # 0
  /\ Goto(c, "pop_take", "idle")
  /\ delivered' = Append(delivered, items[head])
  /\ head' = (head + 1) % BUS_QUEUE_DEPTH
  /\ count' = count - 1
  /\ Release(c)
  /\ UNCHANGED <<items, tail, conds, shut_down, published, shutter,
                 spurious, refused, stopped>>

PopTake(c) ==
  /\ count # 0
  /\ Goto(c, "pop_take", "idle")
  /\ delivered' = Append(delivered, items[head])
  /\ head' = (head + 1) % BUS_QUEUE_DEPTH
  /\ count' = count - 1
  /\ Signal(not_full, not_full')
  /\ Release(c)
  /\ UNCHANGED <<items, tail, not_empty, shut_down, published, shutter,
                 spurious, refused, stopped>>

----------------------------------------------------------------------------
(* bus_shutdown: the flag first, without the mutex, then bq_broadcast *)

ShutdownFlag ==
  /\ shutter = "running"
  /\ shut_down' = TRUE
  /\ shutter' = "flagged"
  /\ UNCHANGED <<ring, lock, conds, pc, published, spurious, results>>

\* Mutant of ShutdownBroadcast: the mutex is not taken for the broadcast.
ShutdownBroadcast_unlocked ==
  /\ shutter = "flagged"
  /\ not_empty' = {}
  /\ not_full' = {}
  /\ shutter' = "returned"
  /\ UNCHANGED <<ring, lock, shut_down, pc, published, spurious, results>>

\* Lock, broadcast both conditions, unlock.
ShutdownBroadcast ==
  /\ shutter = "flagged"
  /\ lock = Free
  /\ not_empty' = {}
  /\ not_full' = {}
  /\ shutter' = "returned"
  /\ UNCHANGED <<ring, lock, shut_down, pc, published, spurious, results>>

\* POSIX allows pthread_cond_wait to return without a signal, now and then.
SpuriousWakeup(t) ==
  /\ t \in not_empty \cup not_full
  /\ not_empty' = not_empty \ {t}
  /\ not_full' = not_full \ {t}
  /\ spurious < MaxSpurious
  /\ spurious' = spurious + 1
  /\ UNCHANGED <<ring, lock, shut_down, pc, published, shutter, results>>

----------------------------------------------------------------------------

Init ==
  /\ items = [i \in Slots |-> NoMsg]
  /\ head = 0 /\ tail = 0 /\ count = 0
  /\ lock = Free
  /\ not_empty = {} /\ not_full = {}
  /\ shut_down = FALSE
  /\ pc = [t \in Threads |-> "idle"]
  /\ published = [p \in Producers |-> 0]
  /\ shutter = "running"
  /\ spurious = 0
  /\ delivered = <<>> /\ refused = {} /\ stopped = {}

Push(p) == \/ PushLock(p) \/ PushTest(p) \/ PushWait(p) \/ PushWake(p)
           \/ PushDecide(p) \/ PushRefuse(p) \/ PushStore(p)

Pop(c) == \/ PopLock(c) \/ PopTest(c) \/ PopWait(c) \/ PopWake(c)
          \/ PopNull(c) \/ PopTake(c)

Next == \/ \E p \in Producers : Push(p)
        \/ \E c \in Consumers : Pop(c)
        \/ \E t \in Threads : SpuriousWakeup(t)
        \/ ShutdownFlag
        \/ ShutdownBroadcast

Spec == Init /\ [][Next]_vars

\* Every thread that can run runs; nobody has to call bus_shutdown, but once
\* called it completes.  Spurious wakeups are never relied on.
Fairness == /\ \A p \in Producers : WF_vars(Push(p))
            /\ \A c \in Consumers : WF_vars(Pop(c))
            /\ WF_vars(ShutdownBroadcast)

FairSpec == Spec /\ Fairness

----------------------------------------------------------------------------
(* Properties *)

TypeOK ==
  /\ items \in [Slots -> Message \cup {NoMsg}]
  /\ head \in Slots /\ tail \in Slots /\ count \in 0..BUS_QUEUE_DEPTH
  /\ lock \in Threads \cup {Free}
  /\ not_empty \subseteq Consumers /\ not_full \subseteq Producers
  /\ shut_down \in BOOLEAN
  /\ pc \in [Threads -> {"idle", "push_test", "push_wait", "push_blocked",
                         "push_decide", "push_refuse", "push_store",
                         "pop_test", "pop_wait", "pop_blocked", "pop_take"}]
  /\ published \in [Producers -> 0..MaxMsgs]
  /\ shutter \in {"running", "flagged", "returned"}
  /\ spurious \in 0..MaxSpurious
  /\ delivered \in Seq(Message)
  /\ refused \subseteq Message
  /\ stopped \subseteq Consumers

\* The contents of the ring, oldest first.
Contents == [i \in 1..count |-> items[(head + i - 1) % BUS_QUEUE_DEPTH]]

Phase == CASE shutter = "running" -> "open"
           [] shutter = "flagged" -> "closing"
           [] shutter = "returned" -> "closed"

\* The ring, the mutex, the conditions and the unlocked flag together
\* implement the queue bus.h promises: in order, bounded, nothing lost or
\* repeated, every publish refused once bus_shutdown has returned.
Fifo == INSTANCE BoundedFifo WITH
          Capacity <- BUS_QUEUE_DEPTH,
          queue <- Contents,
          phase <- Phase
ImplementsFifo == Fifo!Spec

\* A publisher or consumer blocked on a condition has not missed its wakeup:
\* when bus_shutdown has returned everybody leaves the queue.
ShutdownReleasesAll ==
  shutter = "returned" ~> /\ \A t \in Threads : pc[t] = "idle"
                          /\ stopped = Consumers

\* A publisher blocked on a full queue gets in as consumers make room.
BlockedPublishReturns ==
  \A p \in Producers : pc[p] = "push_blocked" ~> pc[p] = "idle"
=============================================================================
