--------------------------- MODULE BusQueueProofs ---------------------------
(***************************************************************************)
(* The ring buffer with its mutex and conditions implements the bounded    *)
(* queue for any number of threads, any depth and any number of messages.  *)
(***************************************************************************)
EXTENDS BusQueue, SequenceTheorems, TLAPS

----------------------------------------------------------------------------
(* The inductive invariant *)

PushPc == {"push_test", "push_wait", "push_blocked", "push_decide",
           "push_refuse", "push_store"}
PopPc == {"pop_test", "pop_wait", "pop_blocked", "pop_take"}

\* Who holds the mutex: exactly the thread inside a critical section.
Critical == (PushPc \cup PopPc) \ {"push_blocked", "pop_blocked"}

MutexInv == \A t \in Threads : pc[t] \in Critical <=> lock = t

\* Producers only push, consumers only pop, and a push has a message.
RolesInv ==
  /\ \A p \in Producers : /\ pc[p] \in PushPc \cup {"idle"}
                          /\ pc[p] \in PushPc => published[p] >= 1
  /\ \A c \in Consumers : pc[c] \in PopPc \cup {"idle"}

RingInv ==
  /\ tail = (head + count) % BUS_QUEUE_DEPTH
  /\ \A i \in 0..(count - 1) : items[(head + i) % BUS_QUEUE_DEPTH] \in Message

\* What a thread has learnt from its tests still holds when it acts on it,
\* although shut_down may have changed in between.
FlagInv ==
  /\ shut_down <=> shutter # "running"
  /\ \A p \in Producers :
       /\ pc[p] = "push_decide" => count < BUS_QUEUE_DEPTH \/ shut_down
       /\ pc[p] = "push_store" =>
            count < BUS_QUEUE_DEPTH /\ shutter # "returned"
       /\ pc[p] = "push_refuse" => shut_down
  /\ \A c \in Consumers : pc[c] = "pop_take" => count # 0 \/ shut_down

IInv == TypeOK /\ MutexInv /\ RolesInv /\ RingInv /\ FlagInv

----------------------------------------------------------------------------
(* Indices of the ring *)

\* Reduction modulo the depth of an index less than twice the depth.
LEMMA ModRange ==
  ASSUME NEW i \in Nat PROVE i % BUS_QUEUE_DEPTH \in Slots
BY BusAssumption, SMT DEF Slots

LEMMA ModSmall ==
  ASSUME NEW i \in 0..(BUS_QUEUE_DEPTH - 1) PROVE i % BUS_QUEUE_DEPTH = i
BY BusAssumption, SMT

LEMMA ModWrap ==
  ASSUME NEW i \in BUS_QUEUE_DEPTH..(2 * BUS_QUEUE_DEPTH - 1)
  PROVE  i % BUS_QUEUE_DEPTH = i - BUS_QUEUE_DEPTH
BY BusAssumption, SMT

\* Storing at the tail keeps the occupied slots and extends them by one.
LEMMA RingStore ==
  ASSUME NEW h \in Slots, NEW n \in Nat, n < BUS_QUEUE_DEPTH
  PROVE  LET t == (h + n) % BUS_QUEUE_DEPTH IN
         /\ (t + 1) % BUS_QUEUE_DEPTH = (h + (n + 1)) % BUS_QUEUE_DEPTH
         /\ \A i \in 0..(n - 1) : (h + i) % BUS_QUEUE_DEPTH # t
BY BusAssumption, SMT DEF Slots

\* Taking from the head leaves the other occupied slots where they are.
LEMMA RingTake ==
  ASSUME NEW h \in Slots, NEW n \in Nat, n < BUS_QUEUE_DEPTH
  PROVE  (((h + 1) % BUS_QUEUE_DEPTH) + n) % BUS_QUEUE_DEPTH
           = (h + (n + 1)) % BUS_QUEUE_DEPTH
BY BusAssumption, SMT DEF Slots
----------------------------------------------------------------------------
(* IInv is inductive *)

USE DEF Threads

LEMMA InitInv == Init => IInv
<1> SUFFICES ASSUME Init PROVE IInv
  OBVIOUS
<1>1. 0 \in Slots /\ 0 % BUS_QUEUE_DEPTH = 0
  BY BusAssumption, ModSmall DEF Slots
<1>2. TypeOK
  <2>1. delivered \in Seq(Message)
    BY DEF Init
  <2>2. /\ MaxMsgs \in Nat /\ MaxSpurious \in Nat
        /\ count \in 0..BUS_QUEUE_DEPTH
    BY BusAssumption DEF Init
  <2>3. /\ published \in [Producers -> 0..MaxMsgs]
        /\ spurious \in 0..MaxSpurious
    BY <2>2 DEF Init
  <2>4. items \in [Slots -> Message \cup {NoMsg}]
    BY DEF Init
  <2>5. pc \in [Threads -> {"idle"}]
    BY DEF Init
  <2> QED BY <1>1, <2>1, <2>2, <2>3, <2>4, <2>5 DEF Init, TypeOK
<1>3. MutexInv
  BY BusAssumption DEF Init, MutexInv, Critical, PushPc, PopPc
<1>4. RolesInv /\ FlagInv
  BY DEF Init, RolesInv, FlagInv, PushPc, PopPc
<1>5. RingInv
  BY <1>1 DEF Init, RingInv
<1> QED BY <1>2, <1>3, <1>4, <1>5 DEF IInv

\* The steps of q_push that only test and wait.
LEMMA PushControl ==
  ASSUME IInv, NEW p \in Producers,
         PushLock(p) \/ PushTest(p) \/ PushWait(p) \/ PushWake(p)
           \/ PushDecide(p) \/ PushRefuse(p)
  PROVE  IInv'
<1> USE DEF IInv, PushLock, PushTest, PushWait, PushWake, PushDecide,
            PushRefuse, Goto, Acquire, Release, ring, conds, results
<1>1. TypeOK'
  <2>1. PushRefuse(p) => Current(p) \in Message
    BY DEF TypeOK, RolesInv, PushPc, Current, Message
  <2>2. CASE PushLock(p)
    <3>1. published[p] + 1 \in 0..MaxMsgs
      BY <2>2, BusAssumption DEF TypeOK
    <3> QED BY <2>2, <3>1 DEF TypeOK
  <2>3. CASE PushTest(p) \/ PushDecide(p)
    BY <2>3 DEF TypeOK
  <2>4. CASE PushWait(p) \/ PushWake(p)
    BY <2>4 DEF TypeOK
  <2>5. CASE PushRefuse(p)
    BY <2>1, <2>5 DEF TypeOK
  <2> QED BY <2>2, <2>3, <2>4, <2>5
<1>2. MutexInv'
  BY BusAssumption DEF TypeOK, MutexInv, Critical, PushPc, PopPc
<1>3. RolesInv'
  BY BusAssumption DEF TypeOK, RolesInv, PushPc, PopPc
<1>4. RingInv'
  BY DEF RingInv
<1>5. FlagInv'
  BY BusAssumption DEF TypeOK, FlagInv, RolesInv, PushPc, PopPc
<1> QED BY <1>1, <1>2, <1>3, <1>4, <1>5

\* The steps of q_pop that only test and wait.
LEMMA PopControl ==
  ASSUME IInv, NEW c \in Consumers,
         PopLock(c) \/ PopTest(c) \/ PopWait(c) \/ PopWake(c) \/ PopNull(c)
  PROVE  IInv'
<1> USE DEF IInv, PopLock, PopTest, PopWait, PopWake, PopNull,
            Goto, Acquire, Release, ring, conds, results
<1>1. TypeOK'
  BY BusAssumption DEF TypeOK
<1>2. MutexInv'
  BY BusAssumption DEF TypeOK, MutexInv, Critical, PushPc, PopPc
<1>3. RolesInv'
  BY BusAssumption DEF TypeOK, RolesInv, PushPc, PopPc
<1>4. RingInv'
  BY DEF RingInv
<1>5. FlagInv'
  BY BusAssumption DEF TypeOK, FlagInv, RolesInv, PushPc, PopPc
<1> QED BY <1>1, <1>2, <1>3, <1>4, <1>5

\* bus_shutdown and the wakeups.
LEMMA ShutdownSteps ==
  ASSUME IInv,
         \/ ShutdownFlag
         \/ ShutdownBroadcast
         \/ \E t \in Threads : SpuriousWakeup(t)
  PROVE  IInv'
<1> USE DEF IInv, ShutdownFlag, ShutdownBroadcast, SpuriousWakeup,
            ring, conds, results
<1>1. TypeOK'
  <2>1. CASE ShutdownFlag \/ ShutdownBroadcast
    BY <2>1 DEF TypeOK
  <2>2. CASE \E t \in Threads : SpuriousWakeup(t)
    BY <2>2, BusAssumption DEF TypeOK
  <2> QED BY <2>1, <2>2
<1>2. MutexInv' /\ RolesInv' /\ RingInv'
  BY DEF MutexInv, RolesInv, RingInv
<1>3. FlagInv'
  BY BusAssumption DEF TypeOK, MutexInv, FlagInv, Critical, PushPc
<1> QED BY <1>1, <1>2, <1>3
\* The one step that writes a slot.
LEMMA StoreStep ==
  ASSUME IInv, NEW p \in Producers, PushStore(p)
  PROVE  IInv'
<1> USE DEF IInv, PushStore, Goto, Release
<1>0. /\ count \in Nat /\ count < BUS_QUEUE_DEPTH /\ BUS_QUEUE_DEPTH \in Nat
      /\ head \in Slots /\ tail = (head + count) % BUS_QUEUE_DEPTH
      /\ Current(p) \in Message
  BY BusAssumption
     DEF TypeOK, FlagInv, RingInv, RolesInv, PushPc, Current, Message
<1>1. TypeOK'
  <2>1. /\ tail' \in Slots
        /\ items' \in [Slots -> Message \cup {NoMsg}]
        /\ count' \in 0..BUS_QUEUE_DEPTH
    <3>1. tail + 1 \in Nat
      BY DEF TypeOK, Slots
    <3>2. tail' \in Slots
      BY <3>1, ModRange
    <3>3. count' \in 0..BUS_QUEUE_DEPTH
      BY <1>0
    <3> QED BY <1>0, <3>2, <3>3 DEF TypeOK
  <2>2. not_empty' \subseteq Consumers
    BY DEF TypeOK, Signal
  <2> QED BY <2>1, <2>2 DEF TypeOK, results
<1>2. MutexInv'
  BY BusAssumption DEF TypeOK, MutexInv, Critical, PushPc, PopPc
<1>3. RolesInv'
  BY BusAssumption DEF TypeOK, RolesInv, PushPc, PopPc
<1>4. RingInv'
  <2>1. tail' = (head' + count') % BUS_QUEUE_DEPTH
    BY <1>0, RingStore
  <2>2. \A i \in 0..(count - 1) : (head + i) % BUS_QUEUE_DEPTH # tail
    BY <1>0, RingStore
  <2>3. ASSUME NEW i \in 0..(count - 1)
        PROVE  items'[(head + i) % BUS_QUEUE_DEPTH] \in Message
    <3>1. head + i \in Nat
      BY <1>0 DEF Slots
    <3> DEFINE j == (head + i) % BUS_QUEUE_DEPTH
    <3>2. j \in Slots /\ j # tail /\ items[j] \in Message
      BY <3>1, <2>2, ModRange DEF RingInv
    <3> HIDE DEF j
    <3>3. items'[j] \in Message
      BY <3>2 DEF TypeOK
    <3> QED BY <3>3 DEF j
  <2>4. items'[(head + count) % BUS_QUEUE_DEPTH] \in Message
    <3>1. items'[tail] \in Message
      BY <1>0 DEF TypeOK
    <3> QED BY <3>1, <1>0
  <2>5. ASSUME NEW i \in 0..(count' - 1)
        PROVE  items'[(head + i) % BUS_QUEUE_DEPTH] \in Message
    <3>1. i \in 0..(count - 1) \/ i = count
      BY <1>0
    <3> QED BY <3>1, <2>3, <2>4
  <2> QED BY <2>1, <2>5 DEF RingInv
<1>5. FlagInv'
  <2>1. \A q \in Producers :
          q # p => pc[q] \notin {"push_decide", "push_store", "push_refuse"}
    BY BusAssumption DEF TypeOK, MutexInv, Critical, PushPc
  <2>2. \A c \in Consumers : pc[c] # "pop_take"
    BY BusAssumption DEF TypeOK, MutexInv, Critical, PopPc
  <2> QED BY <2>1, <2>2, BusAssumption DEF TypeOK, FlagInv
<1> QED BY <1>1, <1>2, <1>3, <1>4, <1>5

\* The one step that empties a slot.
LEMMA TakeStep ==
  ASSUME IInv, NEW c \in Consumers, PopTake(c)
  PROVE  IInv'
<1> USE DEF IInv, PopTake, Goto, Release
<1>0. /\ count \in Nat \ {0} /\ count - 1 \in Nat
      /\ count - 1 < BUS_QUEUE_DEPTH /\ BUS_QUEUE_DEPTH \in Nat
      /\ head \in Slots /\ head \in Nat
      /\ tail = (head + count) % BUS_QUEUE_DEPTH
  BY BusAssumption DEF TypeOK, RingInv, Slots
<1>1. TypeOK'
  <2>1. head' \in Slots /\ count' \in 0..BUS_QUEUE_DEPTH
    <3>1. head + 1 \in Nat
      BY <1>0
    <3>2. count' \in 0..BUS_QUEUE_DEPTH
      BY <1>0
    <3> QED BY <3>1, <3>2, ModRange
  <2>2. delivered' \in Seq(Message)
    <3>1. items[(head + 0) % BUS_QUEUE_DEPTH] \in Message
      <4>1. 0 \in 0..(count - 1)
        BY <1>0
      <4> QED BY <4>1 DEF RingInv
    <3>2. (head + 0) % BUS_QUEUE_DEPTH = head
      BY <1>0, ModSmall DEF Slots
    <3>3. items[head] \in Message
      BY <3>1, <3>2
    <3> QED BY <3>3 DEF TypeOK
  <2>3. not_full' \subseteq Producers
    BY DEF TypeOK, Signal
  <2> QED BY <2>1, <2>2, <2>3 DEF TypeOK, results
<1>2. MutexInv'
  BY BusAssumption DEF TypeOK, MutexInv, Critical, PushPc, PopPc
<1>3. RolesInv'
  BY BusAssumption DEF TypeOK, RolesInv, PushPc, PopPc
<1>4. RingInv'
  <2>0. \A n \in Nat : n < BUS_QUEUE_DEPTH =>
          (((head + 1) % BUS_QUEUE_DEPTH) + n) % BUS_QUEUE_DEPTH
            = (head + (n + 1)) % BUS_QUEUE_DEPTH
    BY <1>0, RingTake
  <2>1. tail' = (head' + count') % BUS_QUEUE_DEPTH
    <3>1. count - 1 + 1 = count
      BY <1>0
    <3> QED BY <1>0, <2>0, <3>1
  <2>2. ASSUME NEW i \in 0..(count' - 1)
        PROVE  items'[(head' + i) % BUS_QUEUE_DEPTH] \in Message
    <3>1. i \in Nat /\ i < BUS_QUEUE_DEPTH /\ i + 1 \in 0..(count - 1)
      BY <1>0
    <3>2. items[(head + (i + 1)) % BUS_QUEUE_DEPTH] \in Message
      BY <3>1 DEF RingInv
    <3> QED BY <3>1, <3>2, <2>0
  <2> QED BY <2>1, <2>2 DEF RingInv
<1>5. FlagInv'
  <2>1. \A p \in Producers :
          pc[p] \notin {"push_decide", "push_store", "push_refuse"}
    BY BusAssumption DEF TypeOK, MutexInv, Critical, PushPc
  <2>2. \A d \in Consumers : d # c => pc[d] # "pop_take"
    BY BusAssumption DEF TypeOK, MutexInv, Critical, PopPc
  <2> QED BY <2>1, <2>2, BusAssumption DEF TypeOK, FlagInv
<1> QED BY <1>1, <1>2, <1>3, <1>4, <1>5

\* Every step of every thread keeps the mutex, the ring and the flag
\* consistent with one another.
THEOREM Inductive == Spec => []IInv
<1>1. IInv /\ [Next]_vars => IInv'
  <2> SUFFICES ASSUME IInv, [Next]_vars PROVE IInv'
    OBVIOUS
  <2>1. CASE Next
    BY <2>1, PushControl, StoreStep, PopControl, TakeStep, ShutdownSteps
       DEF Next, Push, Pop
  <2>2. CASE UNCHANGED vars
    BY <2>2 DEF vars, ring, conds, results, IInv, TypeOK, MutexInv, RolesInv,
                RingInv, FlagInv
  <2> QED BY <2>1, <2>2
<1> QED BY <1>1, InitInv, PTL DEF Spec

\* The ring's indices and count stay within the depth, only consumers wait on
\* not_empty and only producers on not_full, however many threads there are.
THEOREM TypeCorrect == Spec => []TypeOK
<1>1. IInv => TypeOK
  BY DEF IInv
<1> QED BY <1>1, Inductive, PTL
----------------------------------------------------------------------------
(* The refinement *)

\* The occupied slots, read from the head, are a sequence of messages.
LEMMA ContentsIsSeq ==
  ASSUME IInv
  PROVE  /\ Contents \in Seq(Message) /\ Len(Contents) = count
         /\ \A i \in 1..count :
              Contents[i] = items[(head + i - 1) % BUS_QUEUE_DEPTH]
<1>0. count \in Nat /\ head \in Nat
  BY BusAssumption DEF IInv, TypeOK, Slots
<1>1. ASSUME NEW i \in 1..count
      PROVE  items[(head + i - 1) % BUS_QUEUE_DEPTH] \in Message
  <2>1. i - 1 \in 0..(count - 1) /\ head + (i - 1) = head + i - 1
    BY <1>0
  <2>2. items[(head + (i - 1)) % BUS_QUEUE_DEPTH] \in Message
    BY <2>1 DEF IInv, RingInv
  <2> QED BY <2>1, <2>2
<1> QED BY <1>0, <1>1 DEF Contents

\* A store appends the message to the contents.
LEMMA StoreAppends ==
  ASSUME IInv, IInv', NEW p \in Producers, PushStore(p)
  PROVE  Contents' = Append(Contents, Current(p))
<1>0. /\ count \in Nat /\ count < BUS_QUEUE_DEPTH /\ head \in Slots
      /\ head \in Nat /\ tail = (head + count) % BUS_QUEUE_DEPTH
      /\ tail \in Slots /\ Current(p) \in Message /\ head' = head
      /\ items' = [items EXCEPT ![tail] = Current(p)] /\ count' = count + 1
      /\ items \in [Slots -> Message \cup {NoMsg}]
  BY BusAssumption DEF IInv, TypeOK, FlagInv, RingInv, RolesInv, PushPc,
                       Current, Message, PushStore, Goto, Slots
<1>1. /\ Contents \in Seq(Message) /\ Len(Contents) = count
      /\ \A i \in 1..count :
           Contents[i] = items[(head + i - 1) % BUS_QUEUE_DEPTH]
  BY ContentsIsSeq
<1>2. Contents' = [i \in 1..(count + 1) |->
                     items'[(head + i - 1) % BUS_QUEUE_DEPTH]]
  BY <1>0 DEF Contents
<1>3. ASSUME NEW i \in 1..count
      PROVE  items'[(head + i - 1) % BUS_QUEUE_DEPTH] = Contents[i]
  <2> DEFINE j == (head + i - 1) % BUS_QUEUE_DEPTH
  <2>1. i - 1 \in 0..(count - 1) /\ head + (i - 1) = head + i - 1
        /\ head + i - 1 \in Nat
    BY <1>0
  <2>2. (head + (i - 1)) % BUS_QUEUE_DEPTH # tail
    BY <1>0, <2>1, RingStore
  <2>3. j # tail /\ j \in Slots
    BY <2>1, <2>2, ModRange
  <2>4. Contents[i] = items[j]
    BY <1>1
  <2> HIDE DEF j
  <2>5. items'[j] = items[j]
    BY <1>0, <2>3
  <2> QED BY <2>4, <2>5 DEF j
<1>4. items'[(head + (count + 1) - 1) % BUS_QUEUE_DEPTH] = Current(p)
  <2>1. head + (count + 1) - 1 = head + count
    BY <1>0
  <2>2. items'[tail] = Current(p)
    BY <1>0
  <2> QED BY <1>0, <2>1, <2>2
<1> DEFINE A == Append(Contents, Current(p))
<1>5. /\ A \in Seq(Message) /\ Len(A) = count + 1
      /\ \A i \in 1..count : A[i] = Contents[i]
      /\ A[count + 1] = Current(p)
  BY <1>0, <1>1, AppendProperties
<1> HIDE DEF A
<1>6. ASSUME NEW i \in 1..(count + 1)
      PROVE  items'[(head + i - 1) % BUS_QUEUE_DEPTH] = A[i]
  <2>1. CASE i = count + 1
    BY <2>1, <1>4, <1>5
  <2>2. CASE i # count + 1
    <3>1. i \in 1..count
      BY <2>2, <1>0
    <3> QED BY <3>1, <1>3, <1>5
  <2> QED BY <2>1, <2>2
<1>7. A = [i \in 1..(count + 1) |-> A[i]]
  BY <1>0, <1>5
<1>8. Contents' = A
  BY <1>2, <1>6, <1>7, Zenon
<1> QED BY <1>8 DEF A

\* A take removes the oldest message and leaves the others in order.
LEMMA TakeRemoves ==
  ASSUME IInv, IInv', NEW c \in Consumers, PopTake(c)
  PROVE  /\ Contents # <<>>
         /\ Head(Contents) = items[head]
         /\ Contents' = Tail(Contents)
<1>0. /\ count \in Nat \ {0} /\ count - 1 \in Nat /\ BUS_QUEUE_DEPTH \in Nat
      /\ count - 1 < BUS_QUEUE_DEPTH /\ head \in Slots /\ head \in Nat
      /\ head' = (head + 1) % BUS_QUEUE_DEPTH /\ items' = items
      /\ count' = count - 1
  BY BusAssumption DEF IInv, TypeOK, PopTake, Slots
<1>1. /\ Contents \in Seq(Message) /\ Len(Contents) = count
      /\ \A i \in 1..count :
           Contents[i] = items[(head + i - 1) % BUS_QUEUE_DEPTH]
  BY ContentsIsSeq
<1>2. Contents # <<>>
  BY <1>0, <1>1
<1>3. Head(Contents) = items[head]
  <2>1. 1 \in 1..count /\ head + 1 - 1 = head
    BY <1>0
  <2>2. head % BUS_QUEUE_DEPTH = head
    BY <1>0, ModSmall DEF Slots
  <2>3. Contents[1] = items[head]
    BY <1>1, <2>1, <2>2
  <2> QED BY <1>1, <2>3
<1>4. Tail(Contents) = [i \in 1..(count - 1) |-> Contents[i + 1]]
  <2> DEFINE T == Tail(Contents)
  <2>1. /\ T \in Seq(Message) /\ Len(T) = count - 1
        /\ \A i \in 1..(count - 1) : T[i] = Contents[i + 1]
    BY <1>1, <1>2, HeadTailProperties
  <2> HIDE DEF T
  <2>2. T = [i \in 1..(count - 1) |-> T[i]]
    BY <1>0, <2>1
  <2>3. T = [i \in 1..(count - 1) |-> Contents[i + 1]]
    BY <2>1, <2>2, Zenon
  <2> QED BY <2>3 DEF T
<1>5. Contents' = [i \in 1..(count - 1) |->
                     items[(head' + i - 1) % BUS_QUEUE_DEPTH]]
  BY <1>0 DEF Contents
<1>6. ASSUME NEW i \in 1..(count - 1)
      PROVE  items[(head' + i - 1) % BUS_QUEUE_DEPTH] = Contents[i + 1]
  <2>1. /\ i - 1 \in Nat /\ i - 1 < BUS_QUEUE_DEPTH /\ i + 1 \in 1..count
        /\ head + (i + 1) - 1 = head + (i - 1 + 1)
    BY <1>0
  <2>2. head' \in Nat
    BY <1>0
  <2>3. head' + i - 1 = ((head + 1) % BUS_QUEUE_DEPTH) + (i - 1)
    BY <1>0, <2>1, <2>2
  <2>4. (((head + 1) % BUS_QUEUE_DEPTH) + (i - 1)) % BUS_QUEUE_DEPTH
          = (head + (i - 1 + 1)) % BUS_QUEUE_DEPTH
    BY <1>0, <2>1, RingTake
  <2>5. Contents[i + 1] = items[(head + (i + 1) - 1) % BUS_QUEUE_DEPTH]
    BY <1>1, <2>1
  <2> QED BY <2>1, <2>3, <2>4, <2>5
<1> QED BY <1>2, <1>3, <1>4, <1>5, <1>6, Zenon
\* Every step of a thread is a step of the bounded queue or leaves it alone:
\* a store accepts, a take consumes, a refusal and a NULL happen only once
\* shutdown has begun, and no store happens after bus_shutdown has returned.
LEMMA StepRefines ==
  ASSUME IInv, IInv', [Next]_vars
  PROVE  [Fifo!Next]_(Fifo!vars)
<1> USE DEF Fifo!Next, Fifo!vars, Goto, Release, ring, results, conds
<1>0. Phase \in {"open", "closing", "closed"}
  BY DEF IInv, TypeOK, Phase
<1>1. ASSUME NEW p \in Producers, PushStore(p) PROVE Fifo!Next
  <2>1. Contents' = Append(Contents, Current(p))
    BY <1>1, StoreAppends
  <2>2. Len(Contents) < BUS_QUEUE_DEPTH
    BY <1>1, ContentsIsSeq DEF IInv, FlagInv, PushStore
  <2>3. Phase' = Phase /\ Phase # "closed"
    BY <1>1 DEF IInv, TypeOK, FlagInv, PushStore, Phase
  <2>4. Current(p) \in Message
    BY <1>1 DEF IInv, TypeOK, RolesInv, PushPc, PushStore, Current, Message
  <2>5. Fifo!Accept(Current(p))
    BY <1>1, <2>1, <2>2, <2>3 DEF Fifo!Accept, PushStore
  <2> QED BY <2>4, <2>5
<1>2. ASSUME NEW p \in Producers, PushRefuse(p) PROVE Fifo!Next
  <2>1. Contents' = Contents
    BY <1>2 DEF PushRefuse, Contents
  <2>2. Phase' = Phase /\ Phase # "open"
    BY <1>2 DEF IInv, TypeOK, FlagInv, PushRefuse, Phase
  <2>3. Current(p) \in Message
    BY <1>2 DEF IInv, TypeOK, RolesInv, PushPc, PushRefuse, Current, Message
  <2>4. Fifo!Refuse(Current(p))
    BY <1>2, <2>1, <2>2 DEF Fifo!Refuse, PushRefuse
  <2> QED BY <2>3, <2>4
<1>3. ASSUME NEW c \in Consumers, PopTake(c) PROVE Fifo!Next
  <2>1. /\ Contents # <<>> /\ Head(Contents) = items[head]
        /\ Contents' = Tail(Contents)
    BY <1>3, TakeRemoves
  <2>2. Phase' = Phase
    BY <1>3 DEF PopTake, Phase
  <2>3. Fifo!Consume
    BY <1>3, <2>1, <2>2 DEF Fifo!Consume, PopTake
  <2> QED BY <2>3
<1>4. ASSUME NEW c \in Consumers, PopNull(c) PROVE Fifo!Next
  <2>1. Contents' = Contents /\ Contents = <<>>
    BY <1>4, ContentsIsSeq, EmptySeq DEF PopNull, Contents
  <2>2. Phase' = Phase /\ Phase # "open"
    BY <1>4 DEF IInv, TypeOK, FlagInv, PopNull, Phase
  <2>3. Fifo!Stop(c)
    BY <1>4, <2>1, <2>2 DEF Fifo!Stop, PopNull
  <2> QED BY <2>3
<1>5. CASE ShutdownFlag
  <2>1. Contents' = Contents /\ Phase = "open" /\ Phase' = "closing"
    BY <1>5 DEF ShutdownFlag, Contents, Phase
  <2> QED BY <1>5, <2>1 DEF ShutdownFlag, Fifo!BeginClose
<1>6. CASE ShutdownBroadcast
  <2>1. Contents' = Contents /\ Phase = "closing" /\ Phase' = "closed"
    BY <1>6 DEF ShutdownBroadcast, Contents, Phase
  <2> QED BY <1>6, <2>1 DEF ShutdownBroadcast, Fifo!EndClose
<1>7. ASSUME ring' = ring, shutter' = shutter, results' = results
      PROVE  UNCHANGED Fifo!vars
  BY <1>7 DEF Contents, Phase
<1>8. CASE UNCHANGED vars
  BY <1>7, <1>8 DEF vars
<1>9. ASSUME NEW p \in Producers,
             PushLock(p) \/ PushTest(p) \/ PushWait(p) \/ PushWake(p)
               \/ PushDecide(p)
      PROVE  UNCHANGED Fifo!vars
  BY <1>7, <1>9 DEF PushLock, PushTest, PushWait, PushWake, PushDecide
<1>10. ASSUME NEW c \in Consumers,
              PopLock(c) \/ PopTest(c) \/ PopWait(c) \/ PopWake(c)
       PROVE  UNCHANGED Fifo!vars
  BY <1>7, <1>10 DEF PopLock, PopTest, PopWait, PopWake
<1>11. ASSUME NEW t \in Threads, SpuriousWakeup(t) PROVE UNCHANGED Fifo!vars
  BY <1>7, <1>11 DEF SpuriousWakeup
<1> HIDE DEF Fifo!Next, Fifo!vars
<1> QED
  BY <1>1, <1>2, <1>3, <1>4, <1>5, <1>6, <1>8, <1>9, <1>10, <1>11
     DEF Next, Push, Pop

\* One bq_t, used by any number of threads and at any depth, is the bounded
\* queue that bus.h promises, the shutdown that runs beside it included.
THEOREM RingImplementsFifo == Spec => ImplementsFifo
<1>1. Init => Fifo!Init
  <2> SUFFICES ASSUME Init PROVE Fifo!Init
    OBVIOUS
  <2>1. Contents = <<>>
    BY InitInv, ContentsIsSeq, EmptySeq DEF Init
  <2> QED BY <2>1 DEF Init, Fifo!Init, Phase
<1>2. IInv /\ IInv' /\ [Next]_vars => [Fifo!Next]_(Fifo!vars)
  BY StepRefines
<1> QED BY <1>1, <1>2, Inductive, PTL DEF Spec, ImplementsFifo, Fifo!Spec
=============================================================================
