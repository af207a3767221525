-------------------------- MODULE MessagingProofs --------------------------
(***************************************************************************)
(* For any number of connections, slots, stacks and background threads,    *)
(* and queues of any depth: the semaphore of the gateway is accounted for, *)
(* a response pair outlives the request that names it, a client is sent    *)
(* its own answer, and the bus outlives the channels.                      *)
(***************************************************************************)
EXTENDS Messaging, FiniteSetTheorems, TLAPS

----------------------------------------------------------------------------
(* The inductive invariant *)

\* The worker and the dispatcher hold a message exactly while they work on
\* it, and what is about to be published has been counted.
Holding ==
  /\ worker_msg \in IF worker = "turn" THEN Messages ELSE {None}
  /\ dispatcher_msg \in IF dispatcher = "send" THEN Messages ELSE {None}
  /\ \A b \in Background : bg[b] = "publish" => beats[b] > 0
  /\ main = "cli_publish" => asks > 0

\* A connection has a stack of its own from its accept to its end.
StacksOwned ==
  /\ \A c \in Conns :
       stack[c] # None <=> conn[c] \in {"serving", "publish", "waiting"}
  /\ \A c, d \in Conns : stack[c] # None /\ stack[c] = stack[d] => c = d

\* Request m names the pair of a caller that waits for it.
Awaited(m) ==
  /\ ~pair[m.rp].done
  /\ pair[m.rp].owner = Caller(m)
  /\ \/ m.channel = "cli" /\ m.rp = MainStack /\ main = "cli_wait"
     \/ /\ m.channel = "http" /\ m.id \in Conns
        /\ m.rp = stack[m.id] /\ conn[m.id] = "waiting"

\* ... no two requests name the same pair, and an answer is the caller's.
PairsAwaited ==
  /\ \A k \in DOMAIN queue["inbound"] :
       queue["inbound"][k].rp # None => Awaited(queue["inbound"][k])
  /\ worker = "turn" /\ worker_msg.rp # None => Awaited(worker_msg)
  /\ \A j, k \in DOMAIN queue["inbound"] :
       /\ queue["inbound"][j].rp # None
       /\ queue["inbound"][j].rp = queue["inbound"][k].rp
       => j = k
  /\ worker = "turn" /\ worker_msg.rp # None =>
       \A k \in DOMAIN queue["inbound"] : queue["inbound"][k].rp # worker_msg.rp
  /\ \A c \in Conns :
       /\ conn[c] = "publish" =>
            pair[stack[c]].owner = c /\ ~pair[stack[c]].done
       /\ conn[c] = "waiting" /\ pair[stack[c]].done =>
            pair[stack[c]].response = c
  /\ main = "cli_publish" =>
       pair[MainStack].owner = "cli" /\ ~pair[MainStack].done

\* What cleanup() is done with has ended, and the bus comes after the channels.
TakenDown ==
  /\ main = "join_dispatcher" => worker = "exited"
  /\ "worker" \notin todo => worker = "exited" /\ dispatcher = "exited"
  /\ \A b \in Background : b \notin todo => bg[b] = "exited"
  /\ "bus" \in freed => "bus" \notin todo
  /\ "bus" \notin todo => "worker" \notin todo /\ "email" \notin todo
                            /\ "whatsapp" \notin todo

IInv == TypeOK /\ Holding /\ StacksOwned /\ SlotsAccounted /\ PairsAwaited
          /\ TakenDown

----------------------------------------------------------------------------
(* What each part of the program leaves alone *)

\* The main thread outside cleanup().
Repl == \/ CliAsk \/ CliPublish \/ CliReply \/ CliQuit
        \/ HeadlessTest \/ HeadlessPause \/ sig_term

LEMMA NextCases ==
  Next => \/ Listener \/ (\E c \in Conns : Conn(c)) \/ Worker \/ Dispatcher
          \/ (\E b \in Background : BackgroundStep(b)) \/ Repl \/ Cleanup
BY DEF Next, Main, Repl

LEMMA ListenerFrame ==
  Listener => UNCHANGED <<queue, phase, pair, answer, gw_running, workerVars,
                          dispVars, bgVars, mainVars, memory>>
BY DEF Listener, ListenerLoop, ListenerSemWait, ListenerRecheck,
       ListenerAcceptFails, ListenerSpawn, ListenerSpawnFails, busVars, connVars

LEMMA ConnFrame ==
  ASSUME NEW c \in Conns
  PROVE  Conn(c) => UNCHANGED <<phase, listener, gw_running, workerVars,
                                dispVars, bgVars, mainVars, freed>>
BY DEF Conn, ConnOther, ConnChat, ConnPublish, ConnPublishFreed, ConnReply,
       ConnEnd, Store, Refused, busVars, gwVars, memory

LEMMA WorkerFrame ==
  Worker => UNCHANGED <<phase, connVars, gwVars, worker_running, dispVars,
                        bgVars, mainVars, memory>>
BY DEF Worker, WorkerLoop, WorkerConsume, WorkerNull, WorkerDeliver,
       WorkerPublish, Store, Refused, Take, busVars

LEMMA DispatcherFrame ==
  Dispatcher => UNCHANGED <<phase, pair, connVars, gwVars, workerVars, bgVars,
                            mainVars, memory>>
BY DEF Dispatcher, DispatcherConsume, DispatcherNull, DispatcherSend, Take,
       busVars

LEMMA BackgroundFrame ==
  ASSUME NEW b \in Background
  PROVE  BackgroundStep(b) => UNCHANGED <<phase, pair, connVars, gwVars,
             workerVars, dispVars, bg_running, mainVars, freed>>
BY DEF BackgroundStep, BackgroundLoop, BackgroundWake, BackgroundIdle,
       BackgroundInject, BackgroundPublish, BackgroundPublishFreed, Store,
       Refused, busVars, bgVars, memory

LEMMA ReplFrame ==
  Repl => UNCHANGED <<phase, connVars, gwVars, workerVars, dispVars, bgVars,
                      todo, memory>>
BY DEF Repl, CliAsk, CliPublish, CliReply, CliQuit, HeadlessTest,
       HeadlessPause, sig_term, Store, busVars

LEMMA CleanupFrame ==
  Cleanup => UNCHANGED <<pair, connVars, listener, slots, worker, worker_msg,
                         dispVars, bg, beats, asks, touched>>
BY DEF Cleanup, StopWorker, ShutdownBus, BroadcastBus, JoinWorker,
       JoinDispatcher, StopBackground, JoinBackground, DestroyBus, StopGateway,
       CloseSocket, JoinListener, Exit, Begin, Step, Finish, busVars, connVars,
       gwVars, workerVars, dispVars, bgVars, memory

----------------------------------------------------------------------------
(* Stacks and slots *)

\* The connections that hold a slot, and the listener's share.
Served == {c \in Conns : stack[c] # None}
Share == IF listener \in {"has_slot", "accept"} THEN 1 ELSE 0

LEMMA ServedFinite ==
  /\ IsFiniteSet(Served) /\ Cardinality(Served) \in Nat
  /\ IsFiniteSet(Served') /\ Cardinality(Served') \in Nat
  /\ Share \in {0, 1} /\ Share' \in {0, 1}
BY MessagingAssumption, FS_Subset, FS_CardinalityType DEF Served, Share

\* The sum, and the bounds of the semaphore that go with it.
LEMMA SlotsSum ==
  /\ SlotsAccounted <=> slots + Cardinality(Served) + Share = GATEWAY_MAX_THREADS
  /\ SlotsAccounted' <=>
       slots' + Cardinality(Served') + Share' = GATEWAY_MAX_THREADS
  /\ slots' \in Nat /\ SlotsAccounted' => slots' \in 0..GATEWAY_MAX_THREADS
<1>1. SlotsAccounted <=> slots + Cardinality(Served) + Share = GATEWAY_MAX_THREADS
  BY DEF SlotsAccounted, Served, Share
<1>2. SlotsAccounted' <=>
        slots' + Cardinality(Served') + Share' = GATEWAY_MAX_THREADS
  BY DEF SlotsAccounted, Served, Share
<1> QED BY <1>1, <1>2, ServedFinite, MessagingAssumption

LEMMA ServeOne ==
  ASSUME NEW c \in Conns, stack[c] = None, Served' = Served \cup {c}
  PROVE  Cardinality(Served') = Cardinality(Served) + 1
BY ServedFinite, FS_AddElement DEF Served

LEMMA ServeOneLess ==
  ASSUME NEW c \in Conns, stack[c] # None, Served' = Served \ {c}
  PROVE  Cardinality(Served') = Cardinality(Served) - 1
BY ServedFinite, FS_RemoveElement DEF Served

LEMMA ListenerSlots ==
  ASSUME TypeOK, StacksOwned, SlotsAccounted, Listener
  PROVE  /\ ConnTypes' /\ GatewayTypes' /\ StacksOwned' /\ SlotsAccounted'
<1> USE MessagingAssumption
<1>0. /\ ConnTypes /\ GatewayTypes
      /\ answer' = answer /\ gw_running' = gw_running
  BY ListenerFrame DEF TypeOK
<1>1. ASSUME UNCHANGED <<conn, stack>>,
             slots' = slots + (Share - Share'), slots' \in Nat,
             listener' \in {"loop", "sem_wait", "has_slot", "accept", "exited"}
      PROVE  ConnTypes' /\ GatewayTypes' /\ StacksOwned' /\ SlotsAccounted'
  <2>1. Served' = Served
    BY <1>1 DEF Served
  <2>2. ConnTypes' /\ StacksOwned'
    BY <1>0, <1>1 DEF ConnTypes, StacksOwned
  <2>3. SlotsAccounted'
    BY <1>0, <1>1, <2>1, SlotsSum, ServedFinite DEF GatewayTypes
  <2>4. GatewayTypes'
    BY <1>0, <1>1, <2>3, SlotsSum DEF GatewayTypes
  <2> QED BY <2>2, <2>3, <2>4
<1>2. CASE ListenerLoop \/ ListenerSemWait \/ ListenerRecheck
           \/ ListenerAcceptFails
  <2>1. UNCHANGED <<conn, stack>>
    BY <1>2 DEF ListenerLoop, ListenerSemWait, ListenerRecheck,
                ListenerAcceptFails, connVars
  <2>2. /\ slots' = slots + (Share - Share') /\ slots' \in Nat
        /\ listener' \in {"loop", "sem_wait", "has_slot", "accept", "exited"}
    BY <1>0, <1>2 DEF ListenerLoop, ListenerSemWait, ListenerRecheck,
                ListenerAcceptFails, Share, GatewayTypes
  <2> QED BY <1>1, <2>1, <2>2
<1>3. ASSUME NEW c \in Conns, NEW s \in Stacks, ListenerSpawn(c, s)
      PROVE  ConnTypes' /\ GatewayTypes' /\ StacksOwned' /\ SlotsAccounted'
  <2>1. ConnTypes' /\ StacksOwned'
    BY <1>0, <1>3 DEF ListenerSpawn, ConnTypes, StacksOwned
  <2>2. stack[c] = None /\ Served' = Served \cup {c}
    BY <1>0, <1>3 DEF ListenerSpawn, ConnTypes, StacksOwned, Served
  <2>3. Cardinality(Served') = Cardinality(Served) + 1
    BY <2>2, ServeOne
  <2>4. Share = 1 /\ Share' = 0 /\ slots' = slots /\ listener' = "loop"
    BY <1>3 DEF ListenerSpawn, Share
  <2>5. SlotsAccounted'
    BY <1>0, SlotsSum, ServedFinite, <2>3, <2>4 DEF GatewayTypes
  <2> QED BY <1>0, <2>1, <2>4, <2>5 DEF GatewayTypes
<1>4. ASSUME NEW c \in Conns, ListenerSpawnFails(c)
      PROVE  ConnTypes' /\ GatewayTypes' /\ StacksOwned' /\ SlotsAccounted'
  <2>1. ConnTypes' /\ StacksOwned' /\ Served' = Served
    BY <1>0, <1>4 DEF ListenerSpawnFails, ConnTypes, StacksOwned, Served
  <2>2. slots' = slots + 1 /\ Share = 1 /\ Share' = 0 /\ listener' = "loop"
    BY <1>4 DEF ListenerSpawnFails, Share
  <2>3. SlotsAccounted'
    BY <1>0, SlotsSum, ServedFinite, <2>1, <2>2 DEF GatewayTypes
  <2>4. GatewayTypes'
    BY <1>0, <2>2, <2>3, SlotsSum DEF GatewayTypes
  <2> QED BY <2>1, <2>3, <2>4
<1> QED BY <1>2, <1>3, <1>4 DEF Listener

\* A thread gives its slot back when it ends, and only then.
LEMMA ConnSlots ==
  ASSUME TypeOK, StacksOwned, SlotsAccounted, NEW c \in Conns, Conn(c)
  PROVE  /\ conn' \in [Conns -> {"none", "serving", "publish", "waiting", "gone"}]
         /\ stack' \in [Conns -> Stacks \cup {None}]
         /\ GatewayTypes' /\ StacksOwned' /\ SlotsAccounted'
<1> USE MessagingAssumption
<1>0. ConnTypes /\ GatewayTypes /\ listener' = listener /\ gw_running' = gw_running
  BY ConnFrame DEF TypeOK
<1>1. Share' = Share
  BY <1>0 DEF Share
<1>2. CASE ConnChat(c) \/ ConnPublish(c) \/ ConnPublishFreed(c)
  <2>1. slots' = slots /\ Served' = Served
    BY <1>2 DEF ConnChat, ConnPublish, ConnPublishFreed, gwVars, Served
  <2>2. StacksOwned'
        /\ conn' \in [Conns -> {"none", "serving", "publish", "waiting", "gone"}]
        /\ stack' = stack
    BY <1>0, <1>2 DEF ConnChat, ConnPublish, ConnPublishFreed, StacksOwned,
                      ConnTypes
  <2>3. GatewayTypes' /\ SlotsAccounted'
    BY <1>0, <1>1, SlotsSum, ServedFinite, <2>1 DEF GatewayTypes
  <2> QED BY <1>0, <2>2, <2>3 DEF ConnTypes
<1>3. CASE ConnOther(c) \/ ConnReply(c)
  <2>1. ConnEnd(c) /\ stack[c] # None
    BY <1>0, <1>3 DEF ConnOther, ConnReply, StacksOwned
  <2>2. StacksOwned' /\ Served' = Served \ {c} /\ slots' = slots + 1
        /\ conn' \in [Conns -> {"none", "serving", "publish", "waiting", "gone"}]
        /\ stack' \in [Conns -> Stacks \cup {None}]
    BY <1>0, <2>1 DEF ConnEnd, StacksOwned, ConnTypes, Served
  <2>3. Cardinality(Served') = Cardinality(Served) - 1
    BY <2>1, <2>2, ServeOneLess
  <2>4. SlotsAccounted'
    BY <1>0, <1>1, SlotsSum, ServedFinite, <2>2, <2>3 DEF GatewayTypes
  <2>5. GatewayTypes'
    BY <1>0, <2>2, <2>4, SlotsSum DEF GatewayTypes
  <2> QED BY <2>2, <2>4, <2>5
<1> QED BY <1>2, <1>3 DEF Conn

----------------------------------------------------------------------------
(* Types *)

LEMMA StoreTypes ==
  ASSUME BusTypes, NEW q \in Queues, NEW m \in Messages,
         Store(q, m) \/ Refused(q)
  PROVE  BusTypes'
<1>1. CASE Store(q, m)
  <2>1. Append(queue[q], m) \in Seq(Messages)
        /\ Len(Append(queue[q], m)) = Len(queue[q]) + 1
    BY DEF BusTypes
  <2> QED BY <1>1, <2>1, MessagingAssumption DEF Store, BusTypes
<1>2. CASE Refused(q)
  BY <1>2 DEF Refused, BusTypes, busVars
<1> QED BY <1>1, <1>2

LEMMA TakeTypes ==
  ASSUME BusTypes, NEW q \in Queues, Take(q)
  PROVE  BusTypes' /\ Head(queue[q]) \in Messages
<1>1. queue[q] \in Seq(Messages) /\ queue[q] # <<>>
  BY DEF Take, BusTypes
<1>2. /\ Tail(queue[q]) \in Seq(Messages) /\ Head(queue[q]) \in Messages
      /\ Len(Tail(queue[q])) = Len(queue[q]) - 1 /\ Len(queue[q]) \in Nat
  BY <1>1
<1> QED BY <1>2, MessagingAssumption DEF Take, BusTypes

LEMMA MessageTypes ==
  /\ \A c \in Conns, s \in Stacks : Msg("http", c, s) \in Messages
  /\ \A n \in 1..MaxAsks : Msg("cli", <<"cli", n>>, MainStack) \in Messages
  /\ \A b \in Background, n \in 1..MaxBeats : Msg(b, <<b, n>>, None) \in Messages
<1>1. \A n \in 1..MaxAsks : n \in 1..(MaxAsks + MaxBeats)
  BY MessagingAssumption
<1>2. \A n \in 1..MaxBeats : n \in 1..(MaxAsks + MaxBeats)
  BY MessagingAssumption
<1>3. /\ \A n \in 1..MaxAsks : <<"cli", n>> \in Ids
      /\ \A b \in Background, n \in 1..MaxBeats : <<b, n>> \in Ids
  BY <1>1, <1>2 DEF Ids
<1> QED BY <1>3 DEF Msg, Messages, Ids

LEMMA ConnKeepsTypes ==
  ASSUME TypeOK, Holding, StacksOwned, SlotsAccounted, NEW c \in Conns, Conn(c)
  PROVE  TypeOK' /\ Holding' /\ StacksOwned' /\ SlotsAccounted'
<1>1. /\ conn' \in [Conns -> {"none", "serving", "publish", "waiting", "gone"}]
      /\ stack' \in [Conns -> Stacks \cup {None}]
      /\ GatewayTypes' /\ StacksOwned' /\ SlotsAccounted'
  BY ConnSlots
<1>2. ThreadTypes' /\ BackgroundTypes' /\ Holding'
  BY ConnFrame DEF TypeOK, ThreadTypes, BackgroundTypes, Holding, workerVars,
                   dispVars, bgVars, mainVars
<1>3. stack[c] \in Stacks
  BY DEF TypeOK, ConnTypes, StacksOwned, Conn, ConnOther, ConnChat, ConnPublish,
         ConnPublishFreed, ConnReply
<1>4. BusTypes'
  <2>1. CASE ConnPublish(c)
    BY <1>3, <2>1, MessageTypes, StoreTypes DEF ConnPublish, TypeOK, Queues
  <2>2. CASE ~ConnPublish(c)
    BY <2>2 DEF Conn, ConnOther, ConnChat, ConnPublishFreed, ConnReply, TypeOK,
                BusTypes, busVars
  <2> QED BY <2>1, <2>2
<1>5. PairTypes' /\ answer' \in [Conns -> Ids \cup {None}]
  <2>1. CASE ConnChat(c)
    BY <1>3, <2>1 DEF ConnChat, response_pair_init, TypeOK, PairTypes, ConnTypes
  <2>2. CASE ConnReply(c)
    BY <1>3, <2>2 DEF ConnReply, response_pair_wait, TypeOK, PairTypes, ConnTypes
  <2>3. CASE ~ConnChat(c) /\ ~ConnReply(c)
    BY <2>3 DEF Conn, ConnOther, ConnPublish, ConnPublishFreed, TypeOK,
                PairTypes, ConnTypes
  <2> QED BY <2>1, <2>2, <2>3
<1>6. MainTypes'
  <2>1. touched' \subseteq freed
    BY DEF Conn, ConnOther, ConnChat, ConnPublish, ConnPublishFreed, ConnReply,
           ConnEnd, Touch, TypeOK, MainTypes, memory
  <2> QED BY <2>1, ConnFrame DEF TypeOK, MainTypes, mainVars
<1> QED BY <1>1, <1>2, <1>4, <1>5, <1>6 DEF TypeOK, ConnTypes

LEMMA WorkerKeepsTypes ==
  ASSUME TypeOK, Holding, Worker
  PROVE  TypeOK' /\ Holding'
<1>1. ConnTypes' /\ GatewayTypes' /\ BackgroundTypes' /\ MainTypes'
  BY WorkerFrame DEF TypeOK, ConnTypes, GatewayTypes, BackgroundTypes,
                     MainTypes, connVars, gwVars, bgVars, mainVars, memory
<1>2. UNCHANGED <<dispVars, bgVars, mainVars, worker_running>>
  BY WorkerFrame
<1>3. CASE WorkerLoop \/ WorkerNull
  BY <1>1, <1>2, <1>3 DEF WorkerLoop, WorkerNull, TypeOK, BusTypes, PairTypes,
         ThreadTypes, Holding, busVars, dispVars, bgVars, mainVars
<1>4. CASE WorkerConsume
  <2>1. BusTypes' /\ worker_msg' \in Messages
    BY <1>4, TakeTypes DEF WorkerConsume, TypeOK, Queues
  <2> QED BY <1>1, <1>2, <1>4, <2>1 DEF WorkerConsume, TypeOK, PairTypes,
             ThreadTypes, Holding, dispVars, bgVars, mainVars
<1>5. CASE WorkerDeliver
  <2>1. worker_msg \in Messages
    BY <1>5 DEF WorkerDeliver, Holding
  <2>2. worker_msg.rp \in Stacks \cup {MainStack} /\ worker_msg.id \in Ids
    BY <1>5, <2>1 DEF Messages, WorkerDeliver
  <2>3. PairTypes'
    BY <1>5, <2>2 DEF WorkerDeliver, response_pair_deliver, TypeOK, PairTypes
  <2> QED BY <1>1, <1>2, <1>5, <2>3 DEF WorkerDeliver, TypeOK, BusTypes,
             ThreadTypes, Holding, busVars, dispVars, bgVars, mainVars
<1>6. CASE WorkerPublish
  <2>1. worker_msg \in Messages
    BY <1>6 DEF WorkerPublish, Holding
  <2>2. BusTypes'
    BY <1>6, <2>1, StoreTypes DEF WorkerPublish, TypeOK, Queues
  <2> QED BY <1>1, <1>2, <1>6, <2>2 DEF WorkerPublish, TypeOK, PairTypes,
             ThreadTypes, Holding, dispVars, bgVars, mainVars
<1> QED BY <1>3, <1>4, <1>5, <1>6 DEF Worker

LEMMA DispatcherKeepsTypes ==
  ASSUME TypeOK, Holding, Dispatcher
  PROVE  TypeOK' /\ Holding'
<1>1. PairTypes' /\ ConnTypes' /\ GatewayTypes' /\ BackgroundTypes' /\ MainTypes'
  BY DispatcherFrame DEF TypeOK, PairTypes, ConnTypes, GatewayTypes,
       BackgroundTypes, MainTypes, connVars, gwVars, bgVars, mainVars, memory
<1>2. UNCHANGED <<workerVars, bgVars, mainVars>>
  BY DispatcherFrame
<1>3. CASE DispatcherConsume
  <2>1. BusTypes' /\ dispatcher_msg' \in Messages
    BY <1>3, TakeTypes DEF DispatcherConsume, TypeOK, Queues
  <2> QED BY <1>1, <1>2, <1>3, <2>1 DEF DispatcherConsume, TypeOK,
             ThreadTypes, Holding, workerVars, bgVars, mainVars
<1>4. CASE DispatcherNull
  BY <1>1, <1>2, <1>4 DEF DispatcherNull, TypeOK, BusTypes, ThreadTypes,
         Holding, busVars, workerVars, bgVars, mainVars
<1>5. CASE DispatcherSend
  <2>1. dispatcher_msg \in Messages
    BY <1>5 DEF DispatcherSend, Holding
  <2>2. dispatcher_msg.id \in Ids
    BY <2>1 DEF Messages
  <2> QED BY <1>1, <1>2, <1>5, <2>2 DEF DispatcherSend, TypeOK, BusTypes,
             ThreadTypes, Holding, busVars, workerVars, bgVars, mainVars
<1> QED BY <1>3, <1>4, <1>5 DEF Dispatcher

LEMMA BackgroundKeepsTypes ==
  ASSUME TypeOK, Holding, NEW b \in Background, BackgroundStep(b)
  PROVE  TypeOK' /\ Holding'
<1>1. PairTypes' /\ ConnTypes' /\ GatewayTypes' /\ ThreadTypes'
  BY BackgroundFrame DEF TypeOK, PairTypes, ConnTypes, GatewayTypes,
       ThreadTypes, connVars, gwVars, workerVars, dispVars
<1>2. BusTypes'
  <2>1. CASE BackgroundPublish(b)
    <3>1. beats[b] \in 1..MaxBeats
      BY <2>1, MessagingAssumption DEF BackgroundPublish, Holding, TypeOK,
                                       BackgroundTypes
    <3> QED BY <2>1, <3>1, MessageTypes, StoreTypes
            DEF BackgroundPublish, TypeOK, Queues
  <2>2. CASE ~BackgroundPublish(b)
    BY <2>2 DEF BackgroundStep, BackgroundLoop, BackgroundWake, BackgroundIdle,
         BackgroundInject, BackgroundPublishFreed, TypeOK, BusTypes, busVars
  <2> QED BY <2>1, <2>2
<1>3. MainTypes'
  <2>1. touched' \subseteq freed
    BY DEF BackgroundStep, BackgroundLoop, BackgroundWake, BackgroundIdle,
           BackgroundInject, BackgroundPublish, BackgroundPublishFreed, Touch,
           TypeOK, MainTypes, memory
  <2> QED BY <2>1, BackgroundFrame DEF TypeOK, MainTypes, mainVars
<1>4. BackgroundTypes' /\ Holding'
  BY BackgroundFrame, MessagingAssumption DEF BackgroundStep, BackgroundLoop,
     BackgroundWake, BackgroundIdle, BackgroundInject, BackgroundPublish,
     BackgroundPublishFreed, TypeOK, BackgroundTypes, Holding, workerVars,
     dispVars, mainVars
<1> QED BY <1>1, <1>2, <1>3, <1>4 DEF TypeOK

LEMMA ReplKeepsTypes ==
  ASSUME TypeOK, Holding, Repl
  PROVE  TypeOK' /\ Holding'
<1>1. ConnTypes' /\ GatewayTypes' /\ ThreadTypes' /\ BackgroundTypes'
  BY ReplFrame DEF TypeOK, ConnTypes, GatewayTypes, ThreadTypes,
       BackgroundTypes, connVars, gwVars, workerVars, dispVars, bgVars
<1>2. BusTypes'
  <2>1. CASE CliPublish
    <3>1. asks \in 1..MaxAsks
      BY <2>1, MessagingAssumption DEF CliPublish, Holding, TypeOK, MainTypes
    <3> QED BY <2>1, <3>1, MessageTypes, StoreTypes DEF CliPublish, TypeOK, Queues
  <2>2. CASE ~CliPublish
    BY <2>2 DEF Repl, CliAsk, CliReply, CliQuit, HeadlessTest, HeadlessPause,
                sig_term, TypeOK, BusTypes, busVars
  <2> QED BY <2>1, <2>2
<1>3. PairTypes'
  <2>1. CASE CliAsk
    BY <2>1 DEF CliAsk, response_pair_init, TypeOK, PairTypes
  <2>2. CASE CliReply
    BY <2>2 DEF CliReply, response_pair_wait, TypeOK, PairTypes
  <2>3. CASE ~CliAsk /\ ~CliReply
    BY <2>3 DEF Repl, CliPublish, CliQuit, HeadlessTest, HeadlessPause,
                sig_term, TypeOK, PairTypes
  <2> QED BY <2>1, <2>2, <2>3
<1>4. MainTypes'
  <2>1. UNCHANGED <<todo, freed, touched>> /\ MainTypes
    BY ReplFrame DEF memory, TypeOK
  <2>2. CASE CliAsk
    BY <2>1, <2>2, MessagingAssumption DEF CliAsk, MainTypes
  <2>3. CASE CliPublish \/ CliReply \/ CliQuit
    BY <2>1, <2>3 DEF CliPublish, CliReply, CliQuit, MainTypes
  <2>4. CASE HeadlessTest \/ HeadlessPause \/ sig_term
    BY <2>1, <2>4 DEF HeadlessTest, HeadlessPause, sig_term, MainTypes
  <2> QED BY <2>2, <2>3, <2>4 DEF Repl
<1>5. Holding'
  BY ReplFrame, MessagingAssumption DEF Repl, CliAsk, CliPublish, CliReply,
     CliQuit, HeadlessTest, HeadlessPause, sig_term, Holding, TypeOK, MainTypes,
     workerVars, dispVars, bgVars
<1> QED BY <1>1, <1>2, <1>3, <1>4, <1>5 DEF TypeOK

LEMMA CleanupKeepsTypes ==
  ASSUME TypeOK, Holding, Cleanup
  PROVE  TypeOK' /\ Holding'
<1> USE DEF Cleanup, StopWorker, ShutdownBus, BroadcastBus, JoinWorker,
       JoinDispatcher, StopBackground, JoinBackground, DestroyBus, StopGateway,
       CloseSocket, JoinListener, Exit, Begin, Step, Finish
<1>1. PairTypes' /\ ConnTypes'
  BY CleanupFrame DEF TypeOK, PairTypes, ConnTypes, connVars
<1>2. BusTypes'
  <2>1. CASE ShutdownBus \/ BroadcastBus
    BY <2>1 DEF TypeOK, BusTypes, Queues
  <2>2. CASE DestroyBus
    BY <2>2, MessagingAssumption DEF TypeOK, BusTypes
  <2>3. CASE ~(ShutdownBus \/ BroadcastBus \/ DestroyBus)
    <3>1. UNCHANGED <<queue, phase>>
      BY <2>3 DEF busVars
    <3> QED BY <3>1 DEF TypeOK, BusTypes
  <2> QED BY <2>1, <2>2, <2>3
<1>3. GatewayTypes' /\ ThreadTypes'
  BY CleanupFrame DEF TypeOK, GatewayTypes, ThreadTypes, gwVars, workerVars,
                      dispVars
<1>4. BackgroundTypes'
  BY CleanupFrame DEF TypeOK, BackgroundTypes, bgVars
<1>5. MainTypes'
  BY DEF TypeOK, MainTypes, memory
<1>6. Holding'
  BY CleanupFrame DEF Holding, dispVars
<1> QED BY <1>1, <1>2, <1>3, <1>4, <1>5, <1>6 DEF TypeOK

----------------------------------------------------------------------------
(* Pairs *)

Inbound == queue["inbound"]

LEMMA InboundSeq ==
  ASSUME TypeOK
  PROVE  Inbound \in Seq(Messages) /\ DOMAIN Inbound = 1..Len(Inbound)
BY DEF TypeOK, BusTypes, Queues, Inbound

LEMMA InboundStore ==
  ASSUME TypeOK, NEW m \in Messages, Store("inbound", m)
  PROVE  /\ DOMAIN Inbound' = DOMAIN Inbound \cup {Len(Inbound) + 1}
         /\ Len(Inbound) + 1 \notin DOMAIN Inbound
         /\ Inbound'[Len(Inbound) + 1] = m
         /\ \A k \in DOMAIN Inbound : Inbound'[k] = Inbound[k]
<1>1. Inbound' = Append(Inbound, m)
  BY DEF Store, TypeOK, BusTypes, Queues, Inbound
<1> HIDE DEF Inbound
<1> QED BY <1>1, InboundSeq

LEMMA InboundTake ==
  ASSUME TypeOK, Take("inbound")
  PROVE  /\ 1 \in DOMAIN Inbound /\ Head(Inbound) = Inbound[1]
         /\ \A k \in DOMAIN Inbound' : /\ k + 1 \in DOMAIN Inbound /\ k \in Nat
                                       /\ k + 1 # 1
                                       /\ Inbound'[k] = Inbound[k + 1]
<1>1. Inbound' = Tail(Inbound) /\ Inbound # <<>>
  BY DEF Take, TypeOK, BusTypes, Queues, Inbound
<1> HIDE DEF Inbound
<1> QED BY <1>1, InboundSeq

LEMMA InboundOther ==
  ASSUME TypeOK, NEW m, Store("outbound", m) \/ Take("outbound")
                          \/ UNCHANGED busVars
  PROVE  Inbound' = Inbound
BY DEF Store, Take, TypeOK, BusTypes, Queues, Inbound, busVars

\* A request in sight names a pair of its own, on a stack of a caller that is
\* neither ending nor starting a call.
LEMMA AwaitedStack ==
  ASSUME TypeOK, StacksOwned, NEW m \in Messages, m.rp # None, Awaited(m)
  PROVE  /\ m.rp \in Stacks \cup {MainStack}
         /\ m.rp = MainStack => main = "cli_wait"
         /\ \A c \in Conns : stack[c] = m.rp => c = m.id /\ conn[c] = "waiting"
<1>1. m.rp \in Stacks \cup {MainStack}
  BY DEF Messages
<1>2. \A c \in Conns : stack[c] \in Stacks \cup {None}
  BY DEF TypeOK, ConnTypes
<1> QED BY <1>1, <1>2, MessagingAssumption DEF Awaited, StacksOwned

\* Steps that leave the pairs and the requests alone.
LEMMA PairsFrame ==
  ASSUME PairsAwaited,
         UNCHANGED <<pair, conn, stack>>, Inbound' = Inbound,
         UNCHANGED <<worker, worker_msg>>
         \/ (worker # "turn" /\ worker' # "turn")
         \/ (worker = "turn" /\ worker_msg.rp = None /\ worker' # "turn"),
         main' = main \/ (/\ main \notin {"cli_publish", "cli_wait"}
                          /\ main' \notin {"cli_publish", "cli_wait"})
  PROVE  PairsAwaited'
BY DEF PairsAwaited, Awaited, Inbound, Caller

LEMMA ListenerPairs ==
  ASSUME TypeOK, StacksOwned, PairsAwaited, Listener
  PROVE  PairsAwaited'
<1>0. UNCHANGED <<queue, pair, worker, worker_msg, main>> /\ Inbound' = Inbound
  BY ListenerFrame DEF workerVars, mainVars, Inbound
<1>1. CASE UNCHANGED <<conn, stack>>
  BY <1>0, <1>1, PairsFrame
<1>2. ASSUME NEW c \in Conns, conn[c] = "none",
             \A d \in Conns \ {c} : conn'[d] = conn[d] /\ stack'[d] = stack[d],
             conn'[c] \in {"serving", "gone"}
      PROVE  PairsAwaited'
  BY <1>0, <1>2 DEF PairsAwaited, Awaited, Caller, Inbound
<1>3. \/ UNCHANGED <<conn, stack>>
      \/ \E c \in Conns :
             /\ conn[c] = "none" /\ conn'[c] \in {"serving", "gone"}
             /\ \A d \in Conns \ {c} : conn'[d] = conn[d] /\ stack'[d] = stack[d]
  BY DEF Listener, ListenerLoop, ListenerSemWait, ListenerRecheck,
         ListenerAcceptFails, ListenerSpawn, ListenerSpawnFails, connVars,
         TypeOK, ConnTypes
<1> QED BY <1>1, <1>2, <1>3

LEMMA ConnPairs ==
  ASSUME TypeOK, Holding, StacksOwned, PairsAwaited, NEW c \in Conns, Conn(c)
  PROVE  PairsAwaited'
<1>0. /\ UNCHANGED <<worker, worker_msg, main>>
      /\ stack[c] \in Stacks /\ stack[c] # MainStack
      /\ conn[c] \in {"serving", "publish", "waiting"}
      /\ \A d \in Conns : stack[d] = stack[c] => d = c
  BY ConnFrame, MessagingAssumption DEF workerVars, mainVars, TypeOK, ConnTypes,
       StacksOwned, Conn, ConnOther, ConnChat, ConnPublish, ConnPublishFreed,
       ConnReply
<1>1. /\ \A d \in Conns \ {c} : conn'[d] = conn[d] /\ stack'[d] = stack[d]
      /\ conn'[c] \in {"publish", "waiting", "gone"}
      /\ conn'[c] # "gone" => stack'[c] = stack[c]
  BY DEF Conn, ConnOther, ConnChat, ConnPublish, ConnPublishFreed, ConnReply,
         ConnEnd, TypeOK, ConnTypes
<1>2. /\ \A k \in DOMAIN Inbound : Inbound[k] \in Messages
      /\ worker = "turn" => worker_msg \in Messages
      /\ worker = "turn" /\ worker_msg.rp # None => Awaited(worker_msg)
      /\ \A k \in DOMAIN Inbound : Inbound[k].rp # None => Awaited(Inbound[k])
  BY InboundSeq DEF PairsAwaited, Inbound, Holding
<1>3. \A s \in (Stacks \cup {MainStack}) \ {stack[c]} : pair'[s] = pair[s]
  BY DEF Conn, ConnOther, ConnChat, ConnPublish, ConnPublishFreed, ConnReply,
         response_pair_init, response_pair_wait, TypeOK, PairTypes
\* No request names the pair of c, which has not published or is answered.
<1>4. /\ \A k \in DOMAIN Inbound : Inbound[k].rp # stack[c]
      /\ worker = "turn" => worker_msg.rp # stack[c]
  <2>1. conn[c] = "waiting" => pair[stack[c]].done
    BY DEF Conn, ConnOther, ConnChat, ConnPublish, ConnPublishFreed, ConnReply,
           response_pair_wait
  <2>2. ASSUME NEW m \in Messages, m.rp = stack[c], Awaited(m) PROVE FALSE
    <3>1. conn[c] = "waiting"
      BY <1>0, <2>2, AwaitedStack, MessagingAssumption
    <3> QED BY <2>1, <2>2, <3>1 DEF Awaited
  <2> QED BY <1>0, <1>2, <2>2, MessagingAssumption
<1>5. /\ conn'[c] = "publish" => pair'[stack[c]].owner = c
      /\ conn'[c] = "waiting" => pair'[stack[c]].owner = c
      /\ conn'[c] # "gone" => ~pair'[stack[c]].done
  <2>1. CASE ConnChat(c)
    BY <1>0, <2>1 DEF ConnChat, response_pair_init, TypeOK, PairTypes
  <2>2. CASE ConnPublish(c) \/ ConnPublishFreed(c)
    BY <2>2 DEF ConnPublish, ConnPublishFreed, PairsAwaited
  <2>3. CASE ConnOther(c) \/ ConnReply(c)
    BY <2>3 DEF ConnOther, ConnReply, ConnEnd, TypeOK, ConnTypes
  <2> QED BY <2>1, <2>2, <2>3 DEF Conn
\* An awaited request stays so, being one of another caller.
<1>6. ASSUME NEW m \in Messages, m.rp # None, Awaited(m), m.rp # stack[c]
      PROVE  /\ ~pair'[m.rp].done /\ pair'[m.rp].owner = Caller(m)
             /\ \/ m.channel = "cli" /\ m.rp = MainStack /\ main' = "cli_wait"
                \/ /\ m.channel = "http" /\ m.id \in Conns
                   /\ m.rp = stack'[m.id] /\ conn'[m.id] = "waiting"
  <2>1. m.rp \in Stacks \cup {MainStack}
    BY <1>6, AwaitedStack
  <2> QED BY <1>0, <1>1, <1>3, <1>6, <2>1 DEF Awaited
<1>7. \A d \in Conns :
        /\ conn'[d] = "publish" =>
             pair'[stack'[d]].owner = d /\ ~pair'[stack'[d]].done
        /\ conn'[d] = "waiting" /\ pair'[stack'[d]].done =>
             pair'[stack'[d]].response = d
  <2>1. \A d \in Conns \ {c} : conn[d] \in {"publish", "waiting"} =>
            stack[d] \in Stacks /\ stack[d] # stack[c]
    BY <1>0, MessagingAssumption DEF StacksOwned, TypeOK, ConnTypes
  <2> QED BY <1>1, <1>3, <1>5, <2>1 DEF PairsAwaited
<1>8. main' = "cli_publish" =>
        pair'[MainStack].owner = "cli" /\ ~pair'[MainStack].done
  BY <1>0, <1>3 DEF PairsAwaited
<1>9. CASE Inbound' = Inbound
  BY <1>0, <1>2, <1>4, <1>6, <1>7, <1>8, <1>9
     DEF PairsAwaited, Awaited, Caller, Inbound
<1>10. CASE Inbound' # Inbound
  <2> DEFINE m == Msg("http", c, stack[c])
             n == Len(Inbound) + 1
  <2>1. Store("inbound", m) /\ conn'[c] = "waiting" /\ stack'[c] = stack[c]
    BY <1>1, <1>10 DEF Conn, ConnOther, ConnChat, ConnPublish, ConnPublishFreed,
                 ConnReply, Refused, busVars, Inbound, TypeOK, ConnTypes
  <2>2. m \in Messages /\ m.rp = stack[c] /\ m.channel = "http" /\ m.id = c
    BY <1>0, MessageTypes DEF Msg
  <2> HIDE DEF m
  <2>3. /\ DOMAIN Inbound' = DOMAIN Inbound \cup {n} /\ n \notin DOMAIN Inbound
        /\ Inbound'[n] = m
        /\ \A k \in DOMAIN Inbound : Inbound'[k] = Inbound[k]
    BY <2>1, <2>2, InboundStore
  <2> HIDE DEF n
  <2>4. ~pair'[m.rp].done /\ pair'[m.rp].owner = c
    BY <1>5, <2>1, <2>2
  <2>5. \A k \in DOMAIN Inbound' : Inbound'[k].rp # None =>
          /\ ~pair'[Inbound'[k].rp].done
          /\ pair'[Inbound'[k].rp].owner = Caller(Inbound'[k])
          /\ \/ /\ Inbound'[k].channel = "cli" /\ Inbound'[k].rp = MainStack
                /\ main' = "cli_wait"
             \/ /\ Inbound'[k].channel = "http" /\ Inbound'[k].id \in Conns
                /\ Inbound'[k].rp = stack'[Inbound'[k].id]
                /\ conn'[Inbound'[k].id] = "waiting"
    <3>1. ASSUME NEW k \in DOMAIN Inbound, Inbound[k].rp # None
          PROVE  Inbound[k] \in Messages /\ Awaited(Inbound[k])
                   /\ Inbound[k].rp # stack[c] /\ Inbound'[k] = Inbound[k]
      BY <1>2, <1>4, <2>3, <3>1
    <3>2. Caller(m) = c
      BY <2>2 DEF Caller
    <3> QED BY <1>6, <2>1, <2>2, <2>3, <2>4, <3>1, <3>2
  <2>6. \A j, k \in DOMAIN Inbound' :
          Inbound'[j].rp # None /\ Inbound'[j].rp = Inbound'[k].rp => j = k
    BY <1>4, <2>2, <2>3 DEF PairsAwaited, Inbound
  <2>7. worker' = "turn" /\ worker_msg'.rp # None =>
          \A k \in DOMAIN Inbound' : Inbound'[k].rp # worker_msg'.rp
    BY <1>0, <1>4, <2>2, <2>3 DEF PairsAwaited, Inbound
  <2>8. worker' = "turn" /\ worker_msg'.rp # None => Awaited(worker_msg)'
    BY <1>0, <1>2, <1>4, <1>6 DEF Awaited, Caller
  <2> QED BY <1>7, <1>8, <2>5, <2>6, <2>7, <2>8
         DEF PairsAwaited, Awaited, Caller, Inbound
<1> QED BY <1>9, <1>10

LEMMA WorkerPairs ==
  ASSUME TypeOK, Holding, StacksOwned, PairsAwaited, Worker
  PROVE  PairsAwaited'
<1>0. UNCHANGED <<conn, stack, main>>
  BY WorkerFrame DEF connVars, mainVars
<1>1. CASE WorkerLoop \/ WorkerNull
  BY <1>0, <1>1, PairsFrame DEF WorkerLoop, WorkerNull, busVars, Inbound
<1>2. CASE WorkerPublish
  <2>1. Inbound' = Inbound
    BY <1>2, InboundOther DEF WorkerPublish, Refused
  <2> QED BY <1>0, <1>2, <2>1, PairsFrame DEF WorkerPublish
<1>3. CASE WorkerConsume
  <2>1. /\ worker_msg' = Inbound[1] /\ 1 \in DOMAIN Inbound
        /\ \A k \in DOMAIN Inbound' : /\ k + 1 \in DOMAIN Inbound /\ k \in Nat
                                      /\ k + 1 # 1
                                      /\ Inbound'[k] = Inbound[k + 1]
    BY <1>3, InboundTake DEF WorkerConsume, Inbound
  <2>2. \A j, k \in DOMAIN Inbound' : j + 1 = k + 1 => j = k
    BY <2>1
  <2>3. UNCHANGED <<pair, conn, stack, main>>
    BY <1>0, <1>3 DEF WorkerConsume
  <2> QED BY <2>1, <2>2, <2>3 DEF PairsAwaited, Awaited, Caller, Inbound
<1>4. CASE WorkerDeliver
  <2> DEFINE s == worker_msg.rp
  <2>1. /\ worker_msg \in Messages /\ s # None /\ Awaited(worker_msg)
        /\ Inbound' = Inbound /\ worker' = "loop"
    BY <1>4 DEF WorkerDeliver, Holding, PairsAwaited, busVars, Inbound
  <2>2. /\ s \in Stacks \cup {MainStack} /\ (s = MainStack => main = "cli_wait")
        /\ \A c \in Conns : stack[c] = s =>
             c = worker_msg.id /\ conn[c] = "waiting"
    BY <2>1, AwaitedStack
  <2>3. /\ pair'[s].response = worker_msg.id
        /\ \A r \in (Stacks \cup {MainStack}) \ {s} : pair'[r] = pair[r]
    BY <1>4, <2>2 DEF WorkerDeliver, response_pair_deliver, TypeOK, PairTypes
  <2>4. \A k \in DOMAIN Inbound : Inbound[k] \in Messages /\ Inbound[k].rp # s
    BY <1>4, <2>1, InboundSeq DEF WorkerDeliver, PairsAwaited, Inbound
  <2>5. ASSUME NEW m \in Messages, m.rp # s, m.rp # None, Awaited(m)
        PROVE  pair'[m.rp] = pair[m.rp]
    BY <2>3, <2>5 DEF Messages
  <2>6. \A c \in Conns : conn[c] \in {"publish", "waiting"} => stack[c] \in Stacks
    BY DEF TypeOK, ConnTypes, StacksOwned
  <2> HIDE DEF s
  <2>7. \A k \in DOMAIN Inbound : Inbound[k].rp # None =>
            Awaited(Inbound[k]) /\ pair'[Inbound[k].rp] = pair[Inbound[k].rp]
    BY <2>4, <2>5 DEF PairsAwaited, Inbound
  <2>8. \A c \in Conns :
          /\ conn[c] = "publish" =>
               pair'[stack[c]].owner = c /\ ~pair'[stack[c]].done
          /\ conn[c] = "waiting" /\ pair'[stack[c]].done =>
               pair'[stack[c]].response = c
    BY <2>2, <2>3, <2>6 DEF PairsAwaited
  <2>9. main = "cli_publish" =>
          pair'[MainStack].owner = "cli" /\ ~pair'[MainStack].done
    BY <2>2, <2>3 DEF PairsAwaited
  <2> QED BY <1>0, <2>1, <2>7, <2>8, <2>9
          DEF PairsAwaited, Awaited, Caller, Inbound
<1> QED BY <1>1, <1>2, <1>3, <1>4 DEF Worker

LEMMA DispatcherPairs ==
  ASSUME TypeOK, PairsAwaited, Dispatcher
  PROVE  PairsAwaited'
<1>1. UNCHANGED <<pair, conn, stack, worker, worker_msg, main>>
  BY DispatcherFrame DEF connVars, workerVars, mainVars
<1>2. Inbound' = Inbound
  BY InboundOther DEF Dispatcher, DispatcherConsume, DispatcherNull,
                      DispatcherSend
<1> QED BY <1>1, <1>2, PairsFrame

LEMMA BackgroundPairs ==
  ASSUME TypeOK, Holding, PairsAwaited, NEW b \in Background, BackgroundStep(b)
  PROVE  PairsAwaited'
<1>1. UNCHANGED <<pair, conn, stack, worker, worker_msg, main>>
  BY BackgroundFrame DEF connVars, workerVars, mainVars
<1>2. CASE Inbound' = Inbound
  BY <1>1, <1>2, PairsFrame
<1>3. CASE Inbound' # Inbound
  <2> DEFINE m == Msg(b, <<b, beats[b]>>, None)
             n == Len(Inbound) + 1
  <2>1. Store("inbound", m) /\ bg[b] = "publish"
    BY <1>3 DEF BackgroundStep, BackgroundLoop, BackgroundWake, BackgroundIdle,
         BackgroundInject, BackgroundPublish, BackgroundPublishFreed, Refused,
         busVars, Inbound
  <2>2. beats[b] \in 1..MaxBeats
    BY <2>1, MessagingAssumption DEF Holding, TypeOK, BackgroundTypes
  <2>3. m \in Messages /\ m.rp = None
    BY <2>2, MessageTypes DEF Msg
  <2> HIDE DEF m
  <2>4. /\ DOMAIN Inbound' = DOMAIN Inbound \cup {n} /\ n \notin DOMAIN Inbound
        /\ Inbound'[n] = m
        /\ \A k \in DOMAIN Inbound : Inbound'[k] = Inbound[k]
    BY <2>1, <2>3, InboundStore
  <2> HIDE DEF n
  <2> QED BY <1>1, <2>3, <2>4 DEF PairsAwaited, Awaited, Caller, Inbound
<1> QED BY <1>2, <1>3

LEMMA ReplPairs ==
  ASSUME TypeOK, Holding, StacksOwned, PairsAwaited, Repl
  PROVE  PairsAwaited'
<1>0. UNCHANGED <<conn, stack, worker, worker_msg>>
  BY ReplFrame DEF connVars, workerVars
<1>1. CASE CliQuit \/ HeadlessTest \/ HeadlessPause \/ sig_term
  <2>1. UNCHANGED <<pair, queue>> /\ Inbound' = Inbound
    BY <1>1 DEF CliQuit, HeadlessTest, HeadlessPause, sig_term, busVars, Inbound
  <2>2. /\ main \notin {"cli_publish", "cli_wait"}
        /\ main' \notin {"cli_publish", "cli_wait"}
    BY <1>1 DEF CliQuit, HeadlessTest, HeadlessPause, sig_term
  <2> QED BY <1>0, <2>1, <2>2, PairsFrame
\* The requests of connections do not name the main stack.
<1>2. /\ \A k \in DOMAIN Inbound : Inbound[k] \in Messages
      /\ worker = "turn" => worker_msg \in Messages
  BY InboundSeq DEF Holding
<1>3. ASSUME NEW m \in Messages, m.rp # None, Awaited(m),
             main # "cli_wait" \/ pair[MainStack].done
      PROVE  /\ m.rp \in Stacks /\ m.rp # MainStack /\ m.channel = "http"
             /\ m.id \in Conns /\ m.rp = stack[m.id] /\ conn[m.id] = "waiting"
  <2>1. /\ m.channel = "http" /\ m.id \in Conns
        /\ m.rp = stack[m.id] /\ conn[m.id] = "waiting"
    BY <1>3 DEF Awaited
  <2>2. stack[m.id] \in Stacks \cup {None}
    BY <2>1 DEF TypeOK, ConnTypes
  <2> QED BY <1>3, <2>1, <2>2, MessagingAssumption
<1>4. \A c \in Conns : conn[c] \in {"publish", "waiting"} =>
          stack[c] \in Stacks /\ stack[c] # MainStack
  BY MessagingAssumption DEF TypeOK, ConnTypes, StacksOwned
<1>5. CASE CliAsk \/ CliReply
  <2>1. /\ Inbound' = Inbound
        /\ main # "cli_wait" \/ pair[MainStack].done
        /\ \A s \in Stacks \ {MainStack} : pair'[s] = pair[s]
    BY <1>5 DEF CliAsk, CliReply, response_pair_init, response_pair_wait,
                busVars, Inbound, TypeOK, PairTypes
  <2>2. main' = "cli_publish" =>
          pair'[MainStack].owner = "cli" /\ ~pair'[MainStack].done
    BY <1>5 DEF CliAsk, CliReply, response_pair_init, TypeOK, PairTypes
  <2> QED BY <1>0, <1>2, <1>3, <1>4, <2>1, <2>2
          DEF PairsAwaited, Awaited, Caller, Inbound
<1>6. CASE CliPublish
  <2> DEFINE m == Msg("cli", <<"cli", asks>>, MainStack)
             n == Len(Inbound) + 1
  <2>1. /\ Store("inbound", m) /\ main = "cli_publish" /\ main' = "cli_wait"
        /\ pair' = pair
    BY <1>6 DEF CliPublish
  <2>2. asks \in 1..MaxAsks
    BY <2>1, MessagingAssumption DEF Holding, TypeOK, MainTypes
  <2>3. m \in Messages /\ m.rp = MainStack /\ m.channel = "cli"
    BY <2>2, MessageTypes DEF Msg
  <2> HIDE DEF m
  <2>4. /\ DOMAIN Inbound' = DOMAIN Inbound \cup {n} /\ n \notin DOMAIN Inbound
        /\ Inbound'[n] = m
        /\ \A k \in DOMAIN Inbound : Inbound'[k] = Inbound[k]
    BY <2>1, <2>3, InboundStore
  <2> HIDE DEF n
  <2>5. ~pair[MainStack].done /\ pair[MainStack].owner = "cli"
    BY <2>1 DEF PairsAwaited
  <2>6. /\ \A k \in DOMAIN Inbound : Inbound[k].rp # MainStack
        /\ worker = "turn" => worker_msg.rp # MainStack
    BY <1>2, <1>3, <2>1, MessagingAssumption DEF PairsAwaited, Inbound
  <2> QED BY <1>0, <2>1, <2>3, <2>4, <2>5, <2>6
          DEF PairsAwaited, Awaited, Caller, Inbound
<1> QED BY <1>1, <1>5, <1>6 DEF Repl

LEMMA CleanupPairs ==
  ASSUME TypeOK, PairsAwaited, Cleanup
  PROVE  PairsAwaited'
<1>1. /\ UNCHANGED <<pair, conn, stack, worker, worker_msg>>
  BY CleanupFrame DEF connVars
<1> USE DEF Cleanup, StopWorker, ShutdownBus, BroadcastBus, JoinWorker,
       JoinDispatcher, StopBackground, JoinBackground, DestroyBus, StopGateway,
       CloseSocket, JoinListener, Exit, Begin, Step, Finish
<1>2. /\ main \notin {"cli_publish", "cli_wait"}
      /\ main' \notin {"cli_publish", "cli_wait"}
  OBVIOUS
<1>3. CASE DestroyBus
  <2>1. Inbound' = <<>>
    BY <1>3 DEF Queues, Inbound
  <2>2. DOMAIN Inbound' = {}
    BY <2>1
  <2> QED BY <1>1, <1>2, <2>2 DEF PairsAwaited, Awaited, Caller, Inbound
<1>4. CASE ~DestroyBus
  <2>1. Inbound' = Inbound
    BY <1>4 DEF Inbound, busVars
  <2> QED BY <1>1, <1>2, <2>1, PairsFrame
<1> QED BY <1>3, <1>4

----------------------------------------------------------------------------
(* cleanup() *)

\* What comes before the bus is done with when the bus is.
LEMMA BusComesLate ==
  Upcoming("bus") => "worker" \notin todo /\ "email" \notin todo
                       /\ "whatsapp" \notin todo
<1> SUFFICES ASSUME Upcoming("bus")
             PROVE  "worker" \notin todo /\ "email" \notin todo
                      /\ "whatsapp" \notin todo
  OBVIOUS
<1>1. PICK k \in DOMAIN CleanupOrder :
        CleanupOrder[k] = "bus" /\ \A j \in 1..(k - 1) : CleanupOrder[j] \notin todo
  BY DEF Upcoming
<1>2. k = 4
  BY <1>1 DEF CleanupOrder
<1>3. 1 \in 1..(k - 1) /\ 2 \in 1..(k - 1) /\ 3 \in 1..(k - 1)
  BY <1>2
<1> QED BY <1>1, <1>3 DEF CleanupOrder

LEMMA TakenDownStep ==
  ASSUME TypeOK, TakenDown, [Next]_vars
  PROVE  TakenDown'
<1> USE DEF TakenDown
<1>1. CASE Listener
  BY <1>1, ListenerFrame DEF workerVars, dispVars, bgVars, mainVars, memory
<1>2. ASSUME NEW c \in Conns, Conn(c) PROVE TakenDown'
  BY <1>2, ConnFrame DEF workerVars, dispVars, bgVars, mainVars
<1>3. CASE Worker
  BY <1>3, WorkerFrame DEF Worker, WorkerLoop, WorkerConsume, WorkerNull,
       WorkerDeliver, WorkerPublish, dispVars, bgVars, mainVars, memory
<1>4. CASE Dispatcher
  BY <1>4, DispatcherFrame DEF Dispatcher, DispatcherConsume, DispatcherNull,
       DispatcherSend, workerVars, bgVars, mainVars, memory
<1>5. ASSUME NEW b \in Background, BackgroundStep(b) PROVE TakenDown'
  <2>1. bg[b] # "exited" /\ \A d \in Background \ {b} : bg'[d] = bg[d]
    BY <1>5 DEF BackgroundStep, BackgroundLoop, BackgroundWake, BackgroundIdle,
         BackgroundInject, BackgroundPublish, BackgroundPublishFreed, TypeOK,
         BackgroundTypes
  <2> QED BY <1>5, <2>1, BackgroundFrame DEF workerVars, dispVars, mainVars
<1>6. CASE Repl
  BY <1>6, ReplFrame DEF Repl, CliAsk, CliPublish, CliReply, CliQuit,
       HeadlessTest, HeadlessPause, sig_term, workerVars, dispVars, bgVars,
       memory
<1>7. CASE Cleanup
  <2>1. UNCHANGED <<worker, dispatcher, bg>>
    BY <1>7, CleanupFrame DEF dispVars
  <2>2. CASE DestroyBus
    BY <2>1, <2>2, BusComesLate DEF DestroyBus, Background
  <2>3. CASE JoinDispatcher
    BY <2>1, <2>3 DEF JoinDispatcher, Finish, Background, memory
  <2>4. ASSUME NEW b \in Background, JoinBackground(b) PROVE TakenDown'
    BY <2>1, <2>4 DEF JoinBackground, Finish, Background, memory
  <2>5. CASE JoinListener
    BY <2>1, <2>5 DEF JoinListener, Finish, Background
  <2>6. CASE JoinWorker
    BY <2>1, <2>6 DEF JoinWorker, Step, memory
  <2>7. CASE UNCHANGED <<todo, freed>> /\ main' # "join_dispatcher"
    BY <2>1, <2>7
  <2> QED BY <1>7, <2>2, <2>3, <2>4, <2>5, <2>6, <2>7 DEF Cleanup, StopWorker,
         ShutdownBus, BroadcastBus, StopBackground, StopGateway, CloseSocket,
         Exit, Begin, Step, memory
<1>8. CASE UNCHANGED vars
  BY <1>8 DEF vars, workerVars, dispVars, bgVars, mainVars, memory
<1> QED BY <1>1, <1>2, <1>3, <1>4, <1>5, <1>6, <1>7, <1>8, NextCases

----------------------------------------------------------------------------
(* The theorems *)

LEMMA InitIInv == Init => IInv
<1> SUFFICES ASSUME Init PROVE IInv
  OBVIOUS
<1>1. TypeOK
  <2>1. main \in {"test", "repl"}
    BY DEF Init
  <2>2. BusTypes
    BY MessagingAssumption DEF Init, BusTypes
  <2>3. PairTypes
    BY DEF Init, PairTypes, Dead
  <2>4. ConnTypes /\ GatewayTypes
    BY MessagingAssumption DEF Init, ConnTypes, GatewayTypes
  <2>5. ThreadTypes
    BY DEF Init, ThreadTypes
  <2>6. BackgroundTypes
    BY MessagingAssumption DEF Init, BackgroundTypes
  <2>7. MainTypes
    <3>1. asks \in 0..MaxAsks
      BY MessagingAssumption DEF Init
    <3> QED BY <2>1, <3>1 DEF Init, MainTypes
  <2> QED BY <2>2, <2>3, <2>4, <2>5, <2>6, <2>7 DEF TypeOK
<1>2. Holding /\ StacksOwned /\ PairsAwaited /\ TakenDown
  <2>1. Inbound = <<>> /\ DOMAIN Inbound = {}
    BY DEF Init, Queues, Inbound
  <2>2. main \in {"test", "repl"}
    BY DEF Init
  <2>3. Holding
    BY <2>2 DEF Init, Holding
  <2>4. StacksOwned
    BY DEF Init, StacksOwned
  <2>5. PairsAwaited
    BY <2>1, <2>2 DEF Init, PairsAwaited, Inbound
  <2>6. TakenDown
    BY <2>2 DEF Init, TakenDown, Created
  <2> QED BY <2>3, <2>4, <2>5, <2>6
<1>3. SlotsAccounted
  <2>1. {c \in Conns : stack[c] # None} = {}
    BY DEF Init
  <2>2. Cardinality({c \in Conns : stack[c] # None}) = 0
    BY <2>1, FS_EmptySet
  <2>3. slots = GATEWAY_MAX_THREADS /\ listener = "loop" /\ slots \in Nat
    BY MessagingAssumption DEF Init
  <2> QED BY <2>2, <2>3 DEF SlotsAccounted
<1> QED BY <1>1, <1>2, <1>3 DEF IInv

LEMMA NextIInv == IInv /\ [Next]_vars => IInv'
<1> SUFFICES ASSUME IInv, [Next]_vars PROVE IInv'
  OBVIOUS
<1> USE DEF IInv
<1>0. TakenDown'
  BY TakenDownStep
<1>1. CASE Listener
  <2>1. ConnTypes' /\ GatewayTypes' /\ StacksOwned' /\ SlotsAccounted'
    BY <1>1, ListenerSlots
  <2>2. BusTypes' /\ PairTypes'
    BY <1>1, ListenerFrame DEF TypeOK, BusTypes, PairTypes, busVars
  <2>3. ThreadTypes' /\ BackgroundTypes' /\ Holding'
    BY <1>1, ListenerFrame DEF TypeOK, ThreadTypes, BackgroundTypes, Holding,
         workerVars, dispVars, bgVars, mainVars
  <2>4. MainTypes'
    BY <1>1, ListenerFrame DEF TypeOK, MainTypes, mainVars, memory
  <2> QED BY <1>0, <1>1, <2>1, <2>2, <2>3, <2>4, ListenerPairs DEF TypeOK
<1>2. ASSUME NEW c \in Conns, Conn(c) PROVE IInv'
  BY <1>0, <1>2, ConnKeepsTypes, ConnPairs
\* The other threads leave stacks and slots alone.
<1>3. ASSUME UNCHANGED <<conn, stack, listener, slots>>
      PROVE  StacksOwned' /\ SlotsAccounted'
  BY <1>3 DEF StacksOwned, SlotsAccounted
<1>4. CASE Worker
  BY <1>0, <1>3, <1>4, WorkerFrame, WorkerKeepsTypes, WorkerPairs
     DEF connVars, gwVars
<1>5. CASE Dispatcher
  BY <1>0, <1>3, <1>5, DispatcherFrame, DispatcherKeepsTypes, DispatcherPairs
     DEF connVars, gwVars
<1>6. ASSUME NEW b \in Background, BackgroundStep(b) PROVE IInv'
  BY <1>0, <1>3, <1>6, BackgroundFrame, BackgroundKeepsTypes, BackgroundPairs
     DEF connVars, gwVars
<1>7. CASE Repl
  BY <1>0, <1>3, <1>7, ReplFrame, ReplKeepsTypes, ReplPairs DEF connVars, gwVars
<1>8. CASE Cleanup
  BY <1>0, <1>3, <1>8, CleanupFrame, CleanupKeepsTypes, CleanupPairs
     DEF connVars
<1>9. CASE UNCHANGED vars
  BY <1>0, <1>9 DEF vars, busVars, connVars, gwVars, workerVars, dispVars,
       bgVars, mainVars, memory, TypeOK, BusTypes, PairTypes, ConnTypes,
       GatewayTypes, ThreadTypes, BackgroundTypes, MainTypes, Holding,
       StacksOwned, SlotsAccounted, PairsAwaited, Awaited, Caller
<1> QED BY <1>1, <1>2, <1>4, <1>5, <1>6, <1>7, <1>8, <1>9, NextCases

LEMMA Invariance == Spec => []IInv
BY InitIInv, NextIInv, PTL DEF Spec

\* Types: of the queues, the pairs, and every thread around the bus.
THEOREM TypeCorrect == Spec => []TypeOK
BY Invariance, PTL DEF IInv

\* Every slot of the gateway's semaphore is free, the listener's or a
\* connection's, on all the ways out of its loop and of handle_connection.
THEOREM SlotsAlwaysAccounted == Spec => []SlotsAccounted
BY Invariance, PTL DEF IInv

\* "Stack allocation is safe": a request that is queued or being worked on
\* names the live, unanswered pair of the thread that made it, however many
\* connections use the same stacks again, before and during the shutdown.
THEOREM PairsOutliveRequests == Spec => []PairOutlivesRequest
<1>1. IInv => PairOutlivesRequest
  <2> SUFFICES ASSUME IInv, NEW m \in Pending, m.rp # None
               PROVE  pair[m.rp].owner = Caller(m) /\ ~pair[m.rp].done
    BY DEF PairOutlivesRequest
  <2>1. CASE \E k \in DOMAIN queue["inbound"] : m = queue["inbound"][k]
    BY <2>1 DEF IInv, PairsAwaited, Awaited
  <2>2. CASE m = worker_msg /\ worker_msg # None
    BY <2>2 DEF IInv, Holding, PairsAwaited, Awaited
  <2> QED BY <2>1, <2>2 DEF Pending
<1> QED BY <1>1, Invariance, PTL

\* A client that posted a message is sent the answer to that message: the pair
\* handle_chat reads is its own, and written by the turn of its request.
THEOREM AnswersAreOwn == Spec => OwnAnswer
<1>1. IInv /\ [Next]_vars =>
        [\A c \in Conns : conn[c] = "waiting" /\ conn'[c] = "gone"
           => answer'[c] = c]_vars
  <2> SUFFICES ASSUME IInv, Next, NEW d \in Conns, conn[d] = "waiting",
                      conn'[d] = "gone"
               PROVE  answer'[d] = d
    OBVIOUS
  <2> USE DEF IInv
  <2>1. ASSUME NEW c \in Conns, Conn(c) PROVE answer'[d] = d
    <3>1. ConnReply(d)
      BY <2>1 DEF Conn, ConnOther, ConnChat, ConnPublish, ConnPublishFreed,
                  ConnReply, ConnEnd, TypeOK, ConnTypes
    <3> QED BY <3>1 DEF ConnReply, response_pair_wait, PairsAwaited, TypeOK,
                        ConnTypes
  <2>2. CASE Listener
    BY <2>2 DEF Listener, ListenerLoop, ListenerSemWait, ListenerRecheck,
         ListenerAcceptFails, ListenerSpawn, ListenerSpawnFails, connVars,
         TypeOK, ConnTypes
  <2>3. CASE conn' = conn
    BY <2>3
  <2> QED BY <2>1, <2>2, <2>3, NextCases, WorkerFrame, DispatcherFrame,
         BackgroundFrame, ReplFrame, CleanupFrame DEF connVars
<1> QED BY <1>1, Invariance, PTL DEF Spec, OwnAnswer

\* cleanup() frees the bus only after the worker, the dispatcher and the threads
\* of the email and WhatsApp channels have been joined.
THEOREM BusAlwaysOutlivesChannels == Spec => []BusOutlivesChannels
<1>1. IInv => BusOutlivesChannels
  BY DEF IInv, TakenDown, BusOutlivesChannels
<1> QED BY <1>1, Invariance, PTL
=============================================================================
