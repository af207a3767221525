----------------------------- MODULE Messaging -----------------------------
(***************************************************************************)
(* The threads of the process around the bus: the HTTP gateway with its    *)
(* semaphore of connection threads, the CLI, the threads that inject       *)
(* messages on their own (email, whatsapp, heartbeat, scheduler), the      *)
(* agent worker, the outbound dispatcher, and the main thread's cleanup(). *)
(*                                                                         *)
(* Each bus queue is the bounded queue of BoundedFifo, which BusQueue is   *)
(* shown to implement.  A turn of the agent (module Agent) is one step of  *)
(* the worker.  A response_pair_t lives in the stack frame of its caller,  *)
(* and a stack is used again by later threads, so a pair is identified by  *)
(* the stack it is on.                                                     *)
(***************************************************************************)
EXTENDS Integers, Sequences, FiniteSets

CONSTANTS
  Conns,                \* bound: the HTTP connections that arrive
  Stacks,               \* stacks of connection threads
  Features,             \* the configured parts that cleanup() destroys
  Registered,           \* channels with a send callback
  GATEWAY_MAX_THREADS, BUS_QUEUE_DEPTH,
  no_cli,               \* the values of --no-cli; with TRUE the main thread
                        \* waits for a signal
  MaxAsks,              \* bound: messages typed at the CLI
  MaxBeats,             \* bound: messages injected by each background thread
  None

Background == Features \cap {"email", "whatsapp", "heartbeat", "scheduler"}
MainStack == "main"
Queues == {"inbound", "outbound"}

\* Mutant of CleanupOrder: the bus is destroyed before the channels.
CleanupOrder_bus_early ==
  <<"worker", "bus", "email", "whatsapp", "gateway", "heartbeat", "scheduler">>

\* The order in which cleanup() takes things down; a part that was never
\* created is skipped.
CleanupOrder ==
  <<"worker", "email", "whatsapp", "bus", "gateway", "heartbeat", "scheduler">>

\* What boot() has made and cleanup() takes down.
Created == Background \cup {"worker", "bus", "gateway"}

ASSUME MessagingAssumption ==
  /\ IsFiniteSet(Conns)
  /\ GATEWAY_MAX_THREADS \in Nat \ {0} /\ BUS_QUEUE_DEPTH \in Nat \ {0}
  /\ Cardinality(Stacks) >= GATEWAY_MAX_THREADS
  /\ no_cli \subseteq BOOLEAN
  /\ MaxAsks \in Nat /\ MaxBeats \in Nat
  /\ MainStack \notin Stacks
  /\ None \notin Conns \cup Stacks \cup {MainStack, "cli"}

VARIABLES
  queue, phase,         \* [Queues -> ...] contents, and "open"/"closing"/"closed"
  pair,                 \* [stack -> the response_pair_t on it]
  conn, stack, answer,  \* [Conns -> ...] state, stack, what the client was sent
  listener, slots,      \* the listener thread and the semaphore thread_slots
  gw_running,
  worker, worker_running, worker_msg,
  dispatcher, dispatcher_msg,
  bg, bg_running, beats,  \* [Background -> ...]
  main, asks, g_running, signalled,
  todo,                 \* what cleanup() has still to take down
  freed,                \* of "bus" and "gateway", the ones that are freed
  touched,              \* the ones a thread used after that
  sent                  \* messages whose answer reached its channel

busVars == <<queue, phase>>
connVars == <<conn, stack, answer>>
gwVars == <<listener, slots, gw_running>>
workerVars == <<worker, worker_running, worker_msg>>
dispVars == <<dispatcher, dispatcher_msg, sent>>
bgVars == <<bg, bg_running, beats>>
mainVars == <<main, asks, g_running, signalled, todo>>
memory == <<freed, touched>>
vars == <<busVars, pair, connVars, gwVars, workerVars, dispVars, bgVars,
          mainVars, memory>>

----------------------------------------------------------------------------
(* Messages and the bus *)

\* rp is the stack named by "rp=<hex>" in the metadata, or None.
Msg(channel, id, rp) == [channel |-> channel, id |-> id, rp |-> rp]

Store(q, m) ==
  /\ phase[q] # "closed"
  /\ Len(queue[q]) < BUS_QUEUE_DEPTH
  /\ queue' = [queue EXCEPT ![q] = Append(@, m)]
  /\ UNCHANGED phase

Refused(q) == phase[q] # "open" /\ UNCHANGED busVars

Take(q) ==
  /\ queue[q] # <<>>
  /\ queue' = [queue EXCEPT ![q] = Tail(@)]
  /\ UNCHANGED phase

Drained(q) == queue[q] = <<>> /\ phase[q] # "open"

\* The thread reads memory that free() has been given.
Touch(object) ==
  touched' = touched \cup ({object} \cap freed)

----------------------------------------------------------------------------
(* response_pair_t *)

Dead == [owner |-> None, done |-> FALSE, response |-> None]

\* Mutant of response_pair_init: the memset is missing, done keeps the value
\* the stack happens to hold.
response_pair_init_dirty(s, owner) ==
  pair' = [pair EXCEPT ![s].owner = owner, ![s].response = None]

response_pair_init(s, owner) ==
  pair' = [pair EXCEPT ![s] = [owner |-> owner, done |-> FALSE,
                               response |-> None]]

\* Mutant of response_pair_deliver: the waiter is signalled without done.
response_pair_deliver_undone(s, id) ==
  pair' = [pair EXCEPT ![s].response = id]

response_pair_deliver(s, id) ==
  pair' = [pair EXCEPT ![s].done = TRUE, ![s].response = id]

\* Mutant of response_pair_wait: any wakeup is taken for the answer.
response_pair_wait_any(s) ==
  pair' = [pair EXCEPT ![s].owner = None, ![s].response = None]

\* response_pair_wait returns once done is set; the frame is then popped, and
\* what it held stays in memory as it was.
response_pair_wait(s) ==
  /\ pair[s].done
  /\ pair' = [pair EXCEPT ![s].owner = None, ![s].response = None]

----------------------------------------------------------------------------
(* The gateway: listener and connection threads *)

\* The loop's test, then sem_wait, which blocks while every slot is taken.
ListenerLoop ==
  /\ listener = "loop"
  /\ listener' = IF gw_running THEN "sem_wait" ELSE "exited"
  /\ UNCHANGED <<busVars, pair, connVars, slots, gw_running, workerVars,
                 dispVars, bgVars, mainVars, memory>>

ListenerSemWait ==
  /\ listener = "sem_wait"
  /\ slots > 0
  /\ slots' = slots - 1
  /\ listener' = "has_slot"
  /\ UNCHANGED <<busVars, pair, connVars, gw_running, workerVars, dispVars,
                 bgVars, mainVars, memory>>

\* running is tested again after the wait.
ListenerRecheck ==
  /\ listener = "has_slot"
  /\ IF gw_running
     THEN listener' = "accept" /\ UNCHANGED slots
     ELSE listener' = "exited" /\ slots' = slots + 1
  /\ UNCHANGED <<busVars, pair, connVars, gw_running, workerVars, dispVars,
                 bgVars, mainVars, memory>>

\* accept returns connections until gateway_destroy has closed the socket,
\* which it does after it has cleared running.
SocketOpen == main # "join_listener"

\* accept, malloc and pthread_create succeed: a detached thread serves c.
ListenerSpawn(c, s) ==
  /\ listener = "accept"
  /\ SocketOpen
  /\ conn[c] = "none"
  /\ \A d \in Conns : stack[d] # s
  /\ conn' = [conn EXCEPT ![c] = "serving"]
  /\ stack' = [stack EXCEPT ![c] = s]
  /\ listener' = "loop"
  /\ UNCHANGED <<busVars, pair, answer, slots, gw_running, workerVars,
                 dispVars, bgVars, mainVars, memory>>

\* Mutant of ListenerSpawnFails: the slot is not given back.
ListenerSpawnFails_leak(c) ==
  /\ listener = "accept"
  /\ SocketOpen
  /\ conn[c] = "none"
  /\ conn' = [conn EXCEPT ![c] = "gone"]
  /\ listener' = "loop"
  /\ UNCHANGED <<busVars, pair, stack, answer, slots, gw_running, workerVars,
                 dispVars, bgVars, mainVars, memory>>

\* malloc or pthread_create fails: the connection is closed.
ListenerSpawnFails(c) ==
  /\ listener = "accept"
  /\ SocketOpen
  /\ conn[c] = "none"
  /\ conn' = [conn EXCEPT ![c] = "gone"]
  /\ slots' = slots + 1
  /\ listener' = "loop"
  /\ UNCHANGED <<busVars, pair, stack, answer, gw_running, workerVars,
                 dispVars, bgVars, mainVars, memory>>

\* accept fails: for a while, or because the socket is closed.
ListenerAcceptFails ==
  /\ listener = "accept"
  /\ slots' = slots + 1
  /\ listener' = IF gw_running THEN "loop" ELSE "exited"
  /\ UNCHANGED <<busVars, pair, connVars, gw_running, workerVars, dispVars,
                 bgVars, mainVars, memory>>

\* close(fd), sem_post(&gw->thread_slots) and the end of the thread.
ConnEnd(c) ==
  /\ conn' = [conn EXCEPT ![c] = "gone"]
  /\ stack' = [stack EXCEPT ![c] = None]
  /\ slots' = slots + 1
  /\ Touch("gateway")
  /\ UNCHANGED <<freed, listener, gw_running, workerVars, dispVars, bgVars,
                 mainVars>>

\* Every request but a well-formed POST /api/chat: unreadable, a page, one of
\* the status endpoints, or an error response.
ConnOther(c) ==
  /\ conn[c] = "serving"
  /\ ConnEnd(c)
  /\ UNCHANGED <<busVars, pair, answer>>

\* handle_chat up to its call of bus_publish_inbound.
ConnChat(c) ==
  /\ conn[c] = "serving"
  /\ response_pair_init(stack[c], c)
  /\ conn' = [conn EXCEPT ![c] = "publish"]
  /\ UNCHANGED <<busVars, stack, answer, gwVars, workerVars, dispVars, bgVars,
                 mainVars, memory>>

\* handle_chat does not look at what bus_publish_inbound returns.
ConnPublish(c) ==
  /\ conn[c] = "publish"
  /\ "bus" \notin freed
  /\ Store("inbound", Msg("http", c, stack[c])) \/ Refused("inbound")
  /\ conn' = [conn EXCEPT ![c] = "waiting"]
  /\ UNCHANGED <<pair, stack, answer, gwVars, workerVars, dispVars, bgVars,
                 mainVars, memory>>

\* The bus is gone: whatever the freed memory makes of the call, nobody will
\* answer.
ConnPublishFreed(c) ==
  /\ conn[c] = "publish"
  /\ "bus" \in freed
  /\ Touch("bus")
  /\ conn' = [conn EXCEPT ![c] = "waiting"]
  /\ UNCHANGED <<busVars, pair, stack, answer, gwVars, workerVars, dispVars,
                 bgVars, mainVars, freed>>

ConnReply(c) ==
  /\ conn[c] = "waiting"
  /\ response_pair_wait(stack[c])
  /\ answer' = [answer EXCEPT ![c] = pair[stack[c]].response]
  /\ ConnEnd(c)
  /\ UNCHANGED busVars

----------------------------------------------------------------------------
(* The agent worker *)

WorkerLoop ==
  /\ worker = "loop"
  /\ worker' = IF worker_running THEN "consume" ELSE "exited"
  /\ UNCHANGED <<busVars, pair, connVars, gwVars, worker_running, worker_msg,
                 dispVars, bgVars, mainVars, memory>>

WorkerConsume ==
  /\ worker = "consume"
  /\ Take("inbound")
  /\ worker_msg' = Head(queue["inbound"])
  /\ worker' = "turn"
  /\ UNCHANGED <<pair, connVars, gwVars, worker_running, dispVars, bgVars,
                 mainVars, memory>>

\* bus_consume_inbound returns NULL.
WorkerNull ==
  /\ worker = "consume"
  /\ Drained("inbound")
  /\ worker' = "exited"
  /\ UNCHANGED <<busVars, pair, connVars, gwVars, worker_running, worker_msg,
                 dispVars, bgVars, mainVars, memory>>

\* The turn is over (or there was no session): a caller is waiting.
WorkerDeliver ==
  /\ worker = "turn"
  /\ worker_msg.rp # None
  /\ response_pair_deliver(worker_msg.rp, worker_msg.id)
  /\ worker' = "loop"
  /\ worker_msg' = None
  /\ UNCHANGED <<busVars, connVars, gwVars, worker_running, dispVars, bgVars,
                 mainVars, memory>>

\* Mutant of WorkerPublish: an answer is dropped when outbound is full.
WorkerPublish_drop ==
  /\ worker = "turn"
  /\ worker_msg.rp = None
  /\ \/ Store("outbound", worker_msg)
     \/ Refused("outbound")
     \/ Len(queue["outbound"]) = BUS_QUEUE_DEPTH /\ UNCHANGED busVars
  /\ worker' = "loop"
  /\ worker_msg' = None
  /\ UNCHANGED <<pair, connVars, gwVars, worker_running, dispVars, bgVars,
                 mainVars, memory>>

\* Nobody waits: the answer goes to the outbound queue.
WorkerPublish ==
  /\ worker = "turn"
  /\ worker_msg.rp = None
  /\ Store("outbound", worker_msg) \/ Refused("outbound")
  /\ worker' = "loop"
  /\ worker_msg' = None
  /\ UNCHANGED <<pair, connVars, gwVars, worker_running, dispVars, bgVars,
                 mainVars, memory>>

----------------------------------------------------------------------------
(* The dispatcher *)

DispatcherConsume ==
  /\ dispatcher = "consume"
  /\ Take("outbound")
  /\ dispatcher_msg' = Head(queue["outbound"])
  /\ dispatcher' = "send"
  /\ UNCHANGED <<pair, connVars, gwVars, workerVars, sent, bgVars, mainVars,
                 memory>>

\* Mutant of DispatcherNull: NULL does not end the loop.
DispatcherNull_continue ==
  /\ dispatcher = "consume"
  /\ Drained("outbound")
  /\ dispatcher' = "consume"
  /\ UNCHANGED <<busVars, pair, connVars, gwVars, workerVars, dispatcher_msg,
                 sent, bgVars, mainVars, memory>>

DispatcherNull ==
  /\ dispatcher = "consume"
  /\ Drained("outbound")
  /\ dispatcher' = "exited"
  /\ UNCHANGED <<busVars, pair, connVars, gwVars, workerVars, dispatcher_msg,
                 sent, bgVars, mainVars, memory>>

\* channel_find and ch->send; a channel nobody registered is dropped.
DispatcherSend ==
  /\ dispatcher = "send"
  /\ sent' = IF dispatcher_msg.channel \in Registered
             THEN sent \cup {dispatcher_msg.id} ELSE sent
  /\ dispatcher' = "consume"
  /\ dispatcher_msg' = None
  /\ UNCHANGED <<busVars, pair, connVars, gwVars, workerVars, bgVars,
                 mainVars, memory>>

----------------------------------------------------------------------------
(* Threads that inject messages: poll_fn, recv_thread, heartbeat_thread,   *)
(* scheduler_thread                                                        *)

BackgroundLoop(b) ==
  /\ bg[b] = "loop"
  /\ bg' = [bg EXCEPT ![b] = IF bg_running[b] THEN "asleep" ELSE "exited"]
  /\ UNCHANGED <<busVars, pair, connVars, gwVars, workerVars, dispVars,
                 bg_running, beats, mainVars, memory>>

\* The heartbeat and the email poll test running after their sleep; the
\* scheduler, and a WhatsApp thread back from read(), go on to work.
BackgroundWake(b) ==
  /\ bg[b] = "asleep"
  /\ bg' = [bg EXCEPT ![b] =
              IF b \in {"heartbeat", "email"} /\ ~bg_running[b]
              THEN "exited" ELSE "working"]
  /\ UNCHANGED <<busVars, pair, connVars, gwVars, workerVars, dispVars,
                 bg_running, beats, mainVars, memory>>

\* Nothing (more) to inject in this round.
BackgroundIdle(b) ==
  /\ bg[b] = "working"
  /\ bg' = [bg EXCEPT ![b] = "loop"]
  /\ UNCHANGED <<busVars, pair, connVars, gwVars, workerVars, dispVars,
                 bg_running, beats, mainVars, memory>>

\* There is something: enter bus_publish_inbound.
BackgroundInject(b) ==
  /\ bg[b] = "working"
  /\ beats[b] < MaxBeats
  /\ beats' = [beats EXCEPT ![b] = @ + 1]
  /\ bg' = [bg EXCEPT ![b] = "publish"]
  /\ UNCHANGED <<busVars, pair, connVars, gwVars, workerVars, dispVars,
                 bg_running, mainVars, memory>>

BackgroundPublish(b) ==
  /\ bg[b] = "publish"
  /\ "bus" \notin freed
  /\ \/ Store("inbound", Msg(b, <<b, beats[b]>>, None))
     \/ Refused("inbound")
  /\ bg' = [bg EXCEPT ![b] = "working"]
  /\ UNCHANGED <<pair, connVars, gwVars, workerVars, dispVars, bg_running,
                 beats, mainVars, memory>>

\* The bus is gone: the call may return, or never (its mutex is not one any
\* more).
BackgroundPublishFreed(b) ==
  /\ bg[b] = "publish"
  /\ "bus" \in freed
  /\ Touch("bus")
  /\ \E r \in {"working", "hung"} : bg' = [bg EXCEPT ![b] = r]
  /\ UNCHANGED <<busVars, pair, connVars, gwVars, workerVars, dispVars,
                 bg_running, beats, mainVars, freed>>

----------------------------------------------------------------------------
(* The main thread: run() *)

\* A line is typed; the pair is on the main stack.
CliAsk ==
  /\ main = "repl"
  /\ asks < MaxAsks
  /\ asks' = asks + 1
  /\ response_pair_init(MainStack, "cli")
  /\ main' = "cli_publish"
  /\ UNCHANGED <<busVars, connVars, gwVars, workerVars, dispVars, bgVars,
                 g_running, signalled, todo, memory>>

\* Only the main thread shuts the bus down, so this publish is never refused.
CliPublish ==
  /\ main = "cli_publish"
  /\ Store("inbound", Msg("cli", <<"cli", asks>>, MainStack))
  /\ main' = "cli_wait"
  /\ UNCHANGED <<pair, connVars, gwVars, workerVars, dispVars, bgVars, asks,
                 g_running, signalled, todo, memory>>

CliReply ==
  /\ main = "cli_wait"
  /\ response_pair_wait(MainStack)
  /\ main' = "repl"
  /\ UNCHANGED <<busVars, connVars, gwVars, workerVars, dispVars, bgVars,
                 asks, g_running, signalled, todo, memory>>

\* /quit or end of input.
CliQuit ==
  /\ main = "repl"
  /\ main' = "cleanup"
  /\ UNCHANGED <<busVars, pair, connVars, gwVars, workerVars, dispVars,
                 bgVars, asks, g_running, signalled, todo, memory>>

\* while (g_running) pause();
HeadlessTest ==
  /\ main = "test"
  /\ main' = IF g_running THEN "before_pause" ELSE "cleanup"
  /\ UNCHANGED <<busVars, pair, connVars, gwVars, workerVars, dispVars,
                 bgVars, asks, g_running, signalled, todo, memory>>

HeadlessPause ==
  /\ main = "before_pause"
  /\ main' = "pause"
  /\ UNCHANGED <<busVars, pair, connVars, gwVars, workerVars, dispVars,
                 bgVars, asks, g_running, signalled, todo, memory>>

\* SIGTERM, once: sig_term runs, and interrupts pause() if it is waiting.
sig_term ==
  /\ main \in {"test", "before_pause", "pause"}
  /\ ~signalled
  /\ signalled' = TRUE
  /\ g_running' = FALSE
  /\ main' = IF main = "pause" THEN "test" ELSE main
  /\ UNCHANGED <<busVars, pair, connVars, gwVars, workerVars, dispVars,
                 bgVars, asks, todo, memory>>

----------------------------------------------------------------------------
(* cleanup() *)

\* The call of cleanup() that is next, or under way.
Upcoming(object) ==
  /\ object \in todo
  /\ \E k \in DOMAIN CleanupOrder :
       /\ CleanupOrder[k] = object
       /\ \A j \in 1..(k - 1) : CleanupOrder[j] \notin todo

\* The next call of cleanup(); pc is where it takes the main thread.
Begin(object, pc) ==
  /\ main = "cleanup"
  /\ Upcoming(object)
  /\ main' = pc
  /\ UNCHANGED <<asks, g_running, signalled, todo>>

Step(from, to) ==
  /\ main = from
  /\ main' = to
  /\ UNCHANGED <<asks, g_running, signalled, todo>>

Finish(from, object) ==
  /\ main = from
  /\ Upcoming(object)
  /\ main' = "cleanup"
  /\ todo' = todo \ {object}
  /\ UNCHANGED <<asks, g_running, signalled>>

\* worker_stop: running, bus_shutdown (the flag both queues read, then a
\* broadcast on each), and the two joins.
StopWorker ==
  /\ Begin("worker", "shutdown")
  /\ worker_running' = FALSE
  /\ UNCHANGED <<busVars, pair, connVars, gwVars, worker, worker_msg,
                 dispVars, bgVars, memory>>

ShutdownBus ==
  /\ Step("shutdown", "broadcast_inbound")
  /\ phase' = [q \in Queues |-> "closing"]
  /\ UNCHANGED <<queue, pair, connVars, gwVars, workerVars, dispVars, bgVars,
                 memory>>

BroadcastBus ==
  /\ \/ /\ Step("broadcast_inbound", "broadcast_outbound")
        /\ phase' = [phase EXCEPT !["inbound"] = "closed"]
     \/ /\ Step("broadcast_outbound", "join_worker")
        /\ phase' = [phase EXCEPT !["outbound"] = "closed"]
  /\ UNCHANGED <<queue, pair, connVars, gwVars, workerVars, dispVars, bgVars,
                 memory>>

JoinWorker ==
  /\ worker = "exited"
  /\ Step("join_worker", "join_dispatcher")
  /\ UNCHANGED <<busVars, pair, connVars, gwVars, workerVars, dispVars,
                 bgVars, memory>>

JoinDispatcher ==
  /\ dispatcher = "exited"
  /\ Finish("join_dispatcher", "worker")
  /\ UNCHANGED <<busVars, pair, connVars, gwVars, workerVars, dispVars,
                 bgVars, memory>>

\* email_channel_destroy, whatsapp_channel_destroy, heartbeat_destroy and
\* scheduler_destroy: clear running, join.
StopBackground(b) ==
  /\ Begin(b, "join_background")
  /\ bg_running' = [bg_running EXCEPT ![b] = FALSE]
  /\ UNCHANGED <<busVars, pair, connVars, gwVars, workerVars, dispVars, bg,
                 beats, memory>>

JoinBackground(b) ==
  /\ Finish("join_background", b)
  /\ bg[b] = "exited"
  /\ UNCHANGED <<busVars, pair, connVars, gwVars, workerVars, dispVars,
                 bgVars, memory>>

\* bus_destroy frees what is left in the queues and the bus itself.
DestroyBus ==
  /\ main = "cleanup"
  /\ Upcoming("bus")
  /\ todo' = todo \ {"bus"}
  /\ queue' = [q \in Queues |-> <<>>]
  /\ freed' = freed \cup {"bus"}
  /\ UNCHANGED <<phase, pair, connVars, gwVars, workerVars, dispVars, bgVars,
                 main, asks, g_running, signalled, touched>>

\* gateway_destroy: running, the socket, the join of the listener, free.
StopGateway ==
  /\ Begin("gateway", "close_socket")
  /\ gw_running' = FALSE
  /\ UNCHANGED <<busVars, pair, connVars, listener, slots, workerVars,
                 dispVars, bgVars, memory>>

CloseSocket ==
  /\ Step("close_socket", "join_listener")
  /\ UNCHANGED <<busVars, pair, connVars, gwVars, workerVars, dispVars,
                 bgVars, memory>>

JoinListener ==
  /\ listener = "exited"
  /\ Finish("join_listener", "gateway")
  /\ freed' = freed \cup {"gateway"}
  /\ UNCHANGED <<busVars, pair, connVars, gwVars, workerVars, dispVars,
                 bgVars, touched>>

\* main returns: the process and whatever threads it still has end.
Exit ==
  /\ main = "cleanup"
  /\ todo = {}
  /\ main' = "exited"
  /\ UNCHANGED <<busVars, pair, connVars, gwVars, workerVars, dispVars,
                 bgVars, asks, g_running, signalled, todo, memory>>
----------------------------------------------------------------------------

Init ==
  /\ queue = [q \in Queues |-> <<>>]
  /\ phase = [q \in Queues |-> "open"]
  /\ pair = [s \in Stacks \cup {MainStack} |-> Dead]
  /\ conn = [c \in Conns |-> "none"]
  /\ stack = [c \in Conns |-> None]
  /\ answer = [c \in Conns |-> None]
  /\ listener = "loop" /\ slots = GATEWAY_MAX_THREADS /\ gw_running = TRUE
  /\ worker = "loop" /\ worker_running = TRUE /\ worker_msg = None
  /\ dispatcher = "consume" /\ dispatcher_msg = None
  /\ bg = [b \in Background |-> "loop"]
  /\ bg_running = [b \in Background |-> TRUE]
  /\ beats = [b \in Background |-> 0]
  /\ main \in {IF n THEN "test" ELSE "repl" : n \in no_cli}
  /\ asks = 0 /\ g_running = TRUE /\ signalled = FALSE
  /\ todo = Created
  /\ freed = {} /\ touched = {}
  /\ sent = {}

\* The end of the process ends its threads.
Alive == main # "exited"

Listener ==
  /\ Alive
  /\ \/ ListenerLoop \/ ListenerSemWait \/ ListenerRecheck
     \/ ListenerAcceptFails
     \/ \E c \in Conns : \/ \E s \in Stacks : ListenerSpawn(c, s)
                         \/ ListenerSpawnFails(c)

Conn(c) ==
  /\ Alive
  /\ \/ ConnOther(c) \/ ConnChat(c) \/ ConnPublish(c) \/ ConnPublishFreed(c)
     \/ ConnReply(c)

Worker ==
  /\ Alive
  /\ \/ WorkerLoop \/ WorkerConsume \/ WorkerNull \/ WorkerDeliver
     \/ WorkerPublish

Dispatcher ==
  Alive /\ (DispatcherConsume \/ DispatcherNull \/ DispatcherSend)

BackgroundStep(b) ==
  /\ Alive
  /\ \/ BackgroundLoop(b) \/ BackgroundWake(b) \/ BackgroundIdle(b)
     \/ BackgroundInject(b) \/ BackgroundPublish(b)
     \/ BackgroundPublishFreed(b)

Cleanup ==
  \/ StopWorker \/ ShutdownBus \/ BroadcastBus \/ JoinWorker \/ JoinDispatcher
  \/ \E b \in Background : StopBackground(b) \/ JoinBackground(b)
  \/ DestroyBus \/ StopGateway \/ CloseSocket
  \/ JoinListener \/ Exit

\* What the main thread does by itself: not the user's typing, not a signal.
Main == CliPublish \/ CliReply \/ HeadlessTest \/ HeadlessPause \/ Cleanup

Next ==
  \/ Listener
  \/ \E c \in Conns : Conn(c)
  \/ Worker
  \/ Dispatcher
  \/ \E b \in Background : BackgroundStep(b)
  \/ CliAsk \/ CliQuit \/ sig_term
  \/ Main

Spec == Init /\ [][Next]_vars

\* Every thread that can run does; no request has to arrive, nobody has to
\* type, quit or send a signal.  A turn of the agent ends (module Agent).
Fairness ==
  /\ WF_vars(Listener) /\ WF_vars(Worker) /\ WF_vars(Dispatcher)
  /\ \A c \in Conns : WF_vars(Conn(c))
  /\ \A b \in Background : WF_vars(BackgroundStep(b))
  /\ WF_vars(Main)

FairSpec == Spec /\ Fairness

----------------------------------------------------------------------------
(* Properties *)

Ids == Conns \cup ((Background \cup {"cli"}) \X (1..(MaxAsks + MaxBeats)))
Messages == [channel : Background \cup {"http", "cli"}, id : Ids,
             rp : Stacks \cup {MainStack, None}]

BusTypes ==
  /\ queue \in [Queues -> Seq(Messages)]
  /\ \A q \in Queues : Len(queue[q]) <= BUS_QUEUE_DEPTH
  /\ phase \in [Queues -> {"open", "closing", "closed"}]

PairTypes ==
  pair \in [Stacks \cup {MainStack} ->
              [owner : Conns \cup {"cli", None}, done : BOOLEAN,
               response : Ids \cup {None}]]

ConnTypes ==
  /\ conn \in [Conns -> {"none", "serving", "publish", "waiting", "gone"}]
  /\ stack \in [Conns -> Stacks \cup {None}]
  /\ answer \in [Conns -> Ids \cup {None}]

GatewayTypes ==
  /\ listener \in {"loop", "sem_wait", "has_slot", "accept", "exited"}
  /\ slots \in 0..GATEWAY_MAX_THREADS /\ gw_running \in BOOLEAN

ThreadTypes ==
  /\ worker \in {"loop", "consume", "turn", "exited"}
  /\ worker_running \in BOOLEAN /\ worker_msg \in Messages \cup {None}
  /\ dispatcher \in {"consume", "send", "exited"}
  /\ dispatcher_msg \in Messages \cup {None} /\ sent \subseteq Ids

BackgroundTypes ==
  /\ bg \in [Background -> {"loop", "asleep", "working", "publish", "hung",
                            "exited"}]
  /\ bg_running \in [Background -> BOOLEAN]
  /\ beats \in [Background -> 0..MaxBeats]

MainTypes ==
  /\ main \in {"repl", "cli_publish", "cli_wait", "test", "before_pause",
               "pause", "cleanup", "shutdown", "broadcast_inbound",
               "broadcast_outbound", "join_worker", "join_dispatcher",
               "join_background", "close_socket", "join_listener", "exited"}
  /\ asks \in 0..MaxAsks
  /\ g_running \in BOOLEAN /\ signalled \in BOOLEAN
  /\ todo \subseteq Created
  /\ freed \subseteq {"bus", "gateway"} /\ touched \subseteq freed

TypeOK == BusTypes /\ PairTypes /\ ConnTypes /\ GatewayTypes /\ ThreadTypes
            /\ BackgroundTypes /\ MainTypes

\* Every slot of the semaphore is free, held by the listener or held by a
\* connection thread, on the error paths and during shutdown too.
SlotsAccounted ==
  slots + Cardinality({c \in Conns : stack[c] # None})
        + (IF listener \in {"has_slot", "accept"} THEN 1 ELSE 0)
    = GATEWAY_MAX_THREADS

\* The requests the worker has yet to answer.
Pending == {queue["inbound"][i] : i \in DOMAIN queue["inbound"]}
             \cup ({worker_msg} \ {None})

Caller(m) == IF m.channel = "cli" THEN "cli" ELSE m.id

\* "Stack allocation is safe" (bus.h): a pair named by a request that is
\* still queued or being worked on is the live pair of the thread that made
\* the request, and not yet answered, however stacks are used again.
PairOutlivesRequest ==
  \A m \in Pending : m.rp # None =>
    pair[m.rp].owner = Caller(m) /\ ~pair[m.rp].done

\* A client that posted a message is sent the answer to that message.
OwnAnswer ==
  [][\A c \in Conns : conn[c] = "waiting" /\ conn'[c] = "gone"
       => answer'[c] = c]_vars

\* A request that is in the queue when nobody is shutting down is answered:
\* a worker blocked on a full outbound queue does not stay blocked.
AcceptedIsAnswered ==
  \A c \in Conns :
    (conn[c] = "waiting") ~> (conn[c] = "gone" \/ phase["inbound"] # "open")

\* What a registered channel injected is answered on it.
InjectedIsSent ==
  \A b \in Background \cap Registered :
    \A n \in 1..MaxBeats :
      (beats[b] = n /\ bg[b] = "working")
        ~> (<<b, n>> \in sent \/ phase["inbound"] # "open")

\* worker_stop returns: whatever is queued, the worker and the dispatcher see
\* the shutdown and can be joined before the bus is freed.
WorkerStopReturns == (main = "shutdown") ~> ("bus" \in freed)

\* The bus is freed only when the threads that publish and consume on it
\* through worker_stop and the channels have gone.
BusOutlivesChannels ==
  "bus" \in freed => /\ worker = "exited" /\ dispatcher = "exited"
                     /\ \A b \in Background \cap {"email", "whatsapp"} :
                          bg[b] = "exited"

\* gateway.h, "Graceful shutdown.": the process gets through cleanup().
CleanupCompletes == (main = "cleanup") ~> (main = "exited")

\* main.c, "SIGTERM / SIGHUP -> clean shutdown": a signal is acted upon.
SignalIsNoticed == signalled ~> (main \notin {"test", "before_pause", "pause"})

\* main.c, "clean shutdown": no thread uses the bus after cleanup() freed it.
BusNotUsedAfterFree == "bus" \notin touched
=============================================================================
